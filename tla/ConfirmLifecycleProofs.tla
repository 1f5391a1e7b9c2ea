----------------------- MODULE ConfirmLifecycleProofs -----------------------
(***************************************************************************)
(* What TLAPS proves of the confirmation gate and of the life of a card.   *)
(*                                                                         *)
(* Of the gate, for any number of tokens, writes and threads and any       *)
(* clock, under the reset and the retention sweep: types, no write without *)
(* its own confirmation where the store enforces its foreign keys, one     *)
(* write for a token, the ledger implemented, history never rewritten, and *)
(* the answer "created" true of every write that was not reset away.       *)
(*                                                                         *)
(* Of the cards, for any number of turns, handlers, tokens and failures:   *)
(* the whole system is a behaviour of the gate, so the gate's promises     *)
(* hold of it; no ticket exists while its card still reads pending, and a  *)
(* card is answered once, however the handlers interleave. While nothing   *)
(* fails no open turn is left behind; and while requests come one at a     *)
(* time a card files at most one ticket, and a cancelled card none,        *)
(* whatever fails.                                                         *)
(***************************************************************************)
EXTENDS ConfirmLifecycle, TLAPS

-----------------------------------------------------------------------------
(* The gate (ConfirmGate).                                                 *)

\* A thread holds _write_lock exactly while it is inside consume's with-block.
Inside == {"spend", "append", "readback"}

LockHeld == \A c \in Calls : call[c].pc \in Inside => writeLock = c

\* What a thread knows of its token at each step after it has read the row:
\* the row it holds is the table's but for used_at, a thread past the checks
\* carries a confirmed token bound to its own write, and one that has spent it
\* finds it spent and, until it appends, unwritten.  The row may be pruned under
\* it, but is never minted anew.
Bound(c) ==
    /\ call[c].token \in Minted \cup pruned
    /\ call[c].token \in Minted =>
          /\ confirmations[call[c].token].response = "confirmed"
          /\ confirmations[call[c].token].write = call[c].write
    /\ call[c].write \in Writes

Knows(c) ==
    /\ call[c].pc = "load" => call[c].write \in Writes
    /\ call[c].pc = "check" =>
          /\ call[c].token \in Minted \cup pruned
          /\ call[c].write \in Writes
          /\ call[c].token \in Minted =>
                /\ call[c].row.response = confirmations[call[c].token].response
                /\ call[c].row.write = confirmations[call[c].token].write
    /\ call[c].pc \in {"lock", "spend", "append", "readback"} => Bound(c)
    /\ call[c].pc = "append" =>
          /\ call[c].token \in Minted => confirmations[call[c].token].used # Unused
          /\ call[c].token \notin TokensFiled
          /\ call[c].token \notin cleared

ThreadKnows == \A c \in Calls : Knows(c)

\* A row of mock_writes has its confirmation, but for one that was filed, where
\* nothing enforces the foreign key, after its confirmation was pruned.
WritesBacked ==
    \A i \in DOMAIN mockWrites :
        LET t == mockWrites[i].token IN
        \/ /\ t \in Minted
           /\ confirmations[t].response = "confirmed"
           /\ confirmations[t].used # Unused
           /\ confirmations[t].write = mockWrites[i].write
        \/ t \in pruned /\ ~ForeignKeys

\* What was deleted does not come back.
Deletions ==
    /\ Minted \cap pruned = {}
    /\ TokensFiled \cap cleared = {}
    /\ \A t \in cleared :
          t \in pruned \/ (t \in Minted /\ confirmations[t].used # Unused)

GateInv ==
    /\ GateTypeOK
    /\ LockHeld
    /\ ThreadKnows
    /\ WritesBacked
    /\ OneWritePerToken
    /\ Deletions

-----------------------------------------------------------------------------
\* Every table and thread keeps to its type, from the first state on.
LEMMA InitInv == GateInit => GateInv
  <1> USE DEF GateInit, Minted, Idle, NoRow
  <1> SUFFICES ASSUME GateInit PROVE GateInv
    OBVIOUS
  <1>1. GateTypeOK
    BY GateAssumption DEF GateTypeOK, Times, Threads
  <1>2. LockHeld /\ ThreadKnows /\ WritesBacked /\ OneWritePerToken
    BY DEF LockHeld, ThreadKnows, Knows, Inside, WritesBacked, OneWritePerToken
  <1>3. Deletions
    BY DEF Deletions, TokensFiled
  <1> QED
    BY <1>1, <1>2, <1>3 DEF GateInv

\* What is said of the tables alone stays true while they stay.
LEMMA TablesStay ==
  ASSUME GateInv, UNCHANGED <<confirmations, mockWrites, deleted>>
  PROVE  /\ Minted' = Minted /\ TokensFiled' = TokensFiled
         /\ pruned' = pruned /\ cleared' = cleared
         /\ WritesBacked' /\ OneWritePerToken' /\ Deletions'
  BY DEF GateInv, WritesBacked, OneWritePerToken, Deletions, TokensFiled, Minted, deleted

\* Every token on a row of mock_writes is a token.
LEMMA FiledTyped ==
  ASSUME GateInv
  PROVE  TokensFiled \subseteq Tokens
  <1> DEFINE Rows == [number : Nat, token : Tokens, write : Writes]
  <1>1. mockWrites \in Seq(Rows)
    BY DEF GateInv, GateTypeOK
  <1>2. \A r \in Rows : r.token \in Tokens
    OBVIOUS
  <1> HIDE DEF Rows
  <1>3. \A i \in DOMAIN mockWrites : mockWrites[i] \in Rows
    BY <1>1
  <1> QED
    BY <1>2, <1>3 DEF TokensFiled

\* No row carries a token that can still be drawn.
LEMMA FreshUnfiled ==
  ASSUME GateInv, NEW t \in Fresh
  PROVE  t \notin TokensFiled
  BY DEF GateInv, WritesBacked, TokensFiled, Fresh

\* What a thread knows stays true while it and the tables stay.
LEMMA KnowsStays ==
  ASSUME GateInv, NEW c \in Calls, call'[c] = call[c],
         UNCHANGED <<confirmations, mockWrites, deleted>>
  PROVE  Knows(c)'
  BY TablesStay DEF GateInv, ThreadKnows, Knows, Bound

-----------------------------------------------------------------------------
\* A thread that moves on keeps what it holds, and the others stand still.
LEMMA GotoFacts ==
  ASSUME call \in [Calls -> Threads], NEW c \in Calls,
         NEW pc \in {"idle"} \cup Running \cup Answers, Goto(c, pc)
  PROVE  /\ call' \in [Calls -> Threads]
         /\ call'[c].pc = pc
         /\ call'[c].token = call[c].token
         /\ call'[c].write = call[c].write
         /\ call'[c].row = call[c].row
         /\ \A d \in Calls : d # c => call'[d] = call[d]
  <1>1. call[c] \in Threads
    OBVIOUS
  <1>2. call'[c] = [call[c] EXCEPT !.pc = pc]
    BY DEF Goto
  <1>3. /\ call'[c] \in Threads
        /\ call'[c].pc = pc
        /\ call'[c].token = call[c].token
        /\ call'[c].write = call[c].write
        /\ call'[c].row = call[c].row
    BY <1>1, <1>2 DEF Threads
  <1>4. \A d \in Calls : d # c => call'[d] = call[d]
    BY DEF Goto
  <1>5. call' \in [Calls -> Threads]
    BY <1>3 DEF Goto
  <1> QED
    BY <1>3, <1>4, <1>5

\* The tables stay: what one thread does to itself leaves the rest of the
\* invariant alone.
LEMMA MintedRowTyped ==
  ASSUME GateInv
  PROVE  /\ call \in [Calls -> Threads]
         /\ \A t \in Minted : confirmations[t] \in Row
         /\ \A c \in Calls : Knows(c) /\ call[c] \in Threads
  BY DEF GateInv, GateTypeOK, ThreadKnows

\* Minting adds a typed row for a token nobody holds.
LEMMA MintStep ==
  ASSUME GateInv, NEW t, NEW w \in Writes, NEW r \in Responses, Mint(t, w, r)
  PROVE  GateInv'
  <1> USE DEF Minted
  <1>1. /\ Minted' = Minted \cup {t}
        /\ t \in Tokens /\ t \notin Minted /\ t \notin pruned
        /\ \A u \in Minted : confirmations'[u] = confirmations[u]
        /\ confirmations'[t] \in Row
        /\ UNCHANGED <<now, mockWrites, writeLock, call, pruned, cleared>>
    BY GateAssumption
    DEF Mint, Fresh, GateInv, GateTypeOK, Row, Times, Responses, Unused, deleted
  <1>2. GateTypeOK'
    BY <1>1 DEF GateInv, GateTypeOK
  <1>3. LockHeld' /\ OneWritePerToken'
    BY DEF Mint, GateInv, LockHeld, OneWritePerToken
  <1>4. ASSUME NEW c \in Calls PROVE Knows(c)'
    <2>1. Knows(c)
      BY DEF GateInv, ThreadKnows
    <2>2. TokensFiled' = TokensFiled
      BY <1>1 DEF TokensFiled
    <2> QED
      BY <1>1, <2>1, <2>2 DEF Knows, Bound
  <1>5. WritesBacked'
    BY <1>1 DEF GateInv, WritesBacked
  <1>6. Deletions'
    <2>1. Deletions /\ TokensFiled' = TokensFiled
      BY <1>1 DEF GateInv, TokensFiled
    <2>2. Minted' \cap pruned' = {} /\ TokensFiled' \cap cleared' = {}
      BY <1>1, <2>1 DEF Deletions
    <2>3. ASSUME NEW u \in cleared'
          PROVE  u \in pruned' \/ (u \in Minted' /\ confirmations'[u].used # Unused)
      BY <1>1, <2>1 DEF Deletions
    <2> QED
      BY <2>2, <2>3 DEF Deletions
  <1> QED
    BY <1>2, <1>3, <1>4, <1>5, <1>6 DEF GateInv, ThreadKnows

\* A call that arrives knows only the write it asks for.
LEMMA ReceiveStep ==
  ASSUME GateInv, NEW c \in Calls, NEW t \in Tokens \cup {NoToken},
         NEW w \in Writes, Receive(c, t, w)
  PROVE  GateInv'
  <1> USE DEF Minted
  <1>1. GateTypeOK'
    BY DEF Receive, GateInv, GateTypeOK, Threads, Running, deleted
  <1>2. LockHeld' /\ OneWritePerToken' /\ WritesBacked' /\ Deletions'
    BY TablesStay DEF Receive, GateInv, GateTypeOK, LockHeld, Inside
  <1>3. ASSUME NEW d \in Calls PROVE Knows(d)'
    <2>1. /\ Knows(d)
          /\ Knows(c)
          /\ call[c] \in Threads
      BY DEF GateInv, GateTypeOK, ThreadKnows
    <2>2. UNCHANGED <<confirmations, mockWrites, deleted>>
      BY DEF Receive
    <2>3. d # c => call'[d] = call[d]
      BY DEF Receive, GateInv, GateTypeOK
    <2>4. CASE d # c
      BY <2>2, <2>3, <2>4, KnowsStays
    <2>5. CASE d = c
      BY <2>1, <2>2, <2>5 DEF Receive, GateInv, GateTypeOK, Knows, Bound, Threads
    <2> QED
      BY <2>4, <2>5
  <1> QED
    BY <1>1, <1>2, <1>3 DEF GateInv, ThreadKnows

\* A step of one thread that leaves every table alone, takes no lock but may
\* release its own, and after which that thread knows what it should.
LEMMA QuietStep ==
  ASSUME GateInv, NEW c \in Calls,
         UNCHANGED <<now, confirmations, mockWrites, deleted>>,
         \/ writeLock' = writeLock
         \/ writeLock = c /\ writeLock' = NoCall,
         call' \in [Calls -> Threads],
         \A d \in Calls : d # c => call'[d] = call[d],
         call'[c].pc \notin Inside,
         Knows(c)'
  PROVE  GateInv'
  <1>1. GateTypeOK' /\ WritesBacked' /\ OneWritePerToken' /\ Deletions'
    BY TablesStay DEF GateInv, GateTypeOK, deleted
  <1>2. LockHeld'
    BY DEF GateInv, LockHeld
  <1>3. ASSUME NEW d \in Calls, d # c PROVE Knows(d)'
    BY <1>3, KnowsStays
  <1> QED
    BY <1>1, <1>2, <1>3 DEF GateInv, ThreadKnows

\* The row a thread reads is the table's.
LEMMA LoadStep ==
  ASSUME GateInv, NEW c \in Calls, Load(c)
  PROVE  GateInv'
  <1>1. UNCHANGED <<now, confirmations, mockWrites, writeLock, deleted>>
    BY DEF Load
  <1>2. call[c].pc = "load" /\ call[c].write \in Writes
    BY MintedRowTyped DEF Load, Knows
  <1>3. CASE call[c].token \notin Minted
    <2>1. Goto(c, "rejected")
      BY <1>3 DEF Load
    <2> QED
      BY <2>1, <1>1, <1>2, QuietStep, GotoFacts, MintedRowTyped DEF Answers, Knows, Inside
  <1>4. CASE call[c].token \in Minted
    <2>1. /\ call[c] \in Threads
          /\ confirmations[call[c].token] \in Row
          /\ call \in [Calls -> Threads]
      BY <1>4, MintedRowTyped
    <2>2. call'[c] = [call[c] EXCEPT !.pc = "check",
                                     !.row = confirmations[call[c].token]]
      BY <1>4, <2>1 DEF Load
    <2>3. /\ call'[c] \in Threads
          /\ call'[c].pc = "check"
          /\ call'[c].token = call[c].token
          /\ call'[c].write = call[c].write
          /\ call'[c].row = confirmations[call[c].token]
      BY <2>1, <2>2 DEF Threads, Running
    <2>4. /\ call' \in [Calls -> Threads]
          /\ \A d \in Calls : d # c => call'[d] = call[d]
      BY <1>4, <2>1, <2>3 DEF Load
    <2>5. Knows(c)'
      BY <1>1, <1>2, <1>4, <2>3 DEF Knows, Minted
    <2> QED
      BY <1>1, <2>3, <2>4, <2>5, QuietStep DEF Inside
  <1> QED
    BY <1>3, <1>4

\* A thread passes the checks with a confirmed token of its own write.
LEMMA CheckStep ==
  ASSUME GateInv, NEW c \in Calls, Check(c)
  PROVE  GateInv'
  <1>1. UNCHANGED <<now, confirmations, mockWrites, writeLock, deleted>>
    BY DEF Check
  <1>2. call[c].pc = "check" /\ Knows(c) /\ call \in [Calls -> Threads]
    BY MintedRowTyped DEF Check
  <1>3. CASE Valid(call[c].row, call[c].write)
    <2>1. Goto(c, "lock")
      BY <1>3 DEF Check
    <2>2. Bound(c)
      BY <1>2, <1>3 DEF Valid, Knows, Bound
    <2>3a. /\ Minted' = Minted /\ pruned' = pruned /\ confirmations' = confirmations
      BY <1>1, TablesStay
    <2>3. /\ call' \in [Calls -> Threads]
          /\ call'[c].pc = "lock"
          /\ call'[c].token = call[c].token
          /\ call'[c].write = call[c].write
          /\ \A d \in Calls : d # c => call'[d] = call[d]
      BY <2>1, <1>2, GotoFacts DEF Running
    <2>4. Knows(c)'
      BY <2>2, <2>3, <2>3a DEF Knows, Bound
    <2> QED
      BY <1>1, <2>3, <2>4, QuietStep DEF Inside
  <1>4. CASE ~ Valid(call[c].row, call[c].write)
    <2>1. Goto(c, "rejected")
      BY <1>4 DEF Check
    <2> QED
      BY <2>1, <1>1, <1>2, QuietStep, GotoFacts DEF Answers, Knows, Inside
  <1> QED
    BY <1>3, <1>4

\* _write_lock goes to a thread only when nobody is inside.
LEMMA LockStep ==
  ASSUME GateInv, NEW c \in Calls, Lock(c)
  PROVE  GateInv'
  <1> USE DEF Minted
  <1>1. GateTypeOK'
    BY ZenonT(40) DEF Lock, Goto, GateInv, GateTypeOK, Threads, Running, deleted
  <1>2. LockHeld'
    BY GateAssumption DEF Lock, Goto, GateInv, GateTypeOK, LockHeld, Inside, Threads
  <1>3. OneWritePerToken' /\ WritesBacked' /\ Deletions'
    BY TablesStay DEF Lock
  <1>4. ASSUME NEW d \in Calls PROVE Knows(d)'
    <2>1. /\ Knows(d)
          /\ Knows(c)
          /\ call[c] \in Threads
      BY DEF GateInv, GateTypeOK, ThreadKnows
    <2>2. UNCHANGED <<confirmations, mockWrites, deleted>>
      BY DEF Lock
    <2>3. d # c => call'[d] = call[d]
      BY DEF Lock, Goto, GateInv, GateTypeOK
    <2>4. CASE d # c
      BY <2>2, <2>3, <2>4, KnowsStays
    <2>5. CASE d = c
      <3>1. /\ Minted' = Minted /\ pruned' = pruned /\ confirmations' = confirmations
        BY <2>2, TablesStay
      <3> QED
        BY <2>1, <3>1, <2>5 DEF Lock, Goto, GateInv, GateTypeOK, Knows, Bound, Threads
    <2> QED
      BY <2>4, <2>5
  <1> QED
    BY <1>1, <1>2, <1>3, <1>4 DEF GateInv, ThreadKnows

\* Spending a token that is unused: only its used_at changes, and a token
\* that was unused has no write yet.
LEMMA MarkStep ==
  ASSUME GateInv, NEW t \in Minted, Spendable(t), MarkUsed(t),
         UNCHANGED <<now, mockWrites, deleted>>
  PROVE  /\ Minted' = Minted /\ pruned' = pruned /\ cleared' = cleared
         /\ TokensFiled' = TokensFiled
         /\ \A u \in Minted : /\ confirmations'[u] \in Row
                              /\ confirmations'[u].response = confirmations[u].response
                              /\ confirmations'[u].write = confirmations[u].write
                              /\ confirmations[u].used # Unused => confirmations'[u] = confirmations[u]
         /\ confirmations'[t].used # Unused
         /\ t \notin TokensFiled /\ t \notin cleared
         /\ WritesBacked' /\ Deletions'
  <1> USE DEF Minted
  <1>1. Minted' = Minted
    BY DEF MarkUsed
  <1>2. confirmations[t] \in Row /\ now \in Times
    BY DEF GateInv, GateTypeOK
  <1>3. now # Unused
    BY <1>2, GateAssumption DEF Times, Unused
  <1>4. \A u \in Minted : u # t => confirmations'[u] = confirmations[u]
    BY DEF MarkUsed
  <1>5. confirmations'[t] = [confirmations[t] EXCEPT !.used = now]
    BY DEF MarkUsed
  <1>6. /\ confirmations'[t] \in Row
        /\ confirmations'[t].response = confirmations[t].response
        /\ confirmations'[t].write = confirmations[t].write
        /\ confirmations'[t].used = now
    BY <1>2, <1>5 DEF Row
  <1>7. t \notin TokensFiled /\ t \notin cleared
    BY DEF GateInv, WritesBacked, Deletions, TokensFiled, Spendable
  <1>8. \A u \in Minted : confirmations[u] \in Row
    BY DEF GateInv, GateTypeOK
  <1>9. UNCHANGED <<pruned, cleared, TokensFiled>>
    BY DEF deleted, TokensFiled
  <1>10. WritesBacked'
    BY <1>1, <1>4, <1>7, <1>9 DEF GateInv, WritesBacked, TokensFiled
  <1>11. Deletions'
    <2>1. Minted' \cap pruned' = {} /\ TokensFiled' \cap cleared' = {}
      BY <1>1, <1>9 DEF GateInv, Deletions
    <2>2. ASSUME NEW u \in cleared'
          PROVE  u \in pruned' \/ (u \in Minted' /\ confirmations'[u].used # Unused)
      <3>1. u \in pruned \/ (u \in Minted /\ confirmations[u].used # Unused)
        BY <1>9, <2>2 DEF GateInv, Deletions
      <3> QED
        BY <1>1, <1>3, <1>4, <1>6, <1>9, <3>1
    <2> QED
      BY <2>1, <2>2 DEF Deletions
  <1> QED
    BY <1>1, <1>3, <1>4, <1>6, <1>7, <1>8, <1>9, <1>10, <1>11 DEF Spendable

\* Two threads are never inside the with-block together.
LEMMA OneInside ==
  ASSUME GateInv, NEW c \in Calls, NEW d \in Calls,
         call[c].pc \in Inside, call[d].pc \in Inside
  PROVE  c = d
  BY DEF GateInv, LockHeld

\* A thread that spends its token, whether it learns of it (append) or the
\* response is lost (failed).
LEMMA SpentStep ==
  ASSUME GateInv, NEW c \in Calls, call[c].pc = "spend",
         Spendable(call[c].token), MarkUsed(call[c].token),
         UNCHANGED <<now, mockWrites, deleted>>,
         \/ Goto(c, "append") /\ writeLock' = writeLock
         \/ Goto(c, "failed") /\ writeLock' = NoCall
  PROVE  GateInv'
  <1> DEFINE t == call[c].token
  <1>1. Bound(c) /\ t \in Minted
    BY MintedRowTyped DEF Knows, Spendable
  <1>2. writeLock = c
    BY DEF GateInv, LockHeld, Inside
  <1>3. /\ Minted' = Minted /\ pruned' = pruned /\ cleared' = cleared
        /\ TokensFiled' = TokensFiled
        /\ \A u \in Minted : /\ confirmations'[u] \in Row
                             /\ confirmations'[u].response = confirmations[u].response
                             /\ confirmations'[u].write = confirmations[u].write
        /\ confirmations'[t].used # Unused
        /\ t \notin TokensFiled /\ t \notin cleared
        /\ WritesBacked' /\ Deletions'
    BY <1>1, MarkStep
  <1>4. PICK pc \in {"append", "failed"} : Goto(c, pc)
    OBVIOUS
  <1>5. /\ call' \in [Calls -> Threads]
        /\ call'[c].pc = pc
        /\ call'[c].token = t
        /\ call'[c].write = call[c].write
        /\ \A d \in Calls : d # c => call'[d] = call[d]
    BY <1>4, GotoFacts, MintedRowTyped DEF Running, Answers
  <1>6. GateTypeOK'
    BY <1>2, <1>3, <1>5 DEF GateInv, GateTypeOK
  <1>7. ASSUME NEW d \in Calls, d # c PROVE Knows(d)' /\ call[d].pc \notin Inside
    <2>1. call[d].pc \notin Inside
      BY <1>7, OneInside DEF Inside
    <2>2. Knows(d) /\ call'[d] = call[d]
      BY <1>5, <1>7, MintedRowTyped
    <2> QED
      BY <1>3, <2>1, <2>2 DEF Knows, Bound, Inside
  <1>8. LockHeld'
    <2>1. ASSUME NEW d \in Calls, call'[d].pc \in Inside PROVE writeLock' = d
      <3>1. d = c
        BY <1>5, <1>7, <2>1
      <3>2. call'[c].pc # "failed"
        BY <2>1, <3>1 DEF Inside
      <3>3. ~ Goto(c, "failed")
        BY <3>2, GotoFacts, MintedRowTyped DEF Answers
      <3> QED
        BY <1>2, <3>1, <3>3
    <2> QED
      BY <2>1 DEF LockHeld
  <1>9. Knows(c)'
    BY <1>1, <1>3, <1>5 DEF Knows, Bound
  <1>10. OneWritePerToken'
    BY DEF GateInv, OneWritePerToken
  <1> QED
    BY <1>3, <1>6, <1>7, <1>8, <1>9, <1>10 DEF GateInv, ThreadKnows

\* A thread that appends its row, whether it learns of it or not.
LEMMA AppendedStep ==
  ASSUME GateInv, NEW c \in Calls, call[c].pc = "append", AppendRow(c),
         Accepted(call[c].token), UNCHANGED <<now, confirmations, deleted>>,
         \/ Goto(c, "readback") /\ writeLock' = writeLock
         \/ Goto(c, "failed") /\ writeLock' = NoCall
  PROVE  GateInv'
  <1> DEFINE t == call[c].token
             new == [number |-> NextNumber, token |-> t, write |-> call[c].write]
             n == Len(mockWrites)
  <1>1. /\ Bound(c)
        /\ t \in Minted => confirmations[t].used # Unused
        /\ t \notin cleared
        /\ \A i \in DOMAIN mockWrites : mockWrites[i].token # t
    BY MintedRowTyped DEF Knows, TokensFiled
  <1>2. writeLock = c
    BY DEF GateInv, LockHeld, Inside
  <1>3. /\ mockWrites \in Seq([number : Nat, token : Tokens, write : Writes])
        /\ new \in [number : Nat, token : Tokens, write : Writes]
    BY <1>1 DEF GateInv, GateTypeOK, NextNumber, Bound, Minted
  <1>4. /\ mockWrites' \in Seq([number : Nat, token : Tokens, write : Writes])
        /\ n \in Nat
        /\ DOMAIN mockWrites = 1 .. n
        /\ DOMAIN mockWrites' = 1 .. (n + 1)
        /\ \A i \in 1 .. n : mockWrites'[i] = mockWrites[i]
        /\ mockWrites'[n + 1] = new
    <2>1. mockWrites' = Append(mockWrites, new)
      BY DEF AppendRow
    <2> HIDE DEF new
    <2> QED
      BY <1>3, <2>1
  <1>5. PICK pc \in {"readback", "failed"} : Goto(c, pc)
    OBVIOUS
  <1>6. /\ call' \in [Calls -> Threads]
        /\ call'[c].pc = pc
        /\ call'[c].token = t
        /\ call'[c].write = call[c].write
        /\ \A d \in Calls : d # c => call'[d] = call[d]
    BY <1>5, GotoFacts, MintedRowTyped DEF Running, Answers
  <1>7. GateTypeOK'
    BY <1>2, <1>4, <1>6 DEF GateInv, GateTypeOK, Minted, deleted
  <1>7a. UNCHANGED <<Minted, pruned, cleared>>
    BY DEF Minted, deleted
  <1>8. ASSUME NEW d \in Calls, d # c PROVE Knows(d)' /\ call[d].pc \notin Inside
    <2>1. call[d].pc \notin Inside
      BY <1>8, OneInside DEF Inside
    <2>2. Knows(d) /\ call'[d] = call[d]
      BY <1>6, <1>8, MintedRowTyped
    <2> QED
      BY <1>7a, <2>1, <2>2 DEF Knows, Bound, Inside
  <1>9. LockHeld'
    <2>1. ASSUME NEW d \in Calls, call'[d].pc \in Inside PROVE writeLock' = d
      <3>1. d = c
        BY <1>6, <1>8, <2>1
      <3>2. call'[c].pc # "failed"
        BY <2>1, <3>1 DEF Inside
      <3>3. ~ Goto(c, "failed")
        BY <3>2, GotoFacts, MintedRowTyped DEF Answers
      <3> QED
        BY <1>2, <3>1, <3>3
    <2> QED
      BY <2>1 DEF LockHeld
  <1>10. Knows(c)'
    BY <1>1, <1>6, <1>7a DEF Knows, Bound
  <1>11. WritesBacked'
    <2>1. ASSUME NEW i \in 1 .. (n + 1) PROVE i \in 1 .. n \/ i = n + 1
      BY <1>4
    <2> QED
      BY <1>1, <1>4, <1>7a, <2>1 DEF GateInv, WritesBacked, Bound, Accepted, Unused
  <1>12. OneWritePerToken'
    <2>1. ASSUME NEW i \in 1 .. (n + 1) PROVE i \in 1 .. n \/ i = n + 1
      BY <1>4
    <2> QED
      BY <1>1, <1>4, <2>1 DEF GateInv, OneWritePerToken
  <1>13. Deletions'
    <2>1. TokensFiled' \subseteq TokensFiled \cup {t}
      <3>1. ASSUME NEW i \in 1 .. (n + 1) PROVE i \in 1 .. n \/ i = n + 1
        BY <1>4
      <3> QED
        BY <1>4, <3>1 DEF TokensFiled
    <2> QED
      BY <1>1, <1>7a, <2>1 DEF GateInv, Deletions
  <1> QED
    BY <1>7, <1>8, <1>9, <1>10, <1>11, <1>12, <1>13 DEF GateInv, ThreadKnows

\* The UPDATE: its thread goes on to append, or is rejected.
LEMMA SpendStep ==
  ASSUME GateInv, NEW c \in Calls, Spend(c)
  PROVE  GateInv'
  <1>1. CASE Spendable(call[c].token)
    BY <1>1, SpentStep DEF Spend
  <1>2. CASE ~ Spendable(call[c].token)
    <2>1. /\ Goto(c, "rejected")
          /\ writeLock' = NoCall
          /\ UNCHANGED <<now, confirmations, mockWrites, deleted>>
      BY <1>2 DEF Spend
    <2>2. writeLock = c
      BY DEF Spend, GateInv, LockHeld, Inside
    <2> QED
      BY <2>1, <2>2, QuietStep, GotoFacts, MintedRowTyped DEF Answers, Knows, Inside
  <1> QED
    BY <1>1, <1>2

\* The SELECT after the INSERT changes no table.
LEMMA ReadBackStep ==
  ASSUME GateInv, NEW c \in Calls, ReadBack(c)
  PROVE  GateInv'
  <1>1. PICK n \in IF RowsOf(call[c].token) = {} THEN {0}
                  ELSE {mockWrites[i].number : i \in RowsOf(call[c].token)} :
           call' = [call EXCEPT ![c].pc = "created", ![c].number = n]
    BY DEF ReadBack
  <1>2. n \in Nat
    <2>1. mockWrites \in Seq([number : Nat, token : Tokens, write : Writes])
      BY DEF GateInv, GateTypeOK
    <2> DEFINE Rows == [number : Nat, token : Tokens, write : Writes]
    <2> HIDE DEF Rows
    <2>2. mockWrites \in Seq(Rows)
      BY <2>1 DEF Rows
    <2>3. ASSUME NEW i \in DOMAIN mockWrites PROVE mockWrites[i] \in Rows
      BY <2>2
    <2>4. ASSUME NEW i \in DOMAIN mockWrites PROVE mockWrites[i].number \in Nat
      BY <2>3 DEF Rows
    <2> QED
      BY <2>4 DEF RowsOf
  <1>3. call[c] \in Threads /\ call \in [Calls -> Threads]
    BY MintedRowTyped
  <1>4. call'[c] = [call[c] EXCEPT !.pc = "created", !.number = n]
    BY <1>1, <1>3
  <1>5. call'[c] \in Threads /\ call'[c].pc = "created"
    BY <1>2, <1>3, <1>4 DEF Threads, Answers
  <1>6. /\ call' \in [Calls -> Threads]
        /\ \A d \in Calls : d # c => call'[d] = call[d]
    BY <1>1, <1>3, <1>5
  <1>7. /\ writeLock = c /\ writeLock' = NoCall
        /\ UNCHANGED <<now, confirmations, mockWrites, deleted>>
    BY DEF ReadBack, GateInv, LockHeld, Inside
  <1>8. Knows(c)'
    BY <1>5 DEF Knows
  <1> QED
    BY <1>5, <1>6, <1>7, <1>8, QuietStep DEF Inside

\* A thread that has answered is idle and holds nothing.
LEMMA ReplyStep ==
  ASSUME GateInv, NEW c \in Calls, Reply(c)
  PROVE  GateInv'
  <1>1. Idle \in Threads
    BY DEF Idle, Threads
  <1>2. /\ call' \in [Calls -> Threads]
        /\ call'[c].pc = "idle"
        /\ \A d \in Calls : d # c => call'[d] = call[d]
    BY <1>1, MintedRowTyped DEF Reply, Idle
  <1>3. Knows(c)'
    BY <1>2 DEF Knows
  <1> QED
    BY <1>2, <1>3, QuietStep DEF Reply, Inside

\* A statement that raises, applied or not, keeps the invariant.
LEMMA StoreFailsStep ==
  ASSUME GateInv, NEW c \in Calls, StoreFails(c)
  PROVE  GateInv'
  <1>1. Goto(c, "failed") /\ UNCHANGED <<now, deleted>>
    BY DEF StoreFails
  <1>2. call[c].pc \in Inside => writeLock = c /\ writeLock' = NoCall
    BY DEF StoreFails, GateInv, LockHeld
  <1>3. writeLock' = writeLock \/ (writeLock = c /\ writeLock' = NoCall)
    BY DEF StoreFails
  <1>4. CASE UNCHANGED <<confirmations, mockWrites>>
    BY <1>1, <1>3, <1>4, QuietStep, GotoFacts, MintedRowTyped
    DEF Answers, Knows, Inside
  <1>5. CASE call[c].pc = "spend" /\ Spendable(call[c].token)
             /\ MarkUsed(call[c].token) /\ UNCHANGED mockWrites
    BY <1>1, <1>2, <1>5, SpentStep DEF Inside
  <1>6. CASE /\ call[c].pc = "append" /\ Accepted(call[c].token)
             /\ AppendRow(c) /\ UNCHANGED confirmations
    BY <1>1, <1>2, <1>6, AppendedStep DEF Inside
  <1> QED
    BY <1>4, <1>5, <1>6 DEF StoreFails

\* A restart forgets the threads and the lock, and keeps the tables.
LEMMA CrashStep == GateInv /\ Crash => GateInv'
  <1> SUFFICES ASSUME GateInv, Crash PROVE GateInv'
    OBVIOUS
  <1>1. Idle \in Threads
    BY DEF Idle, Threads
  <1>2. \A c \in Calls : call'[c] = Idle
    BY DEF Crash
  <1>3. GateTypeOK'
    BY <1>1 DEF Crash, GateInv, GateTypeOK, Minted, deleted
  <1>4. LockHeld' /\ ThreadKnows'
    BY <1>2 DEF LockHeld, ThreadKnows, Knows, Idle, Inside
  <1>5. WritesBacked' /\ OneWritePerToken' /\ Deletions'
    BY TablesStay DEF Crash
  <1> QED
    BY <1>3, <1>4, <1>5 DEF GateInv

\* Nothing the invariant says depends on the time.
LEMMA TickStep == GateInv /\ Tick => GateInv'
  <1> SUFFICES ASSUME GateInv, Tick PROVE GateInv'
    OBVIOUS
  <1>1. GateTypeOK'
    BY GateAssumption DEF Tick, GateInv, GateTypeOK, Minted, Times, deleted
  <1>2. LockHeld' /\ WritesBacked' /\ OneWritePerToken' /\ Deletions'
    BY TablesStay DEF Tick, GateInv, LockHeld
  <1>3. ThreadKnows'
    BY KnowsStays DEF Tick, ThreadKnows
  <1> QED
    BY <1>1, <1>2, <1>3 DEF GateInv

\* A reset takes the rows of mock_writes, and what the threads know is of none
\* of them.
LEMMA ResetStep == GateInv /\ ResetSandbox => GateInv'
  <1> SUFFICES ASSUME GateInv, ResetSandbox PROVE GateInv'
    OBVIOUS
  <1>1. /\ UNCHANGED <<now, confirmations, writeLock, call, pruned, Minted>>
        /\ mockWrites' = <<>>
        /\ TokensFiled' = {}
        /\ cleared' = cleared \cup TokensFiled
    BY DEF ResetSandbox, TokensFiled, Minted
  <1>2. TokensFiled \subseteq Tokens
    BY FiledTyped
  <1>3. GateTypeOK'
    BY <1>1, <1>2 DEF GateInv, GateTypeOK
  <1>4. LockHeld' /\ OneWritePerToken' /\ WritesBacked'
    BY <1>1 DEF GateInv, LockHeld, OneWritePerToken, WritesBacked
  <1>5. ThreadKnows'
    BY <1>1 DEF GateInv, ThreadKnows, Knows, Bound
  <1>6. Deletions'
    <2>1. Minted' \cap pruned' = {} /\ TokensFiled' \cap cleared' = {}
      BY <1>1 DEF GateInv, Deletions
    <2>2. ASSUME NEW u \in cleared'
          PROVE  u \in pruned' \/ (u \in Minted' /\ confirmations'[u].used # Unused)
      <3>1. CASE u \in cleared
        BY <1>1, <3>1 DEF GateInv, Deletions
      <3>2. CASE u \in TokensFiled
        <4>1. u \in pruned \/ (u \in Minted /\ confirmations[u].used # Unused)
          BY <3>2 DEF GateInv, WritesBacked, TokensFiled
        <4> QED
          BY <1>1, <4>1
      <3> QED
        BY <1>1, <2>2, <3>1, <3>2
    <2> QED
      BY <2>1, <2>2 DEF Deletions
  <1> QED
    BY <1>3, <1>4, <1>5, <1>6 DEF GateInv

\* Retention takes rows of confirmations that no write cites.
LEMMA PruneStep ==
  ASSUME GateInv, NEW gone \in SUBSET Uncited, Prune(gone)
  PROVE  GateInv'
  <1>1. /\ UNCHANGED <<now, mockWrites, writeLock, call, cleared, TokensFiled>>
        /\ Minted' = Minted \ gone
        /\ \A t \in Minted' : confirmations'[t] = confirmations[t]
        /\ pruned' = pruned \cup gone
        /\ gone \subseteq Minted /\ gone \cap TokensFiled = {}
    BY DEF Prune, Uncited, TokensFiled, Minted
  <1>2. GateTypeOK'
    BY <1>1 DEF GateInv, GateTypeOK
  <1>3. LockHeld' /\ OneWritePerToken'
    BY <1>1 DEF GateInv, LockHeld, OneWritePerToken
  <1>4. WritesBacked'
    BY <1>1 DEF GateInv, WritesBacked, TokensFiled
  <1>5. ThreadKnows'
    BY <1>1 DEF GateInv, ThreadKnows, Knows, Bound
  <1>6. Deletions'
    <2>1. Minted' \cap pruned' = {} /\ TokensFiled' \cap cleared' = {}
      BY <1>1 DEF GateInv, Deletions
    <2>2. ASSUME NEW u \in cleared'
          PROVE  u \in pruned' \/ (u \in Minted' /\ confirmations'[u].used # Unused)
      <3>1. u \in pruned \/ (u \in Minted /\ confirmations[u].used # Unused)
        BY <1>1, <2>2 DEF GateInv, Deletions
      <3> QED
        BY <1>1, <3>1
    <2> QED
      BY <2>1, <2>2 DEF Deletions
  <1> QED
    BY <1>2, <1>3, <1>4, <1>5, <1>6 DEF GateInv

-----------------------------------------------------------------------------
\* Every step of the gate keeps its invariant.
LEMMA NextInv == GateInv /\ [GateNext]_gateVars => GateInv'
  <1> SUFFICES ASSUME GateInv, [GateNext]_gateVars PROVE GateInv'
    OBVIOUS
  <1>1. CASE UNCHANGED gateVars
    <2>1. UNCHANGED <<now, confirmations, mockWrites, writeLock, call, deleted>>
      BY <1>1 DEF gateVars
    <2>2. GateTypeOK' /\ LockHeld'
      BY <2>1 DEF GateInv, GateTypeOK, LockHeld, Minted, deleted
    <2> QED
      BY <2>1, <2>2, TablesStay, KnowsStays DEF GateInv, ThreadKnows
  <1>2. CASE Tick \/ Crash
    BY <1>2, TickStep, CrashStep
  <1>3. ASSUME NEW t \in Tokens, NEW w \in Writes, NEW r \in Responses,
               Mint(t, w, r)
        PROVE  GateInv'
    BY <1>3, MintStep
  <1>4. ASSUME NEW c \in Calls, NEW t \in Tokens \cup {NoToken},
               NEW w \in Writes, Receive(c, t, w)
        PROVE  GateInv'
    BY <1>4, ReceiveStep
  <1>5. ASSUME NEW c \in Calls, AppendWrite(c)
        PROVE  GateInv'
    BY <1>5, AppendedStep DEF AppendWrite
  <1>6. ASSUME NEW c \in Calls, CallStep(c)
        PROVE  GateInv'
    BY <1>5, <1>6, LoadStep, CheckStep, LockStep, SpendStep, ReadBackStep,
       StoreFailsStep DEF CallStep
  <1>7. ASSUME NEW c \in Calls, Reply(c)
        PROVE  GateInv'
    BY <1>7, ReplyStep
  <1>8. CASE GateNext
    <2>1. \/ Tick \/ Crash \/ ResetSandbox
          \/ \E gone \in SUBSET Uncited : Prune(gone)
          \/ \E t \in Tokens, w \in Writes, r \in Responses : Mint(t, w, r)
          \/ \E c \in Calls, t \in Tokens \cup {NoToken}, w \in Writes : Receive(c, t, w)
          \/ \E c \in Calls : CallStep(c)
          \/ \E c \in Calls : Reply(c)
      BY <1>8 DEF GateNext
    <2> QED
      BY <2>1, <1>2, <1>3, <1>4, <1>6, <1>7, ResetStep, PruneStep
  <1> QED
    BY <1>1, <1>8

\* The gate keeps its types, whatever threads, statements and clock do.
THEOREM GateTypes == GateSpec => []GateTypeOK
  <1>1. GateSpec => []GateInv
    BY InitInv, NextInv, PTL DEF GateSpec
  <1>2. GateInv => GateTypeOK
    BY DEF GateInv
  <1> QED
    BY <1>1, <1>2, PTL

\* confirm.py's promise: a token is good for one write, and where the store
\* enforces the foreign key there is never a write without a confirmation, for any
\* number of tokens, writes and threads, under resets and the retention sweep.
THEOREM GateSafe ==
  GateSpec => []((ForeignKeys => WritesConfirmed) /\ OneWritePerToken)
  <1>1. GateSpec => []GateInv
    BY InitInv, NextInv, PTL DEF GateSpec
  <1>2. GateInv => (ForeignKeys => WritesConfirmed) /\ OneWritePerToken
    BY DEF GateInv, WritesBacked, WritesConfirmed
  <1> QED
    BY <1>1, <1>2, PTL

-----------------------------------------------------------------------------
\* The gate implements the ledger.

\* A token's phase is told by its row of confirmations, the rows that carry it and
\* what was deleted.
LEMMA SamePhase ==
  ASSUME NEW t, t \in Minted <=> t \in Minted',
         t \in Minted => /\ confirmations'[t].used = confirmations[t].used
                         /\ confirmations'[t].response = confirmations[t].response,
         t \in TokensFiled <=> t \in TokensFiled',
         t \in pruned <=> t \in pruned',
         t \in cleared <=> t \in cleared'
  PROVE  PhaseOf(t)' = PhaseOf(t)
  BY DEF PhaseOf

\* No row carries, or has carried, a token that was not spent.
LEMMA NoRowYet ==
  ASSUME GateInv, NEW t, t \notin pruned,
         t \notin Minted \/ confirmations[t].used = Unused
  PROVE  t \notin TokensFiled /\ t \notin cleared
  <1>1. t \notin TokensFiled
    BY DEF GateInv, WritesBacked, TokensFiled
  <1>2. t \notin cleared
    BY DEF GateInv, Deletions
  <1> QED
    BY <1>1, <1>2

\* mint() takes an unminted token to its decision, and leaves the others alone.
LEMMA LedgerMint ==
  ASSUME GateInv, NEW t \in Tokens, NEW w \in Writes, NEW r \in Responses, Mint(t, w, r)
  PROVE  /\ PhaseOf(t) = "unminted" /\ PhaseOf(t)' = r
         /\ \A u \in Tokens \ {t} : PhaseOf(u)' = PhaseOf(u)
  <1>1. t \notin Minted /\ t \in Minted' /\ confirmations'[t].used = Unused
        /\ confirmations'[t].response = r /\ t \notin pruned
    BY DEF Mint, Fresh, Minted
  <1>2. UNCHANGED <<TokensFiled, pruned, cleared>>
    BY DEF Mint, TokensFiled, deleted
  <1>3. t \notin TokensFiled /\ t \notin cleared
    BY <1>1, NoRowYet
  <1>4. ASSUME NEW u \in Tokens \ {t} PROVE PhaseOf(u)' = PhaseOf(u)
    <2>1. (u \in Minted <=> u \in Minted') /\ (u \in Minted => confirmations'[u] = confirmations[u])
      BY DEF Mint, Minted
    <2> QED
      BY <1>2, <2>1, SamePhase
  <1> QED
    BY <1>1, <1>2, <1>3, <1>4 DEF PhaseOf

\* The UPDATE that spends a token, whoever issued it.
LEMMA LedgerSpend ==
  ASSUME GateInv, NEW c \in Calls, NEW t, t = call[c].token, call[c].pc = "spend",
         Spendable(t), MarkUsed(t), UNCHANGED <<mockWrites, deleted>>
  PROVE  /\ t \in Tokens
         /\ PhaseOf(t) = "confirmed" /\ PhaseOf(t)' = "spent"
         /\ \A u \in Tokens \ {t} : PhaseOf(u)' = PhaseOf(u)
  <1>1. t \in Minted /\ t \in Tokens /\ confirmations[t].response = "confirmed"
        /\ confirmations[t] \in Row /\ t \notin pruned
    BY MintedRowTyped DEF Knows, Bound, GateInv, GateTypeOK, Deletions, Spendable
  <1>2. Minted' = Minted /\ confirmations'[t].used = now
        /\ \A u \in Minted \ {t} : confirmations'[u] = confirmations[u]
    BY <1>1 DEF MarkUsed, Minted, Row
  <1>3. now # Unused
    BY GateAssumption DEF GateInv, GateTypeOK, Times, Unused
  <1>4. t \notin TokensFiled /\ t \notin cleared
    BY <1>1, NoRowYet DEF Spendable
  <1>5. UNCHANGED <<TokensFiled, pruned, cleared>>
    BY DEF TokensFiled, deleted
  <1>6. \A u \in Tokens \ {t} : PhaseOf(u)' = PhaseOf(u)
    BY <1>2, <1>5, SamePhase
  <1>7. PhaseOf(t) = "confirmed"
    BY <1>1, <1>4 DEF PhaseOf, Spendable
  <1>8. PhaseOf(t)' = "spent"
    BY <1>1, <1>2, <1>3, <1>4, <1>5 DEF PhaseOf
  <1> QED
    BY <1>1, <1>6, <1>7, <1>8

\* The INSERT that files the write, whoever issued it; where nothing refuses it, also
\* for a token that is gone.
LEMMA LedgerWrite ==
  ASSUME GateInv, NEW c \in Calls, NEW t, t = call[c].token, call[c].pc = "append",
         AppendRow(c), Accepted(t), UNCHANGED <<confirmations, deleted>>
  PROVE  /\ t \in Tokens
         /\ PhaseOf(t) = "spent" \/ (PhaseOf(t) = "gone" /\ ~ForeignKeys)
         /\ PhaseOf(t)' = "written"
         /\ \A u \in Tokens \ {t} : PhaseOf(u)' = PhaseOf(u)
  <1>1. /\ t \in Minted \cup pruned /\ t \in Tokens
        /\ t \in Minted => confirmations[t].used # Unused /\ t \notin pruned
        /\ t \notin TokensFiled /\ t \notin cleared
    BY MintedRowTyped DEF Knows, Bound, GateInv, GateTypeOK, Deletions
  <1> DEFINE row == [number |-> NextNumber, token |-> t, write |-> call[c].write]
  <1>2. /\ mockWrites' = Append(mockWrites, row)
        /\ mockWrites \in Seq([number : Nat, token : Tokens, write : Writes])
    BY DEF AppendRow, GateInv, GateTypeOK
  <1>3. row.token = t
    OBVIOUS
  <1> HIDE DEF row
  <1>4. /\ DOMAIN mockWrites' = DOMAIN mockWrites \cup {Len(mockWrites) + 1}
        /\ \A i \in DOMAIN mockWrites : mockWrites'[i] = mockWrites[i]
        /\ mockWrites'[Len(mockWrites) + 1] = row
    BY <1>2
  <1>5. TokensFiled' = TokensFiled \cup {t}
    BY <1>3, <1>4 DEF TokensFiled
  <1>6. UNCHANGED <<Minted, pruned, cleared>>
    BY DEF Minted, deleted
  <1>7. \A u \in Tokens \ {t} : PhaseOf(u)' = PhaseOf(u)
    BY <1>5, <1>6, SamePhase
  <1>8. PhaseOf(t) = "spent" \/ (PhaseOf(t) = "gone" /\ ~ForeignKeys)
    BY <1>1 DEF PhaseOf, Accepted
  <1> QED
    BY <1>1, <1>5, <1>7, <1>8 DEF PhaseOf

\* Reset sandbox takes the written tokens off the ledger, all at once.
LEMMA LedgerClear == GateInv /\ ResetSandbox => Ledger!Clear
  <1> SUFFICES ASSUME GateInv, ResetSandbox, NEW t \in Tokens
               PROVE  PhaseOf(t)' = IF PhaseOf(t) = "written" THEN "cleared" ELSE PhaseOf(t)
    BY DEF Ledger!Clear
  <1>1. /\ UNCHANGED <<confirmations, Minted, pruned>>
        /\ TokensFiled' = {}
        /\ cleared' = cleared \cup TokensFiled
    BY DEF ResetSandbox, TokensFiled, Minted
  <1>2. t \in Minted => confirmations[t].response \in {"confirmed", "declined"}
    BY DEF GateInv, GateTypeOK, Row, Responses
  <1>3. CASE t \in TokensFiled
    BY <1>1, <1>3 DEF PhaseOf
  <1>4. CASE t \notin TokensFiled
    BY <1>1, <1>2, <1>4 DEF PhaseOf
  <1> QED
    BY <1>3, <1>4

\* Retention takes tokens without a write off it.
LEMMA LedgerForget ==
  ASSUME GateInv, NEW gone \in SUBSET Uncited, Prune(gone)
  PROVE  \E T \in SUBSET Tokens : Ledger!Forget(T)
  <1> DEFINE T == gone \ cleared
  <1>1. /\ UNCHANGED <<cleared, TokensFiled>>
        /\ Minted' = Minted \ gone
        /\ \A t \in Minted' : confirmations'[t] = confirmations[t]
        /\ pruned' = pruned \cup gone
        /\ gone \subseteq Minted /\ gone \cap TokensFiled = {}
        /\ gone \cap pruned = {}
    BY DEF Prune, Uncited, TokensFiled, Minted, GateInv, Deletions
  <1>2. T \in SUBSET Tokens
    BY <1>1 DEF GateInv, GateTypeOK
  <1>3. ASSUME NEW t \in T PROVE PhaseOf(t) \in {"declined", "confirmed", "spent"}
    <2>1. t \in Minted /\ confirmations[t].response \in {"confirmed", "declined"}
      BY <1>1 DEF GateInv, GateTypeOK, Row, Responses
    <2> QED
      BY <1>1, <2>1 DEF PhaseOf
  <1>4. ASSUME NEW t \in Tokens
        PROVE  PhaseOf(t)' = IF t \in T THEN "gone" ELSE PhaseOf(t)
    <2>1. CASE t \in T
      BY <1>1, <2>1 DEF PhaseOf
    <2>2. CASE t \in gone /\ t \in cleared
      BY <1>1, <2>2 DEF PhaseOf
    <2>3. CASE t \notin gone
      BY <1>1, <2>3 DEF PhaseOf
    <2> QED
      BY <2>1, <2>2, <2>3
  <1>5. Ledger!Forget(T)
    BY <1>2, <1>3, <1>4 DEF Ledger!Forget
  <1> QED
    BY <1>2, <1>5

\* A step that leaves the tables alone moves no token.
LEMMA LedgerStutter ==
  ASSUME UNCHANGED <<confirmations, mockWrites, deleted>>, NEW t
  PROVE  PhaseOf(t)' = PhaseOf(t)
  BY DEF PhaseOf, TokensFiled, Minted, deleted

\* One token moves along the ledger's road, and the others stay.
LEMMA LedgerMove ==
  ASSUME NEW t \in Tokens, NEW from, NEW to, PhaseOf(t) = from, PhaseOf(t)' = to,
         \A u \in Tokens \ {t} : PhaseOf(u)' = PhaseOf(u)
  PROVE  Ledger!Move(t, from, to)
  BY DEF Ledger!Move

\* Every step of the gate is a step of the ledger, or leaves it alone.
LEMMA LedgerStep ==
  GateInv /\ [GateNext]_gateVars => [Ledger!Next]_[t \in Tokens |-> PhaseOf(t)]
  <1> DEFINE phase == [t \in Tokens |-> PhaseOf(t)]
  <1> SUFFICES ASSUME GateInv, [GateNext]_gateVars
               PROVE  Ledger!Next \/ phase' = phase
    OBVIOUS
  <1>1. CASE UNCHANGED <<confirmations, mockWrites, deleted>>
    BY <1>1, LedgerStutter
  <1>2. ASSUME NEW t \in Tokens, NEW w \in Writes, NEW r \in Responses, Mint(t, w, r)
        PROVE  Ledger!Next
    BY <1>2, LedgerMint, LedgerMove DEF Responses, Ledger!Next, Ledger!Decide
  <1>3. ASSUME NEW c \in Calls, call[c].pc = "spend", Spendable(call[c].token),
               MarkUsed(call[c].token), UNCHANGED <<mockWrites, deleted>>
        PROVE  Ledger!Next
    <2>1. PICK t : t = call[c].token
      OBVIOUS
    <2>2. /\ t \in Tokens /\ PhaseOf(t) = "confirmed" /\ PhaseOf(t)' = "spent"
          /\ \A u \in Tokens \ {t} : PhaseOf(u)' = PhaseOf(u)
      BY <1>3, <2>1, LedgerSpend
    <2>3. Ledger!Move(t, "confirmed", "spent")
      BY <2>2, LedgerMove
    <2> QED
      BY <2>2, <2>3 DEF Ledger!Next, Ledger!Spend
  <1>4. ASSUME NEW c \in Calls, call[c].pc = "append", AppendRow(c),
               Accepted(call[c].token), UNCHANGED <<confirmations, deleted>>
        PROVE  Ledger!Next
    <2>1. PICK t : t = call[c].token
      OBVIOUS
    <2>2. /\ t \in Tokens
          /\ PhaseOf(t) = "spent" \/ (PhaseOf(t) = "gone" /\ ~ForeignKeys)
          /\ PhaseOf(t)' = "written"
          /\ \A u \in Tokens \ {t} : PhaseOf(u)' = PhaseOf(u)
      BY <1>4, <2>1, LedgerWrite
    <2>3. \/ Ledger!Move(t, "spent", "written")
          \/ ~ForeignKeys /\ Ledger!Move(t, "gone", "written")
      BY <2>2, LedgerMove
    <2> QED
      BY <2>2, <2>3 DEF Ledger!Next, Ledger!Write, Ledger!Orphan
  <1>5. CASE UNCHANGED gateVars
    BY <1>1, <1>5 DEF gateVars
  <1>6. ASSUME GateNext, ~ UNCHANGED <<confirmations, mockWrites, deleted>>
        PROVE  Ledger!Next
    <2>1. \/ \E t \in Tokens, w \in Writes, r \in Responses : Mint(t, w, r)
          \/ \E c \in Calls : CallStep(c)
          \/ ResetSandbox
          \/ \E gone \in SUBSET Uncited : Prune(gone)
      BY <1>6 DEF GateNext, Tick, Crash, Receive, Reply
    <2>2. ASSUME NEW c \in Calls, CallStep(c) PROVE Ledger!Next
      <3>1. Spend(c) \/ AppendWrite(c) \/ StoreFails(c)
        BY <1>6, <2>2 DEF CallStep, Load, Check, Lock, ReadBack
      <3>2. CASE Spend(c)
        BY <1>3, <1>6, <3>2 DEF Spend
      <3>3. CASE AppendWrite(c)
        BY <1>4, <3>3 DEF AppendWrite
      <3>4. CASE StoreFails(c)
        BY <1>3, <1>4, <1>6, <3>4 DEF StoreFails
      <3> QED
        BY <3>1, <3>2, <3>3, <3>4
    <2>3. ResetSandbox => Ledger!Next
      BY LedgerClear DEF Ledger!Next
    <2>4. (\E gone \in SUBSET Uncited : Prune(gone)) => Ledger!Next
      BY LedgerForget DEF Ledger!Next
    <2> QED
      BY <1>2, <2>1, <2>2, <2>3, <2>4
  <1> QED
    BY <1>1, <1>5, <1>6

\* Empty tables are a ledger on which no token is minted.
LEMMA LedgerStart ==
  GateInit => Ledger!Init
  BY DEF GateInit, Ledger!Init, PhaseOf, Minted, TokensFiled

\* The gate is a ledger: whatever threads, clock, store, process, reset and retention
\* do, a token only moves from minted to spent to written, and once it is off the
\* record it does not come back but as the orphan an unenforced foreign key lets
\* through, for any number of tokens and threads.
THEOREM GateIsLedger == GateSpec => ImplementsLedger
  <1>1. GateSpec => []GateInv
    BY InitInv, NextInv, PTL DEF GateSpec
  <1> QED
    BY <1>1, LedgerStart, LedgerStep, PTL DEF GateSpec, ImplementsLedger, Ledger!Spec

-----------------------------------------------------------------------------
\* What a row of confirmations keeps, read as one step of the gate.
RowKept(t) ==
    /\ t \in Minted'
    /\ confirmations'[t].write = confirmations[t].write
    /\ confirmations'[t].response = confirmations[t].response
    /\ confirmations[t].used # Unused => confirmations'[t].used = confirmations[t].used

\* A row retention takes is one no write cites.
Dropped(t) == t \notin Minted' /\ t \notin TokensFiled /\ t \in pruned'

\* The rows of mock_writes stay until all of them go.
RowsStand ==
    \/ mockWrites' = <<>> /\ cleared' = cleared \cup TokensFiled
    \/ \A i \in DOMAIN mockWrites : i \in DOMAIN mockWrites' /\ mockWrites'[i] = mockWrites[i]

\* Spending one token rewrites used_at of a row where it was NULL, and nothing else.
LEMMA SpendKeepsRows ==
  ASSUME GateInv, NEW t, Spendable(t), MarkUsed(t), NEW u \in Minted
  PROVE  RowKept(u)
  <1>1. confirmations[u] \in Row
    BY DEF GateInv, GateTypeOK
  <1>2. CASE u # t
    BY <1>2 DEF MarkUsed, RowKept, Minted
  <1>3. CASE u = t
    <2>1. confirmations'[u] = [confirmations[u] EXCEPT !.used = now]
      BY <1>3 DEF MarkUsed, Minted
    <2> QED
      BY <1>1, <1>3, <2>1 DEF MarkUsed, RowKept, Minted, Spendable, Row
  <1> QED
    BY <1>2, <1>3

\* No step rewrites a decision, the write it is bound to, or the moment it was spent.
LEMMA RowsKept ==
  GateInv /\ [GateNext]_gateVars => \A u \in Minted : RowKept(u) \/ Dropped(u)
  <1> SUFFICES ASSUME GateInv, [GateNext]_gateVars, NEW u \in Minted
               PROVE  RowKept(u) \/ Dropped(u)
    OBVIOUS
  <1>1. ASSUME UNCHANGED confirmations PROVE RowKept(u)
    BY <1>1 DEF RowKept, Minted
  <1>2. ASSUME NEW t \in Tokens, NEW w \in Writes, NEW r \in Responses, Mint(t, w, r)
        PROVE  RowKept(u)
    BY <1>2 DEF Mint, Fresh, RowKept, Minted
  <1>3. ASSUME NEW c \in Calls, CallStep(c) PROVE RowKept(u)
    <2>1. CASE Spend(c)
      BY <1>1, <2>1, SpendKeepsRows DEF Spend
    <2>2. CASE StoreFails(c)
      BY <1>1, <2>2, SpendKeepsRows DEF StoreFails
    <2>3. CASE ~ Spend(c) /\ ~ StoreFails(c)
      BY <1>1, <1>3, <2>3 DEF CallStep, Load, Check, Lock, AppendWrite, ReadBack
    <2> QED
      BY <2>1, <2>2, <2>3
  <1>4. ASSUME NEW gone \in SUBSET Uncited, Prune(gone) PROVE RowKept(u) \/ Dropped(u)
    <2>1. /\ Minted' = Minted \ gone /\ pruned' = pruned \cup gone
          /\ \A t \in Minted' : confirmations'[t] = confirmations[t]
          /\ gone \cap TokensFiled = {}
      BY <1>4 DEF Prune, Uncited, Minted
    <2> QED
      BY <2>1 DEF RowKept, Dropped
  <1> QED
    BY <1>1, <1>2, <1>3, <1>4
    DEF GateNext, gateVars, Tick, Crash, Receive, Reply, ResetSandbox

\* The INSERT adds one row and leaves those there are.
LEMMA AppendStands ==
  ASSUME GateInv, NEW c \in Calls, AppendRow(c)
  PROVE  /\ DOMAIN mockWrites' = DOMAIN mockWrites \cup {Len(mockWrites) + 1}
         /\ \A i \in DOMAIN mockWrites : mockWrites'[i] = mockWrites[i]
         /\ mockWrites'[Len(mockWrites) + 1].number = Len(mockWrites) + 1
         /\ mockWrites'[Len(mockWrites) + 1].token = call[c].token
         /\ mockWrites'[Len(mockWrites) + 1].write = call[c].write
  <1> DEFINE row == [number |-> NextNumber, token |-> call[c].token, write |-> call[c].write]
  <1>1. /\ mockWrites' = Append(mockWrites, row)
        /\ mockWrites \in Seq([number : Nat, token : Tokens, write : Writes])
    BY DEF AppendRow, GateInv, GateTypeOK
  <1>2. /\ row.number = Len(mockWrites) + 1
        /\ row.token = call[c].token /\ row.write = call[c].write
    BY DEF NextNumber
  <1> HIDE DEF row
  <1>3. /\ DOMAIN mockWrites' = DOMAIN mockWrites \cup {Len(mockWrites) + 1}
        /\ \A i \in DOMAIN mockWrites : mockWrites'[i] = mockWrites[i]
        /\ mockWrites'[Len(mockWrites) + 1] = row
    BY <1>1
  <1> QED
    BY <1>2, <1>3

\* Rows of mock_writes are added, or deleted all at once.
LEMMA AllRowsStand ==
  GateInv /\ [GateNext]_gateVars => RowsStand /\ cleared \subseteq cleared'
  <1> SUFFICES ASSUME GateInv, [GateNext]_gateVars
               PROVE  RowsStand /\ cleared \subseteq cleared'
    OBVIOUS
  <1>1. CASE UNCHANGED <<mockWrites, cleared>>
    BY <1>1 DEF RowsStand
  <1>2. ASSUME NEW c \in Calls, AppendRow(c), UNCHANGED deleted
        PROVE  RowsStand /\ cleared \subseteq cleared'
    BY <1>2, AppendStands DEF RowsStand, deleted
  <1>3. ASSUME NEW c \in Calls, CallStep(c)
        PROVE  RowsStand /\ cleared \subseteq cleared'
    <2>1. UNCHANGED deleted /\ (UNCHANGED mockWrites \/ AppendRow(c))
      BY <1>3 DEF CallStep, Load, Check, Lock, Spend, AppendWrite, ReadBack, StoreFails
    <2> QED
      BY <1>1, <1>2, <2>1 DEF deleted
  <1>4. CASE ResetSandbox
    BY <1>4 DEF ResetSandbox, RowsStand
  <1>5. CASE UNCHANGED gateVars
    BY <1>1, <1>5 DEF gateVars, deleted
  <1>6. CASE GateNext /\ ~ ResetSandbox /\ \A c \in Calls : ~ CallStep(c)
    <2>1. UNCHANGED <<mockWrites, cleared>>
      BY <1>6 DEF GateNext, Tick, Crash, Mint, Receive, Reply, Prune, deleted
    <2> QED
      BY <1>1, <2>1
  <1> QED
    BY <1>3, <1>4, <1>5, <1>6

\* confirm.py never rewrites history: a decision, its write and the moment it was
\* spent stay as they are until retention drops them, which it never does under a
\* write; and a write that the reset took is not filed again; for any number of
\* tokens and threads and any clock.
THEOREM RowsAreForGood == GateSpec => SpentForGood
  <1>1. GateSpec => []GateInv
    BY InitInv, NextInv, PTL DEF GateSpec
  <1>2. GateInv /\ [GateNext]_gateVars =>
          /\ \A t \in Minted :
                \/ /\ t \in Minted'
                   /\ confirmations'[t].write = confirmations[t].write
                   /\ confirmations'[t].response = confirmations[t].response
                   /\ confirmations[t].used # Unused =>
                         confirmations'[t].used = confirmations[t].used
                \/ t \notin Minted' /\ t \notin TokensFiled
          /\ \/ mockWrites' = <<>>
             \/ \A i \in DOMAIN mockWrites :
                   i \in DOMAIN mockWrites' /\ mockWrites'[i] = mockWrites[i]
          /\ cleared \cap TokensFiled' = {}
    <2> SUFFICES ASSUME GateInv, [GateNext]_gateVars
                 PROVE  /\ \A t \in Minted : RowKept(t) \/ Dropped(t)
                        /\ RowsStand
                        /\ cleared \cap TokensFiled' = {}
      BY DEF RowKept, Dropped, RowsStand
    <2>1. GateInv' /\ cleared \subseteq cleared'
      BY NextInv, AllRowsStand
    <2>2. cleared \cap TokensFiled' = {}
      BY <2>1 DEF GateInv, Deletions
    <2> QED
      BY <2>2, RowsKept, AllRowsStand
  <1> QED
    BY <1>1, <1>2, PTL DEF GateSpec, SpentForGood

-----------------------------------------------------------------------------
\* The answer "created".

\* A thread in one of these places has spent its token, and nobody else has.
Owning == {"append", "readback", "created"}

Owns(c) ==
    call[c].pc \in Owning =>
        /\ call[c].token \in Minted \cup pruned
        /\ call[c].token \in Minted => confirmations[call[c].token].used # Unused

\* The write of thread c is there, unless the reset took it.
Files(c, i) ==
    /\ mockWrites[i].token = call[c].token
    /\ mockWrites[i].write = call[c].write

NamesItsRow(c) ==
    /\ call[c].pc = "readback" =>
          call[c].token \in cleared \/ \E i \in DOMAIN mockWrites : Files(c, i)
    /\ call[c].pc = "created" =>
          \/ call[c].token \in cleared
          \/ call[c].number \in DOMAIN mockWrites /\ Files(c, call[c].number)

OneOwner ==
    \A c, d \in Calls :
        /\ call[c].pc \in Owning
        /\ call[d].pc \in Owning
        /\ call[c].token = call[d].token
        => c = d

Numbered == \A i \in DOMAIN mockWrites : mockWrites[i].number = i

ClaimInv ==
    /\ \A c \in Calls : Owns(c)
    /\ \A c \in Calls : NamesItsRow(c)
    /\ OneOwner
    /\ Numbered

\* Rows of confirmations are kept until they are pruned, for good, and rows of
\* mock_writes until the reset takes them.
Kept ==
    /\ pruned \subseteq pruned' /\ cleared \subseteq cleared'
    /\ Minted' \cap pruned' = {}
    /\ \A u \in Minted : RowKept(u) \/ u \in pruned'
    /\ \A i \in DOMAIN mockWrites :
          \/ mockWrites[i].token \in cleared'
          \/ i \in DOMAIN mockWrites' /\ mockWrites'[i] = mockWrites[i]
    /\ Numbered'

\* The INSERT adds one row, numbered by its place.
LEMMA AppendNumbered ==
  ASSUME GateInv, ClaimInv, NEW c \in Calls, AppendRow(c)
  PROVE  Numbered'
  <1>1. PICK n : n = Len(mockWrites) + 1
    OBVIOUS
  <1>2. /\ DOMAIN mockWrites' = DOMAIN mockWrites \cup {n}
        /\ \A i \in DOMAIN mockWrites : mockWrites'[i] = mockWrites[i]
        /\ mockWrites'[n].number = n
    BY <1>1, AppendStands
  <1> QED
    BY <1>2 DEF ClaimInv, Numbered

\* Whatever happens, the tables are kept so.
LEMMA TablesKept ==
  GateInv /\ ClaimInv /\ [GateNext]_gateVars => Kept
  <1> SUFFICES ASSUME GateInv, ClaimInv, [GateNext]_gateVars PROVE Kept
    OBVIOUS
  <1>1. \A u \in Minted : RowKept(u) \/ u \in pruned'
    BY RowsKept DEF Dropped
  <1>2. GateInv' /\ Minted' \cap pruned' = {}
    BY NextInv DEF GateInv, Deletions
  <1>3. RowsStand /\ cleared \subseteq cleared'
    BY AllRowsStand
  <1>4. \A i \in DOMAIN mockWrites :
          \/ mockWrites[i].token \in cleared'
          \/ i \in DOMAIN mockWrites' /\ mockWrites'[i] = mockWrites[i]
    BY <1>3 DEF RowsStand, TokensFiled
  <1>5. pruned \subseteq pruned'
    BY DEF GateNext, gateVars, Tick, Crash, Mint, Receive, Reply, Prune, ResetSandbox,
       CallStep, Load, Check, Lock, Spend, AppendWrite, ReadBack, StoreFails, deleted
  <1>6. Numbered'
    <2>1. CASE UNCHANGED mockWrites
      BY <2>1 DEF ClaimInv, Numbered
    <2>2. CASE mockWrites' = <<>>
      BY <2>2 DEF Numbered
    <2>3. ASSUME NEW c \in Calls, CallStep(c)
          PROVE  UNCHANGED mockWrites \/ AppendRow(c)
      BY <2>3 DEF CallStep, Load, Check, Lock, Spend, AppendWrite, ReadBack, StoreFails
    <2>4. \/ UNCHANGED mockWrites
          \/ mockWrites' = <<>>
          \/ \E c \in Calls : AppendRow(c)
      BY <2>3
      DEF GateNext, gateVars, Tick, Crash, Mint, Receive, Reply, Prune, ResetSandbox
    <2> QED
      BY <2>1, <2>2, <2>4, AppendNumbered
  <1> QED
    BY <1>1, <1>2, <1>3, <1>4, <1>5, <1>6 DEF Kept

\* A token that was spent stays spent, or is gone.
LEMMA StaysSpent ==
  ASSUME Kept, NEW t, t \in Minted \cup pruned,
         t \in Minted => confirmations[t].used # Unused
  PROVE  /\ t \in Minted' \cup pruned'
         /\ t \in Minted' => confirmations'[t].used # Unused
  <1>1. CASE t \in pruned
    BY <1>1 DEF Kept
  <1>2. CASE t \in Minted
    BY <1>2 DEF Kept, RowKept
  <1> QED
    BY <1>1, <1>2

\* A thread that stands still owns and names what it did.
LEMMA ClaimStill ==
  ASSUME ClaimInv, Kept, NEW d \in Calls, call'[d] = call[d]
  PROVE  Owns(d)' /\ NamesItsRow(d)'
  <1>1. Owns(d) /\ NamesItsRow(d)
    BY DEF ClaimInv
  <1>2. Owns(d)'
    BY <1>1, StaysSpent DEF Owns
  <1>3. ASSUME NEW i \in DOMAIN mockWrites, Files(d, i), call[d].token \notin cleared'
        PROVE  i \in DOMAIN mockWrites' /\ Files(d, i)'
    BY <1>3 DEF Kept, Files
  <1>4. call[d].token \in cleared => call[d].token \in cleared'
    BY DEF Kept
  <1>5. NamesItsRow(d)'
    BY <1>1, <1>3, <1>4 DEF NamesItsRow
  <1> QED
    BY <1>2, <1>5

\* A step in which every thread stands still or ends up owning nothing.
LEMMA ClaimQuiet ==
  ASSUME ClaimInv, Kept,
         \A d \in Calls : call'[d] = call[d] \/ call'[d].pc \notin Owning
  PROVE  ClaimInv'
  <1>1. ASSUME NEW d \in Calls PROVE Owns(d)' /\ NamesItsRow(d)'
    BY ClaimStill DEF Owns, NamesItsRow, Owning
  <1>2. OneOwner'
    BY DEF ClaimInv, OneOwner
  <1> QED
    BY <1>1, <1>2 DEF ClaimInv, Kept

\* A thread that owns its token already, or has just spent it, moves on.
LEMMA ClaimMove ==
  ASSUME ClaimInv, Kept, NEW c \in Calls,
         \A d \in Calls : d # c => call'[d] = call[d],
         call'[c].token = call[c].token,
         Owns(c)', NamesItsRow(c)',
         call[c].pc \in Owning \/ Spendable(call[c].token),
         pruned \cap Minted = {}
  PROVE  ClaimInv'
  <1>1. ASSUME NEW d \in Calls, d # c PROVE Owns(d)' /\ NamesItsRow(d)'
    BY <1>1, ClaimStill
  <1>2. ASSUME NEW d \in Calls, d # c, call[d].pc \in Owning
        PROVE  call[d].token # call[c].token
    BY <1>2 DEF ClaimInv, Owns, OneOwner, Spendable
  <1>3. OneOwner'
    BY <1>2 DEF ClaimInv, OneOwner
  <1> QED
    BY <1>1, <1>3 DEF ClaimInv, Kept

\* The UPDATE that affects a row makes its thread the token's owner.
LEMMA ClaimSpend ==
  ASSUME GateInv, ClaimInv, Kept, NEW c \in Calls, Spend(c)
  PROVE  ClaimInv'
  <1>1. call \in [Calls -> Threads] /\ call[c].pc = "spend"
    BY MintedRowTyped DEF Spend
  <1>2. CASE Spendable(call[c].token)
    <2>1. /\ Goto(c, "append") /\ MarkUsed(call[c].token)
          /\ UNCHANGED <<now, mockWrites, deleted>>
      BY <1>2 DEF Spend
    <2>2. /\ call'[c].pc = "append"
          /\ call'[c].token = call[c].token
          /\ \A d \in Calls : d # c => call'[d] = call[d]
      BY <1>1, <2>1, GotoFacts DEF Running
    <2>3. call[c].token \in Minted' /\ confirmations'[call[c].token].used # Unused
      BY <1>2, <2>1, MarkStep DEF Spendable
    <2>4. Owns(c)' /\ NamesItsRow(c)'
      BY <2>2, <2>3 DEF NamesItsRow, Owns
    <2> QED
      BY <1>1, <1>2, <2>2, <2>4, ClaimMove DEF GateInv, Deletions
  <1>3. CASE ~ Spendable(call[c].token)
    <2>1. Goto(c, "rejected")
      BY <1>3 DEF Spend
    <2> QED
      BY <1>1, <2>1, GotoFacts, ClaimQuiet DEF Answers, Owning
  <1> QED
    BY <1>2, <1>3

\* The INSERT leaves its thread the owner, and its row there.
LEMMA ClaimAppend ==
  ASSUME GateInv, ClaimInv, Kept, NEW c \in Calls, AppendWrite(c)
  PROVE  ClaimInv'
  <1>1. /\ call \in [Calls -> Threads]
        /\ call[c].pc = "append"
        /\ Goto(c, "readback") /\ AppendRow(c)
        /\ Owns(c)
    BY MintedRowTyped DEF AppendWrite, ClaimInv
  <1>2. /\ call'[c].pc = "readback"
        /\ call'[c].token = call[c].token
        /\ call'[c].write = call[c].write
        /\ \A d \in Calls : d # c => call'[d] = call[d]
    BY <1>1, GotoFacts DEF Running
  <1>3. Owns(c)'
    BY <1>1, <1>2, StaysSpent DEF Owns, Owning
  <1>4. PICK n : n = Len(mockWrites) + 1
    OBVIOUS
  <1>5. NamesItsRow(c)'
    <2>1. /\ n \in DOMAIN mockWrites'
          /\ mockWrites'[n].token = call[c].token
          /\ mockWrites'[n].write = call[c].write
      BY <1>1, <1>4, AppendStands
    <2>2. Files(c, n)'
      BY <1>2, <2>1 DEF Files
    <2> QED
      BY <1>2, <2>1, <2>2 DEF NamesItsRow
  <1> QED
    BY <1>1, <1>2, <1>3, <1>5, ClaimMove DEF Owning, GateInv, Deletions

\* SELECT finds the row that files the thread's write, or the reset took it.
LEMMA ClaimReadBack ==
  ASSUME GateInv, ClaimInv, Kept, NEW c \in Calls, ReadBack(c)
  PROVE  ClaimInv'
  <1> DEFINE t == call[c].token
  <1>1. /\ call \in [Calls -> Threads]
        /\ call[c] \in Threads
        /\ call[c].pc = "readback"
        /\ Owns(c) /\ NamesItsRow(c)
        /\ UNCHANGED <<confirmations, mockWrites, deleted>>
    BY MintedRowTyped DEF ReadBack, ClaimInv
  <1>2. PICK n \in IF RowsOf(t) = {} THEN {0} ELSE {mockWrites[i].number : i \in RowsOf(t)} :
          call' = [call EXCEPT ![c].pc = "created", ![c].number = n]
    BY DEF ReadBack
  <1>3. call'[c] = [call[c] EXCEPT !.pc = "created", !.number = n]
    BY <1>1, <1>2
  <1>4. /\ call'[c].pc = "created"
        /\ call'[c].number = n
        /\ call'[c].token = t
        /\ call'[c].write = call[c].write
    BY <1>1, <1>3 DEF Threads
  <1>5. \A d \in Calls : d # c => call'[d] = call[d]
    BY <1>1, <1>2
  <1>6. ASSUME t \in cleared PROVE NamesItsRow(c)'
    <2>1. call'[c].token \in cleared'
      BY <1>1, <1>4, <1>6 DEF deleted
    <2> QED
      BY <1>4, <2>1 DEF NamesItsRow
  <1>7. ASSUME t \notin cleared PROVE NamesItsRow(c)'
    <2>1. PICK i \in DOMAIN mockWrites : Files(c, i)
      BY <1>1, <1>7 DEF NamesItsRow
    <2>2. \A j \in RowsOf(t) : j = i /\ mockWrites[j].number = i
      BY <2>1 DEF RowsOf, Files, GateInv, OneWritePerToken, ClaimInv, Numbered
    <2>3. i \in RowsOf(t)
      BY <2>1 DEF RowsOf, Files
    <2>4. n = i
      BY <1>2, <2>2, <2>3
    <2>5. /\ i \in DOMAIN mockWrites'
          /\ mockWrites'[i].token = t
          /\ mockWrites'[i].write = call[c].write
      BY <1>1, <2>1 DEF Files
    <2>6. Files(c, i)' /\ call'[c].number = i
      BY <1>4, <2>4, <2>5 DEF Files
    <2> QED
      BY <1>4, <2>5, <2>6 DEF NamesItsRow, Files
  <1>8. Owns(c)'
    BY <1>1, <1>4, StaysSpent DEF Owns, Owning
  <1> QED
    BY <1>1, <1>4, <1>5, <1>6, <1>7, <1>8, ClaimMove DEF Owning, GateInv, Deletions

\* Every step keeps the owners apart and the answers true.
LEMMA ClaimStep ==
  GateInv /\ ClaimInv /\ [GateNext]_gateVars => ClaimInv'
  <1> SUFFICES ASSUME GateInv, ClaimInv, [GateNext]_gateVars PROVE ClaimInv'
    OBVIOUS
  <1>1. Kept
    BY TablesKept
  <1>2. call \in [Calls -> Threads]
    BY MintedRowTyped
  <1>3. CASE UNCHANGED call
    BY <1>1, <1>3, ClaimQuiet
  <1>4. CASE Crash
    BY <1>1, <1>4, ClaimQuiet DEF Crash, Idle, Owning
  <1>5. ASSUME NEW c \in Calls, NEW t \in Tokens \cup {NoToken}, NEW w \in Writes,
               Receive(c, t, w)
        PROVE  ClaimInv'
    BY <1>1, <1>2, <1>5, ClaimQuiet DEF Receive, Owning
  <1>6. ASSUME NEW c \in Calls, Reply(c) PROVE ClaimInv'
    BY <1>1, <1>2, <1>6, ClaimQuiet DEF Reply, Idle, Owning
  <1>7. ASSUME NEW c \in Calls, CallStep(c) PROVE ClaimInv'
    <2>1. CASE Load(c)
      <3>1. CASE call[c].token \notin Minted
        BY <1>1, <1>2, <2>1, <3>1, GotoFacts, ClaimQuiet DEF Load, Answers, Owning
      <3>2. CASE call[c].token \in Minted
        <4>1. call'[c] = [call[c] EXCEPT !.pc = "check",
                                         !.row = confirmations[call[c].token]]
          BY <1>2, <2>1, <3>2 DEF Load
        <4>2. call'[c].pc = "check"
          BY <1>2, <4>1 DEF Threads
        <4>3. \A d \in Calls : d # c => call'[d] = call[d]
          BY <1>2, <2>1, <3>2 DEF Load
        <4> QED
          BY <1>1, <4>2, <4>3, ClaimQuiet DEF Owning
      <3> QED
        BY <3>1, <3>2
    <2>2. CASE Check(c)
      <3>1. Goto(c, "lock") \/ Goto(c, "rejected")
        BY <2>2 DEF Check
      <3> QED
        BY <1>1, <1>2, <3>1, GotoFacts, ClaimQuiet DEF Answers, Running, Owning
    <2>3. CASE Lock(c)
      BY <1>1, <1>2, <2>3, GotoFacts, ClaimQuiet DEF Lock, Running, Owning
    <2>4. CASE Spend(c)
      BY <1>1, <2>4, ClaimSpend
    <2>5. CASE AppendWrite(c)
      BY <1>1, <2>5, ClaimAppend
    <2>6. CASE ReadBack(c)
      BY <1>1, <2>6, ClaimReadBack
    <2>7. CASE StoreFails(c)
      BY <1>1, <1>2, <2>7, GotoFacts, ClaimQuiet DEF StoreFails, Answers, Owning
    <2> QED
      BY <1>7, <2>1, <2>2, <2>3, <2>4, <2>5, <2>6, <2>7 DEF CallStep
  <1> QED
    BY <1>3, <1>4, <1>5, <1>6, <1>7 DEF GateNext, gateVars, Tick, Mint, ResetSandbox, Prune

\* "created" is said of a row that is there, carries the caller's token and
\* write, and is claimed by no other thread, but of a write that the reset took,
\* whatever the number of threads.
THEOREM CreatedAnswersAreTrue == GateSpec => []CreatedIsTrue
  <1>1. GateInit => ClaimInv
    BY DEF GateInit, Idle, ClaimInv, Owns, NamesItsRow, OneOwner, Numbered, Owning
  <1>2. GateInv /\ ClaimInv => CreatedIsTrue
    <2> SUFFICES ASSUME GateInv, ClaimInv, NEW c \in Calls, call[c].pc = "created"
                 PROVE  /\ \/ call[c].token \in cleared
                           \/ \E i \in DOMAIN mockWrites :
                                 /\ mockWrites[i].number = call[c].number
                                 /\ mockWrites[i].token = call[c].token
                                 /\ mockWrites[i].write = call[c].write
                        /\ \A d \in Calls \ {c} : call[d].pc = "created" =>
                               /\ call[d].token # call[c].token
                               /\ call[d].number = call[c].number =>
                                     {call[c].token, call[d].token} \cap cleared # {}
      BY DEF CreatedIsTrue
    <2>1. NamesItsRow(c) /\ Numbered
      BY DEF ClaimInv
    <2>2. ASSUME NEW d \in Calls \ {c}, call[d].pc = "created"
          PROVE  call[d].token # call[c].token
      BY <2>2 DEF ClaimInv, OneOwner, Owning
    <2>3. ASSUME NEW d \in Calls \ {c}, call[d].pc = "created",
                 call[d].number = call[c].number,
                 call[c].token \notin cleared, call[d].token \notin cleared
          PROVE  FALSE
      <3>1. NamesItsRow(d)
        BY DEF ClaimInv
      <3>2. mockWrites[call[c].number].token = call[c].token
        BY <2>1, <2>3 DEF NamesItsRow, Files
      <3>3. mockWrites[call[d].number].token = call[d].token
        BY <2>3, <3>1 DEF NamesItsRow, Files
      <3> QED
        BY <2>2, <2>3, <3>2, <3>3
    <2>4. \/ call[c].token \in cleared
          \/ \E i \in DOMAIN mockWrites :
                /\ mockWrites[i].number = call[c].number
                /\ mockWrites[i].token = call[c].token
                /\ mockWrites[i].write = call[c].write
      BY <2>1 DEF NamesItsRow, Files, Numbered
    <2> QED
      BY <2>2, <2>3, <2>4
  <1> QED
    BY <1>1, <1>2, InitInv, NextInv, ClaimStep, PTL DEF GateSpec

-----------------------------------------------------------------------------
(* The cards (ConfirmLifecycle).                                           *)

ResponseOf(t) == card[t].response
IsAnswered(t) == card[t].response \in Answered

HandlerRecord == [pc : HandlerPCs, turn : Turns \cup {NoTurn},
                  decision : Responses \cup {"none"},
                  token : Tokens \cup {NoToken}, pending : BOOLEAN,
                  ending : Settled \cup {"none"}, buffer : Buffers \cup {NoBuffer}]

CardRecord == [response : Answered \cup {"none", "pending"}, expires : Nat,
               write : Writes \cup {NoWrite}]

TurnRecord == [outcome : Outcomes, started : Times]

\* A handler with a token of its card, on its way to the gate.
Carrying == {"reopen", "adopt", "rehydrate", "discover", "resolve", "call", "called"}

\* What a handler knows: past its first read its turn has a card; past the mint
\* it carries a token of that card; once it has found the card not pending, or
\* has resolved it, the card is answered; and it closes with a stated outcome.
HandlerOK(h) ==
    /\ handler[h].pc # "off" => TurnOf(h) \in Turns /\ handler[h].decision \in Responses
    /\ handler[h].pc \notin {"off", "read"} => ResponseOf(TurnOf(h)) # "none"
    /\ handler[h].pc \in Carrying => handler[h].token \in mintedFor[TurnOf(h)]
    /\ handler[h].pc \in {"discover", "resolve"} /\ ~ handler[h].pending
            => IsAnswered(TurnOf(h))
    /\ handler[h].pc \in {"call", "called"} => IsAnswered(TurnOf(h))
    /\ handler[h].pc = "close" => handler[h].ending \in Settled

\* A turn has a card only after its POST /chat has parked it, and a card shows a
\* write.
CardOK(t) ==
    /\ t \in chatting \/ turn[t].outcome = "absent" => ResponseOf(t) = "none"
    /\ ResponseOf(t) # "none" => card[t].write \in Writes

\* A running tool call carries a token whose card is answered.
CallOK(c) ==
    call[c].pc # "idle" =>
        /\ call[c].token \in Minted
        /\ \A t \in Turns : call[c].token \in mintedFor[t] => IsAnswered(t)

\* Tokens belong to one card each.
TokensOK ==
    /\ \A t \in Turns : mintedFor[t] \subseteq Minted
    /\ \A t, u \in Turns : t # u => mintedFor[t] \cap mintedFor[u] = {}

RowsAnswered ==
    \A i \in DOMAIN mockWrites : \A t \in Turns :
        mockWrites[i].token \in mintedFor[t] => IsAnswered(t)

Shape ==
    /\ handler \in [Handlers -> HandlerRecord]
    /\ card \in [Turns -> CardRecord]
    /\ mintedFor \in [Turns -> SUBSET Tokens]
    /\ turn \in [Turns -> TurnRecord]

CoreInv ==
    /\ GateInv
    /\ Shape
    /\ \A h \in Handlers : HandlerOK(h)
    /\ \A t \in Turns : CardOK(t)
    /\ \A c \in Calls : CallOK(c)
    /\ TokensOK
    /\ RowsAnswered

SweepRecord == [pc : {"off", "list", "next", "reopen", "close"},
                todo : SUBSET Turns, turn : Turns \cup {NoTurn}]

\* The variables no safety property looks at.
RestOK ==
    /\ openTurns \in [Turns -> Buffers \cup {NoBuffer}]
    /\ live \subseteq Buffers
    /\ chatting \subseteq Turns
    /\ loop \in Handlers \cup {NoCall}
    /\ sweep \in SweepRecord
    /\ sweep.pc \in {"reopen", "close"} => sweep.turn \in Turns
    /\ faults \in 0 .. MaxFaults

LifeInv == CoreInv /\ RestOK

-----------------------------------------------------------------------------
\* Nothing is open, answered, minted or filed at first.
LEMMA LifeInitInv == LifeInit => LifeInv
  <1> SUFFICES ASSUME LifeInit PROVE LifeInv
    OBVIOUS
  <1>1. GateInv
    BY InitInv DEF LifeInit
  <1>2. Shape
    BY GateAssumption DEF LifeInit, Shape, Off, NoCard, HandlerRecord, CardRecord, HandlerPCs,
           NoBuffer, Handlers, TurnRecord, Outcomes, Times
  <1>3. \A h \in Handlers : HandlerOK(h)
    BY DEF LifeInit, HandlerOK, Off, Carrying, Handlers
  <1>4. \A t \in Turns : CardOK(t)
    BY DEF LifeInit, CardOK, NoCard, ResponseOf
  <1>5. (\A c \in Calls : CallOK(c)) /\ TokensOK /\ RowsAnswered
    BY DEF LifeInit, GateInit, Idle, CallOK, TokensOK, RowsAnswered
  <1>6. RestOK
    BY LifecycleAssumption DEF LifeInit, RestOK, NotSwept, SweepRecord, NoBuffer,
       Handlers
  <1> QED
    BY <1>1, <1>2, <1>3, <1>4, <1>5, <1>6 DEF LifeInv, CoreInv

-----------------------------------------------------------------------------
\* Every step of the system is a step of the gate, or none.
LEMMA StepOfGate ==
  ASSUME LifeInv, LifeNext
  PROVE  [GateNext]_gateVars
  <1> USE DEF Handlers
  <1>1. ASSUME NEW h \in Handlers, MintToken(h) PROVE GateNext
    <2>1. PICK tok \in Tokens : Mint(tok, card[TurnOf(h)].write, handler[h].decision)
      BY <1>1 DEF MintToken, MintFor
    <2>2. HandlerOK(h) /\ handler[h].pc = "mint"
      BY <1>1 DEF LifeInv, CoreInv, MintToken, At
    <2>3. card[TurnOf(h)].write \in Writes /\ handler[h].decision \in Responses
      BY <2>2 DEF LifeInv, CoreInv, HandlerOK, CardOK
    <2> QED
      BY <2>1, <2>3 DEF GateNext
  <1>2. ASSUME NEW h \in Handlers, IssueCall(h) PROVE GateNext
    <2>1. HandlerOK(h) /\ handler[h].pc = "call"
      BY <1>2 DEF LifeInv, CoreInv, IssueCall, At
    <2>2. card[TurnOf(h)].write \in Writes
      BY <2>1 DEF LifeInv, CoreInv, HandlerOK, CardOK
    <2>3. handler[h].token \in Tokens \cup {NoToken}
      BY DEF LifeInv, CoreInv, Shape, HandlerRecord
    <2> QED
      BY <1>2, <2>2, <2>3 DEF IssueCall, GateNext
  <1>3. ASSUME NEW h \in Handlers, CallReturns(h) \/ OrphanReply(h) PROVE GateNext
    BY <1>3 DEF CallReturns, OrphanReply, GateNext
  <1>4. ASSUME NEW h \in Handlers, GateStep(h) PROVE GateNext
    BY <1>4 DEF GateStep, GateNext, CallStep
  <1>5. CASE ClockTick \/ Restart
    BY <1>5 DEF ClockTick, Restart, GateNext
  <1>6. ASSUME NEW h \in Handlers, HandlerStep(h) \/ Await(h)
        PROVE  GateNext \/ UNCHANGED gateVars
    BY <1>1, <1>2, <1>3, <1>6 DEF HandlerStep, Await, Read, Reopen, Adopt,
       Rehydrate, Discover, Resolve, CallLost, Synthesize, Close, Unhandled,
       HandlerFails, ExpireCard, ExpireReopen, ExpireClose
  <1>7. CASE SweepStep
    BY <1>7 DEF SweepStep, SweepStale, SweepList, SweepReopen, SweepClose,
       SweepDone, SweepFails, SweepExpire
  <1>8. ASSUME NEW t \in Turns, StartTurn(t) \/ ChatStep(t) PROVE UNCHANGED gateVars
    BY <1>8 DEF StartTurn, ChatStep, EndChat, Park
  <1>9. ASSUME NEW h \in Handlers, NEW t \in Turns, NEW d \in Responses, Post(h, t, d)
        PROVE  UNCHANGED gateVars
    BY <1>9 DEF Post
  <1> QED
    BY <1>3, <1>4, <1>5, <1>6, <1>7, <1>8, <1>9 DEF LifeNext

-----------------------------------------------------------------------------
\* What a step may do to the cards: an answer stays, and no card disappears.
Advance ==
    /\ Shape'
    /\ \A t \in Turns : /\ IsAnswered(t) => IsAnswered(t)'
                        /\ ResponseOf(t) # "none" => ResponseOf(t)' # "none"
                        /\ mintedFor[t] \subseteq mintedFor'[t]

\* A handler that stands still still knows what it knew, when the tables advance.
LEMMA OthersStay ==
  ASSUME LifeInv, Advance, NEW g \in Handlers, handler'[g] = handler[g]
  PROVE  HandlerOK(g)'
  <1>1. HandlerOK(g)
    BY DEF LifeInv, CoreInv
  <1>2. handler[g].pc # "off" => TurnOf(g) \in Turns /\ TurnOf(g)' = TurnOf(g)
    BY <1>1 DEF HandlerOK, TurnOf
  <1>3. CASE handler[g].pc = "off"
    BY <1>3 DEF HandlerOK, Carrying
  <1>4. CASE handler[g].pc # "off"
    BY <1>1, <1>2, <1>4 DEF HandlerOK, Advance, TurnOf, IsAnswered, ResponseOf, Answered
  <1> QED
    BY <1>3, <1>4

\* The calls, the rows and the tokens when no token is minted and no call made.
LEMMA GateStays ==
  ASSUME LifeInv, Advance, GateInv', mintedFor' = mintedFor, Minted \subseteq Minted',
         \A c \in Calls : call'[c].pc # "idle" =>
             call[c].pc # "idle" /\ call'[c].token = call[c].token
  PROVE  /\ \A c \in Calls : CallOK(c)'
         /\ TokensOK'
  <1>1. \A c \in Calls : CallOK(c)
    BY DEF LifeInv, CoreInv
  <1>2. ASSUME NEW c \in Calls PROVE CallOK(c)'
    BY <1>1 DEF CallOK, Advance
  <1>3. TokensOK'
    BY DEF LifeInv, CoreInv, TokensOK
  <1> QED
    BY <1>2, <1>3

\* Rows of mock_writes stay answered while cards and tokens advance.
LEMMA RowsStay ==
  ASSUME LifeInv, Advance, mockWrites' = mockWrites, mintedFor' = mintedFor
  PROVE  RowsAnswered'
  BY DEF LifeInv, CoreInv, RowsAnswered, Advance

\* Settling one turn's outcome makes no other turn disappear.
LEMMA OutcomeSet ==
  ASSUME turn \in [Turns -> TurnRecord], NEW t \in Turns,
         NEW o \in Outcomes \ {"absent"}, SetOutcome(t, o)
  PROVE  /\ turn' \in [Turns -> TurnRecord]
         /\ \A u \in Turns : turn'[u].outcome = "absent" => turn[u].outcome = "absent"
  <1>1. turn'[t] = [turn[t] EXCEPT !.outcome = o]
    BY DEF SetOutcome
  <1>2. turn'[t] \in TurnRecord /\ turn'[t].outcome = o
    BY <1>1 DEF TurnRecord
  <1>3. \A u \in Turns : u # t => turn'[u] = turn[u]
    BY DEF SetOutcome
  <1>4. turn' \in [Turns -> TurnRecord]
    BY <1>2, <1>3 DEF SetOutcome
  <1> QED
    BY <1>2, <1>3, <1>4

\* A step that leaves the gate alone and at most answers a card and moves a turn.
LEMMA TablesMove ==
  ASSUME LifeInv, UNCHANGED <<gateVars, mintedFor>>, chatting' \subseteq chatting,
         handler' \in [Handlers -> HandlerRecord],
         card' = card \/ \E r \in Answered, t \in Turns : Answer(t, r),
         turn' \in [Turns -> TurnRecord],
         \A t \in Turns : turn'[t].outcome = "absent" => turn[t].outcome = "absent",
         Advance => \A g \in Handlers : HandlerOK(g)'
  PROVE  CoreInv'
  <1>1. GateInv'
    BY NextInv DEF LifeInv, CoreInv
  <1>2. card' \in [Turns -> CardRecord] /\
        \A t \in Turns : /\ IsAnswered(t) => IsAnswered(t)'
                         /\ (ResponseOf(t) = "none") = (ResponseOf(t)' = "none")
                         /\ card'[t].write = card[t].write
    <2>1. CASE card' = card
      BY <2>1 DEF LifeInv, CoreInv, Shape, IsAnswered, ResponseOf
    <2>2. ASSUME NEW r \in Answered, NEW t \in Turns, Answer(t, r),
                 card[t].response = "pending"
          PROVE  /\ card' \in [Turns -> CardRecord]
                 /\ \A u \in Turns : u # t => card'[u] = card[u]
                 /\ card'[t].response = r
                 /\ card'[t].write = card[t].write
      <3>1. card' = [card EXCEPT ![t].response = r]
        BY <2>2 DEF Answer
      <3>2. card[t] \in CardRecord /\ card \in [Turns -> CardRecord]
        BY DEF LifeInv, CoreInv, Shape
      <3>3. card'[t] = [card[t] EXCEPT !.response = r]
        BY <3>1, <3>2
      <3>4. /\ card'[t] \in CardRecord
            /\ card'[t].response = r
            /\ card'[t].write = card[t].write
        BY <3>2, <3>3 DEF CardRecord
      <3> QED
        BY <3>1, <3>2, <3>4
    <2>3. ASSUME NEW r \in Answered, NEW t \in Turns, Answer(t, r),
                 card[t].response # "pending"
          PROVE  card' = card
      BY <2>3 DEF Answer
    <2>4. ASSUME NEW r \in Answered, NEW t \in Turns, Answer(t, r),
                 card[t].response = "pending"
          PROVE  \A u \in Turns : /\ IsAnswered(u) => IsAnswered(u)'
                                  /\ (ResponseOf(u) = "none") = (ResponseOf(u)' = "none")
                                  /\ card'[u].write = card[u].write
      BY <2>2, <2>4 DEF IsAnswered, ResponseOf, Answered
    <2> QED
      BY <2>1, <2>2, <2>3, <2>4
  <1>3. Shape' /\ Advance
    BY <1>2 DEF LifeInv, CoreInv, Shape, Advance
  <1>4. \A t \in Turns : CardOK(t)'
    BY <1>2 DEF LifeInv, CoreInv, CardOK, ResponseOf
  <1>5. (\A c \in Calls : CallOK(c)') /\ TokensOK' /\ RowsAnswered'
    BY <1>1, <1>3, GateStays, RowsStay DEF gateVars, Minted
  <1> QED
    BY <1>1, <1>3, <1>4, <1>5 DEF CoreInv

\* One handler moves, and the cards and turns advance: the core is kept.
LEMMA HandlerMoves ==
  ASSUME LifeInv, NEW h \in Handlers, UNCHANGED <<gateVars, mintedFor, chatting>>,
         handler' \in [Handlers -> HandlerRecord],
         \A g \in Handlers : g # h => handler'[g] = handler[g],
         card' = card \/ \E r \in Answered, t \in Turns : Answer(t, r),
         turn' = turn \/ \E t \in Turns, o \in Outcomes \ {"absent"} : SetOutcome(t, o),
         Advance => HandlerOK(h)'
  PROVE  CoreInv'
  <1>1. /\ turn' \in [Turns -> TurnRecord]
        /\ \A t \in Turns : turn'[t].outcome = "absent" => turn[t].outcome = "absent"
    BY OutcomeSet DEF LifeInv, CoreInv, Shape
  <1>2. Advance => \A g \in Handlers : HandlerOK(g)'
    BY OthersStay
  <1> QED
    BY <1>1, <1>2, TablesMove

-----------------------------------------------------------------------------
\* What the handler's moves do to its record.
LEMMA GoFacts ==
  ASSUME handler \in [Handlers -> HandlerRecord], NEW h \in Handlers,
         NEW pc \in HandlerPCs, Go(h, pc)
  PROVE  /\ handler' \in [Handlers -> HandlerRecord]
         /\ \A g \in Handlers : g # h => handler'[g] = handler[g]
         /\ handler'[h].pc = pc
         /\ handler'[h].turn = handler[h].turn
         /\ handler'[h].decision = handler[h].decision
         /\ handler'[h].token = handler[h].token
         /\ handler'[h].pending = handler[h].pending
  <1>1. handler'[h] = [handler[h] EXCEPT !.pc = pc]
    BY DEF Go
  <1>2. handler[h] \in HandlerRecord
    OBVIOUS
  <1>3. /\ handler'[h] \in HandlerRecord
        /\ handler'[h].pc = pc
        /\ handler'[h].turn = handler[h].turn
        /\ handler'[h].decision = handler[h].decision
        /\ handler'[h].token = handler[h].token
        /\ handler'[h].pending = handler[h].pending
    BY ZenonT(40), <1>1, <1>2 DEF HandlerRecord
  <1>4. \A g \in Handlers : g # h => handler'[g] = handler[g]
    BY DEF Go
  <1>5. handler' \in [Handlers -> HandlerRecord]
    BY <1>3, <1>4 DEF Go
  <1> QED
    BY <1>3, <1>4, <1>5

\* Adding a span moves one handler, to the error path if its buffer is closed.
LEMMA RecordFacts ==
  ASSUME handler \in [Handlers -> HandlerRecord], NEW h \in Handlers,
         NEW pc \in HandlerPCs, NEW o \in Settled \cup {"none"}, Record(h, pc, o)
  PROVE  /\ handler' \in [Handlers -> HandlerRecord]
         /\ \A g \in Handlers : g # h => handler'[g] = handler[g]
         /\ handler'[h].pc \in {pc, "error"}
         /\ handler'[h].turn = handler[h].turn
         /\ handler'[h].decision = handler[h].decision
         /\ handler'[h].token = handler[h].token
         /\ handler'[h].pending = handler[h].pending
         /\ handler'[h].ending = o
  <1> DEFINE to == IF handler[h].buffer \in live THEN pc ELSE "error"
  <1>1. handler'[h] = [handler[h] EXCEPT !.pc = to, !.ending = o]
    BY DEF Record
  <1>2. handler[h] \in HandlerRecord /\ to \in HandlerPCs /\ to \in {pc, "error"}
    BY DEF HandlerPCs
  <1>3. /\ handler'[h] \in HandlerRecord
        /\ handler'[h].pc = to
        /\ handler'[h].turn = handler[h].turn
        /\ handler'[h].decision = handler[h].decision
        /\ handler'[h].token = handler[h].token
        /\ handler'[h].pending = handler[h].pending
        /\ handler'[h].ending = o
    BY ZenonT(40), <1>1, <1>2 DEF HandlerRecord
  <1>4. \A g \in Handlers : g # h => handler'[g] = handler[g]
    BY DEF Record
  <1>5. handler' \in [Handlers -> HandlerRecord]
    BY <1>3, <1>4 DEF Record
  <1> QED
    BY <1>2, <1>3, <1>4, <1>5

\* A handler that leaves knows nothing and owes nothing.
LEMMA LeaveFacts ==
  ASSUME handler \in [Handlers -> HandlerRecord], NEW h \in Handlers, Leave(h)
  PROVE  /\ handler' \in [Handlers -> HandlerRecord]
         /\ \A g \in Handlers : g # h => handler'[g] = handler[g]
         /\ HandlerOK(h)'
  <1>1. Off \in HandlerRecord
    BY DEF Off, HandlerRecord, HandlerPCs, NoBuffer
  <1>2. handler'[h] = Off
    BY DEF Leave
  <1>3. HandlerOK(h)'
    BY <1>2 DEF HandlerOK, Off, Carrying
  <1> QED
    BY <1>1, <1>3 DEF Leave

\* A handler past its first read that goes somewhere it needs to know no more
\* than it does.
LEMMA Keeps ==
  ASSUME LifeInv, Advance, NEW h \in Handlers,
         handler[h].pc \notin {"off", "read"},
         handler'[h].turn = handler[h].turn,
         handler'[h].decision = handler[h].decision,
         handler'[h].token = handler[h].token,
         handler'[h].pc \in Carrying => handler[h].pc \in Carrying,
         handler'[h].pc \in {"discover", "resolve"} /\ ~ handler'[h].pending
            => IsAnswered(TurnOf(h))',
         handler'[h].pc \in {"call", "called"} => IsAnswered(TurnOf(h))',
         handler'[h].pc = "close" => handler'[h].ending \in Settled
  PROVE  HandlerOK(h)'
  <1>1. HandlerOK(h)
    BY DEF LifeInv, CoreInv
  <1>2. TurnOf(h) \in Turns /\ TurnOf(h)' = TurnOf(h)
    BY <1>1 DEF HandlerOK, TurnOf
  <1> QED
    BY <1>1, <1>2 DEF HandlerOK, Advance, ResponseOf, TurnOf

-----------------------------------------------------------------------------
\* The steps of a handler that leave the gate alone.
LEMMA CloseOutcome ==
  ASSUME NEW t \in Turns, NEW b, NEW o \in Settled,
         CloseBuffer(t, b, o) \/ CloseLost(t, b)
  PROVE  turn' = turn \/ \E r \in Outcomes \ {"absent"} : SetOutcome(t, r)
  BY DEF CloseBuffer, CloseLost, Outcomes, Settled

\* The first read of the card and the turn.
LEMMA ReadStep ==
  ASSUME LifeInv, NEW h \in Handlers, Read(h)
  PROVE  CoreInv'
  <1>1. handler \in [Handlers -> HandlerRecord] /\ HandlerOK(h)
    BY DEF LifeInv, CoreInv, Shape
  <1>2. CASE Leave(h)
    BY <1>1, <1>2, LeaveFacts, HandlerMoves DEF Read, tables
  <1>3. ASSUME NEW pc \in {"expire", "mint"}, Go(h, pc), Answerable(TurnOf(h))
        PROVE  CoreInv'
    <2>1. pc \in HandlerPCs
      BY DEF HandlerPCs
    <2>2. Advance => HandlerOK(h)'
      BY <1>1, <1>3, <2>1, GoFacts DEF HandlerOK, Advance, TurnOf, ResponseOf,
         Answerable, Carrying, Read, At
    <2> QED
      BY <1>1, <1>3, <2>1, <2>2, GoFacts, HandlerMoves DEF Read, tables
  <1> QED
    BY <1>2, <1>3 DEF Read

\* POST /confirm starts a handler that knows nothing yet.
LEMMA PostStep ==
  ASSUME LifeInv, NEW h \in Handlers, NEW t \in Turns, NEW d \in Responses,
         Post(h, t, d)
  PROVE  CoreInv'
  <1>1. handler \in [Handlers -> HandlerRecord]
    BY DEF LifeInv, CoreInv, Shape
  <1> DEFINE new == [Off EXCEPT !.pc = "read", !.turn = t, !.decision = d]
  <1>2. /\ new \in HandlerRecord
        /\ new.pc = "read" /\ new.turn = t /\ new.decision = d
    BY DEF Off, HandlerRecord, HandlerPCs, NoBuffer
  <1>3. /\ handler'[h] = new
        /\ \A g \in Handlers : g # h => handler'[g] = handler[g]
        /\ handler' \in [Handlers -> HandlerRecord]
    BY <1>1, <1>2 DEF Post
  <1>4. HandlerOK(h)'
    BY <1>2, <1>3 DEF HandlerOK, TurnOf, Carrying
  <1> QED
    BY <1>3, <1>4, HandlerMoves DEF Post, tables

\* A turn is reopened for the handler that answers its card.
LEMMA ReopenStep ==
  ASSUME LifeInv, NEW h \in Handlers, Reopen(h)
  PROVE  CoreInv'
  <1>1. /\ handler \in [Handlers -> HandlerRecord] /\ HandlerOK(h)
        /\ handler[h].pc = "reopen" /\ TurnOf(h) \in Turns
    BY DEF LifeInv, CoreInv, Shape, Reopen, At, HandlerOK
  <1>2. SetOutcome(TurnOf(h), "open") /\ "open" \in Outcomes \ {"absent"}
    BY DEF Reopen, ReopenTurn, Outcomes
  <1>3. CASE Leave(h)
    BY <1>1, <1>2, <1>3, LeaveFacts, HandlerMoves DEF Reopen
  <1>4. CASE Go(h, "adopt")
    <2>1. "adopt" \in HandlerPCs
      BY DEF HandlerPCs
    <2>2. Advance => HandlerOK(h)'
      BY <1>1, <1>4, <2>1, GoFacts, Keeps DEF Carrying
    <2> QED
      BY <1>1, <1>2, <1>4, <2>1, <2>2, GoFacts, HandlerMoves DEF Reopen
  <1> QED
    BY <1>3, <1>4 DEF Reopen

\* A handler takes up the registered buffer.
LEMMA AdoptStep ==
  ASSUME LifeInv, NEW h \in Handlers, Adopt(h)
  PROVE  CoreInv'
  <1>1. /\ handler \in [Handlers -> HandlerRecord] /\ HandlerOK(h)
        /\ handler[h] \in HandlerRecord
        /\ handler[h].pc = "adopt" /\ TurnOf(h) \in Turns
    BY DEF LifeInv, CoreInv, Shape, Adopt, At, HandlerOK
  <1>2. turn' = turn \/ \E o \in Outcomes \ {"absent"} : SetOutcome(TurnOf(h), o)
    BY DEF Adopt, ReopenTurn, Outcomes
  <1>3. PICK b : handler' = [handler EXCEPT ![h].pc = "rehydrate", ![h].buffer = b]
                 /\ b \in Buffers \cup {NoBuffer}
    <2>1. openTurns[TurnOf(h)] \in live => openTurns[TurnOf(h)] \in Buffers
      BY DEF LifeInv, RestOK
    <2> QED
      BY <2>1 DEF Adopt, Buffers
  <1>4. /\ handler'[h] = [handler[h] EXCEPT !.pc = "rehydrate", !.buffer = b]
        /\ \A g \in Handlers : g # h => handler'[g] = handler[g]
    BY <1>1, <1>3
  <1>5. /\ handler'[h] \in HandlerRecord
        /\ handler'[h].pc = "rehydrate"
        /\ handler'[h].turn = handler[h].turn
        /\ handler'[h].decision = handler[h].decision
        /\ handler'[h].token = handler[h].token
    BY <1>1, <1>3, <1>4 DEF HandlerRecord, HandlerPCs
  <1>6. handler' \in [Handlers -> HandlerRecord]
    BY <1>1, <1>3, <1>5
  <1>7. Advance => HandlerOK(h)'
    BY <1>1, <1>5, Keeps DEF Carrying
  <1> QED
    BY <1>1, <1>2, <1>4, <1>6, <1>7, HandlerMoves DEF Adopt

\* A handler reads again whether its card is still pending.
LEMMA RehydrateStep ==
  ASSUME LifeInv, NEW h \in Handlers, Rehydrate(h)
  PROVE  CoreInv'
  <1> DEFINE to == IF handler[h].decision = "confirmed" THEN "discover" ELSE "resolve"
             found == card[TurnOf(h)].response = "pending"
  <1>1. /\ handler \in [Handlers -> HandlerRecord] /\ HandlerOK(h)
        /\ handler[h] \in HandlerRecord
        /\ handler[h].pc = "rehydrate" /\ TurnOf(h) \in Turns
        /\ card[TurnOf(h)] \in CardRecord
    BY DEF LifeInv, CoreInv, Shape, Rehydrate, At, HandlerOK
  <1>2. /\ handler'[h] = [handler[h] EXCEPT !.pc = to, !.pending = found]
        /\ \A g \in Handlers : g # h => handler'[g] = handler[g]
    BY <1>1 DEF Rehydrate
  <1>3. /\ handler'[h] \in HandlerRecord
        /\ handler'[h].pc = to
        /\ handler'[h].pending = found
        /\ handler'[h].turn = handler[h].turn
        /\ handler'[h].decision = handler[h].decision
        /\ handler'[h].token = handler[h].token
    BY <1>1, <1>2 DEF HandlerRecord, HandlerPCs
  <1>4. handler' \in [Handlers -> HandlerRecord]
    BY <1>1, <1>3 DEF Rehydrate
  <1>5. ~ found => IsAnswered(TurnOf(h))
    BY <1>1 DEF HandlerOK, ResponseOf, IsAnswered, CardRecord
  <1>6. UNCHANGED card /\ TurnOf(h)' = TurnOf(h)
    BY <1>3 DEF Rehydrate, tables, TurnOf
  <1>7. Advance => HandlerOK(h)'
    BY <1>1, <1>3, <1>5, <1>6, Keeps DEF Carrying, IsAnswered
  <1> QED
    BY <1>1, <1>2, <1>4, <1>6, <1>7, HandlerMoves DEF Rehydrate, tables

\* A handler asks for the tools before it records the answer.
LEMMA DiscoverStep ==
  ASSUME LifeInv, NEW h \in Handlers, Discover(h)
  PROVE  CoreInv'
  <1>1. /\ handler \in [Handlers -> HandlerRecord] /\ HandlerOK(h)
        /\ handler[h].pc = "discover" /\ TurnOf(h) \in Turns
    BY DEF LifeInv, CoreInv, Shape, Discover, At, HandlerOK
  <1>2. {"resolve", "close", "error"} \subseteq HandlerPCs /\ "partial" \in Settled
    BY DEF HandlerPCs, Settled
  <1>3. CASE Go(h, "resolve")
    <2>1. /\ handler'[h].turn = handler[h].turn
          /\ handler'[h].pending = handler[h].pending
          /\ UNCHANGED card
      BY <1>1, <1>2, <1>3, GoFacts DEF Discover, tables
    <2>2. ~ handler'[h].pending => IsAnswered(TurnOf(h))'
      BY <1>1, <2>1 DEF HandlerOK, IsAnswered, TurnOf
    <2>3. Advance => HandlerOK(h)'
      BY <1>1, <1>2, <1>3, <2>2, GoFacts, Keeps DEF Carrying
    <2> QED
      BY <1>1, <1>2, <1>3, <2>3, GoFacts, HandlerMoves DEF Discover, tables
  <1>4. CASE End(h, "partial")
    <2>1. Advance => HandlerOK(h)'
      BY <1>1, <1>2, <1>4, RecordFacts, Keeps DEF Carrying, End
    <2> QED
      BY <1>1, <1>2, <1>4, <2>1, RecordFacts, HandlerMoves DEF Discover, tables, End
  <1> QED
    BY <1>3, <1>4 DEF Discover

\* The answer is recorded on the card before any call is issued.
LEMMA ResolveStep ==
  ASSUME LifeInv, NEW h \in Handlers, Resolve(h)
  PROVE  CoreInv'
  <1>1. /\ handler \in [Handlers -> HandlerRecord] /\ HandlerOK(h)
        /\ handler[h].pc = "resolve" /\ TurnOf(h) \in Turns
        /\ handler[h].decision \in Answered
        /\ card \in [Turns -> CardRecord]
    BY DEF LifeInv, CoreInv, Shape, Resolve, At, HandlerOK, Responses, Answered
  <1>2. PICK pc \in {"call", "answer", "error"} : Go(h, pc)
    BY DEF Resolve, AfterResolve
  <1>3. pc \in HandlerPCs
    BY DEF HandlerPCs
  <1>4. IsAnswered(TurnOf(h))'
    <2> DEFINE t == TurnOf(h)
    <2>1. t' = t
      BY <1>1, <1>2, <1>3, GoFacts DEF TurnOf
    <2>2. CASE handler[h].pending /\ card[t].response = "pending"
      <3>1. card'[t].response = handler[h].decision
        <4>1. card' = [card EXCEPT ![t].response = handler[h].decision]
          BY <2>2 DEF Resolve, Answer
        <4>2. card'[t] = [card[t] EXCEPT !.response = handler[h].decision]
          BY <1>1, <4>1
        <4> QED
          BY <1>1, <4>2 DEF CardRecord
      <3> QED
        BY <1>1, <2>1, <3>1 DEF IsAnswered
    <2>3. CASE handler[h].pending /\ card[t].response # "pending"
      <3>1. card' = card
        BY <2>3 DEF Resolve, Answer
      <3>2. card[t].response \in Answered
        BY <1>1, <2>3 DEF HandlerOK, ResponseOf, CardRecord
      <3> QED
        BY <2>1, <3>1, <3>2 DEF IsAnswered
    <2>4. CASE ~ handler[h].pending
      BY <1>1, <2>1, <2>4 DEF Resolve, HandlerOK, IsAnswered
    <2> QED
      BY <2>2, <2>3, <2>4
  <1>5. Advance => HandlerOK(h)'
    <2>1. TurnOf(h)' = TurnOf(h)
      BY <1>1, <1>2, <1>3, GoFacts DEF TurnOf
    <2> QED
      BY <1>1, <1>2, <1>3, <1>4, <2>1, GoFacts, Keeps DEF Carrying
  <1>6. card' = card \/ \E r \in Answered, t \in Turns : Answer(t, r)
    BY <1>1 DEF Resolve
  <1> QED
    BY <1>1, <1>2, <1>3, <1>5, <1>6, GoFacts, HandlerMoves DEF Resolve

\* A lost call or a synthesis ends the turn and touches no table of the gate.
LEMMA EndingStep ==
  ASSUME LifeInv, NEW h \in Handlers, CallLost(h) \/ Synthesize(h)
  PROVE  CoreInv'
  <1>1. /\ handler \in [Handlers -> HandlerRecord] /\ HandlerOK(h)
        /\ handler[h].pc \in {"call", "called", "answer"}
    BY DEF LifeInv, CoreInv, Shape, CallLost, Synthesize, At
  <1>2. "close" \in HandlerPCs /\ Settled \subseteq Settled \cup {"none"}
    BY DEF HandlerPCs
  <1>3. PICK o \in Settled : End(h, o)
    BY DEF CallLost, Synthesize, Settled
  <1>4. Advance => HandlerOK(h)'
    BY <1>1, <1>2, <1>3, RecordFacts, Keeps DEF Carrying, End
  <1>5. UNCHANGED <<gateVars, tables, chatting>>
    BY DEF CallLost, Synthesize
  <1> QED
    BY <1>1, <1>2, <1>3, <1>4, <1>5, RecordFacts, HandlerMoves DEF tables, End

\* A handler closes its turn, or fails to, and leaves.
LEMMA LeavingStep ==
  ASSUME LifeInv, NEW h \in Handlers, Close(h) \/ Unhandled(h) \/ ExpireClose(h)
  PROVE  CoreInv'
  <1>1. /\ handler \in [Handlers -> HandlerRecord] /\ HandlerOK(h)
        /\ handler[h] \in HandlerRecord
        /\ handler[h].pc \in {"close", "error", "expireClose"}
        /\ TurnOf(h) \in Turns
    BY DEF LifeInv, CoreInv, Shape, Close, Unhandled, ExpireClose, At, HandlerOK
  <1>2. Leave(h) /\ UNCHANGED <<gateVars, card, mintedFor, chatting>>
    BY DEF Close, Unhandled, ExpireClose
  <1>3. turn' = turn \/ \E t \in Turns, r \in Outcomes \ {"absent"} : SetOutcome(t, r)
    <2>1. \E o \in Settled : \E b : CloseBuffer(TurnOf(h), b, o) \/ CloseLost(TurnOf(h), b)
      <3>1. handler[h].pc = "close" => handler[h].ending \in Settled
        BY <1>1 DEF HandlerOK
      <3>2. "error" \in Settled /\ "expired" \in Settled
        BY DEF Settled
      <3>3. CASE Close(h)
        BY <3>1, <3>2, <3>3 DEF Close, At
      <3>4. CASE Unhandled(h)
        BY <3>2, <3>4 DEF Unhandled
      <3>5. CASE ExpireClose(h)
        BY <3>2, <3>5 DEF ExpireClose
      <3> QED
        BY <3>3, <3>4, <3>5
    <2> QED
      BY <1>1, <2>1, CloseOutcome
  <1> QED
    BY <1>1, <1>2, <1>3, LeaveFacts, HandlerMoves

\* A handler that fails goes to the error path or leaves.
LEMMA FailingStep ==
  ASSUME LifeInv, NEW h \in Handlers, HandlerFails(h) \/ Await(h)
  PROVE  CoreInv'
  <1>1. /\ handler \in [Handlers -> HandlerRecord] /\ HandlerOK(h)
        /\ UNCHANGED <<gateVars, tables, chatting>>
    BY DEF LifeInv, CoreInv, Shape, HandlerFails, Await
  <1>2. CASE Leave(h)
    BY <1>1, <1>2, LeaveFacts, HandlerMoves DEF tables
  <1>3. CASE Go(h, "error") /\ handler[h].pc \notin {"off", "read"}
    <2>1. "error" \in HandlerPCs
      BY DEF HandlerPCs
    <2>2. Advance => HandlerOK(h)'
      BY <1>1, <1>3, <2>1, GoFacts, Keeps DEF Carrying
    <2> QED
      BY <1>1, <1>3, <2>1, <2>2, GoFacts, HandlerMoves DEF tables
  <1>4. CASE handler' = handler
    BY <1>1, <1>4, OthersStay, HandlerMoves DEF tables
  <1> QED
    BY <1>2, <1>3, <1>4 DEF HandlerFails, Await

\* The expiring branch of a handler answers the card and mints nothing.
LEMMA ExpiringStep ==
  ASSUME LifeInv, NEW h \in Handlers, ExpireCard(h) \/ ExpireReopen(h)
  PROVE  CoreInv'
  <1>1. /\ handler \in [Handlers -> HandlerRecord] /\ HandlerOK(h)
        /\ handler[h].pc \in {"expire", "expireReopen"} /\ TurnOf(h) \in Turns
        /\ UNCHANGED <<gateVars, mintedFor, chatting>>
    BY DEF LifeInv, CoreInv, Shape, ExpireCard, ExpireReopen, At, HandlerOK
  <1>2. card' = card \/ \E r \in Answered, t \in Turns : Answer(t, r)
    BY <1>1 DEF ExpireCard, ExpireReopen, Answered
  <1>3. turn' = turn \/ \E t \in Turns, o \in Outcomes \ {"absent"} : SetOutcome(t, o)
    BY <1>1 DEF ExpireCard, ExpireReopen, ReopenTurn, Outcomes
  <1>4. CASE Leave(h)
    BY <1>1, <1>2, <1>3, <1>4, LeaveFacts, HandlerMoves
  <1>5. ASSUME NEW pc \in {"expireReopen", "expireClose"}, Go(h, pc)
        PROVE  CoreInv'
    <2>1. pc \in HandlerPCs
      BY DEF HandlerPCs
    <2>2. Advance => HandlerOK(h)'
      BY <1>1, <1>5, <2>1, GoFacts, Keeps DEF Carrying
    <2> QED
      BY <1>1, <1>2, <1>3, <1>5, <2>1, <2>2, GoFacts, HandlerMoves
  <1> QED
    BY <1>4, <1>5 DEF ExpireCard, ExpireReopen

-----------------------------------------------------------------------------
\* The steps that meet the gate.
LEMMA MintTokenStep ==
  ASSUME LifeInv, GateInv', NEW h \in Handlers, MintToken(h)
  PROVE  CoreInv'
  <1> DEFINE T == TurnOf(h)
  <1>1. PICK tok \in Tokens :
          /\ MintFor(h, tok)
          /\ \/ handler' = [handler EXCEPT ![h].pc = "reopen", ![h].token = tok]
             \/ Leave(h)
    BY DEF MintToken
  <1>2. /\ handler \in [Handlers -> HandlerRecord] /\ HandlerOK(h)
        /\ handler[h] \in HandlerRecord
        /\ handler[h].pc = "mint" /\ T \in Turns
        /\ mintedFor \in [Turns -> SUBSET Tokens]
    BY DEF LifeInv, CoreInv, Shape, MintToken, At, HandlerOK
  <1>3. /\ tok \in Fresh /\ tok \notin Minted
        /\ Minted' = Minted \cup {tok}
        /\ UNCHANGED <<call, mockWrites, turn, card, chatting>>
    BY <1>1 DEF MintFor, Mint, Fresh, Minted, MintToken
  <1>4. /\ mintedFor' \in [Turns -> SUBSET Tokens]
        /\ mintedFor'[T] = mintedFor[T] \cup {tok}
        /\ \A t \in Turns : t # T => mintedFor'[t] = mintedFor[t]
    BY <1>1, <1>2 DEF MintFor
  <1>5. handler' \in [Handlers -> HandlerRecord]
        /\ \A g \in Handlers : g # h => handler'[g] = handler[g]
    <2>1. CASE Leave(h)
      BY <1>2, <2>1, LeaveFacts
    <2>2. CASE handler' = [handler EXCEPT ![h].pc = "reopen", ![h].token = tok]
      <3>1. handler'[h] = [handler[h] EXCEPT !.pc = "reopen", !.token = tok]
        BY <1>2, <2>2
      <3>2. handler'[h] \in HandlerRecord
        BY <1>2, <3>1 DEF HandlerRecord, HandlerPCs
      <3> QED
        BY <1>2, <2>2, <3>2
    <2> QED
      BY <1>1, <2>1, <2>2
  <1>6. Shape' /\ Advance
    BY <1>3, <1>4, <1>5 DEF LifeInv, CoreInv, Shape, Advance, IsAnswered, ResponseOf
  <1>7. HandlerOK(h)'
    <2>1. CASE Leave(h)
      BY <1>2, <2>1, LeaveFacts
    <2>2. CASE handler' = [handler EXCEPT ![h].pc = "reopen", ![h].token = tok]
      <3>1. handler'[h] = [handler[h] EXCEPT !.pc = "reopen", !.token = tok]
        BY <1>2, <2>2
      <3>2. /\ handler'[h].pc = "reopen" /\ handler'[h].token = tok
            /\ handler'[h].turn = handler[h].turn
            /\ handler'[h].decision = handler[h].decision
        BY <1>2, <3>1 DEF HandlerRecord
      <3>3. T' = T /\ ResponseOf(T)' # "none"
        BY <1>2, <1>3, <3>2 DEF TurnOf, HandlerOK, ResponseOf
      <3> QED
        BY <1>2, <1>4, <3>2, <3>3 DEF HandlerOK, TurnOf
    <2> QED
      BY <1>1, <2>1, <2>2
  <1>8. \A g \in Handlers : HandlerOK(g)'
    BY <1>5, <1>6, <1>7, OthersStay
  <1>9. \A t \in Turns : CardOK(t)'
    BY <1>3 DEF LifeInv, CoreInv, CardOK, ResponseOf
  <1>10. \A c \in Calls : CallOK(c)'
    BY <1>3, <1>4 DEF LifeInv, CoreInv, CallOK, IsAnswered
  <1>11. TokensOK'
    BY <1>3, <1>4 DEF LifeInv, CoreInv, TokensOK
  <1>12. RowsAnswered'
    BY <1>3, <1>4, FreshUnfiled DEF LifeInv, CoreInv, RowsAnswered, IsAnswered, TokensFiled
  <1> QED
    BY <1>6, <1>8, <1>9, <1>10, <1>11, <1>12 DEF CoreInv

\* A step of the tool threads: what their calls carry does not change, and only
\* rows with a running call's token are added.
LEMMA ThreadsMove ==
  ASSUME LifeInv, GateInv', UNCHANGED <<turn, card, mintedFor, chatting>>,
         \A h \in Handlers : HandlerOK(h)',
         handler' \in [Handlers -> HandlerRecord],
         Minted' = Minted,
         \A c \in Calls : call'[c].pc # "idle" =>
             call[c].pc # "idle" /\ call'[c].token = call[c].token,
         \/ mockWrites' = mockWrites
         \/ \E c \in Calls : AppendRow(c) /\ call[c].pc # "idle"
  PROVE  CoreInv'
  <1>1. Shape' /\ Advance
    BY DEF LifeInv, CoreInv, Shape, Advance, IsAnswered, ResponseOf
  <1>2. (\A c \in Calls : CallOK(c)') /\ TokensOK'
    BY <1>1, GateStays
  <1>3. \A t \in Turns : CardOK(t)'
    BY DEF LifeInv, CoreInv, CardOK, ResponseOf
  <1>4. RowsAnswered'
    <2>1. CASE mockWrites' = mockWrites
      BY <1>1, <2>1, RowsStay
    <2>2. ASSUME NEW c \in Calls, AppendRow(c), call[c].pc # "idle"
          PROVE  RowsAnswered'
      <3> DEFINE row == [number |-> NextNumber, token |-> call[c].token,
                         write |-> call[c].write]
                 Rows == [number : Nat, token : Tokens, write : Writes]
      <3>1. mockWrites \in Seq(Rows)
        BY DEF LifeInv, CoreInv, GateInv, GateTypeOK
      <3>2. mockWrites' = Append(mockWrites, row)
        BY <2>2 DEF AppendRow
      <3>3. row.token = call[c].token
        OBVIOUS
      <3> HIDE DEF row, Rows
      <3>4. \A i \in DOMAIN mockWrites' :
              mockWrites'[i] = row \/ (i \in DOMAIN mockWrites /\ mockWrites'[i] = mockWrites[i])
        BY <3>1, <3>2
      <3>5. CallOK(c) /\ RowsAnswered
        BY DEF LifeInv, CoreInv
      <3> QED
        BY <2>2, <3>3, <3>4, <3>5 DEF CallOK, RowsAnswered, IsAnswered
    <2> QED
      BY <2>1, <2>2
  <1> QED
    BY <1>1, <1>2, <1>3, <1>4 DEF CoreInv

\* The call carries the handler's own token, after the answer was recorded.
LEMMA IssueCallStep ==
  ASSUME LifeInv, GateInv', NEW h \in Handlers, IssueCall(h)
  PROVE  CoreInv'
  <1> DEFINE T == TurnOf(h)
             new == [pc |-> "load", token |-> handler[h].token,
                     write |-> card[T].write, row |-> NoRow, number |-> 0]
  <1>1. /\ handler \in [Handlers -> HandlerRecord] /\ HandlerOK(h)
        /\ handler[h].pc = "call" /\ T \in Turns
        /\ handler[h].token \in mintedFor[T] /\ IsAnswered(T)
        /\ TokensOK
    BY DEF LifeInv, CoreInv, Shape, IssueCall, At, HandlerOK, Carrying
  <1>2. /\ Go(h, "called") /\ "called" \in HandlerPCs
        /\ UNCHANGED <<tables, chatting, mockWrites, confirmations>>
    BY DEF IssueCall, Receive, HandlerPCs
  <1>3. call \in [Calls -> Threads]
    BY DEF LifeInv, CoreInv, GateInv, GateTypeOK
  <1>4. /\ call'[h] = new
        /\ \A c \in Calls : c # h => call'[c] = call[c]
    BY <1>3 DEF IssueCall, Receive, Handlers
  <1>5. Shape' /\ Advance
    BY <1>1, <1>2, GoFacts DEF LifeInv, CoreInv, Shape, Advance, tables,
       IsAnswered, ResponseOf
  <1>6. HandlerOK(h)'
    BY <1>1, <1>2, <1>5, GoFacts, Keeps DEF Carrying, tables, IsAnswered, TurnOf
  <1>7. \A g \in Handlers : HandlerOK(g)'
    BY <1>1, <1>2, <1>5, <1>6, GoFacts, OthersStay
  <1>8. \A t \in Turns : handler[h].token \in mintedFor[t] => IsAnswered(t)
    BY <1>1 DEF TokensOK
  <1>9. \A c \in Calls : CallOK(c)'
    <2>1. CallOK(h)'
      BY <1>1, <1>2, <1>4, <1>8 DEF CallOK, TokensOK, Minted, tables, IsAnswered
    <2>2. ASSUME NEW c \in Calls, c # h PROVE CallOK(c)'
      BY <1>2, <1>4, <2>2 DEF LifeInv, CoreInv, CallOK, Minted, tables, IsAnswered
    <2> QED
      BY <2>1, <2>2
  <1>10. TokensOK' /\ \A t \in Turns : CardOK(t)'
    BY <1>2 DEF LifeInv, CoreInv, TokensOK, CardOK, Minted, tables, ResponseOf
  <1>11. RowsAnswered'
    BY <1>2, <1>5, RowsStay DEF tables
  <1> QED
    BY <1>5, <1>7, <1>9, <1>10, <1>11 DEF CoreInv

\* A thread that answers leaves tokens and rows alone.
LEMMA ReplyFacts ==
  ASSUME LifeInv, NEW c \in Calls, Reply(c)
  PROVE  /\ \A d \in Calls : call'[d].pc # "idle" =>
                call[d].pc # "idle" /\ call'[d].token = call[d].token
         /\ Minted' = Minted /\ mockWrites' = mockWrites
  BY DEF LifeInv, CoreInv, GateInv, GateTypeOK, Reply, Idle, Minted

\* The tool's answer reaches the handler that waits for it.
LEMMA CallReturnsStep ==
  ASSUME LifeInv, GateInv', NEW h \in Handlers, CallReturns(h)
  PROVE  CoreInv'
  <1>1. /\ handler \in [Handlers -> HandlerRecord] /\ HandlerOK(h)
        /\ handler[h].pc = "called"
        /\ h \in Calls /\ Reply(h)
        /\ UNCHANGED <<tables, chatting>>
    BY DEF LifeInv, CoreInv, Shape, CallReturns, At, Handlers
  <1>2. PICK pc \in {"answer", "close"}, o \in Settled \cup {"none"} :
            Record(h, pc, o) /\ (pc = "close" => o \in Settled)
    BY DEF CallReturns, End, Settled
  <1>3. pc \in HandlerPCs
    BY DEF HandlerPCs
  <1>4. Shape' /\ Advance
    BY <1>1, <1>2, <1>3, RecordFacts DEF LifeInv, CoreInv, Shape, Advance, tables,
       IsAnswered, ResponseOf
  <1>5. HandlerOK(h)'
    BY <1>1, <1>2, <1>3, <1>4, RecordFacts, Keeps DEF Carrying
  <1>6. \A g \in Handlers : HandlerOK(g)'
    BY <1>1, <1>2, <1>3, <1>4, <1>5, RecordFacts, OthersStay
  <1> QED
    BY <1>1, <1>2, <1>3, <1>6, RecordFacts, ReplyFacts, ThreadsMove DEF tables

\* The tool answers a handler that no longer waits.
LEMMA OrphanReplyStep ==
  ASSUME LifeInv, GateInv', NEW h \in Handlers, OrphanReply(h)
  PROVE  CoreInv'
  <1>1. h \in Calls /\ Reply(h) /\ UNCHANGED lifeVars
    BY DEF OrphanReply, Handlers
  <1>2. Advance /\ handler' \in [Handlers -> HandlerRecord]
    BY <1>1 DEF LifeInv, CoreInv, Shape, Advance, lifeVars, tables, IsAnswered, ResponseOf
  <1>3. \A g \in Handlers : HandlerOK(g)'
    BY <1>1, <1>2, OthersStay DEF lifeVars
  <1> QED
    BY <1>1, <1>2, <1>3, ReplyFacts, ThreadsMove DEF lifeVars, tables

\* A statement of the gate, run for a handler's call.
LEMMA GateStepStep ==
  ASSUME LifeInv, GateInv', NEW h \in Handlers, GateStep(h)
  PROVE  CoreInv'
  <1>1. /\ UNCHANGED <<tables, chatting, handler>>
        /\ h \in Calls
        /\ call \in [Calls -> Threads]
    BY DEF GateStep, Handlers, LifeInv, CoreInv, GateInv, GateTypeOK
  <1>2. Advance /\ handler' \in [Handlers -> HandlerRecord]
    BY <1>1 DEF LifeInv, CoreInv, Shape, Advance, tables, IsAnswered, ResponseOf
  <1>3. \A g \in Handlers : HandlerOK(g)'
    BY <1>1, <1>2, OthersStay
  <1>4. call[h].pc # "idle"
    BY DEF GateStep, Load, Check, Lock, Spend, AppendWrite, ReadBack, StoreFails
  <1>5. Minted' = Minted
    BY DEF GateStep, Load, Check, Lock, Spend, AppendWrite, ReadBack, StoreFails,
       MarkUsed, Minted
  <1>6. mockWrites' = mockWrites \/ AppendRow(h)
    BY DEF GateStep, Load, Check, Lock, Spend, AppendWrite, ReadBack, StoreFails
  <1>7. \A c \in Calls : c # h => call'[c] = call[c]
    <2>1. ASSUME NEW pc, Goto(h, pc)
          PROVE  \A c \in Calls : c # h => call'[c] = call[c]
      BY <1>1, <2>1 DEF Goto
    <2>2. CASE Load(h)
      BY <1>1, <2>1, <2>2 DEF Load
    <2>3. CASE ReadBack(h)
      BY <1>1, <2>3 DEF ReadBack
    <2>4. CASE Check(h) \/ Lock(h) \/ Spend(h) \/ AppendWrite(h) \/ StoreFails(h)
      BY <2>1, <2>4 DEF Check, Lock, Spend, AppendWrite, StoreFails
    <2> QED
      BY <2>2, <2>3, <2>4 DEF GateStep
  <1>8. call'[h].token = call[h].token
    <2>1. ASSUME NEW pc, Goto(h, pc) PROVE call'[h].token = call[h].token
      <3>1. call'[h] = [call[h] EXCEPT !.pc = pc]
        BY <1>1, <2>1 DEF Goto
      <3> QED
        BY <1>1, <3>1 DEF Threads
    <2>2. CASE Load(h)
      BY <1>1, <2>1, <2>2 DEF Load, Threads
    <2>3. CASE ReadBack(h)
      BY <1>1, <2>3 DEF ReadBack, Threads
    <2>4. CASE Check(h) \/ Lock(h) \/ Spend(h) \/ AppendWrite(h) \/ StoreFails(h)
      BY <2>1, <2>4 DEF Check, Lock, Spend, AppendWrite, StoreFails
    <2> QED
      BY <2>2, <2>3, <2>4 DEF GateStep
  <1> QED
    BY <1>1, <1>2, <1>3, <1>4, <1>5, <1>6, <1>7, <1>8, ThreadsMove DEF tables

-----------------------------------------------------------------------------
\* The clock, the restart, the chat and the maintenance pass.
LEMMA ClockStep ==
  ASSUME LifeInv, GateInv', ClockTick
  PROVE  CoreInv'
  <1>1. UNCHANGED <<lifeVars, call, confirmations, mockWrites>>
    BY DEF ClockTick, Tick
  <1>2. Advance /\ handler' \in [Handlers -> HandlerRecord]
    BY <1>1 DEF LifeInv, CoreInv, Shape, Advance, lifeVars, tables, IsAnswered, ResponseOf
  <1>3. \A g \in Handlers : HandlerOK(g)'
    BY <1>1, <1>2, OthersStay DEF lifeVars
  <1> QED
    BY <1>1, <1>2, <1>3, ThreadsMove DEF lifeVars, tables, Minted

\* A restart forgets handlers and buffers, and keeps the tables.
LEMMA RestartStep ==
  ASSUME LifeInv, GateInv', Restart
  PROVE  CoreInv'
  <1>1. /\ UNCHANGED <<tables, confirmations, mockWrites>>
        /\ chatting' = {}
        /\ handler' = [h \in Handlers |-> Off]
        /\ call' = [c \in Calls |-> Idle]
    BY DEF Restart, Crash
  <1>2. Off \in HandlerRecord
    BY DEF Off, HandlerRecord, HandlerPCs, NoBuffer
  <1>3. Shape' /\ Advance
    BY <1>1, <1>2 DEF LifeInv, CoreInv, Shape, Advance, tables, IsAnswered, ResponseOf
  <1>4. \A h \in Handlers : HandlerOK(h)'
    BY <1>1 DEF HandlerOK, Off, Carrying
  <1>5. \A t \in Turns : CardOK(t)'
    BY <1>1 DEF LifeInv, CoreInv, CardOK, tables, ResponseOf
  <1>6. (\A c \in Calls : CallOK(c)') /\ TokensOK'
    BY <1>1 DEF LifeInv, CoreInv, CallOK, TokensOK, Idle, Minted, tables
  <1>7. RowsAnswered'
    BY <1>1, <1>3, RowsStay DEF tables
  <1> QED
    BY <1>3, <1>4, <1>5, <1>6, <1>7 DEF CoreInv

\* The maintenance pass settles turns and answers cards, and mints nothing.
LEMMA SweepStepKeeps ==
  ASSUME LifeInv, SweepStep
  PROVE  CoreInv'
  <1>1. UNCHANGED <<gateVars, mintedFor, chatting, handler>>
    BY DEF SweepStep, SweepStale, SweepList, SweepReopen, SweepClose, SweepDone,
           SweepFails, SweepExpire, tables
  <1>2. card' = card \/ \E r \in Answered, t \in Turns : Answer(t, r)
    BY DEF SweepStep, SweepStale, SweepList, SweepReopen, SweepClose, SweepDone,
           SweepFails, SweepExpire, tables, Answered
  <1>3. /\ turn \in [Turns -> TurnRecord]
        /\ handler \in [Handlers -> HandlerRecord]
        /\ sweep.pc \in {"reopen", "close"} => sweep.turn \in Turns
    BY DEF LifeInv, CoreInv, Shape, RestOK
  <1>4. /\ turn' \in [Turns -> TurnRecord]
        /\ \A t \in Turns : turn'[t].outcome = "absent" => turn[t].outcome = "absent"
    <2>1. CASE SweepStale
      <3>1. \A t \in Turns : turn'[t] = IF Stale(t)
                THEN [turn[t] EXCEPT !.outcome = "error"] ELSE turn[t]
        BY <2>1 DEF SweepStale
      <3>2. ASSUME NEW t \in Turns
            PROVE  /\ turn'[t] \in TurnRecord
                   /\ turn'[t].outcome = "absent" => turn[t].outcome = "absent"
        BY <1>3, <3>1 DEF TurnRecord, Outcomes, Settled
      <3> QED
        BY <2>1, <3>2 DEF SweepStale
    <2>2. CASE SweepReopen
      BY <1>3, <2>2, OutcomeSet DEF SweepReopen, ReopenTurn, Outcomes
    <2>3. CASE SweepClose
      <3>1. turn' = turn \/ \E r \in Outcomes \ {"absent"} : SetOutcome(sweep.turn, r)
        BY <1>3, <2>3, CloseOutcome DEF SweepClose, Settled
      <3> QED
        BY <1>3, <2>3, <3>1, OutcomeSet DEF SweepClose
    <2>4. CASE turn' = turn
      BY <1>3, <2>4
    <2> QED
      BY <2>1, <2>2, <2>3, <2>4 DEF SweepStep, SweepList, SweepDone, SweepFails,
         SweepExpire, tables
  <1>5. Advance => \A g \in Handlers : HandlerOK(g)'
    BY <1>1, OthersStay
  <1> QED
    BY <1>1, <1>2, <1>3, <1>4, <1>5, TablesMove

\* A chat request opens a turn without a card.
LEMMA StartTurnStep ==
  ASSUME LifeInv, GateInv', NEW t \in Turns, StartTurn(t)
  PROVE  CoreInv'
  <1>1. UNCHANGED <<gateVars, card, mintedFor, handler>>
    BY DEF StartTurn
  <1>2. /\ turn' \in [Turns -> TurnRecord]
        /\ \A u \in Turns : turn'[u].outcome = "absent" => turn[u].outcome = "absent"
    BY DEF StartTurn, LifeInv, CoreInv, Shape, GateInv, GateTypeOK, TurnRecord, Outcomes
  <1>3. Shape' /\ Advance
    BY <1>1, <1>2 DEF LifeInv, CoreInv, Shape, Advance, IsAnswered, ResponseOf
  <1>4. \A g \in Handlers : HandlerOK(g)'
    BY <1>1, <1>3, OthersStay
  <1>5. \A u \in Turns : CardOK(u)'
    BY <1>1, <1>2 DEF LifeInv, CoreInv, CardOK, ResponseOf, StartTurn
  <1>6. (\A c \in Calls : CallOK(c)') /\ TokensOK' /\ RowsAnswered'
    BY <1>1, <1>3, GateStays, RowsStay DEF gateVars, Minted
  <1> QED
    BY <1>3, <1>4, <1>5, <1>6 DEF CoreInv

\* A chat request ends its turn without parking it.
LEMMA EndChatStep ==
  ASSUME LifeInv, NEW t \in Turns, EndChat(t)
  PROVE  CoreInv'
  <1>1. UNCHANGED <<gateVars, card, mintedFor, handler>> /\ chatting' \subseteq chatting
    BY DEF EndChat
  <1>2. PICK o \in Outcomes \ {"absent"} : SetOutcome(t, o)
    BY DEF EndChat, Outcomes, Settled
  <1>3. turn \in [Turns -> TurnRecord] /\ handler \in [Handlers -> HandlerRecord]
    BY DEF LifeInv, CoreInv, Shape
  <1>4. /\ turn' \in [Turns -> TurnRecord]
        /\ \A u \in Turns : turn'[u].outcome = "absent" => turn[u].outcome = "absent"
    BY <1>2, <1>3, OutcomeSet
  <1>5. Advance => \A g \in Handlers : HandlerOK(g)'
    BY <1>1, OthersStay
  <1> QED
    BY <1>1, <1>3, <1>4, <1>5, TablesMove

\* A chat request parks its turn behind a fresh pending card.
LEMMA ParkStep ==
  ASSUME LifeInv, GateInv', NEW t \in Turns, NEW w \in Writes, Park(t, w)
  PROVE  CoreInv'
  <1>1. /\ UNCHANGED <<gateVars, mintedFor, handler>>
        /\ chatting' = chatting \ {t} /\ t \in chatting
    BY DEF Park
  <1>2. /\ turn \in [Turns -> TurnRecord] /\ card \in [Turns -> CardRecord]
        /\ CardOK(t) /\ now \in Nat
    BY DEF LifeInv, CoreInv, Shape, GateInv, GateTypeOK, Times
  <1>3. PICK o \in Outcomes \ {"absent"} : SetOutcome(t, o)
    BY DEF Park, Outcomes, Settled
  <1>4. /\ turn' \in [Turns -> TurnRecord]
        /\ \A u \in Turns : turn'[u].outcome = "absent" => turn[u].outcome = "absent"
    BY <1>2, <1>3, OutcomeSet
  <1>5. PICK proposed \in turn[t].started .. now :
          card' = [card EXCEPT ![t] = [response |-> "pending", write |-> w,
                                       expires |-> proposed + CardTTL]]
    BY DEF Park
  <1>6. proposed + CardTTL \in Nat
    BY <1>2, <1>5, LifecycleAssumption DEF TurnRecord, Times
  <1>7. /\ card' \in [Turns -> CardRecord]
        /\ card'[t].response = "pending" /\ card'[t].write = w
        /\ \A u \in Turns : u # t => card'[u] = card[u]
    BY <1>2, <1>5, <1>6 DEF CardRecord
  <1>8. Shape' /\ Advance
    BY <1>1, <1>2, <1>4, <1>7 DEF LifeInv, CoreInv, Shape, Advance, IsAnswered,
       ResponseOf, CardOK, Answered
  <1>9. \A g \in Handlers : HandlerOK(g)'
    BY <1>1, <1>8, OthersStay
  <1>10. \A u \in Turns : CardOK(u)'
    <2>1. CardOK(t)'
      <3>1. turn'[t].outcome # "absent"
        BY <1>2, <1>3 DEF SetOutcome, TurnRecord
      <3> QED
        BY <1>1, <1>7, <3>1 DEF CardOK, ResponseOf
    <2>2. ASSUME NEW u \in Turns, u # t PROVE CardOK(u)'
      BY <1>1, <1>4, <1>7, <2>2 DEF LifeInv, CoreInv, CardOK, ResponseOf
    <2> QED
      BY <2>1, <2>2
  <1>11. (\A c \in Calls : CallOK(c)') /\ TokensOK' /\ RowsAnswered'
    BY <1>1, <1>8, GateStays, RowsStay DEF gateVars, Minted
  <1> QED
    BY <1>8, <1>9, <1>10, <1>11 DEF CoreInv

-----------------------------------------------------------------------------
\* The variables no safety property looks at: who has a buffer, who is on the
\* loop, and where the maintenance pass is.

BuffersOK ==
    /\ openTurns \in [Turns -> Buffers \cup {NoBuffer}]
    /\ live \subseteq Buffers

\* Opening, closing and losing a buffer keep the registry typed.
LEMMA BuffersMove ==
  ASSUME BuffersOK, NEW t \in Turns,
         \/ \E b \in Buffers : ReopenTurn(t, b)
         \/ \E b, o : CloseBuffer(t, b, o)
         \/ \E b : CloseLost(t, b)
         \/ UNCHANGED buffers
  PROVE  BuffersOK'
  BY DEF BuffersOK, ReopenTurn, CloseBuffer, CloseLost, buffers

\* The registry, the pass and the faults stay typed through a handler's steps.
LEMMA HandlerStepRest ==
  ASSUME LifeInv, NEW h \in Handlers, HandlerStep(h)
  PROVE  RestOK'
  <1>1. /\ HandlerOK(h) /\ RestOK /\ BuffersOK
    BY DEF LifeInv, CoreInv, RestOK, BuffersOK
  <1>2. h \in Buffers /\ h \in Handlers \cup {NoCall} /\ NoCall \in Handlers \cup {NoCall}
    BY DEF Buffers
  <1>3. chatting' = chatting /\ sweep' = sweep
    BY DEF HandlerStep, Read, MintToken, Reopen, Adopt, Rehydrate, Discover, Resolve,
       IssueCall, CallReturns, CallLost, Synthesize, Close, Unhandled, HandlerFails,
       ExpireCard, ExpireReopen, ExpireClose
  <1>4. loop' \in {loop, h, NoCall}
    BY DEF HandlerStep, Read, MintToken, Reopen, Adopt, Rehydrate, Discover, Resolve,
       IssueCall, CallReturns, CallLost, Synthesize, Close, Unhandled, HandlerFails,
       ExpireCard, ExpireReopen, ExpireClose, Leave
  <1>5. faults' = faults \/ Fault
    BY DEF HandlerStep, Read, MintToken, Reopen, Adopt, Rehydrate, Discover, Resolve,
       IssueCall, CallReturns, CallLost, Synthesize, Close, Unhandled, HandlerFails,
       ExpireCard, ExpireReopen, ExpireClose, CloseLost
  <1>6. faults' \in 0 .. MaxFaults
    BY <1>1, <1>5, LifecycleAssumption DEF RestOK, Fault
  <1>7. BuffersOK'
    <2>1. CASE UNCHANGED buffers
      BY <1>1, <2>1 DEF BuffersOK, buffers
    <2>2. CASE Reopen(h) \/ ExpireReopen(h) \/ Adopt(h)
      <3>1. TurnOf(h) \in Turns
        BY <1>1, <2>2 DEF HandlerOK, Reopen, ExpireReopen, Adopt, At
      <3>2. ReopenTurn(TurnOf(h), h) \/ UNCHANGED buffers
        BY <2>2 DEF Reopen, ExpireReopen, Adopt, buffers
      <3> QED
        BY <1>1, <1>2, <3>1, <3>2, BuffersMove
    <2>3. CASE Close(h) \/ Unhandled(h) \/ ExpireClose(h)
      <3>1. TurnOf(h) \in Turns
        BY <1>1, <2>3 DEF HandlerOK, Close, Unhandled, ExpireClose, At
      <3>2. (\E b, o : CloseBuffer(TurnOf(h), b, o)) \/ (\E b : CloseLost(TurnOf(h), b))
        BY <2>3 DEF Close, Unhandled, ExpireClose
      <3> QED
        BY <1>1, <3>1, <3>2, BuffersMove
    <2> QED
      BY <2>1, <2>2, <2>3 DEF HandlerStep, Read, MintToken, Rehydrate, Discover,
         Resolve, IssueCall, CallReturns, CallLost, Synthesize, HandlerFails, ExpireCard
  <1> QED
    BY <1>1, <1>2, <1>3, <1>4, <1>6, <1>7 DEF RestOK, BuffersOK

\* The same through the steps of the maintenance pass.
LEMMA SweepStepRest ==
  ASSUME LifeInv, SweepStep
  PROVE  RestOK'
  <1>1. RestOK /\ BuffersOK /\ sweep \in SweepRecord
    BY DEF LifeInv, RestOK, BuffersOK
  <1>2. chatting' = chatting /\ loop' = loop
    BY DEF SweepStep, SweepStale, SweepList, SweepReopen, SweepClose, SweepDone,
       SweepFails, SweepExpire
  <1>3. faults' = faults \/ Fault
    BY DEF SweepStep, SweepStale, SweepList, SweepReopen, SweepClose, SweepDone,
       SweepFails, SweepExpire, CloseLost
  <1>4. faults' \in 0 .. MaxFaults
    BY <1>1, <1>3, LifecycleAssumption DEF RestOK, Fault
  <1>5. BuffersOK'
    <2>1. CASE UNCHANGED buffers
      BY <1>1, <2>1 DEF BuffersOK, buffers
    <2>2. CASE SweepReopen \/ SweepClose
      <3>1. sweep.turn \in Turns /\ sweep.turn \in Buffers
        BY <1>1, <2>2 DEF SweepReopen, SweepClose, RestOK, Buffers
      <3> QED
        BY <1>1, <2>2, <3>1, BuffersMove DEF SweepReopen, SweepClose
    <2> QED
      BY <2>1, <2>2 DEF SweepStep, SweepStale, SweepList, SweepDone, SweepFails,
         SweepExpire
  <1>6. sweep' \in SweepRecord /\ (sweep'.pc \in {"reopen", "close"} => sweep'.turn \in Turns)
    <2>1. CASE SweepStale
      BY <1>1, <2>1 DEF SweepStale, SweepRecord
    <2>2. CASE SweepList
      BY <1>1, <2>2 DEF SweepList, SweepRecord
    <2>3. CASE SweepReopen \/ SweepClose
      BY <1>1, <2>3 DEF SweepReopen, SweepClose, SweepRecord, RestOK
    <2>4. CASE SweepDone \/ SweepFails
      BY <1>1, <2>4 DEF SweepDone, SweepFails, SweepRecord, NotSwept
    <2>5. ASSUME NEW t \in Turns, SweepExpire(t)
          PROVE  sweep' \in SweepRecord /\ (sweep'.pc \in {"reopen", "close"} => sweep'.turn \in Turns)
      BY <1>1, <2>5 DEF SweepExpire, SweepRecord, RestOK
    <2> QED
      BY <2>1, <2>2, <2>3, <2>4, <2>5 DEF SweepStep
  <1> QED
    BY <1>1, <1>2, <1>4, <1>5, <1>6 DEF RestOK, BuffersOK

\* The same through every step.
LEMMA RestStep ==
  ASSUME LifeInv, LifeNext
  PROVE  RestOK'
  <1>1. RestOK
    BY DEF LifeInv
  <1>2. CASE ClockTick
    BY <1>1, <1>2 DEF ClockTick, lifeVars, buffers, RestOK
  <1>3. CASE Restart
    <2>1. faults' \in 0 .. MaxFaults
      BY <1>1, <1>3, LifecycleAssumption DEF RestOK, Restart, Fault
    <2>2. /\ openTurns' = [t \in Turns |-> NoBuffer] /\ live' = {} /\ chatting' = {}
          /\ loop' = NoCall /\ sweep' = NotSwept
      BY <1>3 DEF Restart
    <2> QED
      BY <2>1, <2>2 DEF RestOK, NotSwept, SweepRecord
  <1>4. ASSUME NEW t \in Turns, StartTurn(t) \/ ChatStep(t)
        PROVE  RestOK'
    <2>1. UNCHANGED <<buffers, loop, sweep>> /\ faults' \in 0 .. MaxFaults
      BY <1>1, <1>4, LifecycleAssumption DEF StartTurn, ChatStep, EndChat, Park,
         Fault, RestOK
    <2>2. chatting' \subseteq Turns
      BY <1>1, <1>4 DEF StartTurn, ChatStep, EndChat, Park, RestOK
    <2> QED
      BY <1>1, <2>1, <2>2 DEF RestOK, buffers
  <1>5. ASSUME NEW h \in Handlers, NEW t \in Turns, NEW d \in Responses, Post(h, t, d)
        PROVE  RestOK'
    BY <1>1, <1>5 DEF Post, RestOK, buffers
  <1>6. ASSUME NEW h \in Handlers, Await(h) \/ OrphanReply(h)
        PROVE  RestOK'
    BY <1>1, <1>6 DEF Await, OrphanReply, lifeVars, RestOK, buffers
  <1>7. ASSUME NEW h \in Handlers, GateStep(h)
        PROVE  RestOK'
    <2>1. faults' = faults \/ Fault
      BY <1>7 DEF GateStep
    <2>2. faults' \in 0 .. MaxFaults
      BY <1>1, <2>1, LifecycleAssumption DEF RestOK, Fault
    <2> QED
      BY <1>1, <1>7, <2>2 DEF GateStep, RestOK, buffers
  <1> QED
    BY <1>2, <1>3, <1>4, <1>5, <1>6, <1>7, HandlerStepRest, SweepStepRest
    DEF LifeNext

-----------------------------------------------------------------------------
\* Every step of the system keeps its invariant.
LEMMA LifeNextInv ==
  LifeInv /\ [LifeNext]_vars => LifeInv'
  <1>1. CASE UNCHANGED vars
    <2>1. LifeInv /\ UNCHANGED vars => LifeInv'
      <3>1. ASSUME LifeInv, UNCHANGED vars
            PROVE  CoreInv'
        <4>1. UNCHANGED gateVars
          BY <3>1 DEF vars
        <4>2. GateInv'
          BY <3>1, <4>1, NextInv DEF LifeInv, CoreInv
        <4>3. /\ UNCHANGED <<turn, card, mintedFor, chatting, handler>>
              /\ UNCHANGED <<confirmations, mockWrites, call>>
          BY <3>1 DEF vars, lifeVars, tables, gateVars
        <4>4. Shape'
          BY <3>1, <4>3 DEF LifeInv, CoreInv, Shape
        <4>5. Advance
          BY <4>3, <4>4 DEF Advance, IsAnswered, ResponseOf
        <4>6. \A h \in Handlers : HandlerOK(h)'
          BY <3>1, <4>3, <4>5, OthersStay
        <4>7. \A t \in Turns : CardOK(t)'
          BY <3>1, <4>3 DEF LifeInv, CoreInv, CardOK, ResponseOf
        <4>8. (\A c \in Calls : CallOK(c)') /\ TokensOK' /\ RowsAnswered'
          BY <3>1, <4>2, <4>3, <4>5, GateStays, RowsStay DEF Minted
        <4> QED
          BY <4>2, <4>4, <4>6, <4>7, <4>8 DEF CoreInv
      <3>2. ASSUME LifeInv, UNCHANGED vars
            PROVE  RestOK'
        BY <3>2 DEF LifeInv, RestOK, vars, lifeVars, buffers
      <3> QED
        BY <3>1, <3>2 DEF LifeInv
    <2> QED
      BY <1>1, <2>1
  <1>2. ASSUME LifeInv, LifeNext
        PROVE  LifeInv'
    <2>1. GateInv'
      BY <1>2, StepOfGate, NextInv DEF LifeInv, CoreInv
    <2>2. RestOK'
      BY <1>2, RestStep
    <2>3. ASSUME NEW h \in Handlers, HandlerStep(h)
          PROVE  CoreInv'
      BY <1>2, <2>1, <2>3, ReadStep, MintTokenStep, ReopenStep, AdoptStep,
         RehydrateStep, DiscoverStep, ResolveStep, IssueCallStep, CallReturnsStep,
         EndingStep, LeavingStep, FailingStep, ExpiringStep DEF HandlerStep
    <2>4. ASSUME NEW t \in Turns, StartTurn(t) \/ ChatStep(t)
          PROVE  CoreInv'
      BY <1>2, <2>1, <2>4, StartTurnStep, EndChatStep, ParkStep DEF ChatStep
    <2>5. ASSUME NEW h \in Handlers,
                 \/ \E t \in Turns, d \in Responses : Post(h, t, d)
                 \/ Await(h) \/ GateStep(h) \/ OrphanReply(h)
          PROVE  CoreInv'
      BY <1>2, <2>1, <2>5, PostStep, FailingStep, GateStepStep, OrphanReplyStep
    <2>6. CoreInv'
      BY <1>2, <2>1, <2>3, <2>4, <2>5, ClockStep, RestartStep, SweepStepKeeps
      DEF LifeNext
    <2> QED
      BY <2>2, <2>6 DEF LifeInv
  <1> QED
    BY <1>1, <1>2

\* The invariant holds at all times.
LEMMA LifeAlways == LifeSpec => []LifeInv
  BY LifeInitInv, LifeNextInv, PTL DEF LifeSpec

\* Every row, buffer and program counter keeps to its type, for any number of
\* turns, requests, tokens and failures.
THEOREM LifeTypes == LifeSpec => []LifeTypeOK
  <1>1. LifeInv => LifeTypeOK
    BY DEF LifeInv, CoreInv, RestOK, Shape, GateInv, LifeTypeOK, HandlerRecord,
       CardRecord, TurnRecord, SweepRecord
  <1> QED
    BY <1>1, LifeAlways, PTL

\* The handlers of POST /chat/confirm, the maintenance pass and a restart use the
\* gate only through its own steps: each step of the system is one of them or
\* leaves the gate as it was.
THEOREM SystemIsGated == LifeSpec => ImplementsGate
  <1>1. LifeInit => GateInit
    BY DEF LifeInit
  <1>2. LifeInv /\ [LifeNext]_vars => [GateNext]_gateVars
    <2>1. LifeInv /\ LifeNext => [GateNext]_gateVars
      BY StepOfGate
    <2>2. UNCHANGED vars => UNCHANGED gateVars
      BY DEF vars
    <2> QED
      BY <2>1, <2>2
  <1> QED
    BY <1>1, <1>2, LifeAlways, PTL DEF LifeSpec, ImplementsGate, GateSpec

\* What confirm.py promises of its gate holds of the system built around it.
COROLLARY SystemSafe ==
  LifeSpec => []((ForeignKeys => WritesConfirmed) /\ OneWritePerToken)
  BY SystemIsGated, GateSafe, PTL DEF ImplementsGate

\* No ticket is filed while its card still reads pending: the decision is on
\* record before the write it authorises, however requests, sweeps, failures and
\* restarts interleave.
THEOREM RecordedFirst == LifeSpec => []WriteMeansAnswered
  <1>1. LifeInv => WriteMeansAnswered
    BY DEF LifeInv, CoreInv, RowsAnswered, WriteMeansAnswered, FiledFor, IsAnswered,
       ResponseOf
  <1> QED
    BY <1>1, LifeAlways, PTL

-----------------------------------------------------------------------------
\* Answering is for a pending card: an answered one stays as it is.
LEMMA AnswerSpares ==
  ASSUME LifeInv, NEW t \in Turns, NEW r, Answer(t, r), NEW u \in Turns,
         IsAnswered(u)
  PROVE  card'[u] = card[u]
  <1>1. "pending" \notin Answered
    BY DEF Answered
  <1> QED
    BY <1>1 DEF Answer, IsAnswered

\* What a step does to the cards.
LEMMA CardsMove ==
  ASSUME LifeInv, LifeNext
  PROVE  \/ card' = card
         \/ \E t \in Turns, r \in Answered : Answer(t, r)
         \/ \E t \in Turns, w \in Writes : Park(t, w)
  <1>1. ASSUME NEW h \in Handlers, HandlerStep(h) \/ Await(h) \/ GateStep(h) \/ OrphanReply(h)
        PROVE  card' = card \/ \E t \in Turns, r \in Answered : Answer(t, r)
    <2>1. CASE Resolve(h)
      <3>1. TurnOf(h) \in Turns /\ handler[h].decision \in Answered
        BY <2>1 DEF LifeInv, CoreInv, HandlerOK, Resolve, At, Responses, Answered
      <3> QED
        BY <2>1, <3>1 DEF Resolve
    <2>2. CASE ExpireCard(h)
      <3>1. TurnOf(h) \in Turns /\ "expired" \in Answered
        BY <2>2 DEF LifeInv, CoreInv, HandlerOK, ExpireCard, At, Answered
      <3> QED
        BY <2>2, <3>1 DEF ExpireCard
    <2>3. CASE Await(h) \/ GateStep(h) \/ OrphanReply(h)
      BY <2>3 DEF Await, GateStep, OrphanReply, lifeVars, tables
    <2> QED
      BY <1>1, <2>1, <2>2, <2>3 DEF HandlerStep, Read, MintToken, Reopen, Adopt,
         Rehydrate, Discover, IssueCall, CallReturns, CallLost, Synthesize, Close,
         Unhandled, HandlerFails, ExpireReopen, ExpireClose, tables
  <1>2. CASE SweepStep
    BY <1>2 DEF SweepStep, SweepStale, SweepList, SweepReopen, SweepClose,
       SweepDone, SweepFails, SweepExpire, tables, Answered
  <1>3. ASSUME NEW t \in Turns, StartTurn(t) \/ ChatStep(t)
        PROVE  card' = card \/ \E w \in Writes : Park(t, w)
    BY <1>3 DEF StartTurn, ChatStep, EndChat
  <1>4. ASSUME NEW h \in Handlers, NEW t \in Turns, NEW d \in Responses, Post(h, t, d)
        PROVE  card' = card
    BY <1>4 DEF Post, tables
  <1>5. CASE ClockTick \/ Restart
    BY <1>5 DEF ClockTick, Restart, lifeVars, tables
  <1> QED
    BY <1>1, <1>2, <1>3, <1>4, <1>5 DEF LifeNext

\* A card is answered once, by the first of the requests, the restarts and the
\* maintenance pass to find it pending: none of them rewrites what another
\* answered, although a request looks long before it writes.
THEOREM AnsweredOnce == LifeSpec => AnsweredForGood
  <1>1. ASSUME LifeInv, LifeNext, NEW u \in Turns, IsAnswered(u)
        PROVE  card'[u] = card[u]
    <2>1. ASSUME NEW t \in Turns, NEW w \in Writes, Park(t, w)
          PROVE  card'[u] = card[u]
      <3>1. t \in chatting /\ CardOK(t)
        BY <1>1, <2>1 DEF Park, LifeInv, CoreInv
      <3>2. t # u
        BY <1>1, <3>1 DEF CardOK, IsAnswered, ResponseOf, Answered
      <3> QED
        BY <2>1, <3>2 DEF Park
    <2> QED
      BY <1>1, <2>1, CardsMove, AnswerSpares
  <1>2. ASSUME LifeInv, [LifeNext]_vars
        PROVE  [\A t \in Turns : card[t].response \in Answered => card'[t] = card[t]]_vars
    BY <1>1, <1>2 DEF IsAnswered
  <1> QED
    BY <1>2, LifeAlways, PTL DEF LifeSpec, AnsweredForGood

-----------------------------------------------------------------------------
\* With no failure, an open turn is never left behind: who may close which
\* buffer, and who is about to.

\* Statements a handler runs without giving up the event loop before them.
LoopPCs == {"mint", "reopen", "adopt", "resolve", "call", "close", "error",
            "expire", "expireReopen", "expireClose"}

\* A handler that holds a buffer, and one whose own buffer may be registered.
Holding == {"rehydrate", "discover", "resolve", "call", "called", "answer",
            "close", "error"}
Registering == Holding \cup {"adopt", "expireClose"}

\* Nobody else runs between such a statement and the one before it.
OnLoop(h) == handler[h].pc \in LoopPCs => loop = h

\* Between its reopening and its adopting only the maintenance pass can have
\* touched a handler's registration.
Adopting(h) ==
    handler[h].pc = "adopt" => openTurns[TurnOf(h)] \in {h, TurnOf(h), NoBuffer}

\* A handler holds a buffer it opened itself, or the pass's; in that case its
\* own is registered no more.
HoldsOwn(h) ==
    handler[h].pc \in Holding =>
        /\ handler[h].buffer \in {h, TurnOf(h)}
        /\ handler[h].buffer # h => openTurns[TurnOf(h)] # h

\* A registered buffer is open, and was opened for the turn it is registered for.
Registered(u) ==
    openTurns[u] # NoBuffer =>
        /\ openTurns[u] \in live
        /\ \/ openTurns[u] = u
           \/ \E h \in Handlers : /\ openTurns[u] = h /\ TurnOf(h) = u
                                  /\ handler[h].pc \in Registering

\* A handler that is about to close its turn, and can.
AboutToClose(h) ==
    \/ handler[h].pc = "adopt"
    \/ handler[h].pc = "expireClose" /\ h \in live
    \/ handler[h].pc \in Holding \ {"error"} /\ handler[h].buffer \in live

SweepKeeps(t) == sweep.pc = "close" /\ sweep.turn = t /\ t \in live

Attended(t) ==
    turn[t].outcome = "open" /\ t \notin chatting =>
        SweepKeeps(t) \/ \E h \in Handlers : TurnOf(h) = t /\ AboutToClose(h)

WorkInv ==
    /\ \A h \in Handlers : OnLoop(h) /\ Adopting(h) /\ HoldsOwn(h)
    /\ \A t \in Turns : Registered(t) /\ Attended(t)

\* The buffers that belong to a turn.
Local(b, t) == b = t \/ (b \in Handlers /\ TurnOf(b) = t)

\* Buffers named for handlers and for turns are not confused.
LEMMA NamesApart ==
  /\ \A h \in Handlers, t \in Turns : h # t
  /\ NoBuffer \notin Handlers /\ NoBuffer \notin Turns /\ NoTurn \notin Turns
  BY LifecycleAssumption, GateAssumption DEF Handlers, NoBuffer

\* Nothing is open, registered or running at first.
LEMMA WorkInit == LifeInit => WorkInv
  BY DEF LifeInit, WorkInv, OnLoop, Adopting, HoldsOwn, Registered, Attended, Off,
     LoopPCs, Holding

\* A handler with a turn.
LEMMA HasTurn ==
  ASSUME LifeInv, NEW h \in Handlers, handler[h].pc # "off"
  PROVE  TurnOf(h) \in Turns
  BY DEF LifeInv, CoreInv, HandlerOK

\* Nobody moves, and nobody leaves the registry or opens a turn.
LEMMA StandStill ==
  ASSUME LifeInv, WorkInv, UNCHANGED <<handler, openTurns, live, chatting>>,
         \/ loop' = loop
         \/ \E h \in Handlers : /\ loop' = NoCall /\ loop = h
                                /\ handler[h].pc \notin LoopPCs,
         \A t \in Turns : turn'[t].outcome = "open" => turn[t].outcome = "open",
         \A t \in Turns : SweepKeeps(t) => SweepKeeps(t)'
  PROVE  WorkInv'
  <1>1. ASSUME NEW g \in Handlers
        PROVE  OnLoop(g)' /\ Adopting(g)' /\ HoldsOwn(g)' /\ (AboutToClose(g) => AboutToClose(g)')
    BY DEF WorkInv, OnLoop, Adopting, HoldsOwn, AboutToClose, TurnOf
  <1>2. ASSUME NEW t \in Turns
        PROVE  Registered(t)'
    BY DEF WorkInv, Registered, TurnOf
  <1>3. ASSUME NEW t \in Turns
        PROVE  Attended(t)'
    BY <1>1 DEF WorkInv, Attended, TurnOf
  <1> QED
    BY <1>1, <1>2, <1>3 DEF WorkInv

\* One handler moves, and no buffer is opened or closed.
LEMMA OneMoves ==
  ASSUME LifeInv, WorkInv, NEW h \in Handlers,
         UNCHANGED <<turn, openTurns, live, chatting, sweep>>,
         \A g \in Handlers : g # h => handler'[g] = handler[g],
         loop' = loop \/ (loop \in {h, NoCall} /\ loop' \in {h, NoCall}),
         handler'[h].pc \in LoopPCs => loop' = h,
         handler[h].pc \notin {"adopt", "expireClose", "error"},
         handler'[h].pc \notin {"adopt", "expireClose"},
         handler[h].pc \in Holding =>
            handler'[h].pc \in Holding /\ TurnOf(h)' = TurnOf(h),
         handler'[h].pc \in Holding =>
            /\ handler[h].pc \in Holding
            /\ handler'[h].buffer = handler[h].buffer
            /\ handler'[h].pc = "error" => handler[h].buffer \notin live
  PROVE  WorkInv'
  <1>0. "error" \in Holding /\ "adopt" \notin Holding /\ "expireClose" \notin Holding
    BY DEF Holding
  <1>1. ASSUME NEW g \in Handlers, g # h
        PROVE  /\ OnLoop(g)' /\ Adopting(g)' /\ HoldsOwn(g)'
               /\ AboutToClose(g) => AboutToClose(g)'
               /\ TurnOf(g)' = TurnOf(g)
    <2>1. OnLoop(g)'
      BY <1>1, NamesApart DEF WorkInv, OnLoop, NoBuffer
    <2> QED
      BY <1>1, <2>1 DEF WorkInv, Adopting, HoldsOwn, AboutToClose, TurnOf
  <1>2. OnLoop(h)' /\ Adopting(h)'
    BY DEF OnLoop, Adopting
  <1>3. HoldsOwn(h)'
    BY DEF WorkInv, HoldsOwn
  <1>4. AboutToClose(h) => AboutToClose(h)' /\ TurnOf(h)' = TurnOf(h)
    BY <1>0 DEF AboutToClose
  <1>5. ASSUME NEW t \in Turns
        PROVE  Registered(t)'
    <2>1. CASE openTurns[t] = NoBuffer \/ openTurns[t] = t
      BY <2>1 DEF WorkInv, Registered
    <2>2. ASSUME NEW g \in Handlers, openTurns[t] = g, TurnOf(g) = t,
                 handler[g].pc \in Registering, openTurns[t] # NoBuffer
          PROVE  Registered(t)'
      <3>1. TurnOf(g)' = t /\ handler'[g].pc \in Registering
        BY <1>1, <2>2 DEF Registering
      <3> QED
        BY <2>2, <3>1 DEF WorkInv, Registered
    <2> QED
      BY <2>1, <2>2 DEF WorkInv, Registered
  <1>6. ASSUME NEW t \in Turns
        PROVE  Attended(t)'
    BY <1>1, <1>4 DEF WorkInv, Attended, SweepKeeps
  <1> QED
    BY <1>1, <1>2, <1>3, <1>5, <1>6 DEF WorkInv

\* Reopening a turn.
LEMMA ReopenFacts ==
  ASSUME LifeInv, NEW t \in Turns, NEW b, ReopenTurn(t, b)
  PROVE  /\ openTurns'[t] = b /\ live' = live \cup {b}
         /\ \A u \in Turns : u # t => openTurns'[u] = openTurns[u] /\ turn'[u] = turn[u]
  BY DEF LifeInv, CoreInv, Shape, RestOK, ReopenTurn, SetOutcome

\* A handler reopens its turn, or adopts the buffer it finds.
LEMMA HandlerReopens ==
  ASSUME LifeInv, WorkInv, NEW h \in Handlers, loop = h, loop' = h,
         handler[h].pc \in {"reopen", "adopt", "expireReopen"},
         UNCHANGED <<chatting, sweep>>,
         \A g \in Handlers : g # h => handler'[g] = handler[g],
         TurnOf(h)' = TurnOf(h), ReopenTurn(TurnOf(h), h),
         \/ handler'[h].pc \in {"adopt", "expireClose"}
         \/ handler'[h].pc = "rehydrate" /\ handler'[h].buffer = h
  PROVE  WorkInv'
  <1> DEFINE T == TurnOf(h)
  <1>1. T \in Turns
    BY HasTurn
  <1>2. /\ openTurns'[T] = h /\ live' = live \cup {h}
        /\ \A u \in Turns : u # T => openTurns'[u] = openTurns[u] /\ turn'[u] = turn[u]
    BY <1>1, ReopenFacts
  <1>3. ASSUME NEW g \in Handlers, g # h
        PROVE  /\ OnLoop(g)' /\ Adopting(g)' /\ HoldsOwn(g)'
               /\ AboutToClose(g) => AboutToClose(g)'
               /\ TurnOf(g)' = TurnOf(g)
               /\ handler'[g] = handler[g]
    <2>1. handler'[g] = handler[g] /\ handler[g].pc \notin LoopPCs
      BY <1>3 DEF WorkInv, OnLoop
    <2>2. "adopt" \in LoopPCs
      BY DEF LoopPCs
    <2>3. HoldsOwn(g)'
      <3>1. CASE handler[g].pc \in Holding
        <4>1. TurnOf(g) \in Turns
          BY <3>1, HasTurn DEF Holding
        <4> QED
          BY <1>2, <1>3, <2>1, <4>1 DEF WorkInv, HoldsOwn, TurnOf
      <3> QED
        BY <2>1, <3>1 DEF HoldsOwn
    <2> QED
      BY <1>2, <2>1, <2>2, <2>3 DEF OnLoop, Adopting, AboutToClose, TurnOf
  <1>4. OnLoop(h)' /\ Adopting(h)' /\ HoldsOwn(h)' /\ AboutToClose(h)'
    BY <1>2 DEF OnLoop, Adopting, HoldsOwn, AboutToClose, Holding
  <1>5. ASSUME NEW u \in Turns
        PROVE  Registered(u)'
    <2>1. CASE u = T
      <3>1. handler'[h].pc \in Registering
        BY DEF Registering, Holding
      <3> QED
        BY <1>2, <2>1, <3>1 DEF Registered
    <2>2. CASE u # T
      BY <1>2, <1>3, <2>2 DEF WorkInv, Registered
    <2> QED
      BY <2>1, <2>2
  <1>6. ASSUME NEW u \in Turns
        PROVE  Attended(u)'
    <2>1. CASE u = T
      BY <1>4, <2>1 DEF Attended
    <2>2. CASE u # T
      <3>1. turn'[u] = turn[u] /\ (SweepKeeps(u) => SweepKeeps(u)')
        BY <1>2, <2>2 DEF SweepKeeps
      <3> QED
        BY <1>3, <2>2, <3>1 DEF WorkInv, Attended
    <2> QED
      BY <2>1, <2>2
  <1> QED
    BY <1>3, <1>4, <1>5, <1>6 DEF WorkInv

\* A handler adopts the open buffer it finds registered.
LEMMA HandlerAdopts ==
  ASSUME LifeInv, WorkInv, NEW h \in Handlers, loop = h, loop' = h,
         handler[h].pc = "adopt", openTurns[TurnOf(h)] \in live,
         UNCHANGED <<turn, openTurns, live, chatting, sweep>>,
         \A g \in Handlers : g # h => handler'[g] = handler[g],
         handler'[h].pc = "rehydrate", handler'[h].buffer = openTurns[TurnOf(h)],
         TurnOf(h)' = TurnOf(h)
  PROVE  WorkInv'
  <1> DEFINE T == TurnOf(h)
  <1>1. T \in Turns /\ live \subseteq Buffers /\ NoBuffer \notin Buffers
    BY HasTurn, NamesApart DEF LifeInv, RestOK, Buffers
  <1>2. openTurns[T] \in {h, T}
    BY <1>1 DEF WorkInv, Adopting
  <1>3. ASSUME NEW g \in Handlers, g # h
        PROVE  /\ OnLoop(g)' /\ Adopting(g)' /\ HoldsOwn(g)'
               /\ AboutToClose(g) => AboutToClose(g)'
               /\ TurnOf(g)' = TurnOf(g)
    BY <1>3 DEF WorkInv, OnLoop, Adopting, HoldsOwn, AboutToClose, TurnOf
  <1>4. OnLoop(h)' /\ Adopting(h)' /\ HoldsOwn(h)' /\ AboutToClose(h)'
    BY <1>2 DEF OnLoop, Adopting, HoldsOwn, AboutToClose, Holding, LoopPCs
  <1>5. ASSUME NEW t \in Turns
        PROVE  Registered(t)'
    <2>1. CASE openTurns[t] = NoBuffer \/ openTurns[t] = t
      BY <2>1 DEF WorkInv, Registered
    <2>2. ASSUME NEW g \in Handlers, openTurns[t] = g, TurnOf(g) = t,
                 handler[g].pc \in Registering, openTurns[t] # NoBuffer
          PROVE  Registered(t)'
      <3>1. TurnOf(g)' = t /\ handler'[g].pc \in Registering
        BY <1>3, <2>2 DEF Registering, Holding
      <3> QED
        BY <2>2, <3>1 DEF WorkInv, Registered
    <2> QED
      BY <2>1, <2>2 DEF WorkInv, Registered
  <1>6. ASSUME NEW t \in Turns
        PROVE  Attended(t)'
    BY <1>3, <1>4 DEF WorkInv, Attended, SweepKeeps
  <1> QED
    BY <1>3, <1>4, <1>5, <1>6 DEF WorkInv

\* Closing a buffer of a turn drops the turn's registration and settles the turn,
\* or does nothing; it touches no buffer of another turn.
LEMMA ClosingFacts ==
  ASSUME LifeInv, NEW t \in Turns, NEW b, NEW o \in Settled, CloseBuffer(t, b, o)
  PROVE  \/ b \notin live /\ UNCHANGED <<turn, openTurns, live>>
         \/ /\ b \in live /\ live' = live \ {b}
            /\ openTurns'[t] = NoBuffer /\ turn'[t].outcome # "open"
            /\ \A u \in Turns : u # t => openTurns'[u] = openTurns[u]
                                      /\ turn'[u] = turn[u]
  <1>1. CASE b \notin live
    BY <1>1 DEF CloseBuffer, buffers
  <1>2. CASE b \in live
    <2>1. turn \in [Turns -> TurnRecord] /\ openTurns \in [Turns -> Buffers \cup {NoBuffer}]
      BY DEF LifeInv, CoreInv, Shape, RestOK
    <2>2. SetOutcome(t, o) /\ o # "open"
      BY <1>2 DEF CloseBuffer, Settled
    <2>3. turn'[t].outcome # "open" /\ \A u \in Turns : u # t => turn'[u] = turn[u]
      BY <2>1, <2>2 DEF SetOutcome, TurnRecord
    <2> QED
      BY <1>2, <2>1, <2>3 DEF CloseBuffer
  <1> QED
    BY <1>1, <1>2

\* What a closing leaves to the handlers that stand still, and to the turns.
LEMMA ClosingKeeps ==
  ASSUME LifeInv, WorkInv, NEW t \in Turns, NEW b, NEW o \in Settled,
         CloseBuffer(t, b, o), Local(b, t) \/ b \notin live
  PROVE  /\ \A u \in Turns : openTurns'[u] \in {openTurns[u], NoBuffer}
         /\ \A u \in Turns : openTurns'[u] # NoBuffer => openTurns'[u] \in live'
         /\ \A u \in Turns : turn'[u].outcome = "open" => turn[u].outcome = "open"
         /\ \A u \in Turns : \A c : turn'[u].outcome = "open" /\ Local(c, u) /\ c \in live
                => c \in live'
         /\ b \in live => openTurns'[t] = NoBuffer
  <1>1. CASE b \notin live /\ UNCHANGED <<turn, openTurns, live>>
    BY <1>1 DEF WorkInv, Registered
  <1>2. CASE /\ b \in live /\ live' = live \ {b}
             /\ openTurns'[t] = NoBuffer /\ turn'[t].outcome # "open"
             /\ \A u \in Turns : u # t => openTurns'[u] = openTurns[u]
                                       /\ turn'[u] = turn[u]
    <2>1. \A u \in Turns : \A c : u # t /\ Local(c, u) => c # b
      BY <1>2, NamesApart DEF Local
    <2>2. \A u \in Turns : openTurns[u] # NoBuffer => Local(openTurns[u], u) /\ openTurns[u] \in live
      BY DEF WorkInv, Registered, Local
    <2> QED
      BY <1>2, <2>1, <2>2
  <1> QED
    BY <1>1, <1>2, ClosingFacts

\* A handler closes a buffer of its turn and leaves.
LEMMA HandlerCloses ==
  ASSUME LifeInv, WorkInv, NEW h \in Handlers, NEW b, NEW o \in Settled,
         handler[h].pc \in {"close", "error", "expireClose"},
         CloseBuffer(TurnOf(h), b, o), Leave(h),
         UNCHANGED <<chatting, sweep>>,
         \/ handler[h].pc = "close" /\ b = handler[h].buffer
         \/ handler[h].pc = "error" /\ b = openTurns[TurnOf(h)]
         \/ handler[h].pc = "expireClose" /\ b = h
  PROVE  WorkInv'
  <1> DEFINE T == TurnOf(h)
  <1>1. /\ T \in Turns /\ loop = h
        /\ NoBuffer \notin live
    BY HasTurn, NamesApart DEF WorkInv, OnLoop, LoopPCs, LifeInv, RestOK, Buffers
  <1>2. Local(b, T) \/ b \notin live
    <2>1. CASE handler[h].pc = "close"
      BY <2>1 DEF WorkInv, HoldsOwn, Holding, Local
    <2>2. CASE handler[h].pc = "error"
      BY <1>1, <2>2 DEF WorkInv, Registered, Local
    <2>3. CASE handler[h].pc = "expireClose"
      BY <2>3 DEF Local
    <2> QED
      BY <2>1, <2>2, <2>3
  <1>3. /\ \A u \in Turns : openTurns'[u] \in {openTurns[u], NoBuffer}
        /\ \A u \in Turns : openTurns'[u] # NoBuffer => openTurns'[u] \in live'
        /\ \A u \in Turns : turn'[u].outcome = "open" => turn[u].outcome = "open"
        /\ \A u \in Turns : \A c : turn'[u].outcome = "open" /\ Local(c, u) /\ c \in live
                => c \in live'
        /\ b \in live => openTurns'[T] = NoBuffer
    BY <1>1, <1>2, ClosingKeeps
  <1>4. /\ handler'[h] = Off /\ loop' = NoCall
        /\ \A g \in Handlers : g # h => handler'[g] = handler[g]
    BY DEF Leave, LifeInv, CoreInv, Shape
  <1>5. ASSUME NEW g \in Handlers, g # h
        PROVE  /\ OnLoop(g)' /\ Adopting(g)' /\ HoldsOwn(g)'
               /\ TurnOf(g)' = TurnOf(g)
               /\ AboutToClose(g) /\ TurnOf(g) \in Turns /\ turn'[TurnOf(g)].outcome = "open"
                    => AboutToClose(g)'
    <2>1. handler'[g] = handler[g] /\ handler[g].pc \notin LoopPCs /\ TurnOf(g)' = TurnOf(g)
      BY <1>1, <1>4, <1>5 DEF WorkInv, OnLoop, TurnOf
    <2>2. OnLoop(g)' /\ Adopting(g)'
      BY <2>1 DEF OnLoop, Adopting, LoopPCs
    <2>3. HoldsOwn(g)'
      <3>1. CASE handler[g].pc \in Holding
        <4>1. TurnOf(g) \in Turns
          BY <3>1, HasTurn DEF Holding
        <4> QED
          BY <1>3, <2>1, <4>1, NamesApart DEF WorkInv, HoldsOwn
      <3> QED
        BY <2>1, <3>1 DEF HoldsOwn
    <2>4. ASSUME AboutToClose(g), TurnOf(g) \in Turns, turn'[TurnOf(g)].outcome = "open"
          PROVE  AboutToClose(g)'
      <3>1. handler[g].pc \in Holding => Local(handler[g].buffer, TurnOf(g))
        BY DEF WorkInv, HoldsOwn, Local
      <3>2. Local(g, TurnOf(g))
        BY DEF Local
      <3> QED
        BY <1>3, <2>1, <2>4, <3>1, <3>2 DEF AboutToClose
    <2> QED
      BY <2>1, <2>2, <2>3, <2>4
  <1>6. OnLoop(h)' /\ Adopting(h)' /\ HoldsOwn(h)'
    BY <1>4 DEF OnLoop, Adopting, HoldsOwn, Off, LoopPCs, Holding
  <1>7. openTurns'[T] # h
    <2>1. CASE b \in live
      BY <1>3, <2>1, NamesApart
    <2>2. CASE b \notin live
      <3>1. openTurns[T] # h
        BY <1>1, <2>2, NamesApart DEF WorkInv, Registered, HoldsOwn, Holding
      <3> QED
        BY <1>1, <1>3, <3>1, NamesApart
    <2> QED
      BY <2>1, <2>2
  <1>8. ASSUME NEW u \in Turns
        PROVE  Registered(u)'
    <2>1. CASE openTurns'[u] = NoBuffer
      BY <2>1 DEF Registered
    <2>2. CASE openTurns'[u] = openTurns[u] /\ openTurns[u] # NoBuffer
      <3>1. openTurns[u] = u \/ \E g \in Handlers : /\ openTurns[u] = g /\ TurnOf(g) = u
                                                    /\ handler[g].pc \in Registering
        BY <2>2 DEF WorkInv, Registered
      <3>2. ASSUME NEW g \in Handlers, openTurns[u] = g, TurnOf(g) = u,
                   handler[g].pc \in Registering
            PROVE  TurnOf(g)' = u /\ handler'[g].pc \in Registering
        <4>1. g # h
          BY <1>7, <2>2, <3>2
        <4> QED
          BY <1>4, <1>5, <3>2, <4>1
      <3> QED
        BY <1>3, <2>2, <3>1, <3>2 DEF Registered
    <2> QED
      BY <1>3, <2>1, <2>2
  <1>9. ASSUME NEW u \in Turns
        PROVE  Attended(u)'
    <2> SUFFICES ASSUME turn'[u].outcome = "open", u \notin chatting
                 PROVE  SweepKeeps(u)' \/ \E g \in Handlers : TurnOf(g)' = u /\ AboutToClose(g)'
      BY DEF Attended
    <2>1. SweepKeeps(u) \/ \E g \in Handlers : TurnOf(g) = u /\ AboutToClose(g)
      BY <1>3 DEF WorkInv, Attended
    <2>2. SweepKeeps(u) => SweepKeeps(u)'
      BY <1>3 DEF SweepKeeps, Local
    <2>3. ASSUME NEW g \in Handlers, TurnOf(g) = u, AboutToClose(g)
          PROVE  TurnOf(g)' = u /\ AboutToClose(g)'
      <3>1. CASE g # h
        BY <1>5, <2>3, <3>1
      <3>2. CASE g = h
        <4>1. u = T /\ b \in live
          BY <2>3, <3>2 DEF AboutToClose, Holding
        <4> QED
          BY <1>1, <4>1, ClosingFacts
      <3> QED
        BY <3>1, <3>2
    <2> QED
      BY <2>1, <2>2, <2>3
  <1> QED
    BY <1>5, <1>6, <1>8, <1>9 DEF WorkInv

\* The maintenance pass reopens and closes for the turns whose card it expired.
LEMMA SweepWork ==
  ASSUME LifeInv, WorkInv, SweepStep, MaxFaults = 0
  PROVE  WorkInv'
  <1>1. UNCHANGED <<handler, chatting, loop>>
    BY DEF SweepStep, SweepStale, SweepList, SweepReopen, SweepClose, SweepDone,
           SweepFails, SweepExpire
  <1>2. ~ Fault
    BY DEF LifeInv, RestOK, Fault
  <1>3. CASE SweepStale
    <2>1. \A t \in Turns : turn'[t].outcome = "open" => turn[t].outcome = "open"
      <3>1. \A t \in Turns : turn'[t] = IF Stale(t)
                THEN [turn[t] EXCEPT !.outcome = "error"] ELSE turn[t]
        BY <1>3 DEF SweepStale
      <3>2. turn \in [Turns -> TurnRecord]
        BY DEF LifeInv, CoreInv, Shape
      <3> QED
        BY <3>1, <3>2 DEF TurnRecord
    <2>2. \A t \in Turns : ~ SweepKeeps(t)
      BY <1>3 DEF SweepStale, SweepKeeps
    <2> QED
      BY <1>1, <1>3, <2>1, <2>2, StandStill DEF SweepStale, buffers
  <1>4. CASE SweepList \/ SweepDone \/ \E t \in Turns : SweepExpire(t)
    <2>1. \A t \in Turns : ~ SweepKeeps(t)
      BY <1>4 DEF SweepList, SweepDone, SweepExpire, SweepKeeps
    <2>2. UNCHANGED <<turn, openTurns, live>>
      BY <1>4 DEF SweepList, SweepDone, SweepExpire, buffers, tables
    <2> QED
      BY <1>1, <2>1, <2>2, StandStill
  <1>5. CASE SweepReopen
    <2> DEFINE T == sweep.turn
    <2>1. /\ T \in Turns /\ ReopenTurn(T, T) /\ sweep \in SweepRecord
          /\ sweep.pc = "reopen" /\ sweep'.pc = "close" /\ sweep'.turn = T
      BY <1>5 DEF LifeInv, RestOK, SweepReopen, SweepRecord
    <2>2. /\ openTurns'[T] = T /\ live' = live \cup {T}
          /\ \A u \in Turns : u # T => openTurns'[u] = openTurns[u] /\ turn'[u] = turn[u]
      BY <2>1, ReopenFacts
    <2>3. ASSUME NEW g \in Handlers
          PROVE  /\ OnLoop(g)' /\ Adopting(g)' /\ HoldsOwn(g)'
                 /\ AboutToClose(g) => AboutToClose(g)'
                 /\ TurnOf(g)' = TurnOf(g)
      <3>1. TurnOf(g)' = TurnOf(g) /\ OnLoop(g)' /\ (AboutToClose(g) => AboutToClose(g)')
        BY <1>1, <2>2 DEF WorkInv, OnLoop, AboutToClose, TurnOf
      <3>2. CASE handler[g].pc = "off"
        BY <1>1, <3>1, <3>2 DEF Adopting, HoldsOwn, Holding
      <3>3. CASE handler[g].pc # "off"
        <4>1. TurnOf(g) \in Turns
          BY <3>3, HasTurn
        <4>2. openTurns'[TurnOf(g)] \in {openTurns[TurnOf(g)], TurnOf(g)}
          BY <2>2, <4>1
        <4> QED
          BY <1>1, <3>1, <4>1, <4>2, NamesApart DEF WorkInv, Adopting, HoldsOwn
      <3> QED
        BY <3>1, <3>2, <3>3
    <2>4. ASSUME NEW u \in Turns
          PROVE  Registered(u)' /\ Attended(u)'
      <3>1. CASE u = T
        BY <2>1, <2>2, <3>1 DEF Registered, Attended, SweepKeeps
      <3>2. CASE u # T
        <4>1. Registered(u)'
          BY <1>1, <2>2, <2>3, <3>2 DEF WorkInv, Registered
        <4>2. ~ SweepKeeps(u)
          BY <2>1 DEF SweepKeeps
        <4>3. Attended(u)'
          BY <1>1, <2>2, <2>3, <3>2, <4>2 DEF WorkInv, Attended
        <4> QED
          BY <4>1, <4>3
      <3> QED
        BY <3>1, <3>2
    <2> QED
      BY <2>3, <2>4 DEF WorkInv
  <1>6. CASE SweepClose
    <2> DEFINE T == sweep.turn
    <2>1. /\ T \in Turns /\ CloseBuffer(T, T, "expired") /\ "expired" \in Settled
          /\ sweep \in SweepRecord /\ sweep.pc = "close"
      BY <1>2, <1>6 DEF LifeInv, RestOK, SweepClose, Settled, CloseLost
    <2>2. /\ \A u \in Turns : openTurns'[u] \in {openTurns[u], NoBuffer}
          /\ \A u \in Turns : openTurns'[u] # NoBuffer => openTurns'[u] \in live'
          /\ \A u \in Turns : turn'[u].outcome = "open" => turn[u].outcome = "open"
          /\ \A u \in Turns : \A c : turn'[u].outcome = "open" /\ Local(c, u) /\ c \in live
                => c \in live'
      BY <2>1, ClosingKeeps DEF Local
    <2>3. ASSUME NEW g \in Handlers
          PROVE  /\ OnLoop(g)' /\ Adopting(g)' /\ HoldsOwn(g)'
                 /\ TurnOf(g)' = TurnOf(g)
                 /\ AboutToClose(g) /\ TurnOf(g) \in Turns /\ turn'[TurnOf(g)].outcome = "open"
                      => AboutToClose(g)'
      <3>1. TurnOf(g)' = TurnOf(g) /\ OnLoop(g)'
        BY <1>1 DEF WorkInv, OnLoop, TurnOf
      <3>2. Adopting(g)' /\ HoldsOwn(g)'
        <4>1. CASE handler[g].pc = "off"
          BY <1>1, <3>1, <4>1 DEF Adopting, HoldsOwn, Holding
        <4>2. CASE handler[g].pc # "off"
          <5>1. TurnOf(g) \in Turns
            BY <4>2, HasTurn
          <5> QED
            BY <1>1, <2>2, <3>1, <5>1, NamesApart DEF WorkInv, Adopting, HoldsOwn
        <4> QED
          BY <4>1, <4>2
      <3>3. ASSUME AboutToClose(g), TurnOf(g) \in Turns, turn'[TurnOf(g)].outcome = "open"
            PROVE  AboutToClose(g)'
        <4>1. handler[g].pc \in Holding => Local(handler[g].buffer, TurnOf(g))
          BY DEF WorkInv, HoldsOwn, Local
        <4>2. Local(g, TurnOf(g))
          BY DEF Local
        <4> QED
          BY <1>1, <2>2, <3>3, <4>1, <4>2 DEF AboutToClose
      <3> QED
        BY <3>1, <3>2, <3>3
    <2>4. ASSUME NEW u \in Turns
          PROVE  Registered(u)'
      BY <1>1, <2>2, <2>3 DEF WorkInv, Registered
    <2>5. ASSUME NEW u \in Turns
          PROVE  Attended(u)'
      <3> SUFFICES ASSUME turn'[u].outcome = "open", u \notin chatting
                   PROVE  \E g \in Handlers : TurnOf(g)' = u /\ AboutToClose(g)'
        BY <1>1 DEF Attended
      <3>1. ~ SweepKeeps(u)
        BY <2>1, ClosingFacts DEF SweepKeeps
      <3>2. PICK g \in Handlers : TurnOf(g) = u /\ AboutToClose(g)
        BY <2>2, <3>1 DEF WorkInv, Attended
      <3> QED
        BY <2>3, <3>2
    <2> QED
      BY <2>3, <2>4, <2>5 DEF WorkInv
  <1> QED
    BY <1>2, <1>3, <1>4, <1>5, <1>6 DEF SweepStep, SweepFails

\* A chat request opens its turn, and ends it when it leaves it.
LEMMA ChatWork ==
  ASSUME LifeInv, WorkInv, NEW t \in Turns, StartTurn(t) \/ ChatStep(t), MaxFaults = 0
  PROVE  WorkInv'
  <1>1. UNCHANGED <<handler, openTurns, live, loop, sweep>>
    BY DEF StartTurn, ChatStep, EndChat, Park, buffers
  <1>2. \A u \in Turns : u # t => /\ turn'[u] = turn[u]
                                  /\ u \in chatting' <=> u \in chatting
    BY DEF StartTurn, ChatStep, EndChat, Park, SetOutcome, LifeInv, CoreInv, Shape
  <1>3. turn'[t].outcome # "open" \/ t \in chatting'
    <2>1. CASE StartTurn(t)
      BY <2>1 DEF StartTurn
    <2>2. ASSUME NEW o \in Outcomes \ {"open"}, SetOutcome(t, o)
          PROVE  turn'[t].outcome # "open"
      BY <2>2 DEF SetOutcome, LifeInv, CoreInv, Shape, TurnRecord
    <2>3. CASE ChatStep(t)
      <3>1. \E o \in Outcomes \ {"open"} : SetOutcome(t, o)
        BY <2>3 DEF ChatStep, EndChat, Park, Outcomes, Settled
      <3> QED
        BY <2>2, <3>1
    <2> QED
      BY <2>1, <2>3
  <1>4. ASSUME NEW g \in Handlers
        PROVE  /\ OnLoop(g)' /\ Adopting(g)' /\ HoldsOwn(g)' /\ (AboutToClose(g) => AboutToClose(g)')
               /\ TurnOf(g)' = TurnOf(g)
    BY <1>1 DEF WorkInv, OnLoop, Adopting, HoldsOwn, AboutToClose, TurnOf
  <1>5. ASSUME NEW u \in Turns
        PROVE  Registered(u)'
    BY <1>1 DEF WorkInv, Registered, TurnOf
  <1>6. ASSUME NEW u \in Turns
        PROVE  Attended(u)'
    BY <1>1, <1>2, <1>3, <1>4 DEF WorkInv, Attended, SweepKeeps
  <1> QED
    BY <1>4, <1>5, <1>6 DEF WorkInv

\* The steps of a handler that open and close no buffer.
LEMMA QuietHandler ==
  ASSUME LifeInv, WorkInv, NEW h \in Handlers, MaxFaults = 0,
         \/ Read(h) \/ MintToken(h) \/ Rehydrate(h) \/ Discover(h) \/ Resolve(h)
         \/ IssueCall(h) \/ CallReturns(h) \/ Synthesize(h) \/ ExpireCard(h)
  PROVE  WorkInv'
  <1>1. ~ Fault
    BY DEF LifeInv, RestOK, Fault
  <1>2. UNCHANGED <<turn, openTurns, live, chatting, sweep>>
    BY DEF Read, MintToken, Rehydrate, Discover, Resolve, IssueCall, CallReturns,
           Synthesize, ExpireCard, tables, buffers
  <1>3. handler \in [Handlers -> HandlerRecord] /\ handler[h] \in HandlerRecord
    BY DEF LifeInv, CoreInv, Shape
  <1>4. \A g \in Handlers : g # h => handler'[g] = handler[g]
    BY <1>3 DEF Read, MintToken, Rehydrate, Discover, Resolve, IssueCall, CallReturns,
           Synthesize, ExpireCard, Leave, Go, Record, End
  <1>5. loop \in {h, NoCall} /\ loop' \in {h, NoCall}
    BY DEF Read, MintToken, Rehydrate, Discover, Resolve, IssueCall, CallReturns,
           Synthesize, ExpireCard, Leave, Runs
  <1>6. CASE Leave(h) /\ handler[h].pc \in {"read", "mint", "expire"}
    <2>1. handler'[h] = Off
      BY <1>3, <1>6 DEF Leave
    <2> QED
      BY <1>2, <1>4, <1>5, <1>6, <2>1, OneMoves DEF Off, LoopPCs, Holding
  <1>7. ASSUME NEW pc \in HandlerPCs \ {"adopt", "expireClose", "error"},
               handler'[h] = [handler[h] EXCEPT !.pc = pc]
                 \/ \E b : handler'[h] = [handler[h] EXCEPT !.pc = pc, !.pending = b]
                 \/ \E tok : handler'[h] = [handler[h] EXCEPT !.pc = pc, !.token = tok],
               handler[h].pc \notin {"adopt", "expireClose", "error"},
               pc \in Holding <=> handler[h].pc \in Holding,
               pc \in LoopPCs => loop' = h
        PROVE  WorkInv'
    <2>1. /\ handler'[h].pc = pc /\ handler'[h].turn = handler[h].turn
          /\ handler'[h].buffer = handler[h].buffer
      BY <1>3, <1>7 DEF HandlerRecord
    <2>2. TurnOf(h)' = TurnOf(h)
      BY <2>1 DEF TurnOf
    <2> QED
      BY <1>2, <1>4, <1>5, <1>7, <2>1, <2>2, OneMoves
  <1>8. ASSUME NEW pc \in {"answer", "close"}, NEW o, Record(h, pc, o),
               handler[h].pc \in Holding \ {"error"}, loop' = h
        PROVE  WorkInv'
    <2> DEFINE to == IF handler[h].buffer \in live THEN pc ELSE "error"
    <2>1. handler'[h] = [handler[h] EXCEPT !.pc = to, !.ending = o]
      BY <1>3, <1>8 DEF Record
    <2>2. /\ handler'[h].pc = to /\ handler'[h].turn = handler[h].turn
          /\ handler'[h].buffer = handler[h].buffer
      BY <1>3, <2>1 DEF HandlerRecord
    <2>3. TurnOf(h)' = TurnOf(h)
      BY <2>2 DEF TurnOf
    <2>4. to \in {"answer", "close", "error"} /\ (to = "error" => handler[h].buffer \notin live)
      OBVIOUS
    <2> HIDE DEF to
    <2> QED
      BY <1>2, <1>4, <1>5, <1>8, <2>2, <2>3, <2>4, OneMoves DEF Holding
  <1>9. CASE Read(h)
    <2>1. handler[h].pc = "read" /\ (Leave(h) \/ (loop' = h /\ \E pc \in {"expire", "mint"} : Go(h, pc)))
      BY <1>9 DEF Read, At
    <2>2. ASSUME NEW pc \in {"expire", "mint"}, Go(h, pc), loop' = h
          PROVE  WorkInv'
      <3>1. handler'[h] = [handler[h] EXCEPT !.pc = pc]
        BY <1>3, <2>2 DEF Go
      <3>2. pc \in HandlerPCs \ {"adopt", "expireClose", "error"}
        BY DEF HandlerPCs
      <3> QED
        BY <1>7, <2>1, <2>2, <3>1, <3>2 DEF Holding
    <2> QED
      BY <1>6, <2>1, <2>2
  <1>10. CASE MintToken(h)
    <2>1. PICK tok \in Tokens :
              handler' = [handler EXCEPT ![h].pc = "reopen", ![h].token = tok]
              /\ loop' = h /\ handler[h].pc = "mint"
      BY <1>1, <1>10 DEF MintToken, At
    <2>2. handler'[h] = [handler[h] EXCEPT !.pc = "reopen", !.token = tok]
      BY <1>3, <2>1
    <2>3. /\ "reopen" \in HandlerPCs \ {"adopt", "expireClose", "error"}
          /\ handler[h].pc \notin {"adopt", "expireClose", "error"}
          /\ "reopen" \in Holding <=> handler[h].pc \in Holding
      BY <2>1 DEF HandlerPCs, Holding
    <2> QED
      BY <1>7, <2>1, <2>2, <2>3
  <1>11. CASE Rehydrate(h)
    <2> DEFINE to == IF handler[h].decision = "confirmed" THEN "discover" ELSE "resolve"
               found == card[TurnOf(h)].response = "pending"
    <2>1. /\ handler'[h] = [handler[h] EXCEPT !.pc = to, !.pending = found]
          /\ loop' = h /\ handler[h].pc = "rehydrate"
      BY <1>3, <1>11 DEF Rehydrate, At
    <2>2. to \in HandlerPCs /\ to \in {"discover", "resolve"}
      BY DEF HandlerPCs
    <2> HIDE DEF to, found
    <2> QED
      BY <1>7, <2>1, <2>2 DEF Holding
  <1>12. CASE Discover(h)
    <2>1. Go(h, "resolve") /\ loop' = h /\ handler[h].pc = "discover"
      BY <1>1, <1>12 DEF Discover, At
    <2>2. handler'[h] = [handler[h] EXCEPT !.pc = "resolve"]
      BY <1>3, <2>1 DEF Go
    <2>3. /\ "resolve" \in HandlerPCs \ {"adopt", "expireClose", "error"}
          /\ handler[h].pc \notin {"adopt", "expireClose", "error"}
          /\ "resolve" \in Holding <=> handler[h].pc \in Holding
      BY <2>1 DEF HandlerPCs, Holding
    <2> QED
      BY <1>7, <2>1, <2>2, <2>3
  <1>13. CASE Resolve(h)
    <2>1. PICK pc \in {"call", "answer"} : Go(h, pc) /\ loop' = h /\ handler[h].pc = "resolve"
      BY <1>1, <1>13 DEF Resolve, At, AfterResolve
    <2>2. handler'[h] = [handler[h] EXCEPT !.pc = pc]
      BY <1>3, <2>1 DEF Go
    <2>3. pc \in HandlerPCs
      BY DEF HandlerPCs
    <2> QED
      BY <1>7, <2>1, <2>2, <2>3 DEF Holding
  <1>14. CASE IssueCall(h)
    <2>1. Go(h, "called") /\ handler[h].pc = "call"
      BY <1>14 DEF IssueCall, At
    <2>2. handler'[h] = [handler[h] EXCEPT !.pc = "called"]
      BY <1>3, <2>1 DEF Go
    <2>3. /\ "called" \in HandlerPCs \ {"adopt", "expireClose", "error"}
          /\ handler[h].pc \notin {"adopt", "expireClose", "error"}
          /\ "called" \in Holding <=> handler[h].pc \in Holding
      BY <2>1 DEF HandlerPCs, Holding
    <2> QED
      BY <1>7, <2>1, <2>2, <2>3 DEF LoopPCs
  <1>15. CASE CallReturns(h) \/ Synthesize(h)
    <2>1. handler[h].pc \in Holding \ {"error"} /\ loop' = h
      BY <1>15 DEF CallReturns, Synthesize, At, Holding
    <2>2. \E pc \in {"answer", "close"} : \E o : Record(h, pc, o)
      BY <1>15 DEF CallReturns, Synthesize, End
    <2> QED
      BY <1>8, <2>1, <2>2
  <1>16. CASE ExpireCard(h)
    <2>1. Go(h, "expireReopen") /\ loop' = h /\ handler[h].pc = "expire"
      BY <1>1, <1>16 DEF ExpireCard, At
    <2>2. handler'[h] = [handler[h] EXCEPT !.pc = "expireReopen"]
      BY <1>3, <2>1 DEF Go
    <2>3. /\ "expireReopen" \in HandlerPCs \ {"adopt", "expireClose", "error"}
          /\ handler[h].pc \notin {"adopt", "expireClose", "error"}
          /\ "expireReopen" \in Holding <=> handler[h].pc \in Holding
      BY <2>1 DEF HandlerPCs, Holding
    <2> QED
      BY <1>7, <2>1, <2>2, <2>3
  <1> QED
    BY <1>9, <1>10, <1>11, <1>12, <1>13, <1>14, <1>15, <1>16

\* The steps of a handler that open or close a buffer.
LEMMA BufferHandler ==
  ASSUME LifeInv, WorkInv, NEW h \in Handlers, MaxFaults = 0,
         \/ Reopen(h) \/ Adopt(h) \/ ExpireReopen(h)
         \/ Close(h) \/ Unhandled(h) \/ ExpireClose(h)
  PROVE  WorkInv'
  <1>1. ~ Fault
    BY DEF LifeInv, RestOK, Fault
  <1>2. handler \in [Handlers -> HandlerRecord] /\ handler[h] \in HandlerRecord /\ HandlerOK(h)
    BY DEF LifeInv, CoreInv, Shape
  <1>3. UNCHANGED <<chatting, sweep>>
    BY DEF Reopen, Adopt, ExpireReopen, Close, Unhandled, ExpireClose
  <1>4. ASSUME NEW pc \in {"adopt", "expireClose"}, Go(h, pc), loop = h, loop' = h,
               handler[h].pc \in {"reopen", "expireReopen"}, ReopenTurn(TurnOf(h), h)
        PROVE  WorkInv'
    <2>1. pc \in HandlerPCs
      BY DEF HandlerPCs
    <2> QED
      BY <1>2, <1>3, <1>4, <2>1, GoFacts, HandlerReopens DEF TurnOf
  <1>5. CASE Reopen(h)
    BY <1>1, <1>4, <1>5 DEF Reopen, At
  <1>6. CASE ExpireReopen(h)
    BY <1>4, <1>6 DEF ExpireReopen, At
  <1>7. CASE Adopt(h)
    <2> DEFINE b == openTurns[TurnOf(h)]
    <2>1. ASSUME NEW c, handler' = [handler EXCEPT ![h].pc = "rehydrate", ![h].buffer = c]
          PROVE  /\ handler'[h].pc = "rehydrate" /\ handler'[h].buffer = c
                 /\ TurnOf(h)' = TurnOf(h)
                 /\ \A g \in Handlers : g # h => handler'[g] = handler[g]
      <3>1. handler'[h] = [handler[h] EXCEPT !.pc = "rehydrate", !.buffer = c]
        BY <1>2, <2>1
      <3> QED
        BY <1>2, <2>1, <3>1 DEF HandlerRecord, TurnOf
    <2>2. handler[h].pc = "adopt" /\ loop = h /\ loop' = h
      BY <1>7 DEF Adopt, At
    <2>3. CASE b \in live
      <3>1. /\ handler' = [handler EXCEPT ![h].pc = "rehydrate", ![h].buffer = b]
            /\ UNCHANGED <<turn, openTurns, live>>
        BY <1>7, <2>3 DEF Adopt, buffers
      <3> QED
        BY <1>3, <2>1, <2>2, <2>3, <3>1, HandlerAdopts
    <2>4. CASE b \notin live
      <3>1. /\ handler' = [handler EXCEPT ![h].pc = "rehydrate", ![h].buffer = h]
            /\ ReopenTurn(TurnOf(h), h)
        BY <1>7, <2>4 DEF Adopt
      <3> QED
        BY <1>3, <2>1, <2>2, <3>1, HandlerReopens
    <2> QED
      BY <2>3, <2>4
  <1>8. CASE Close(h)
    <2>1. /\ CloseBuffer(TurnOf(h), handler[h].buffer, handler[h].ending) /\ Leave(h)
          /\ handler[h].pc = "close" /\ handler[h].ending \in Settled
      BY <1>1, <1>2, <1>8 DEF Close, CloseLost, At, HandlerOK
    <2> QED
      BY <1>3, <2>1, HandlerCloses
  <1>9. CASE Unhandled(h)
    <2>1. /\ CloseBuffer(TurnOf(h), openTurns[TurnOf(h)], "error") /\ Leave(h)
          /\ handler[h].pc = "error" /\ "error" \in Settled
      BY <1>1, <1>9 DEF Unhandled, CloseLost, At, Settled
    <2> QED
      BY <1>3, <2>1, HandlerCloses
  <1>10. CASE ExpireClose(h)
    <2>1. /\ CloseBuffer(TurnOf(h), h, "expired") /\ Leave(h)
          /\ handler[h].pc = "expireClose" /\ "expired" \in Settled
      BY <1>1, <1>10 DEF ExpireClose, CloseLost, At, Settled
    <2> QED
      BY <1>3, <2>1, HandlerCloses
  <1> QED
    BY <1>5, <1>6, <1>7, <1>8, <1>9, <1>10

\* Every step, as long as nothing fails.
LEMMA WorkStep ==
  ASSUME LifeInv, WorkInv, [LifeNext]_vars, MaxFaults = 0
  PROVE  WorkInv'
  <1>1. ~ Fault
    BY DEF LifeInv, RestOK, Fault
  <1>2. CASE UNCHANGED vars \/ ClockTick
    <2>1. UNCHANGED lifeVars
      BY <1>2 DEF vars, ClockTick
    <2> QED
      BY <2>1, StandStill DEF lifeVars, tables, buffers, SweepKeeps
  <1>3. ASSUME NEW h \in Handlers, GateStep(h) \/ OrphanReply(h)
        PROVE  WorkInv'
    <2>1. UNCHANGED <<handler, openTurns, live, chatting, loop, turn, sweep>>
      BY <1>3 DEF GateStep, OrphanReply, lifeVars, tables, buffers
    <2> QED
      BY <2>1, StandStill DEF SweepKeeps
  <1>4. ASSUME NEW h \in Handlers, Await(h)
        PROVE  WorkInv'
    <2>1. /\ UNCHANGED <<handler, openTurns, live, chatting, turn, sweep>>
          /\ loop = h /\ loop' = NoCall /\ handler[h].pc \notin LoopPCs
      BY <1>4 DEF Await, tables, buffers, LoopPCs
    <2> QED
      BY <2>1, StandStill DEF SweepKeeps
  <1>5. ASSUME NEW h \in Handlers, NEW t \in Turns, NEW d \in Responses, Post(h, t, d)
        PROVE  WorkInv'
    <2>1. /\ UNCHANGED <<turn, openTurns, live, chatting, sweep, loop>>
          /\ handler[h].pc = "off"
          /\ handler' = [handler EXCEPT ![h] = [Off EXCEPT !.pc = "read", !.turn = t,
                                                            !.decision = d]]
      BY <1>5 DEF Post, tables, buffers, At
    <2>2. /\ handler'[h].pc = "read"
          /\ \A g \in Handlers : g # h => handler'[g] = handler[g]
      BY <2>1 DEF LifeInv, CoreInv, Shape, Off
    <2> QED
      BY <2>1, <2>2, OneMoves DEF Holding, LoopPCs
  <1>6. ASSUME NEW h \in Handlers, HandlerStep(h)
        PROVE  WorkInv'
    BY <1>1, <1>6, QuietHandler, BufferHandler DEF HandlerStep, CallLost, HandlerFails
  <1>7. ASSUME LifeNext
        PROVE  WorkInv'
    BY <1>1, <1>2, <1>3, <1>4, <1>5, <1>6, <1>7, SweepWork, ChatWork DEF LifeNext, Restart
  <1> QED
    BY <1>2, <1>7

\* While nothing fails, no row reads open that everybody has left: the chat
\* request, a request that answers the card or the maintenance pass is about to
\* close it, although each of them may close or replace a buffer of the others.
THEOREM OpenTurnsAreWorkedOn ==
  ASSUME MaxFaults = 0
  PROVE  LifeSpec => []OpenIsBeingWorkedOn
  <1>1. WorkInv => OpenIsBeingWorkedOn
    <2>1. ASSUME NEW h \in Handlers, AboutToClose(h)
          PROVE  handler[h].pc \notin {"read", "mint"}
      BY <2>1 DEF AboutToClose, Holding
    <2> QED
      BY <2>1 DEF WorkInv, Attended, SweepKeeps, OpenIsBeingWorkedOn, Working
  <1>2. LifeInv /\ WorkInv /\ [LifeNext]_vars => WorkInv'
    BY WorkStep
  <1> QED
    BY <1>1, <1>2, WorkInit, LifeAlways, PTL DEF LifeSpec

-----------------------------------------------------------------------------
\* Requests one at a time: what a request knows of its card before, during and
\* after its call.

\* Before its call a request has nothing running.
Early == {"read", "mint", "reopen", "adopt", "rehydrate", "discover", "resolve", "call"}

\* A request on its way to its call has found its card pending: nothing was
\* filed for it, and nobody else cancels it meanwhile.
BeforeCall(h) ==
    /\ handler[h].pc \in Early => call[h].pc = "idle"
    /\ handler[h].pc \in Early \ {"read"} =>
           FiledFor(TurnOf(h)) = {} /\ ResponseOf(TurnOf(h)) # "declined"

\* All rows of the card of a running call are its own.
DuringCall(c) ==
    call[c].pc # "idle" =>
        \A t \in Turns : call[c].token \in mintedFor[t] =>
            /\ \A i \in FiledFor(t) : mockWrites[i].token = call[c].token
            /\ ResponseOf(t) # "declined"

AloneInv ==
    /\ \A h \in Handlers : BeforeCall(h) /\ DuringCall(h)
    /\ OneWritePerCard
    /\ CancelledMeansNothingFiled

\* Nothing is filed at first.
LEMMA AloneInit == LifeInit => AloneInv
  <1> SUFFICES ASSUME LifeInit PROVE AloneInv
    OBVIOUS
  <1>1. \A t \in Turns : FiledFor(t) = {}
    BY DEF LifeInit, GateInit, FiledFor
  <1> QED
    BY <1>1 DEF LifeInit, GateInit, Idle, Off, Handlers, AloneInv, BeforeCall, DuringCall,
       OneWritePerCard, CancelledMeansNothingFiled, Early

\* Only a request that records its decision cancels a card.
LEMMA NewlyDeclined ==
  ASSUME LifeInv, LifeNext, NEW t \in Turns, ResponseOf(t) # "declined",
         ResponseOf(t)' = "declined"
  PROVE  \E h \in Handlers : Resolve(h) /\ TurnOf(h) = t
  <1>0. card \in [Turns -> CardRecord]
    BY DEF LifeInv, CoreInv, Shape
  <1>1. ASSUME NEW u \in Turns, NEW w \in Writes, Park(u, w)
        PROVE  FALSE
    BY <1>0, <1>1 DEF Park, ResponseOf
  <1>2. ASSUME NEW u \in Turns, NEW r \in Answered, Answer(u, r)
        PROVE  u = t /\ r = "declined"
    <2>1. card' # card
      BY DEF ResponseOf
    <2>2. card' = [card EXCEPT ![u].response = r]
      BY <1>2, <2>1 DEF Answer
    <2>3. u = t
      BY <1>0, <2>2 DEF ResponseOf
    <2>4. card'[t] = [card[t] EXCEPT !.response = r]
      BY <1>0, <2>2, <2>3
    <2>5. card'[t].response = r
      BY <1>0, <2>4 DEF CardRecord
    <2> QED
      BY <2>3, <2>5 DEF ResponseOf
  <1>3. ASSUME NEW h \in Handlers, HandlerStep(h) \/ Await(h) \/ GateStep(h) \/ OrphanReply(h)
        PROVE  Resolve(h) /\ TurnOf(h) = t
    <2>1. CASE Resolve(h)
      <3>1. TurnOf(h) \in Turns /\ handler[h].decision \in Answered
        BY <2>1 DEF LifeInv, CoreInv, HandlerOK, Resolve, At, Responses, Answered
      <3>2. card' # card
        BY DEF ResponseOf
      <3> QED
        BY <1>2, <2>1, <3>1, <3>2 DEF Resolve
    <2>2. CASE ExpireCard(h)
      <3>1. TurnOf(h) \in Turns /\ "expired" \in Answered
        BY <2>2 DEF LifeInv, CoreInv, HandlerOK, ExpireCard, At, Answered
      <3> QED
        BY <1>2, <2>2, <3>1 DEF ExpireCard
    <2>3. CASE card' = card
      BY <2>3 DEF ResponseOf
    <2> QED
      BY <1>3, <2>1, <2>2, <2>3 DEF HandlerStep, Read, MintToken, Reopen, Adopt,
         Rehydrate, Discover, IssueCall, CallReturns, CallLost, Synthesize, Close,
         Unhandled, HandlerFails, ExpireReopen, ExpireClose, Await, GateStep,
         OrphanReply, lifeVars, tables
  <1>4. ~ SweepStep
    <2>1. ASSUME SweepStep
          PROVE  card' = card \/ \E u \in Turns : Answer(u, "expired")
      BY <2>1 DEF SweepStep, SweepStale, SweepList, SweepReopen, SweepClose,
         SweepDone, SweepFails, SweepExpire, tables
    <2> QED
      BY <1>2, <2>1 DEF ResponseOf, Answered
  <1>5. ASSUME NEW u \in Turns, StartTurn(u) \/ ChatStep(u)
        PROVE  FALSE
    BY <1>1, <1>5 DEF StartTurn, ChatStep, EndChat, ResponseOf
  <1>6. ASSUME NEW h \in Handlers, NEW u \in Turns, NEW d \in Responses, Post(h, u, d)
        PROVE  FALSE
    BY <1>6 DEF Post, tables, ResponseOf
  <1>7. ~ (ClockTick \/ Restart)
    BY DEF ClockTick, Restart, lifeVars, tables, ResponseOf
  <1> QED
    BY <1>3, <1>4, <1>5, <1>6, <1>7 DEF LifeNext

\* A step that files nothing, mints nothing and starts no call.
LEMMA NothingFiled ==
  ASSUME LifeInv, AloneInv, LifeNext, UNCHANGED <<mockWrites, mintedFor>>,
         \A c \in Calls : call'[c].pc # "idle" =>
             call[c].pc # "idle" /\ call'[c].token = call[c].token,
         \A h \in Handlers : ~ Resolve(h),
         \A h \in Handlers : handler'[h].pc \in Early => call[h].pc = "idle",
         \A h \in Handlers : handler'[h].pc \in Early \ {"read"} =>
             /\ FiledFor(TurnOf(h)') = {} /\ TurnOf(h)' \in Turns
             /\ ResponseOf(TurnOf(h)') # "declined"
  PROVE  AloneInv'
  <1>1. \A t \in Turns : /\ FiledFor(t)' = FiledFor(t)
                         /\ ResponseOf(t)' = "declined" => ResponseOf(t) = "declined"
    BY NewlyDeclined DEF FiledFor
  <1>2. ASSUME NEW h \in Handlers
        PROVE  BeforeCall(h)' /\ DuringCall(h)'
    <2>1. BeforeCall(h)'
      BY <1>1, <1>2 DEF BeforeCall, Handlers, FiledFor, ResponseOf
    <2>2. DuringCall(h)'
      BY <1>1, <1>2 DEF AloneInv, DuringCall, Handlers
    <2> QED
      BY <2>1, <2>2
  <1>3. OneWritePerCard' /\ CancelledMeansNothingFiled'
    BY <1>1 DEF AloneInv, OneWritePerCard, CancelledMeansNothingFiled, ResponseOf
  <1> QED
    BY <1>2, <1>3 DEF AloneInv

\* A request that stays before its call, or leaves, keeps what it found.
LEMMA StaysEarly ==
  ASSUME LifeInv, AloneInv, LifeNext, NEW h \in Handlers, \A g \in Handlers : g = h,
         UNCHANGED <<call, mockWrites, mintedFor>>, ~ Resolve(h),
         handler'[h].pc \in Early => call[h].pc = "idle",
         handler'[h].pc \in Early \ {"read"} =>
             /\ handler[h].pc \in Early \ {"read"}
             /\ handler'[h].turn = handler[h].turn
  PROVE  AloneInv'
  <1>1. ASSUME handler'[h].pc \in Early \ {"read"}
        PROVE  /\ FiledFor(TurnOf(h)') = {} /\ TurnOf(h)' \in Turns
               /\ ResponseOf(TurnOf(h)') # "declined"
    <2>1. TurnOf(h)' = TurnOf(h) /\ TurnOf(h) \in Turns
      BY <1>1 DEF TurnOf, LifeInv, CoreInv, HandlerOK, Early
    <2> QED
      BY <1>1, <2>1 DEF AloneInv, BeforeCall
  <1>2. \A c \in Calls : call'[c].pc # "idle" =>
             call[c].pc # "idle" /\ call'[c].token = call[c].token
    OBVIOUS
  <1> QED
    BY <1>1, <1>2, NothingFiled

\* The steps of a request that leave the gate alone, its answer apart.
LEMMA QuietAlone ==
  ASSUME LifeInv, AloneInv, LifeNext, NEW h \in Handlers, \A g \in Handlers : g = h,
         \/ Read(h) \/ Reopen(h) \/ Adopt(h) \/ Rehydrate(h) \/ Discover(h)
         \/ CallLost(h) \/ Synthesize(h) \/ Close(h) \/ Unhandled(h) \/ HandlerFails(h)
         \/ ExpireCard(h) \/ ExpireReopen(h) \/ ExpireClose(h) \/ Await(h)
         \/ \E t \in Turns, d \in Responses : Post(h, t, d)
  PROVE  AloneInv'
  <1>1. /\ handler \in [Handlers -> HandlerRecord] /\ handler[h] \in HandlerRecord
        /\ HandlerOK(h) /\ BeforeCall(h)
    BY DEF LifeInv, CoreInv, Shape, AloneInv
  <1>2. UNCHANGED <<call, mockWrites, mintedFor>>
    BY DEF Read, Reopen, Adopt, Rehydrate, Discover, CallLost, Synthesize, Close,
           Unhandled, HandlerFails, ExpireCard, ExpireReopen, ExpireClose, Await, Post,
           gateVars, tables
  <1>3. CASE Leave(h) /\ ~ Resolve(h)
    <2>1. handler'[h].pc = "off"
      BY <1>1, <1>3 DEF Leave, Off
    <2> QED
      BY <1>2, <1>3, <2>1, StaysEarly DEF Early
  <1>4. ASSUME NEW pc \in HandlerPCs, Go(h, pc), ~ Resolve(h),
               pc \in Early => handler[h].pc \in Early \ {"read"}
        PROVE  AloneInv'
    BY <1>1, <1>2, <1>4, GoFacts, StaysEarly DEF BeforeCall
  <1>5. ASSUME NEW o \in Settled \cup {"none"}, End(h, o), ~ Resolve(h)
        PROVE  AloneInv'
    <2>1. "close" \in HandlerPCs
      BY DEF HandlerPCs
    <2>2. handler'[h].pc \in {"close", "error"}
      BY <1>1, <1>5, <2>1, RecordFacts DEF End
    <2> QED
      BY <1>2, <1>5, <2>2, StaysEarly DEF Early
  <1>6. handler[h].pc # "resolve" => ~ Resolve(h)
    BY DEF Resolve, At
  <1>7. CASE Read(h)
    <2>1. handler[h].pc = "read"
      BY <1>7 DEF Read, At
    <2>2. CASE Go(h, "mint") /\ Answerable(TurnOf(h))
      <3> DEFINE T == TurnOf(h)
      <3>1. "mint" \in HandlerPCs /\ T \in Turns
        BY <1>1, <2>1 DEF HandlerPCs, HandlerOK
      <3>2. handler'[h].pc = "mint" /\ handler'[h].turn = handler[h].turn
        BY <1>1, <2>2, <3>1, GoFacts
      <3>3. ~ IsAnswered(T) /\ ResponseOf(T) # "declined"
        BY <2>2 DEF Answerable, IsAnswered, ResponseOf, Answered
      <3>4. FiledFor(T) = {}
        BY <3>1, <3>3 DEF LifeInv, CoreInv, RowsAnswered, FiledFor
      <3>5. call[h].pc = "idle"
        BY <1>1, <2>1 DEF BeforeCall, Early
      <3>6. \A c \in Calls : call'[c].pc # "idle" =>
             call[c].pc # "idle" /\ call'[c].token = call[c].token
        BY <1>2
      <3>7. TurnOf(h)' = T
        BY <3>2 DEF TurnOf
      <3> QED
        BY <1>2, <1>6, <2>1, <3>1, <3>3, <3>4, <3>5, <3>6, <3>7, NothingFiled
    <2>3. CASE Go(h, "expire")
      BY <1>4, <1>6, <2>1, <2>3 DEF HandlerPCs, Early
    <2> QED
      BY <1>3, <1>6, <1>7, <2>1, <2>2, <2>3 DEF Read
  <1>8. CASE Reopen(h)
    <2>1. handler[h].pc = "reopen" /\ (Go(h, "adopt") \/ Leave(h))
      BY <1>8 DEF Reopen, At
    <2>2. "adopt" \in HandlerPCs /\ "reopen" \in Early
      BY DEF HandlerPCs, Early
    <2> QED
      BY <1>3, <1>4, <1>6, <2>1, <2>2
  <1>9. CASE Adopt(h)
    <2>1. handler[h].pc = "adopt" /\ \E b : handler' =
              [handler EXCEPT ![h].pc = "rehydrate", ![h].buffer = b]
      BY <1>9 DEF Adopt, At
    <2>2. PICK b : handler'[h] = [handler[h] EXCEPT !.pc = "rehydrate", !.buffer = b]
      BY <1>1, <2>1
    <2>3. handler'[h].pc = "rehydrate" /\ handler'[h].turn = handler[h].turn
      BY <1>1, <2>2 DEF HandlerRecord
    <2> QED
      BY <1>1, <1>2, <1>6, <2>1, <2>3, StaysEarly DEF BeforeCall, Early
  <1>10. CASE Rehydrate(h)
    <2> DEFINE to == IF handler[h].decision = "confirmed" THEN "discover" ELSE "resolve"
               found == card[TurnOf(h)].response = "pending"
    <2>1. handler[h].pc = "rehydrate" /\
          handler'[h] = [handler[h] EXCEPT !.pc = to, !.pending = found]
      BY <1>1, <1>10 DEF Rehydrate, At
    <2>2. handler'[h].pc = to /\ handler'[h].turn = handler[h].turn
      BY <1>1, <2>1 DEF HandlerRecord
    <2> QED
      BY <1>1, <1>2, <1>6, <2>1, <2>2, StaysEarly DEF BeforeCall, Early
  <1>11. CASE Discover(h)
    <2>1. handler[h].pc = "discover" /\ (Go(h, "resolve") \/ End(h, "partial"))
      BY <1>11 DEF Discover, At
    <2>2. "resolve" \in HandlerPCs /\ "discover" \in Early /\ "partial" \in Settled
      BY DEF HandlerPCs, Early, Settled
    <2> QED
      BY <1>4, <1>5, <1>6, <2>1, <2>2
  <1>12. CASE CallLost(h) \/ Synthesize(h)
    <2>1. handler[h].pc # "resolve" /\ \E o \in Settled : End(h, o)
      BY <1>12 DEF CallLost, Synthesize, At, Settled
    <2> QED
      BY <1>5, <1>6, <2>1
  <1>13. CASE Close(h) \/ Unhandled(h) \/ ExpireClose(h)
    BY <1>3, <1>6, <1>13 DEF Close, Unhandled, ExpireClose, At
  <1>14. CASE HandlerFails(h)
    <2>1. CASE Leave(h)
      <3>1. handler'[h].pc = "off"
        BY <1>1, <2>1 DEF Leave, Off
      <3>2. ~ Resolve(h)
        <4>1. handler[h].pc # "resolve"
          BY <1>1, <1>14, <2>1, <3>1, GoFacts DEF HandlerFails, HandlerPCs
        <4> QED
          BY <1>6, <4>1
      <3> QED
        BY <1>3, <2>1, <3>2
    <2>2. CASE Go(h, "error") /\ card' = card
      <3>1. "error" \in HandlerPCs /\ "error" \notin Early
        BY DEF HandlerPCs, Early
      <3>2. handler'[h].pc = "error"
        BY <1>1, <2>2, <3>1, GoFacts
      <3>3. \A t \in Turns : ResponseOf(t)' = ResponseOf(t)
        BY <2>2 DEF ResponseOf
      <3>4. \A t \in Turns : FiledFor(t)' = FiledFor(t)
        BY <1>2 DEF FiledFor
      <3>5. ASSUME NEW g \in Handlers PROVE BeforeCall(g)' /\ DuringCall(g)'
        BY <1>2, <3>1, <3>2, <3>3, <3>4 DEF AloneInv, BeforeCall, DuringCall
      <3>6. OneWritePerCard' /\ CancelledMeansNothingFiled'
        BY <1>2, <2>2, <3>4 DEF AloneInv, OneWritePerCard, CancelledMeansNothingFiled
      <3> QED
        BY <3>5, <3>6 DEF AloneInv
    <2> QED
      BY <1>14, <2>1, <2>2 DEF HandlerFails, tables
  <1>15. CASE ExpireCard(h)
    <2>1. handler[h].pc = "expire" /\ (Go(h, "expireReopen") \/ Leave(h))
      BY <1>15 DEF ExpireCard, At
    <2>2. "expireReopen" \in HandlerPCs /\ "expireReopen" \notin Early
      BY DEF HandlerPCs, Early
    <2> QED
      BY <1>3, <1>4, <1>6, <2>1, <2>2
  <1>16. CASE ExpireReopen(h)
    <2>1. handler[h].pc = "expireReopen" /\ Go(h, "expireClose")
      BY <1>16 DEF ExpireReopen, At
    <2>2. "expireClose" \in HandlerPCs /\ "expireClose" \notin Early
      BY DEF HandlerPCs, Early
    <2> QED
      BY <1>4, <1>6, <2>1, <2>2
  <1>17. CASE Await(h)
    <2>1. handler[h].pc # "resolve" /\ handler' = handler
      BY <1>17 DEF Await
    <2> QED
      BY <1>1, <1>2, <1>6, <2>1, StaysEarly DEF BeforeCall
  <1>18. ASSUME NEW t \in Turns, NEW d \in Responses, Post(h, t, d)
         PROVE  AloneInv'
    <2>1. handler[h].pc = "off" /\ call[h].pc = "idle" /\ handler'[h].pc = "read"
      BY <1>1, <1>18 DEF Post, At, Off
    <2> QED
      BY <1>2, <1>6, <2>1, StaysEarly
  <1> QED
    BY <1>7, <1>8, <1>9, <1>10, <1>11, <1>12, <1>13, <1>14, <1>15, <1>16, <1>17, <1>18

\* A fresh token has no row and no call.
LEMMA MintAlone ==
  ASSUME LifeInv, AloneInv, NEW h \in Handlers, \A g \in Handlers : g = h, MintToken(h)
  PROVE  AloneInv'
  <1> DEFINE T == TurnOf(h)
  <1>1. /\ handler \in [Handlers -> HandlerRecord] /\ HandlerOK(h) /\ BeforeCall(h)
        /\ handler[h] \in HandlerRecord
        /\ handler[h].pc = "mint" /\ T \in Turns
        /\ mintedFor \in [Turns -> SUBSET Tokens]
        /\ call[h].pc = "idle" /\ FiledFor(T) = {} /\ ResponseOf(T) # "declined"
    BY DEF LifeInv, CoreInv, Shape, MintToken, At, HandlerOK, AloneInv, BeforeCall, Early
  <1>2. PICK tok \in Tokens :
          /\ MintFor(h, tok)
          /\ \/ handler' = [handler EXCEPT ![h].pc = "reopen", ![h].token = tok]
             \/ Leave(h)
    BY DEF MintToken
  <1>3. /\ tok \in Fresh /\ tok \notin Minted
        /\ UNCHANGED <<call, mockWrites, card>>
        /\ \A t \in Turns : mintedFor'[t] \subseteq mintedFor[t] \cup {tok}
        /\ \A t \in Turns : mintedFor[t] \subseteq mintedFor'[t]
    BY <1>1, <1>2 DEF MintFor, Mint, Fresh, Minted, MintToken
  <1>4. \A t \in Turns : FiledFor(t)' = FiledFor(t)
    BY <1>3, FreshUnfiled DEF FiledFor, LifeInv, CoreInv, TokensFiled
  <1>5. handler'[h].pc = "off" \/ (handler'[h].pc = "reopen" /\ TurnOf(h)' = T)
    <2>1. CASE Leave(h)
      BY <1>1, <2>1 DEF Leave, Off
    <2>2. CASE handler' = [handler EXCEPT ![h].pc = "reopen", ![h].token = tok]
      <3>1. handler'[h] = [handler[h] EXCEPT !.pc = "reopen", !.token = tok]
        BY <1>1, <2>2
      <3> QED
        BY <1>1, <3>1 DEF HandlerRecord, TurnOf
    <2> QED
      BY <1>2, <2>1, <2>2
  <1>6. ASSUME NEW g \in Handlers
        PROVE  BeforeCall(g)' /\ DuringCall(g)'
    <2>1. g = h /\ call'[g].pc = "idle"
      BY <1>1, <1>3
    <2>2. BeforeCall(g)'
      BY <1>1, <1>3, <1>4, <1>5, <2>1 DEF BeforeCall, Early, ResponseOf
    <2> QED
      BY <2>1, <2>2 DEF DuringCall
  <1>7. OneWritePerCard' /\ CancelledMeansNothingFiled'
    BY <1>3, <1>4 DEF AloneInv, OneWritePerCard, CancelledMeansNothingFiled
  <1> QED
    BY <1>6, <1>7 DEF AloneInv

\* A decision is recorded while nothing has been filed and nothing is running.
LEMMA ResolveAlone ==
  ASSUME LifeInv, AloneInv, LifeNext, NEW h \in Handlers, \A g \in Handlers : g = h,
         Resolve(h)
  PROVE  AloneInv'
  <1> DEFINE T == TurnOf(h)
  <1>1. /\ handler \in [Handlers -> HandlerRecord] /\ HandlerOK(h) /\ BeforeCall(h)
        /\ handler[h].pc = "resolve" /\ T \in Turns
        /\ card \in [Turns -> CardRecord]
        /\ call[h].pc = "idle" /\ FiledFor(T) = {} /\ ResponseOf(T) # "declined"
    BY DEF LifeInv, CoreInv, Shape, Resolve, At, HandlerOK, AloneInv, BeforeCall, Early
  <1>2. UNCHANGED <<call, mockWrites, mintedFor>>
    BY DEF Resolve, gateVars
  <1>3. \A t \in Turns : FiledFor(t)' = FiledFor(t)
    BY <1>2 DEF FiledFor
  <1>4. PICK pc \in {"call", "answer", "error"} :
            Go(h, pc) /\ (pc = "call" => handler[h].decision = "confirmed")
    BY DEF Resolve, AfterResolve
  <1>5. handler'[h].pc = pc /\ handler'[h].turn = handler[h].turn
    <2>1. pc \in HandlerPCs
      BY DEF HandlerPCs
    <2> QED
      BY <1>1, <1>4, <2>1, GoFacts
  <1>6. TurnOf(h)' = T
    BY <1>5 DEF TurnOf
  <1>7. \A t \in Turns : t # T => card'[t] = card[t]
    BY <1>1 DEF Resolve, Answer
  <1>8. pc = "call" => ResponseOf(T)' # "declined"
    <2> SUFFICES ASSUME pc = "call" PROVE card'[T].response # "declined"
      BY <1>6 DEF ResponseOf
    <2>1. CASE card' = [card EXCEPT ![T].response = "confirmed"]
      <3>1. card'[T] = [card[T] EXCEPT !.response = "confirmed"]
        BY <1>1, <2>1
      <3> QED
        BY <1>1, <3>1 DEF CardRecord
    <2>2. CASE card' = card
      BY <1>1, <2>2 DEF ResponseOf
    <2> QED
      BY <1>4, <2>1, <2>2 DEF Resolve, Answer
  <1>9. ASSUME NEW g \in Handlers
        PROVE  BeforeCall(g)' /\ DuringCall(g)'
    <2>1. g = h /\ call'[g].pc = "idle"
      BY <1>1, <1>2
    <2>2. BeforeCall(g)'
      BY <1>1, <1>3, <1>5, <1>6, <1>8, <2>1 DEF BeforeCall, Early, ResponseOf
    <2> QED
      BY <2>1, <2>2 DEF DuringCall
  <1>10. OneWritePerCard'
    BY <1>2, <1>3 DEF AloneInv, OneWritePerCard
  <1>11. CancelledMeansNothingFiled'
    BY <1>1, <1>3, <1>7 DEF AloneInv, CancelledMeansNothingFiled
  <1> QED
    BY <1>9, <1>10, <1>11 DEF AloneInv

\* The call starts with nothing filed for its card.
LEMMA IssueAlone ==
  ASSUME LifeInv, AloneInv, NEW h \in Handlers, \A g \in Handlers : g = h, IssueCall(h)
  PROVE  AloneInv'
  <1> DEFINE T == TurnOf(h)
  <1>1. /\ handler \in [Handlers -> HandlerRecord] /\ HandlerOK(h) /\ BeforeCall(h)
        /\ handler[h].pc = "call" /\ T \in Turns
        /\ handler[h].token \in mintedFor[T]
        /\ FiledFor(T) = {} /\ ResponseOf(T) # "declined"
    BY DEF LifeInv, CoreInv, Shape, IssueCall, At, HandlerOK, Carrying, AloneInv,
       BeforeCall, Early
  <1>2. UNCHANGED <<mockWrites, mintedFor, card>> /\ Go(h, "called") /\ "called" \in HandlerPCs
    BY DEF IssueCall, Receive, tables, HandlerPCs
  <1>3. handler'[h].pc = "called"
    BY <1>1, <1>2, GoFacts
  <1>4. \A t \in Turns : FiledFor(t)' = FiledFor(t)
    BY <1>2 DEF FiledFor
  <1>5. call'[h].token = handler[h].token
    BY DEF IssueCall, Receive, Handlers, LifeInv, CoreInv, GateInv, GateTypeOK
  <1>6. \A t \in Turns : handler[h].token \in mintedFor[t] => t = T
    BY <1>1 DEF LifeInv, CoreInv, TokensOK
  <1>7. ASSUME NEW g \in Handlers
        PROVE  BeforeCall(g)' /\ DuringCall(g)'
    <2>1. g = h
      OBVIOUS
    <2>2. BeforeCall(g)'
      BY <1>3, <2>1 DEF BeforeCall, Early
    <2>3. DuringCall(g)'
      BY <1>1, <1>2, <1>4, <1>5, <1>6, <2>1 DEF DuringCall, ResponseOf
    <2> QED
      BY <2>2, <2>3
  <1>8. OneWritePerCard' /\ CancelledMeansNothingFiled'
    BY <1>2, <1>4 DEF AloneInv, OneWritePerCard, CancelledMeansNothingFiled
  <1> QED
    BY <1>7, <1>8 DEF AloneInv

\* The tool answers, to the request or to nobody.
LEMMA ReplyAlone ==
  ASSUME LifeInv, AloneInv, LifeNext, NEW h \in Handlers, \A g \in Handlers : g = h,
         CallReturns(h) \/ OrphanReply(h)
  PROVE  AloneInv'
  <1>1. /\ handler \in [Handlers -> HandlerRecord] /\ BeforeCall(h)
        /\ h \in Calls /\ Reply(h) /\ call[h].pc # "idle"
        /\ UNCHANGED <<card, mintedFor>>
    BY DEF LifeInv, CoreInv, Shape, AloneInv, Handlers, CallReturns, OrphanReply, Reply,
       Answers, lifeVars, tables
  <1>2. handler'[h].pc \notin Early
    <2>1. CASE CallReturns(h)
      <3>1. \E pc \in {"answer", "close"}, o \in Settled \cup {"none"} : Record(h, pc, o)
        BY <2>1 DEF CallReturns, End, Settled
      <3>2. {"answer", "close"} \subseteq HandlerPCs
        BY DEF HandlerPCs
      <3> QED
        BY <1>1, <3>1, <3>2, RecordFacts DEF Early
    <2>2. CASE OrphanReply(h)
      BY <1>1, <2>2 DEF OrphanReply, lifeVars, BeforeCall
    <2> QED
      BY <2>1, <2>2
  <1>3. /\ mockWrites' = mockWrites
        /\ \A c \in Calls : call'[c].pc # "idle" =>
                call[c].pc # "idle" /\ call'[c].token = call[c].token
    BY <1>1, ReplyFacts
  <1>4. \A g \in Handlers : ~ Resolve(g)
    BY <1>1 DEF Resolve, At, BeforeCall, Early
  <1> QED
    BY <1>1, <1>2, <1>3, <1>4, NothingFiled

\* A row is filed by the one call there is, for a token that has none.
LEMMA GateAlone ==
  ASSUME LifeInv, AloneInv, LifeNext, GateInv', NEW h \in Handlers,
         \A g \in Handlers : g = h, GateStep(h)
  PROVE  AloneInv'
  <1>1. /\ UNCHANGED <<tables, handler>> /\ h \in Calls /\ call[h].pc # "idle"
        /\ BeforeCall(h) /\ DuringCall(h) /\ call \in [Calls -> Threads]
    BY DEF GateStep, Load, Check, Lock, Spend, AppendWrite, ReadBack, StoreFails,
       Handlers, AloneInv, LifeInv, CoreInv, GateInv, GateTypeOK
  <1>2. handler[h].pc \notin Early
    BY <1>1 DEF BeforeCall
  <1>3. mockWrites' = mockWrites \/ AppendRow(h)
    BY DEF GateStep, Load, Check, Lock, Spend, AppendWrite, ReadBack, StoreFails
  <1>4. call'[h].token = call[h].token
    <2>1. ASSUME NEW pc, Goto(h, pc) PROVE call'[h].token = call[h].token
      <3>1. call'[h] = [call[h] EXCEPT !.pc = pc]
        BY <1>1, <2>1 DEF Goto
      <3> QED
        BY <1>1, <3>1 DEF Threads
    <2>2. CASE Load(h)
      BY <1>1, <2>1, <2>2 DEF Load, Threads
    <2>3. CASE ReadBack(h)
      BY <1>1, <2>3 DEF ReadBack, Threads
    <2>4. CASE Check(h) \/ Lock(h) \/ Spend(h) \/ AppendWrite(h) \/ StoreFails(h)
      BY <2>1, <2>4 DEF Check, Lock, Spend, AppendWrite, StoreFails
    <2> QED
      BY <2>2, <2>3, <2>4 DEF GateStep
  <1>5. \A i \in DOMAIN mockWrites' :
            \/ mockWrites'[i].token = call[h].token
            \/ i \in DOMAIN mockWrites /\ mockWrites'[i] = mockWrites[i]
    <2>1. CASE mockWrites' = mockWrites
      BY <2>1
    <2>2. CASE AppendRow(h)
      <3> DEFINE row == [number |-> NextNumber, token |-> call[h].token,
                         write |-> call[h].write]
                 Rows == [number : Nat, token : Tokens, write : Writes]
      <3>1. mockWrites \in Seq(Rows)
        BY DEF LifeInv, CoreInv, GateInv, GateTypeOK
      <3>2. mockWrites' = Append(mockWrites, row) /\ row.token = call[h].token
        BY <2>2 DEF AppendRow
      <3> HIDE DEF row, Rows
      <3> QED
        BY <3>1, <3>2
    <2> QED
      BY <1>3, <2>1, <2>2
  <1>6. ASSUME NEW t \in Turns, call[h].token \in mintedFor[t]
        PROVE  /\ \A i \in FiledFor(t)' : mockWrites'[i].token = call[h].token
               /\ ResponseOf(t)' # "declined"
    BY <1>1, <1>5, <1>6 DEF FiledFor, tables, DuringCall, ResponseOf
  <1>7. ASSUME NEW t \in Turns, call[h].token \notin mintedFor[t]
        PROVE  /\ FiledFor(t)' \subseteq FiledFor(t)
               /\ \A i \in FiledFor(t)' : mockWrites'[i] = mockWrites[i]
    BY <1>1, <1>5, <1>7 DEF FiledFor, tables
  <1>8. ASSUME NEW g \in Handlers
        PROVE  BeforeCall(g)' /\ DuringCall(g)'
    <2>1. g = h
      OBVIOUS
    <2>2. BeforeCall(g)'
      BY <1>1, <1>2, <2>1 DEF BeforeCall
    <2>3. DuringCall(g)'
      BY <1>1, <1>4, <1>6, <2>1 DEF DuringCall, tables
    <2> QED
      BY <2>2, <2>3
  <1>9. OneWritePerCard'
    <2> SUFFICES ASSUME NEW t \in Turns, NEW i \in FiledFor(t)', NEW j \in FiledFor(t)'
                 PROVE  i = j
      BY DEF OneWritePerCard
    <2>1. i \in DOMAIN mockWrites' /\ j \in DOMAIN mockWrites'
      BY DEF FiledFor
    <2>2. CASE call[h].token \in mintedFor[t]
      BY <1>6, <2>1, <2>2 DEF GateInv, OneWritePerToken
    <2>3. CASE call[h].token \notin mintedFor[t]
      BY <1>7, <2>3 DEF AloneInv, OneWritePerCard
    <2> QED
      BY <2>2, <2>3
  <1>10. CancelledMeansNothingFiled'
    BY <1>1, <1>6, <1>7 DEF AloneInv, CancelledMeansNothingFiled, tables, ResponseOf
  <1> QED
    BY <1>8, <1>9, <1>10 DEF AloneInv

\* Nobody's request moves.
LEMMA AsideAlone ==
  ASSUME LifeInv, AloneInv, LifeNext,
         \/ ClockTick \/ SweepStep
         \/ \E t \in Turns : StartTurn(t) \/ ChatStep(t)
  PROVE  AloneInv'
  <1>1. UNCHANGED <<call, mockWrites, mintedFor, handler>>
    BY DEF ClockTick, Tick, lifeVars, tables, SweepStep, SweepStale, SweepList,
       SweepReopen, SweepClose, SweepDone, SweepFails, SweepExpire, StartTurn, ChatStep,
       EndChat, Park, gateVars
  <1>2. \A t \in Turns : ResponseOf(t) # "declined" => ResponseOf(t)' # "declined"
    <2> SUFFICES ASSUME NEW t \in Turns, ResponseOf(t) # "declined",
                        ResponseOf(t)' = "declined"
                 PROVE  FALSE
      OBVIOUS
    <2>1. PICK h \in Handlers : Resolve(h)
      BY NewlyDeclined
    <2>2. handler'[h].pc # handler[h].pc
      <3>1. \E pc \in {"call", "answer", "error"} : Go(h, pc)
        BY <2>1 DEF Resolve, AfterResolve
      <3>2. {"call", "answer", "error"} \subseteq HandlerPCs /\ handler[h].pc = "resolve"
        BY <2>1 DEF HandlerPCs, Resolve, At
      <3> QED
        BY <3>1, <3>2, GoFacts DEF LifeInv, CoreInv, Shape
    <2> QED
      BY <1>1, <2>2
  <1>3. \A t \in Turns : FiledFor(t)' = FiledFor(t)
    BY <1>1 DEF FiledFor
  <1>4. ASSUME NEW g \in Handlers
        PROVE  BeforeCall(g)' /\ DuringCall(g)'
    <2>1. BeforeCall(g)'
      <3>1. CASE handler[g].pc \in Early
        <4>1. TurnOf(g) \in Turns /\ TurnOf(g)' = TurnOf(g)
          BY <1>1, <3>1 DEF TurnOf, LifeInv, CoreInv, HandlerOK, Early
        <4> QED
          BY <1>1, <1>2, <1>3, <4>1 DEF AloneInv, BeforeCall, ResponseOf
      <3>2. CASE handler[g].pc \notin Early
        BY <1>1, <3>2 DEF BeforeCall
      <3> QED
        BY <3>1, <3>2
    <2>2. DuringCall(g)'
      BY <1>1, <1>2, <1>3 DEF AloneInv, DuringCall
    <2> QED
      BY <2>1, <2>2
  <1>5. OneWritePerCard' /\ CancelledMeansNothingFiled'
    BY <1>1, <1>2, <1>3 DEF AloneInv, OneWritePerCard, CancelledMeansNothingFiled, ResponseOf
  <1> QED
    BY <1>4, <1>5 DEF AloneInv

\* Every step, as long as requests come one at a time.
LEMMA AloneStep ==
  ASSUME LifeInv, AloneInv, [LifeNext]_vars, \A g, h \in Handlers : g = h
  PROVE  AloneInv'
  <1>1. CASE UNCHANGED vars
    BY <1>1 DEF vars, gateVars, lifeVars, tables, AloneInv, BeforeCall, DuringCall,
       FiledFor, TurnOf, ResponseOf, OneWritePerCard, CancelledMeansNothingFiled
  <1>2. CASE LifeNext
    <2>1. GateInv'
      BY <1>2, StepOfGate, NextInv DEF LifeInv, CoreInv
    <2>2. CASE Restart
      <3>1. /\ UNCHANGED <<mockWrites, mintedFor, card>>
            /\ \A h \in Handlers : handler'[h].pc = "off" /\ call'[h].pc = "idle"
        BY <2>2 DEF Restart, Crash, tables, Off, Idle, Handlers
      <3>2. \A t \in Turns : FiledFor(t)' = FiledFor(t)
        BY <3>1 DEF FiledFor
      <3> QED
        BY <3>1, <3>2 DEF AloneInv, BeforeCall, DuringCall, Early, OneWritePerCard,
           CancelledMeansNothingFiled
    <2>3. ASSUME NEW h \in Handlers,
                 \/ HandlerStep(h) \/ Await(h) \/ GateStep(h) \/ OrphanReply(h)
                 \/ \E t \in Turns, d \in Responses : Post(h, t, d)
          PROVE  AloneInv'
      <3>1. \A g \in Handlers : g = h
        OBVIOUS
      <3>2. CASE MintToken(h) \/ Resolve(h) \/ IssueCall(h) \/ CallReturns(h)
                   \/ OrphanReply(h) \/ GateStep(h)
        BY <1>2, <2>1, <3>1, <3>2, MintAlone, ResolveAlone, IssueAlone, ReplyAlone, GateAlone
      <3>3. CASE \/ Read(h) \/ Reopen(h) \/ Adopt(h) \/ Rehydrate(h) \/ Discover(h)
                 \/ CallLost(h) \/ Synthesize(h) \/ Close(h) \/ Unhandled(h)
                 \/ HandlerFails(h) \/ ExpireCard(h) \/ ExpireReopen(h)
                 \/ ExpireClose(h) \/ Await(h)
                 \/ \E t \in Turns, d \in Responses : Post(h, t, d)
        BY <1>2, <3>1, <3>3, QuietAlone
      <3> QED
        BY <2>3, <3>2, <3>3 DEF HandlerStep
    <2> QED
      BY <1>2, <2>2, <2>3, AsideAlone DEF LifeNext
  <1> QED
    BY <1>1, <1>2

\* While requests to answer a card come one at a time, a card files at most one
\* ticket and a cancelled one files none, whatever fails, restarts, expires or is
\* answered again: it is two requests at once that the code does not keep apart.
THEOREM OneAtATimeIsSafe ==
  ASSUME \A g, h \in Handlers : g = h
  PROVE  LifeSpec => [](OneWritePerCard /\ CancelledMeansNothingFiled)
  <1>1. AloneInv => OneWritePerCard /\ CancelledMeansNothingFiled
    BY DEF AloneInv
  <1>2. LifeInv /\ AloneInv /\ [LifeNext]_vars => AloneInv'
    BY AloneStep
  <1> QED
    BY <1>1, <1>2, AloneInit, LifeAlways, PTL DEF LifeSpec

\* One ticket for a card, one request at a time (consume, behind a card that is
\* answered before its call is made).
COROLLARY OneWriteForACard ==
  ASSUME \A g, h \in Handlers : g = h
  PROVE  LifeSpec => []OneWritePerCard
  BY OneAtATimeIsSafe, PTL

\* A card that reads cancelled has filed nothing, one request at a time.
COROLLARY CancelledFilesNothing ==
  ASSUME \A g, h \in Handlers : g = h
  PROVE  LifeSpec => []CancelledMeansNothingFiled
  BY OneAtATimeIsSafe, PTL
=============================================================================
