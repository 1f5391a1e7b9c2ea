# Formal specification of Mosaic HR

Mosaic HR is a policy assistant: one Python process that serves a chat over HTTP,
runs a bounded agent loop against a language model and an MCP tool server mounted
in the same process, files mock HR writes behind a human confirmation, and records
every turn as spans in a SQLite/libSQL store. The TLA+ modules in this directory
model the parts of it where order, failure and concurrency decide what happens, and, as
functions, what it works out: verdicts, answers, evidence, scores and pages.

Paths below are relative to `src/src/hrmosaic/` of the repository, except `evaluation/`,
`scripts/` and `corpus/`, which are relative to `src/`.

Contents: 1 the system, 2 modules, 3 how the modules correspond to the code, 4 what
TLC checks, 5 what is proved, 6 where the code departs from its documentation,
7 what is not modelled, 8 plan, 9 running.

## 1. The system

### Parts, state and operations

| part | state | operations |
|---|---|---|
| Confirmation gate (`mcpserver/confirm.py`, the two write tools) | tables `confirmations`, `mock_writes`; `_write_lock` | `mint`, `validate`, `consume`; elsewhere, the two statements that delete its rows |
| Card lifecycle (`web/api.py` confirm handler, `agent/orchestrator.py` resume and decline, `core/trace.py` expiry) | `turns.outcome`, the `confirmation` span, `TraceWriter._open` | park, confirm, cancel, expire, sweep |
| Turn trace (`core/trace.py`) | one `TurnBuffer` per request, `TraceWriter._open`, tables `turns`, `spans` | start, reopen, add span, close, checkpoint, sweep |
| Agent loop (`agent/orchestrator.py`, `agent/router.py`, `agent/workflows/`) | `_Turn`, `LoopState` | route, act, remind, repair, refuse, propose, settle debts, gate, synthesize, verify |
| MCP client (`agent/client.py`) | one shared connection, cached catalog, `_lock` | discover, call, reset |
| LLM adapters, limiter, cache (`core/llm/`) | token bucket, daily counter, cache rows | complete with retries and deadline |
| Span broker (`web/sse.py`) | subscriber queues, loop, `_closed` | subscribe, publish, stream, close |
| Access gate and rate limiter (`web/api.py`) | per-IP windows | check, allow, sweep |
| Boot (`web/main.py`) | readiness latch; maintenance, warm-up, keep-alive tasks | lifespan |
| Retention and archive (`core/retention.py`, `core/archive.py`) | the tables; `import_state` | prune, import |
| Guardrails and answer steps (`agent/guardrails/`, `agent/*.py`) | none | pure functions of the turn |
| Compliance rules (`mcpserver/rules.py`) | none | scenario and facts to verdict |
| Retrieval and ingestion (`rag/`) | the index file | search, fuse; parse, chunk, embed |
| Dashboard, narration (`web/dashboard.py`, `web/narration.py`) | none | read and render |
| Evaluation (`evaluation/`) | result files | run, judge, score |
| Scripts (`scripts/`) | two hosting platforms | provision, again and again |

### How they interact

All HTTP handlers run on one event loop and interleave only at an `await`. The tool
server runs each tool call in a worker thread of its own, the maintenance pass runs
in a thread every six hours, and a SIGTERM handler runs on the main thread between
any two bytecodes of whatever handler is there. A chat request opens a turn, whose
buffer is registered with the trace writer; the orchestrator calls the model and the
tools; a gated write comes back as `CONFIRMATION_REQUIRED` and *parks* the turn on a
card. `POST /chat/confirm` mints a token, reopens the turn with a new buffer, rebuilds
the turn from its spans, resolves the card and issues the call again with the token.
The store is the only thing the threads, the handlers and the next process share.

### What is hard

* **Interleaving.** Two tool threads and one token; a retention batch or a sandbox reset between
  two statements of `consume`; two answers to one card; a
  decision against the expiry pass; a checkpoint between two spans; a reset of the shared
  client under somebody's call; retention against a turn that comes back; a browser that keeps its
  stream and does not read it; two importers of one result file; a shutdown against everything.
* **Failure.** Any statement may be refused, or applied with its response lost;
  the tool server may disappear while its thread still runs; the process may be
  killed between two statements and start again; a script is cut off and run again.
* **Ordering.** The decision has to be on record before the write; span numbers have
  to run on across reopenings and checkpoints; frames of a turn in the order it published them.
* **Bounds.** Act steps, tool calls and repairs, of the model and of the orchestrator; the
  daily cap, the bucket, the request window, a subscriber's queue.
* **Long sequences.** The loop may be entered four times in a pass, and the passes of
  a turn share some of its state and start the rest afresh.
* **Rewriting.** Between the model's answer and the reader a dozen steps drop, merge and
  replace sentences; each must keep what the others rely on, the citations above all.

### What makes each part correct

* Gate: a write carries a token that was confirmed for exactly that write, and a token
  carries one write; an answer "created" is true and given once; a decision that a write cites
  is never dropped.
* Card: recorded before it is acted on; answered once; no turn left open or parked.
* Trace: spans numbered 1, 2, 3, ...; totals that match them; checkpoints without cost.
* Loop: budgets; cards that reach the reader; no requested action dropped; no second
  card after an answer; an end to every pass.
* Client: one handshake for all turns, a reset that harms no other call.
* LLM: retries within the deadline, every attempt recorded, the daily cap respected.
* Broker: a stream that ends if its browser reads it or leaves; frames in order.
* Limiter: at most n requests in any window; no key kept for ever.
* Retention: no foreign key left hanging; protected sessions kept; no row of a turn
  in service taken away.
* Archive: what is vouched for by digest is what is stored.
* Boot: ready only when something has worked; every open turn settled at the end.
* Rules: a verdict follows from the rows that bind it; nobody approves their own request.
* Answer: one account of a write, citable citations, the records' sums and dates, and a page
  that shows after a reload what it showed live.
* Retrieval, tools: passages that are text of their document; a write that is what its card
  showed; an index that is whole or does not open.
* Evaluation: every figure is of the population it names.
* Pages: a list, its pager, its export and its count are of one set of rows.

## 2. Modules

Each is a component; the ones under *services* and *answers* are composed and run together.

| module | models | depends on |
|---|---|---|
| `TokenLedger` | abstract: a token moves unminted, confirmed, spent, written, and off the record by a reset or by retention | |
| `ConfirmGate` | the gate, one store statement at a time, any number of threads | instance of `TokenLedger` |
| `ConfirmLifecycle` | cards, confirm handlers, maintenance pass, restarts, around the gate | extends `ConfirmGate` |
| `TurnTrace` | buffers, closing batches, checkpoints, reopenings, kills | |
| `AgentLoop` | one turn through the orchestrator, and its resumed passes | |
| *services* | | |
| `LlmCalls` | a logical model call: cap, cache, bucket, retry or failover, budget, span | |
| `SpanBroker` | publishers, the loop, subscribers with bounded queues, streams | |
| `McpClient` | the shared connection: handshake, catalog, reset, calls, health, rediscover | |
| `WebGate` | the access check of every request and the rate limiter | |
| `TraceStore` | the retention sweep against turns, cards, writes half filed and resets, on both backends | |
| `TraceArchive` | importers of result files and their rewriting | |
| `Boot` | the lifespan: start, warm-up, readiness, maintenance, shutdown | |
| `Services` | one of the seven moves in each behaviour | extends the seven |
| *answers* | | |
| `Rules` | the compliance engine, its calendar, the approver chain | |
| `Compliance`, `Outcome`, `Grounding`, `Served` | the answer steps: verdict; write and repetition; sums, dates, snapshot; approver, capability, next steps, notices, redaction | |
| `Citations` | G1 to G3, the broader answer, the evidence of a turn and of its resumed pass | |
| `Turns` | routing made safe, session slots, clarifications, workflow debts, streamed blocks | |
| `Retrieval`, `Tools` | headings, windows, both arms and fusion, backfill; the tools, their cards, the build of the index | `Tools` extends `Rules` |
| `Scoring`, `EvalRuns` | scores of a driven turn; runs, judge passes, labels, arms | |
| `Pages`, `Dashboard` | a turn live and reloaded; the operator's lists, counts and figures | |
| `Provision` | the provisioning scripts against platforms that may fail | |
| `Filters` | the one helper these share: the entries of a sequence that pass a test | |
| `Answers` | one question put to one of them in each behaviour | extends `Turns`, `Retrieval`, `Tools`, the modules of answer steps, `Citations` and `Pages`; instances of the rest |
| | | |
| `MC...` | the symmetry sets and the entry point for TLC | the module of the name |
| `ConfirmLifecycleProofs` | theorems about the gate and about the cards around it, and their proofs | `ConfirmLifecycle` |
| `TurnTraceProofs`, `AgentLoopProofs` | the same | the module of the name |
| `ServicesProofs` | the same for each service alone, and then for the process that runs all of them | `Services` |
| `VerdictProofs` | the policy engine, the profiles, the sections of a document and the builds of the index, for every input; facts about loops and lists | `Tools` |
| `BackedProofs` | what may be cited, counted, kept, struck, named and hidden, and what a message is taken to ask for, for every input | `Citations`, `Grounding`, `Served`, `Turns`, `VerdictProofs` |
| `StatedProofs` | the verdict and the write as the answer states them, repetitions, pages, for every input | `Compliance`, `Outcome`, `Pages`, `VerdictProofs` |
| `AnswersProofs` | passages and searches, for every input; the invariants of `Answers` that follow from all of these | `Answers`, `BackedProofs`, `StatedProofs` |

`ConfirmLifecycle` composes two components: it extends the gate, its own steps call the
gate's actions (`Mint`, `Receive`, `Load`, ... ), and `ImplementsGate` says that the
composition is a behaviour of the gate alone. `AgentLoop` and `ConfirmLifecycle` describe
the same confirm handler at two grains: the first keeps everything the pass computes and
one request at a time, the second keeps every statement and any number of requests.

`Services` is a sum and not a product: the seven share no state in the code but the store and
the event loop, and no action of one reads a variable of another, so a behaviour in which all
seven move projects to seven behaviours in which one does.

## 3. Correspondence with the code

### ConfirmGate

`Load`, `Check`, `Lock`, `Spend`, `AppendWrite`, `ReadBack` and `Reply` are the statements
of `validate` and `consume` in the order the code runs them; the program counter of a
thread names the one it runs next. `_write_lock` is held from `Lock` to the answer.
`StoreFails` is a statement that raises, applied or not. `Crash` empties what lives in
memory and keeps the tables. A write stands for a tool name with its canonical arguments,
since the gate compares both and reads neither. The clock may advance between any two
statements, so a token may expire between `Check` and `Spend`, as it may in the code.

Two statements elsewhere delete the gate's rows and may come between any two of its own:
`ResetSandbox` is the dashboard's `DELETE FROM mock_writes`, and `Prune` is the part of
retention's batch that deletes confirmations no write cites (which sessions are pruned is
`TraceStore`'s matter: here it may be any token's). `ForeignKeys` says whether the store refuses
a write whose confirmation is gone (`Accepted`): SQLite does, of Turso nothing is established.
`AppendWrite` is the INSERT; `Spend` and it are committed one by one. The number of a row is its
place in the table, `MAX(rowid) + 1`, and starts afresh after a reset. `pruned` and `cleared`
remember the tokens that retention and resets took off the record; only properties and `Fresh`
(`secrets.token_urlsafe` does not repeat a token) read them.

### ConfirmLifecycle

| definition | code |
|---|---|
| `Post`, `Read`, `MintToken`, `Reopen` | `web/api.py` `chat_confirm`: the checks, `mint`, the reopening |
| `Adopt`, `Rehydrate`, `Discover`, `Resolve`, `IssueCall`, `CallReturns`, `Synthesize`, `Close` | `Orchestrator.resume_turn` / `decline_turn` up to `_finish` |
| `CallLost`, `OrphanReply` | the client gives up, the tool thread does not |
| `Await` | the handler yields the event loop; `loop` says who has it |
| `ExpireCard`, `ExpireReopen`, `ExpireClose` | `_record_expiry` |
| `Sweep...` | `_maintenance_pass`: `sweep_stale_turns`, `lapsed_proposals`, `expire_proposal` |
| `Unhandled`, `HandlerFails` | the catch-all middleware |
| `Restart` | the process ends; handlers, buffers and the pass go, tables stay |

A buffer is named for whoever opened it: the handler, or, for the pass and a chat request, the
turn. A closing batch is one step that is applied or not, for the store runs it in one
transaction. Everything of `POST /chat` before the park is one open interval. The
result of a policy question whose confirmed write failed may be a second card; that
path is in `AgentLoop` and not here, where a turn has one card. The sandbox reset and retention
are steps of the gate and not of `ConfirmLifecycle`: its `LifeNext` takes every other step of the
gate, so what is proved of the gate covers more than what the lifecycle does.

### TurnTrace

A buffer keeps the next span number, the running totals, how many spans it holds and
whether it is closed. `Signal` starts a checkpoint: no request runs until `FlushOne` has
written and re-armed each open buffer. `Finish`, `Batch` and `Pop` are the three parts of
`close()` and `_flush` between which the signal handler may come, so `Take` empties the
buffer first, as the code does. `add_span` is one step: a signal inside it, between the
number and the append, is not modelled. `Fail` and `Unhandled` are a request that raises and
the catch-all that closes its turn from the registry.

### AgentLoop

`pc` is the place in `_drive`, `_act` and `_answer`; `ret` is who called the loop. What the
model asks for, what a tool returns, whether the clock has run out and whether the tool
server answers are free choices at every step. A tool result is kept as what the loop's own
conditions read of it: that it is there, the verdict, whether it was computed for the reader
(`forActor`), whether the evidence grounds an answer or spans enough documents. The five
tools are those the conditions name. A remote-work question is a claim whose amount was not
given: the loop does not tell them apart otherwise. `Decide` is a later request with the
answer to the card; `Rehydrate` keeps what the spans give back and resets the rest, which
includes the tool budget and the reminders.

`outcome = "degraded"` is `partial` with an `error_kind`. `Verify` stands for G2, the one
broader answer and the steps that rewrite the text: the model keeps only that the answer may
be refused, whole or limited by a budget.

### The services

Each is written at the grain of its scheduler: what runs on the event loop is one step from one
`await` to the next; what runs in a thread or in another process is one step for each statement
of the store or the file system.

| module | state | actions |
|---|---|---|
| `LlmCalls` | `call` (where each turn's call is, its provider, attempt, time left), the bucket, `DailyCallCounter`, the cache rows, flushed and unflushed spans | `CheckDailyCap`, `CacheHit`, `CacheMiss`, the round trip with `ChatAnswers` / `ChatFails`, `StrictRejected`, `SecondAttempt` (retry or failover), `BudgetSpent`, `FlushLlm`, `CacheAges`, `Midnight` |
| `SpanBroker` | queues, subscribers, frames in the loop's hands, generators suspended at a `yield`, `_closed` | `subscribe`, `publish` with its `call_soon_threadsafe`, `_deliver`, `ReadRail` (take an item, keep alive, expire), `ReadAgain`, `Disconnect`, `close` |
| `McpClient` | `_connection`, `_catalog`, `_lock`, each connection, each user | `Start`, `DiscoverCached`, the handshake in three steps, `ResetConnection`, `CallReturns`, `CallFails`, `HealthTimesOut`, and a connection that `Opens` or `Dies` by itself |
| `WebGate` | `_hits`, `_swept_at`, each browser's cookie | `Serve`: the whole of `_check` and of `allow`, which do not await; `Tick` |
| `TraceStore` | each session's rows, its open buffer, the write that is being filed, what the sweep has selected | `StartTurnIn`, `RecordSpan`, `MintCard`, `SpendCard`, `InsertWrite`, `CloseTurn`, `ReopenTurn`, `ResetSandbox`; `SelectPrunable` and `DeletePruned` |
| `TraceArchive` | the files, `eval_results`, `import_state`, each importer's pass | read, digest, batch, end; `RewriteResults` anywhere between |
| `Boot` | the phase of `lifespan`, the warm-up, readiness, the maintenance thread, the requests and their buffers | one action for each step of `lifespan` and of `_warm_up`; `DeadlinePasses`; a request opens, closes or fails; `ShutdownBegins`, `CancelTasks`, `FlushOpenTurns` |

A connection of `McpClient` is an object the anyio task of the SDK keeps alive: *reset* drops the
reference and closes it, and whoever is calling through it gets an error, not an answer. A
cancelled handshake leaves the lock but not the connection. In `LlmCalls` time is counted for
each call, in units of which the logical budget has a few, so that "the budget ends first", "the
round trip does" and "the backoff does not fit" are all reachable. In `TraceStore` a session
runs one turn at a time; a second turn of another tab is a second session of the model, for no
statement of the sweep tells turns of one session apart. `SpendCard` and `InsertWrite` are the two
statements of `consume`, and the sweep, a reset or a closing turn may come between them. In
`SpanBroker` a generator may be left suspended at any `yield` (`stalled`), which is what a full
socket buffer does to it while a connected browser does not read; `ReadAgain` resumes it, in time or
long after the deadline, which the code looks at only between two items. In `Boot` the catch-all
closes only a buffer that no flush has taken out of `open_turns()`.

### The answers

These modules are functions: no state, no step. Each names the set of inputs that are worth
asking (`...Inputs`), the code as operators under the code's names, and one statement of what the
code may answer. `Answers` puts every question to every input in one step. Where the code works
on text, the input is **what the code's patterns find in it**: a sentence is a record of the verb,
the object, the modality, the numbers and the citations a step reads, and the vocabulary of the
patterns is not modelled. Everything that decides which sentence stays, goes, merges or is replaced is. A selection is written
with `Filter` (a concatenation of ones and nones) where a theorem is about it, since the library's
`SelectSeq` is recursive and the prover cannot open it; for the same reason the scanner of a stream,
the windows of a text and the offsets of its blocks are functions of how far they have come.

| module | from | reference it is held against |
|---|---|---|
| `Rules` | `mcpserver/rules.py`, `approvers.py`, `tools/check_policy_compliance.py` | the verdict read off the binding rows without the engine's order; days counted one by one; the chain walked person by person |
| `Compliance`, `Outcome` | `agent/compliance.py`, `agent/outcome.py` | what the answer says, sentence by sentence, against what engine and tool returned |
| `Citations` | `guardrails/g1.py` to `g3.py`, `breadth.py`, `_absorb`, `_rehydrate` | the evidence of the turn, as a set |
| `Grounding` | `arithmetic.py`, `dates.py`, `snapshot.py`, `check_pto_balance` | the sum; the calendar; the record's own date |
| `Served` | `approvers.py`, `capability.py`, `entailment.py`, `core/redact.py`, `_served` | what was resolved, permitted, stated |
| `Turns` | `router.py`, `session.py`, `workflows/`, `answer_stream.py` | the tools a workflow owes; the answer parsed whole, however the stream is cut |
| `Retrieval`, `Tools` | `rag/`, `mcpserver/tools/` | every line of the document in some window; the ranking defined by sets; the card against the write |
| `Scoring`, `EvalRuns` | `evaluation/deterministic.py`, `judges.py`, `runner.py`, `ablation.py` | the turn that was driven; the population each figure names |
| `Pages`, `Dashboard` | `web/api.py`, `web/dashboard.py` | the turn as it was served; the list without pages |
| `Provision` | `scripts/provision_render.py`, `provision_turso.py` | the platform after any number of attempts |

`Provision`, the requests of `EvalRuns` and the builds of `Tools` are sequences of calls that may
fail at any point and be run again: the failures are part of the input.

## 4. What TLC checks

With two workers every run ends within about three minutes.

| run | bounds | distinct states | shows |
|---|---|---|---|
| `gate` | 2 tokens, 2 writes, 2 threads, clock to 2, TTL 1, resets and retention at any point | 868 844 | the gate's invariants; `SpentForGood`; `ImplementsLedger` |
| `card_sequential` | 1 turn, 2 tokens, 1 handler at a time, clock to 2, 2 faults | 249 317 | one answer after another, failures and restarts: one write for a card, none for a cancelled one, the record first, every open turn closed, `ImplementsGate` |
| `card_live` | 1 turn, 2 tokens, 2 handlers, clock to 1, no fault | 120 560 | overlapping answers and the pass: what still holds, and that cards settle and no turn stays parked |
| `trace` | 2 turns, 2 requests, 2 spans, 2 checkpoints, 1 fault | 801 155 | numbering, totals, harmless checkpoints |
| `agent` | 3 steps, 2 calls, 2 calls in a completion, 3 intents, 2 workflows | 1 070 893 | budgets, parking, the action debt, no second card, every pass ends |
| `services` | below | 515 460 | the ten properties of the services |
| `answers` | 47 kinds of question | one for each input | the four properties of the answers |
| `card_twice`, `turn_stale`, `card_pending_forever`, `trace_error_lost`, `agent_verdict` | as small as shows it | | section 6 |

### What the properties of `services` say

| property | says | what it rules out |
|---|---|---|
| `SpansTellTheCalls` | one span for each call that was not refused, in order, and saying what the turn was told; a cache hit repeats a call that succeeded | a failover or a spent budget that leaves no span or two; a failure served from the cache |
| `CapOvershootIsTheUnflushed` | a call is let through only below the cap plus the spans the seeding query could not see | a reseed that forgets what is in flight; a counter carried over midnight |
| `RailShowsTheTurn` | a stream's frames ascend, are of its turn, and are all it was there for unless its queue overflowed or the process shut down | replay, reordering, loss without a cause |
| `EveryStreamEnds` | also the stream whose last frame or sentinel found a full queue, or that was suspended past its deadline; only one whose browser stays and never reads again may not end | a reader that waits for ever |
| `CatalogAndConnectionAgree` | the catalog is that of the connection the calls go to; a live connection is in use, in a handshake, or one of two known to be abandoned (section 6) | a reset that keeps the catalog; a leak on another path |
| `DiscoverAnswers` | whoever waits for the lock gets an answer | a lock kept by a handshake that failed or was cancelled |
| `LimiterIsASlidingWindow` | a browser is refused exactly when its window is full, and nothing is held longer than window and sweep | an off-by-one at the window's edge; a sweep that frees a busy key |
| `RetentionKeepsTheRecord` | on SQLite a write keeps its used card, on Turso it lacks it only if a sweep came between the card's UPDATE and the write's INSERT; its session outlives it unless it was filed after the selection; orphan spans only on Turso, from a turn still open | a sweep in the wrong order, or one that takes the protected |
| `VouchedForIsStored` | the recorded digest is that of the stored results, but for a file replaced between its read and its digest | a state written before, or without, its results |
| `ShutdownSettlesTurns` | after the end a turn is open only if a store that did not answer made it so; ready means proved; an answered request has let go of its buffer, and an apology leaves one armed only where a signal's flush has ended its row | a flush before the tasks are gone, or that forgets a turn; a readiness that a failure sets |

### What the properties of `answers` say

`VerdictsAreEarned`, `AnswersAreBacked`, `EvidenceIsExact` and `FiguresAreEarned` are conjunctions,
one conjunct for each kind of question; each conjunct is an operator of the module that asks it,
with its own comment. They are grouped by what a reader relies on: the verdict, the text shown,
what the text was made from, the figures about it. The invariants have no content before a
question is put, and a question is put once: the run is an enumeration, and its interest is in
the reference each answer is held against.

### Bounds

In the gate, what goes wrong goes wrong between two threads, or a thread and a deletion,
that share a token, or one that retries with another token: two of each give every pair,
and a clock of 2 with a TTL of 1 lets a token be fresh, at its limit and past it. In the
lifecycle, one turn suffices because no statement of the code relates two turns but the
maintenance pass's loop over them, and two handlers give every overlap of two answers; two
faults let one failure hit the repair of another. `card_sequential` has one handler slot,
which successive requests reuse, and two tokens, so that a repeated confirmation mints a
second one. In the trace, one turn is served while another is checkpointed, and a turn is
resumed after a failure. In the loop, three steps and two calls let every budget be the one
that stops a pass, let a repair be the call too many, and leave one act step for each
re-entry; intents and workflows outside the cfg lead to the same guards as the ones in it
(`workflow` differs from `employee_data` with a workflow only in what is *not* owed, and PTO
from expense in one more required record).

In `services` there are two of whatever races:

* two turns make three calls under a cap of one, with a bucket of one and a budget of two units:
  the second call meets the first in flight, waits for a token, or finds the cap reached, and a
  reseed falls between;
* two turns publish three frames each to one stream with a queue of two, so that it overflows,
  and the loop holds the frames of both; one heartbeat lets the deadline pass, and the browser may
  stop reading at any `yield`;
* two users and three connections: the third is the one opened after a reset while the first two
  are still closing; a turn, a health check and the admin are each a role of either user;
* two browsers, a window of one unit and two requests in it, over two ticks: empty, full and past;
* two sessions of which one is kept, and three moments, so that a pruned one comes back; a write of
  either half filed while the sweep runs;
* two importers of one file, rewritten twice: during a read, a digest, a batch;
* two requests and two failures of the warm-up, with a maintenance pass in its thread at any point.

In `answers`, a scenario has two requirements, which gives every guard of one on the other;
the calendar runs over a weekend and a holiday; three people give a chain, a cycle and an orphan.
Lists have two or three elements: enough for before, after, between and twice. `PAGE_SIZE` is 1
and `ROW_LIMIT` 2, so that a list can overrun both.

### Deadlock

Checked in `gate` and in the card runs. It is switched off where a model
legitimately stops: `agent` when a turn is closed with no card to answer, the `trace` runs
when every span, signal and fault is spent, `services` when its bounded history is over,
`answers` once its question is put.

### Fairness

`LifeFairness`: the clock advances and the maintenance pass comes round
(weak: a thread with a `while True` and a sleep); a handler's steps are strongly fair,
because other handlers may hold the loop at any given moment but the event loop takes ready
callbacks in turn; likewise the gate's threads, which queue for a lock. Nothing is assumed
of readers: no fairness on `Post`. `FairLoopSpec`: a request being served takes its next step
(weak fairness on `Step`); the clock and the reader's decision are left free. `EveryPassAnswers`
therefore holds because every loop of the model is bounded by a counter, not because the
wall clock saves it. `ServicesFairness`: the loop resumes a stream's generator whose wait for an item is over
(weak on `ReadRail`, which is disabled while the generator is suspended at a `yield`). Nothing is
assumed of a browser: while it stays connected and does not read, the server does not resume the
generator (`sse.py` 244; 57 and 223 name the case), no deadline is looked at, and the stream need not end;
`ReadAgain` has no fairness and `EveryStreamEnds` excepts a stream suspended for good. Further, every await of a user of the MCP client returns, and a connection opens or
dies in time (weak on `UserStep`, `Opens`, `Dies`). A turn that never completes, a browser
that never leaves and a shutdown that never comes are all allowed: streams that are read end by their deadline.

Every property of a passing run has a mutant: a definition with the bug it is there to catch
(the operators marked *Faulty* in the modules), under which TLC finds it violated.

## 5. What is proved

For all values of the constants, by TLAPS:

| theorem | of | states |
|---|---|---|
| `GateTypes`, `GateSafe` | `ConfirmGate` | types; `OneWritePerToken`, and `WritesConfirmed` where `ForeignKeys` |
| `GateIsLedger` | | `GateSpec` implies `Ledger!Spec`: the refinement `ImplementsLedger`, deletions included |
| `RowsAreForGood` | | `SpentForGood`, for every step: rewritten never, dropped only uncited, not filed again |
| `CreatedAnswersAreTrue` | | `CreatedIsTrue`, which excepts a write that a reset has deleted |
| `LifeTypes` | `ConfirmLifecycle` | types |
| `SystemIsGated` | | `LifeSpec` implies `GateSpec`: the refinement `ImplementsGate` |
| `SystemSafe` | | hence the gate's safety holds of the system |
| `RecordedFirst` | | `WriteMeansAnswered` |
| `AnsweredOnce` | | `AnsweredForGood`, for every step |
| `OpenTurnsAreWorkedOn` | | `OpenIsBeingWorkedOn`, while nothing fails (`MaxFaults = 0`) |
| `OneAtATimeIsSafe` and its corollaries | | `OneWritePerCard` and `CancelledMeansNothingFiled`, one handler at a time |
| `RecordIsSound` and its corollaries | `TurnTrace` | types, `SeqsRunOn` and `TotalsMatchSpans` when requests for one turn do not overlap |
| `CheckpointsCostNothing` | | `CheckpointsAreSafe`, under the same assumption |
| `LoopTypes`, `BudgetsHold`, `CardReachesTheReader`, `ActionDebtSettled`, `NoCardAfterTheAnswer` | `AgentLoop` | the safety properties of section 4, for any budgets, filter, intents and workflows |
| `CallsAreRecorded`, `CapIsKept` | `LlmCalls` | `SpansTellTheCalls`; `CapOvershootIsTheUnflushed`, for every step |
| `ClientIsOneConnection` | `McpClient` | `CatalogAndConnectionAgree` |
| `RailIsTrue` | `SpanBroker` | `RailShowsTheTurn` |
| `LimiterIsExact` | `WebGate` | `LimiterIsASlidingWindow` |
| `ShutdownIsClean` | `Boot` | `ShutdownSettlesTurns` |
| `RetentionIsSafe` | `TraceStore` | `RetentionKeepsTheRecord` |
| `ArchiveIsTrue` | `TraceArchive` | `VouchedForIsStored` |
| the eight `Served...` | `Services` | each of these eight, of the process that runs all seven services |
| `EveryVerdictIsEarned` | `Answers` | `VerdictsAreEarned`, for any number of requirements, any calendar and any people |
| `EveryAnswerIsBacked` | | `AnswersAreBacked`, likewise; from the sixteen below |
| `TheGate`, `ComesBack`, `CitationsSound` | `Citations` | `EvidenceGate`, `EvidenceComesBack`, `CitationsAreSound`: any number of passages with any scores, of tool results of any kind, of blocks |
| `Deadlines`, `SnapshotOnly`, `WorkingsHold` | `Grounding` | `DeadlinesAreCounted`, `OnlyTheSnapshotIsReworded`, `WorkingsAreTheRecords`: any day and count, text, row of the balance table |
| `NoSecret`, `NothingHidden`, `StepsStand`, `ApproversNamed` | `Served` | `NoSecretIsShown`, `NothingDoneIsHidden`, `StepsStandOnTheAnswer`, `ApproversAreNamed`: any depth, set of blocks, facts, roles and people |
| `VerdictIsKept` | `Compliance` | `AnswerKeepsTheVerdict`: a text of any length, any verdict on two rows |
| `OneAccount`, `SaidOnce` | `Outcome` | `OneAccountOfTheWrite`, `SaidOnceAndCited`: any number of results, any number of blocks of any length |
| `ReloadShows`, `OwnOnly`, `CountsAlike` | `Pages` | `ReloadShowsTheTurn`, `OnlyOnesOwn`, `PagesCountAlike`: turns of any length, any texts, any number of turns and spans |
| `AllEvidenceIsExact` | `Answers` | `EvidenceIsExact`, likewise; from the eleven below |
| `RoutesSafe`, `SubjectIsKept`, `MissingIsAskedFor`, `DebtsComplete`, `StreamIsWhole` | `Turns` | `RoutesAreSafe`, `FollowUpsKeepTheirSubject`, `AsksForWhatIsMissing`, `DebtsAreWhatCompletes`, `StreamIsTheAnswer`: any catalog, any number of turns with any slots, any answer cut anywhere |
| `BlocksInPlace`, `WindowsKeepTheText`, `SearchesKeepTheirPromises` | `Retrieval` | `BlocksAreUnderTheirHeadings`, `WindowsCoverTheText`, `SearchKeepsItsPromises`: any document, any section without a run of spaces, any scores, words, floor and number of passages |
| `SectionsInPlace`, `FiledAsShown`, `BuildsWhole` | `Tools` | `SectionsAreInPlace`, `FiledIsWhatWasShown`, `BuildsAreWhole`: any document, any arguments, any number of builds |

The assumptions are those of the modules' ASSUMEs: that "no token", "no turn", and the like
are not tokens or turns, and that the bounds are numbers. TLC evaluates them in every run.
Three theorems of the protocols assume more, each because the code fails without it:

* one handler at a time (`OneAtATimeIsSafe`): two at once file two tickets (`card_twice`). One
  handler is any number of requests one after another, with all the failures, orphaned tool
  threads, restarts and expiries between and during them;
* `MaxFaults = 0` (`OpenTurnsAreWorkedOn`): a store that refuses the close of a turn leaves its
  row open with nobody left to close it. The handlers of this theorem do overlap;
* `~ Overlap` (`RecordIsSound`, `CheckpointsCostNothing`): two resumes of one turn number their
  spans alike.

**Gate.** `OneWritePerToken` is not inductive: two threads past the check could both append.
`GateInv` adds that the lock's holder is the only thread inside, and that a thread which is
about to append has spent its token and no row carries it yet. With it the refinement is three
lemmas, one for each statement that moves a token (`LedgerMint`, `LedgerSpend`, `LedgerWrite`), two for
those that delete (`LedgerClear`, `LedgerForget`), and a stutter for the rest; an applied statement
whose response is lost moves its token too. `Deletions` says that what was deleted does not come back,
and `WritesBacked` that a row has its confirmation or, where nothing enforces the foreign key, that
the confirmation was pruned (section 6), which is why `GateSafe` states `WritesConfirmed`
under `ForeignKeys`. A thread may hold a row that is pruned under it (`Knows`): the token is never
minted anew, so its UPDATE finds nothing.
`CreatedIsTrue` needs `ClaimInv` besides: between its UPDATE and its answer a thread is the one
owner of its token, and rows are numbered by their place, also after a reset.

**Lifecycle.** The lifecycle's steps are shown to leave the gate alone or to be one of its
steps, given `CoreInv`: a token is minted for one turn, a handler's token is of its own turn,
and a handler has recorded an answer before it issues the call. `SystemSafe` is then the
gate's theorem; `RecordedFirst` follows from its part
`RowsAnswered`, which every append keeps because a running call's card is answered (`CallOK`).

`AnsweredOnce` needs no more than that: whoever resolves a card found it pending in the same
step, since the UPDATE carries its own condition. `OpenTurnsAreWorkedOn` needs `WorkInv`, which
says that a registered buffer is open and whose it is (`Registered`), that a handler holds its own
or the pass's (`HoldsOwn`), and that an open row has a handler with a live buffer, or the
pass, on its way to close it (`Attended`). A handler's buffer may be replaced by another's reopening
or closed by its close; from its reopening to its adoption a handler keeps the loop (`OnLoop`,
`Adopting`), so only the pass can come between. For `OneAtATimeIsSafe`, `AloneInv` follows one handler through its
call: before it, nothing is filed for its card and the card is not declined (`BeforeCall`); while the
tool thread is under way, every row of the card carries that thread's token (`DuringCall`), even
when the handler has given up on it, for a later request then finds the card answered.

**Trace.** The row's totals are right only when the closing batch is applied, and the numbers
run on only if the buffer that writes next starts where the record ends. `TraceInv` says of
every live buffer registered for a turn that its numbers are *ahead* of the record by exactly
what it holds (`Ahead`), and that no second buffer for the turn can write. The second half
is where the assumption `Overlap = FALSE` is used, and where the code fails without it.
For `CheckpointsCostNothing`, a request on which nothing failed is `Smooth`: nobody but itself
closes its buffer, so its batch lands, and from then on neither a checkpoint (which has lost sight of
its closed buffer) nor the sweep (which looks at open rows only) rewrites its row.

**Loop.** Four parts, one lemma each, one case for each action:
`BudgetInv` pays for each repair with the call it repairs, and allows one completion more for
each of routing, synthesis and broadening by the place reached; `ParkInv` says where a pass
can be while a card is pending; `DealtInv` keeps a pass whose card was answered away from the
places that propose, through the results (a performed write is a result, so no debt is
outstanding) and through the missing catalog of a declined pass; `ActionDebtIsTerminal` is
inductive, since synthesis has only two ways in.

**Calls.** A call through the cap is compared with a counter that is reset at midnight and reseeded
by a query. `CounterKeepsUp` says how far it, rolled to today, can be behind what is recorded: by what
the last query could not see. `CachedWasMade` keeps a hit honest through expiry and overwriting;
`SpansArePast` has no span dated ahead, which midnight would turn into one of today's.

**MCP client.** `LockIsTheHandshake`: whoever is opening or listing a connection holds the lock, has a
connection of its own, and there is no catalog meanwhile. `SharedWasOpened` keeps a connection that
never opened from being the one that calls go to.

**Rail.** What a stream has shown and still has queued is one stretch of what was delivered to its
turn, from where it joined (`RailInv`), unless it fell short; what the loop holds comes after what
it delivered and before what is to be published (`PublishedInOrder`), and a sentinel ends its queue.

**Limiter.** What is held for a browser is a suffix of what it was admitted at, and all of that which is
younger than the window (`HoldsTheRecent`); each window still held had something in it at the last sweep
(`SweptSinceItsLast`). Popping from the left until a fresh one is then the same as counting.

**Lifespan.** Every open row is held by a buffer or was lost to the store (`OpenIsHeldOrLost`), and a
stopped process holds none (`StoppedHoldsNothing`); the warm-up is run once (`WarmUpIsOnce`); a buffer
that is still armed was flushed by a signal, which ended its row (`RearmedIsEnded`).

**Store.** Retention: what is selected and then acquires a write acquires it late
(`ChosenThenFiledIsLate`), and a write that is half filed has its spent card or a sweep has taken it since
(`FiledUnderACard`). Archive: the digest in an importer's hands is that of the document in
its hands, unless the file was torn between (`PassOK`).

**Services.** The process starts with every service at its start, and each of its steps is one of
a service and leaves the others alone; the eight theorems follow from those of the parts.

**Verdicts.** Each of these answers is worked out by a loop: over the requirements, over the days, up the
managers. `LoopIsDefined` and `UpFromTheFirst` give every such loop its values and what it keeps. Of the
engine it is enough that what is decided after all rows is, for whichever rows apply, decided of that
row alone (`DecidedUpToTheLast`); the rest is by cases of one row (`RowDecided`, `RowSettled`). Of the calendar,
that the working days so far and those still left make what was asked for (`WhatIsLeft`), and that a week
with a holiday in it has three (`AWeekIsEnough`: a question asks for three days at most and names one
holiday, as in the run). Of the approvers, that the chain is a walk that never returns to the actor
(`ChainIsAWalk`), and that two people who approved each other would be among people whose managers are
all among them (`ChainStaysAmong`), a cycle that the property excludes.

**Answers.** A theorem for each kind of question is about inputs of any length over any vocabulary; the
inputs of the run are then shown to be among them (the `AskedTo...` lemmas), and
`EveryAnswerIsBacked` is the sixteen together. They rest on a few facts about lists, in `VerdictProofs`:
a concatenation keeps the order and the entries of its parts (`FlattenInOrder`), so a filter keeps
exactly what passes, in its order (`FilterKeeps`), and can be taken piece by piece (`KeepThePieces`,
`StepByStep`). Beyond that, each has its own argument:

* *Evidence.* `EvidenceSoFar` says of a turn, after any number of results, that a chunk is flagged exactly
  when its passage gives orders, and that it was scored or found; one result more keeps it
  (`EvidenceComesIn`), and the spans give back the same turn whatever was parked when.
* *Citations.* What G2 leaves of a block is a block whose ids resolve in the index, each once, each written
  or meant (`Repaired`), whether or not the turn gathered them (section 6); every later step is shown to lead from such lists to such lists, and a merge to carry
  the citations of what it merges (`CarriedBack`).
* *Deadlines.* The walk back takes at most three days for each working day and two to spare (`WalkBack`),
  so it ends before its bound and the days it passed are the ones counted.
* *Workings.* The record's own terms add up to its balance (`RecordAddsUp`); a working that is left comes to
  it or was replaced by it, and repetition of the engine's own is cut.
* *Verdict.* The three corrections touch disjoint sorts of sentences, and none writes a sentence another
  would have to correct (`TheTwoTexts`, `Unsound`).
* *Repetition.* `HasKept` relates the dictionary of the loop to what is kept: what is said is known, what is
  known has a home that says it, and every block read is cited by one that shares a sentence with it.
* *Pages.* The live and the reloaded page are one function of outcome, blocks, steps, question and
  citations (`TwoContexts`); they differ in the steps only where the row has no column for them, and
  redacting what is redacted changes nothing.

**Evidence.** `AllEvidenceIsExact` is put together in the same way. Of its eleven parts:

* *Sessions.* The slots a session holds are what its turns last said of each (`SubjectIsKept`); a
  call completed from them keeps every parameter of its own.
* *Streams.* The scanner's state after a text is that after the cut, carried on (`Advance` is a function of
  the characters read), so a block is found at the same brace wherever the stream is cut.
* *Blocks.* The open headings at a line are those no later line of a lower or equal level has closed; the
  sections divide the lines, and what is in the text before a section is a sum over the sections before it
  (`SumsUp`), which grows by each body and what sets it apart.
* *Windows.* Each window begins no later than the one before it ends and ends after it (`EndsWell`,
  `WindowGoesOn`), so they reach the end of the text with no character between two of them. A text without
  a run of spaces has a letter among the first two characters of each (`LettersOfAWindow`), so
  none is stripped to nothing, or to what another holds.
* *Search.* The weights are all different, so that a ranking is a list without repetition of exactly the
  members (`ByWeight`); what the fusion and the backfill do to such lists is then counted: what is kept,
  what is fresh, what is left.
* *Sections.* A document's chunks are in order, those of one section together; the n-th section is found
  from any of its chunks, so going on and back returns.
* *Writes.* A call files something only under a token of the arguments the card was made from, and what
  it files is worked out from them as the card was.
* *Builds.* What is in the two files after a build depends only on how far it came; an index that opens
  was finished last by a build that wrote it whole.

What these theorems assume of their inputs, and why: an evidence chunk is one of the index's three, in two
documents (`breadth.py` compares two); a verdict has the two rows of the run, since what a
sentence opposes is counted among rows; an anchor has three days before it for each day counted and two
more, as every date of a calendar has; a turn that asks who the reader is has no record, since
`_clarify` asks only then; the kinds of guardrail are at most the constant the page divides by
(`SAFETY_RULES`); a resolved approver has a name; a search
ranks the four passages of the run, in two documents, under any scores of three levels; a topic has no passage or two.

**Only model-checked:** everything under fairness (`EveryTurnEnds`, `EveryCardIsSettled`,
`NoTurnStaysParked`, `EveryPassAnswers`, `EveryStreamEnds`, `DiscoverAnswers`), which this prover does
not do; and one invariant of `answers`, `FiguresAreEarned`. Its parts hold averages and agreements over
items against the population each names, through the library's folds, which are recursive and out of the
prover's reach for every input; their inputs are enumerated by the modules and extended by no constant,
so that the run asks every one of them.

## 6. Where the code departs from its documentation

Shown by a run that finds the documented property violated:

* `card_twice`: two overlapping confirmations of one card file two tickets, because
  `_resolve_proposal` ignores whether it resolved anything.
* `turn_stale`: a turn resumed late is stale at once (`started_at` is kept), and the sweep
  closes it under its request.
* `card_pending_forever`: a card whose resume failed early, or whose turn was degraded after
  the proposal, is pending for ever: the expiry pass looks only at turns that await one.
* `trace_error_lost`: after a checkpoint the catch-all no longer finds the buffer of a request
  that raises; its spans and its error are never written.
* `agent_verdict`: the orchestrator's own proposal is not tested against the verdict as the
  model's is.

Reached in the same models, and not given a run of their own:

* The UPDATE of a token and the INSERT of its write are committed one by one, and a retention batch between
  them deletes the confirmation, which no write cites yet. SQLite then refuses the INSERT (a spent token
  without a write); where foreign keys are not enforced the write is left without its decision, which
  `core/retention.py` (10-12) and `confirm.py` (189) exclude. What Turso does is not established
  (`scripts/provision_turso.py` 22-30). `WritesConfirmed` is checked and proved under `ForeignKeys`;
  `RetentionKeepsTheRecord` names the exception (`cardLost`), which its run reaches.
* A reset of the sandbox between the INSERT and the read-back of `consume` answers created with the id
  "None" (the exception of `CreatedIsTrue`; number 0 in the model).
* A cancel that overlaps a confirmation is recorded as declined and the ticket is filed; so is
  one whose card the pass expires between the check and the resolve. Same cause as `card_twice`.
* The pass expires a card and closes its turn in two statements; a failure between them leaves
  the turn parked with no card any pass would look at (`NoTurnStaysParked` needs `MaxFaults = 0`).
* With `Overlap = TRUE` two resumes of one turn number their spans alike.
* A checkpoint whose batch is refused leaves its buffer closed; the request then answers without
  being recorded (`CheckpointsAreSafe` is therefore stated for runs without failures).
* A decline resolves the card's span in place; docstrings in `web/api.py` and `core/trace.py` and a
  test speak of a second confirmation span.
* A policy question whose confirmed write failed may propose a second card in the recovery;
  after a decline the recovery reaches `_act` without a catalog and fails its assertion (`NoCatalog`).
* A write that was performed is not mentioned when the answer is then refused or degraded.
* The model may raise in a re-entered loop, where nothing catches it but the catch-all
  (`ModelFails`); the code says that a pass never raises for a modelled failure.

Found while modelling the services; the property that covers each names it as its exception:

* `GET /health` discovers under a timeout; when it fires during the handshake the task is cancelled and the
  connection it had opened is referenced by nobody (`agent/client.py`). So is one whose tool list is
  malformed, once the next handshake replaces it. `reset()` takes no lock.
* `core/retention.py` (4-8) says that a session that owns a write is never pruned. It is, when the write
  lands between the selection and the batch.
* On Turso, if it does not enforce foreign keys, a turn pruned while open leaves its late spans without a turn.
* A write's number is used again after a reset of the sandbox; `confirm.py` (184) says that "two callers
  cannot be handed the same number".
* A browser that stays connected and stops reading keeps its stream past `STREAM_MAX_S`: the deadline is
  looked at between two items only, and the generator is suspended at its `yield` (`web/sse.py` 244).
* `core/archive.py` (142-151) reads a file and digests it in two reads: a file replaced between
  them is recorded as imported, with the old contents.
* A warm-up whose deadline passes before the tool server was discovered never makes the process ready.
* A flush that fails at shutdown leaves the buffer closed, and the turn's own close then does nothing.

Found while modelling the answers. The inputs of `Answers` include these cases where the property
does not speak of the point, and leave them out where it does:

* `guardrails/g2.py` (10-12) reads the index for otherwise an id carried over from an earlier turn would
  resolve against evidence this answer's prompt never had. It resolves because of it: `resolve` asks nothing
  of an id the index knows and the turn did not gather, and serves it. Such a chunk was not scanned by G4 in
  this turn either. `CitationsAreSound` therefore says of a citation that the index knows it and the turn has
  not quarantined it, not that the turn gathered it.
* `_agreement_note` (2344) leaves "the *other* metric's note alone". It drops each line that begins with its
  metric's figure, and a judge pass may have joined the other's "not computed" to that line
  (`_merge_notes`, 2163): judged with stale labels after a fold, and folded again.
* `entailment.py` (171-187) says that dates are compared as dates; a date not recognised falls
  through to its first number.
* `arithmetic.py`: a working that reduces to one term keeps its wrong total; next steps and cited
  facts are corrected but not restated.
* `orchestrator.py` (2164) chooses slots for a workflow family; `session.inherited_slots` (206-211)
  has merged them turn by turn before that, so a later turn of another family may have overwritten one.
* `get_policy_section` promises the section's verbatim text; it joins the section's chunks (175-178),
  whose windows overlap.
* `corpus/rules.yml` (99-101) says that an absent subject "lands in unmet[]"; the engine's list of unmet
  requirements holds those with status `unmet` only.
* `lookup_employee_profile.approvers_of` (138-147) documents a skip-level approver that its filter never lets through.
* `rag/index.py`: the self-test compares the number of chunks, not the manifest's digest.
* `_absorb`: two hits of one chunk that the local index does not know may differ in their flag; G2 alone
  then keeps the chunk from being cited.
* The live reply redacts `answer` but not `answer_blocks`; the stored row, and so the reloaded page, redacts both.
* `parse_next_steps`, for rows older than the column, takes a block that opens with "Next steps:" for the list.
* `dashboard.py` (958-973): `query_string` drops a filter whose value is 0, since `0 in (None, "", False)`.
  "At least 0 ms" hides open turns on the page, but not on its next page or in its export; the
  docstring says that both are of the same rows.
* `dashboard.py`, `build_eval_run_detail`: a figure the run did not record is recomputed over the filtered items.
* `evaluation/runner.py` (1389) counts an undecided behaviour as correct, `deterministic.py` (726-733) and
  `runner.py` (1395-1399) do not. A lost verdict leaves the denominator (1768-1771), a lost citation check
  stays in it (712-721). The judge's claim ids are not checked to be distinct. `groundedness_pass` looks at
  `contradicted` and `strict_pass` does not.
* `judge_run` (2054-2066): "running it twice produces the same file"; a second pass drops
  `judge_agreement_rate_hard`, and with its old sentence everything behind it: the agreement notes folded in
  since (`_judge_pass_note`, `re.DOTALL` without `re.MULTILINE`). A note that labels are stale, if it was
  joined before that sentence, outlives a pass in which they are not. The property speaks of what a fold does to
  the other figure and of an operation run again, not of what a judge pass takes.
* `scripts/provision_turso.py`: `ensure_group` does not wait for a group that exists and is still pending.

## 7. What is not modelled

* **Texts.** Prompts, wording, HTML, narration but for its tone, the patterns that find a date, an
  amount or a denial in a sentence. What follows from a match is modelled; that the pattern
  matches what it should is the business of the code's own tests.
* **G4 and G5.** What is found in a passage or a message is a flag of the input. That a flagged
  passage is not cited, and that the closed set of tools and the card hold, is modelled.
* **Numbers from outside.** Embeddings and distances (a distance is a rank), provider wire formats, token counts.
* **Parsers** of the document formats; headings and blocks of a parsed document are modelled.
* **Read-only pages and tools** that fetch one thing and show it: the safety, retrieval, MCP and corpus
  pages, `list_policy_documents`, `lookup_benefits_status`.
* **Mounting and configuration**: the ASGI mounting of the tool server, settings, data classes, migrations.
* **Scripts** other than the two provisioning ones: they check, generate or capture, and change
  nothing that the program reads. `--skip-smoke` of `provision_turso` is left out.
* **Some errors.** A requirement whose check compares values of the wrong type raises `RuleError`
  (`rules.py` 492-511) and the tool answers with an error; in `Rules` a check is passed, failed or absent.
  In `LlmCalls` an exception that is no `ProviderError`, and a cache row that cannot be stored, are left out; so
  are exceptions raised after a span was recorded, in every module but `TurnTrace`.
* **Notes of a run**: `EvalRuns` tells the notes about labels and figures and the judge pass's sentence
  apart; all others, the judge's list of disagreements among them, are one with the drive's.
* **In the card's life**: the sandbox reset and retention, which are in `ConfirmGate` and `TraceStore`.
* **In the turn trace**: compression of large payloads, the listeners, a signal inside `add_span`.

Bounds that differ from the code's: `JUDGE_RATE_LIMIT_ATTEMPTS` is 5 in the code and 3 in `Scoring`; page
sizes as above; the rest are CONSTANTS. `rag/chunk.py` is asked only of texts without a run of blanks
as long as a window.

Three hazards have no property. The signal handler that closes a buffer the expiry pass has just reopened in
its thread (`core/trace.py` 994) is in no module. The other two the code does not withstand, and the
properties are stated for the runs without them: a stop between the card's expiry and its turn's close
(1002), and two live buffers for one turn (882). Nothing is promised of `_record_expiry` that finds the card
answered meanwhile (`web/api.py` 1930), which `card_live` reaches.
`PROJECT.json` lists every part with its status.

## 8. Plan

The components are modelled as far as the list above says, and every safety property of the runs is
proved but one invariant of `answers`. What remains, in this order:

1. `TurnTrace`: the buffer of the maintenance thread under a checkpoint (the hazard above), then
   `CheckpointsCostNothing` for it.
2. `Citations`, `Compliance`: `CitationsSound` for any index and `VerdictIsKept` for any number of rows.
3. `Retrieval`: `SearchesKeepTheirPromises` for any number of passages and documents.
4. `Scoring`, `EvalRuns`: the folds as functions of the items so far, then `FiguresAreEarned`.

Modules that are proved about hold no RECURSIVE operator.

## 9. Running

    tlc -workers 2 -config AgentLoop.cfg MCAgentLoop.tla
    tlapm AgentLoopProofs.tla

and likewise for the other pairs listed in `PROJECT.json`.
