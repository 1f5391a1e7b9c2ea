------------------------------ MODULE LlmCalls ------------------------------
(***************************************************************************)
(* The model calls of concurrent turns: RecordingAdapter.complete with its *)
(* daily cap, its token bucket, its one retry or failover and its budget,  *)
(* CachedAdapter around it, and the two providers' round trips.  A turn    *)
(* makes its calls one after the other, on one event loop: an action here  *)
(* is the code between two awaits.                                         *)
(*                                                                         *)
(* Time is counted per call, in units of which a call has CallBudget.      *)
(***************************************************************************)
EXTENDS Integers, Sequences, FiniteSets, SequencesExt

CONSTANTS
    Callers,          \* the turns that call
    MaxCalls,         \* bound: the calls all the turns make
    CallKeys,         \* cache keys: calls with equal prompts share one
    DailyCap,         \* LLM_DAILY_CALL_CAP
    ReseedEvery,      \* RESEED_EVERY
    BucketSize,       \* LLM_BURST
    CallBudget,       \* LOGICAL_CALL_BUDGET_S
    RoundTripMax,     \* REQUEST_TIMEOUT_S
    MaxBackoff,       \* MAX_BACKOFF_S
    LastDay           \* bound: the UTC days the run lives through

ASSUME LlmConstants ==
    /\ MaxCalls \in Nat \ {0} /\ DailyCap \in Nat \ {0} /\ ReseedEvery \in Nat \ {0}
    /\ BucketSize \in Nat \ {0} /\ CallBudget \in Nat \ {0}
    /\ RoundTripMax \in Nat \ {0} /\ MaxBackoff \in Nat /\ LastDay \in Nat

VARIABLES
    llmSetup,     \* which adapter build_agent_model made, and whether it is cached
    call,         \* the call each turn is in
    spanLog,      \* the llm_call spans of each turn, in order
    flushedLlm,   \* how many of them the store has
    heard,        \* what complete() gave back to the turn, call by call, but for refusals
    counter,      \* DailyCallCounter, for the primary provider
    unseen,       \* history: the spans that no query saw at the last seed
    bucket,       \* TokenBucket: the tokens and who waits for its lock
    llmCache,     \* the llm_cache table
    utcDay

llmVars == <<llmSetup, call, spanLog, flushedLlm, heard, counter, unseen, bucket, llmCache, utcDay>>

Providers == {"anthropic", "openai_compat"}
NoCall == [at |-> "idle"]

(***************************************************************************)
(* build_agent_model: only the anthropic adapter is capped; either has the *)
(* openai_compat fallback or none; CachedAdapter wraps it when the ttl is  *)
(* positive.                                                               *)
(***************************************************************************)
build_agent_model ==
    [primary : Providers, fallback : BOOLEAN, cached : BOOLEAN]

Capped == llmSetup.primary = "anthropic"

LlmInit ==
    /\ llmSetup \in build_agent_model
    /\ call = [t \in Callers |-> NoCall]
    /\ spanLog = [t \in Callers |-> <<>>]
    /\ flushedLlm = [t \in Callers |-> 0]
    /\ heard = [t \in Callers |-> <<>>]
    /\ counter = [day |-> 0, seeded |-> FALSE, count |-> 0, since |-> 0]
    /\ unseen = 0
    /\ bucket = [tokens |-> BucketSize, queue |-> <<>>]
    /\ llmCache = [k \in CallKeys |-> [row |-> "none"]]
    /\ utcDay = 0

-----------------------------------------------------------------------------
(* DailyCallCounter: every method first rolls to the day of the clock.     *)
rolled == IF counter.day = utcDay THEN counter
          ELSE [day |-> utcDay, seeded |-> FALSE, count |-> 0, since |-> 0]

below(cap) == rolled.seeded /\ rolled.since < ReseedEvery /\ rolled.count < cap

seed(used) == [rolled EXCEPT !.seeded = TRUE, !.count = used, !.since = 0]

\* Faulty: a failover's spans count against the primary's cap never, and so do its own.
RecordNothing(provider) == rolled

record(provider) ==
    IF provider # llmSetup.primary THEN rolled
    ELSE [rolled EXCEPT !.count = @ + 1, !.since = IF rolled.seeded THEN @ + 1 ELSE @]

IsToday(s) == s.day = utcDay /\ s.provider = llmSetup.primary

\* The places of the first spans of each turn, and those of today's calls among
\* them: of what the store holds, and of what was recorded.
Places(upto) == UNION {{<<t, i>> : i \in 1..upto[t]} : t \in Callers}

TodaysSpans(upto) == {p \in Places(upto) : IsToday(spanLog[p[1]][p[2]])}

Recorded == [t \in Callers |-> Len(spanLog[t])]

count_calls_today == Cardinality(TodaysSpans(flushedLlm))
RecordedToday == Cardinality(TodaysSpans(Recorded))

-----------------------------------------------------------------------------
(* record_llm_call: the span is added to the turn and counted, in one go.  *)
record_llm_call(t, s) ==
    /\ spanLog' = [spanLog EXCEPT ![t] = Append(@, s)]
    /\ counter' = record(s.provider)

Answered(t, result) == heard' = [heard EXCEPT ![t] = Append(@, result)]

\* Faulty: a failure is raised inside the with-block and its span forgotten.
FinishUnlessFailed(t, ok, provider) ==
    /\ IF ok THEN record_llm_call(t, [provider |-> provider, ok |-> TRUE, hit |-> FALSE,
                                     key |-> call[t].key, day |-> call[t].day])
             ELSE UNCHANGED <<spanLog, counter>>
    /\ Answered(t, IF ok THEN "ok" ELSE "failed")
    /\ call' = [call EXCEPT ![t] = NoCall]
    /\ UNCHANGED <<unseen, llmCache>>

\* What follows the with-block of complete(): one span however it ended, the
\* failure raised after it, and a cached completion only when nothing was raised.
Finish(t, ok, provider) ==
    LET c == call[t] IN
    /\ record_llm_call(t, [provider |-> IF ok THEN provider ELSE llmSetup.primary, ok |-> ok,
                           hit |-> FALSE, key |-> c.key, day |-> c.day])
    /\ Answered(t, IF ok THEN "ok" ELSE "failed")
    /\ llmCache' = IF ok /\ llmSetup.cached
                   THEN [llmCache EXCEPT ![c.key] = [row |-> "fresh", provider |-> provider]]
                   ELSE llmCache
    /\ call' = [call EXCEPT ![t] = NoCall]
    /\ UNCHANGED <<unseen>>

CacheHit(t, k) ==
    /\ llmSetup.cached /\ llmCache[k].row = "fresh"
    /\ record_llm_call(t, [provider |-> llmCache[k].provider, ok |-> TRUE, hit |-> TRUE,
                           key |-> k, day |-> utcDay])
    /\ Answered(t, "ok")
    /\ UNCHANGED <<call, unseen, bucket>>

\* _check_daily_cap: the counter may only say yes; a refusal is the store's.
CapAsksStore == Capped /\ ~below(DailyCap)
CapRefuses == CapAsksStore /\ count_calls_today >= DailyCap

CheckDailyCap ==
    IF CapAsksStore
    THEN /\ counter' = seed(count_calls_today)
         /\ unseen' = RecordedToday - count_calls_today
    ELSE /\ counter' = IF Capped THEN rolled ELSE counter
         /\ UNCHANGED unseen

CacheMiss(t, k) ==
    /\ ~(llmSetup.cached /\ llmCache[k].row = "fresh")
    /\ CheckDailyCap
    /\ IF CapRefuses
       THEN UNCHANGED <<call, bucket>>
       ELSE /\ call' = [call EXCEPT ![t] = [at |-> "limiter", key |-> k]]
            /\ bucket' = [bucket EXCEPT !.queue = Append(@, t)]
    /\ UNCHANGED <<spanLog, heard>>

CallsMade ==
    FoldFunction(+, 0, [t \in Callers |-> Len(heard[t]) + IF call[t].at = "idle" THEN 0 ELSE 1])

complete(t, k) ==
    /\ call[t].at = "idle" /\ CallsMade < MaxCalls
    /\ CacheHit(t, k) \/ CacheMiss(t, k)
    /\ UNCHANGED <<llmSetup, flushedLlm, llmCache, utcDay>>

\* TokenBucket.acquire: whoever holds the lock takes a token as soon as there is
\* one.  The budget starts after it, and so does the span.
acquire(t) ==
    /\ call[t].at = "limiter" /\ Head(bucket.queue) = t /\ bucket.tokens > 0
    /\ bucket' = [tokens |-> bucket.tokens - 1, queue |-> Tail(bucket.queue)]
    /\ \E schema \in BOOLEAN :
          call' = [call EXCEPT ![t] = [at |-> "first", key |-> @.key, day |-> utcDay,
              left |-> CallBudget, schema |-> schema,
              who |-> llmSetup.primary,
              mode |-> IF llmSetup.primary = "openai_compat" /\ schema THEN "strict" ELSE "chat"]]
    /\ UNCHANGED <<llmSetup, spanLog, flushedLlm, heard, counter, unseen, llmCache, utcDay>>

refill ==
    /\ bucket.tokens < BucketSize /\ bucket.queue # <<>>
    /\ bucket' = [bucket EXCEPT !.tokens = @ + 1]
    /\ UNCHANGED <<llmSetup, call, spanLog, flushedLlm, heard, counter, unseen, llmCache, utcDay>>

-----------------------------------------------------------------------------
(* The round trips of one call.  round_trip_timeout gives each the smaller *)
(* of REQUEST_TIMEOUT_S and what is left, and raises when nothing is left. *)
Calling(t) == call[t].at \in {"first", "second"}
Within(t) == 1..(IF call[t].left < RoundTripMax THEN call[t].left ELSE RoundTripMax)

KeepShared == UNCHANGED <<llmSetup, flushedLlm, bucket, utcDay>>
KeepRecord == UNCHANGED <<spanLog, heard, counter, unseen, llmCache>>

NextChat(t, d, mode) ==
    /\ call' = [call EXCEPT ![t].left = @ - d, ![t].mode = mode]
    /\ KeepRecord

\* The provider answers.  A prompted answer that is no JSON is sent back once
\* (OpenAICompatAdapter.invoke); a repaired one is returned as it is.
ChatAnswers(t, d, json) ==
    /\ Calling(t) /\ d \in Within(t)
    /\ IF call[t].mode = "prompted" /\ ~json
       THEN NextChat(t, d, "prompted_repair")
       ELSE Finish(t, TRUE, call[t].who)
    /\ KeepShared

\* A 400 that names the response format: the prompted mode is tried instead.
StrictRejected(t, d) ==
    /\ Calling(t) /\ d \in Within(t) /\ call[t].mode = "strict"
    /\ NextChat(t, d, "prompted")
    /\ KeepShared

\* _call_with_failover after a retryable failure: back off if the wait is short
\* and fits, then one second attempt, on the fallback when there is one.
SecondAttempt(t, d, delay) ==
    LET c == call[t]
        left == c.left - d
        sleeps == delay <= MaxBackoff /\ delay < left
        who == IF llmSetup.fallback THEN "openai_compat" ELSE c.who
    IN  /\ call' = [call EXCEPT ![t].at = "second", ![t].who = who,
                    ![t].left = IF sleeps THEN left - delay ELSE left,
                    ![t].mode = IF who = "openai_compat" /\ c.schema THEN "strict" ELSE "chat"]
        /\ KeepRecord

ChatFails(t, d, retryable, delay) ==
    /\ Calling(t) /\ d \in Within(t)
    /\ IF call[t].at = "first" /\ retryable
       THEN SecondAttempt(t, d, delay)
       ELSE Finish(t, FALSE, call[t].who)
    /\ KeepShared

\* asyncio.timeout(call_budget_s), or a round trip begun with nothing left.
BudgetSpent(t) ==
    /\ Calling(t) /\ call[t].left <= RoundTripMax
    /\ Finish(t, FALSE, call[t].who)
    /\ KeepShared

-----------------------------------------------------------------------------
(* The world around: a turn's spans reach the store when it is saved, a    *)
(* cached row ages out, the UTC day turns.                                 *)
FlushLlm(t) ==
    /\ flushedLlm[t] < Len(spanLog[t])
    /\ flushedLlm' = [flushedLlm EXCEPT ![t] = Len(spanLog[t])]
    /\ UNCHANGED <<llmSetup, call, spanLog, heard, counter, unseen, bucket, llmCache, utcDay>>

CacheAges(k) ==
    /\ llmCache[k].row = "fresh"
    /\ llmCache' = [llmCache EXCEPT ![k].row = "stale"]
    /\ UNCHANGED <<llmSetup, call, spanLog, flushedLlm, heard, counter, unseen, bucket, utcDay>>

Midnight ==
    /\ utcDay < LastDay
    /\ utcDay' = utcDay + 1
    /\ UNCHANGED <<llmSetup, call, spanLog, flushedLlm, heard, counter, unseen, bucket, llmCache>>

LlmNext ==
    \/ \E t \in Callers, k \in CallKeys : complete(t, k)
    \/ \E t \in Callers : acquire(t)
    \/ refill
    \/ \E t \in Callers, d \in 1..RoundTripMax, json \in BOOLEAN : ChatAnswers(t, d, json)
    \/ \E t \in Callers, d \in 1..RoundTripMax : StrictRejected(t, d)
    \/ \E t \in Callers, d \in 1..RoundTripMax, retryable \in BOOLEAN, delay \in 0..(MaxBackoff + 1) :
          ChatFails(t, d, retryable, delay)
    \/ \E t \in Callers : BudgetSpent(t)
    \/ \E t \in Callers : FlushLlm(t)
    \/ \E k \in CallKeys : CacheAges(k)
    \/ Midnight

-----------------------------------------------------------------------------
(***************************************************************************)
(* Every logical call that was not refused by the cap leaves exactly one   *)
(* llm_call span, in the order the turn made them, and the span says what  *)
(* the turn was told: a cache hit, a failover, a retry, a spent budget and *)
(* a failure alike (record_llm_call after the with-block of complete());   *)
(* and a cache hit repeats a call that really succeeded, with the same     *)
(* key, made by the provider the hit names (CachedAdapter).                *)
(***************************************************************************)
SpansTellTheCalls ==
    \A t \in Callers :
        /\ Len(heard[t]) = Len(spanLog[t])
        /\ \A i \in DOMAIN heard[t] :
              LET s == spanLog[t][i] IN
              /\ s.ok = (heard[t][i] = "ok")
              /\ s.hit => \E u \in Callers : \E j \in DOMAIN spanLog[u] :
                              LET made == spanLog[u][j] IN
                              ~made.hit /\ made.ok /\ made.key = s.key /\ made.provider = s.provider

(***************************************************************************)
(* The daily cap can be overshot only by spans the seeding query could not *)
(* see: the fast counter never falls behind what this process recorded by  *)
(* more than the spans that were unflushed when it was seeded, and a call  *)
(* let through finds fewer than the cap plus those (DailyCallCounter).     *)
(***************************************************************************)
CapOvershootIsTheUnflushed ==
    [][\A t \in Callers :
          (Capped /\ call[t].at = "idle" /\ call'[t].at = "limiter")
             => RecordedToday < DailyCap + unseen']_llmVars
=============================================================================
