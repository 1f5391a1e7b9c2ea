------------------------------- MODULE WebGate -------------------------------
(***************************************************************************)
(* What stands before every route: AccessGateMiddleware._check with the    *)
(* access cookie a browser earns and loses, and the RateLimiter in memory  *)
(* of one process.  _check does not await: a request is one step here.     *)
(* The clock is in units of which the window has RateWindow.               *)
(***************************************************************************)
EXTENDS Integers, Sequences, FiniteSets

CONSTANTS
    Browsers,        \* visitors, each with its own address and cookie jar
    PerMinute,       \* access_rate_limit_per_min
    RateWindow,      \* RATE_WINDOW_S
    SweepInterval,   \* RATE_SWEEP_INTERVAL_S
    LastTick         \* bound: how long the clock runs

ASSUME GateConstants ==
    /\ PerMinute \in Nat \ {0} /\ RateWindow \in Nat \ {0} /\ SweepInterval \in Nat \ {0}
    /\ LastTick \in Nat

VARIABLES
    gateSetup,   \* settings: the environment and whether a token is configured
    jar,         \* each browser's mosaic_access and mosaic_actor cookies
    _hits,       \* RateLimiter._hits: the admitted moments of each key held
    _swept_at,   \* RateLimiter._swept_at
    clock,
    admitted     \* history: every moment a limited request of each browser was let through

gateVars == <<gateSetup, jar, _hits, _swept_at, clock, admitted>>

Routes == {"open", "page", "chat", "admin", "mcp"}

GateInit ==
    /\ gateSetup \in [env : {"local", "render"}, token : BOOLEAN]
    /\ jar = [b \in Browsers |-> [access |-> FALSE, actor |-> "employee"]]
    /\ _hits = [b \in {} |-> <<>>]
    /\ _swept_at = -SweepInterval
    /\ clock = 0
    /\ admitted = [b \in Browsers |-> <<>>]

gate_enabled == gateSetup.token \/ gateSetup.env # "local"
gate_misconfigured == gateSetup.env = "render" /\ ~gateSetup.token

-----------------------------------------------------------------------------
(* RateLimiter: _sweep drops the keys whose last hit is older than the     *)
(* window, at most once an interval; allow prunes the asking key's own.    *)
Old(moment) == clock - moment > RateWindow

SweepDue == clock - _swept_at >= SweepInterval

\* Faulty: a key is swept by its first hit.
IdleSinceFirst(window) == window = <<>> \/ Old(window[1])

\* A key whose last hit is outside the window.
Idle(window) == window = <<>> \/ Old(window[Len(window)])

_sweep ==
    IF SweepDue
    THEN [k \in {k \in DOMAIN _hits : ~Idle(_hits[k])} |-> _hits[k]]
    ELSE _hits

\* allow pops from the left of a window while what is there is old.
FirstFresh(window) ==
    CHOOSE n \in 1..(Len(window) + 1) :
        /\ \A i \in 1..(n - 1) : Old(window[i])
        /\ n <= Len(window) => ~Old(window[n])

Popped(window) == SubSeq(window, FirstFresh(window), Len(window))

Pruned(held, k) == IF k \in DOMAIN held THEN Popped(held[k]) ELSE <<>>

\* The keys held after the asking one was pruned: an emptied window goes too.
HeldWith(held, k, window) ==
    [j \in (DOMAIN held \ {k}) \cup (IF window = <<>> THEN {} ELSE {k}) |->
        IF j = k THEN window ELSE held[j]]

Allowed(k) == Len(Pruned(_sweep, k)) < PerMinute

allow(k) ==
    LET window == Pruned(_sweep, k) IN
    /\ _hits' = HeldWith(_sweep, k, IF Allowed(k) THEN Append(window, clock) ELSE window)
    /\ _swept_at' = IF SweepDue THEN clock ELSE _swept_at

-----------------------------------------------------------------------------
(* _check: the order of the tests is the order of the code.                *)
authenticated(b, bearer) == jar[b].access \/ bearer

\* What a request meets before the rate limit.
PastTheKey(b, route, bearer) ==
    /\ ~gate_misconfigured
    /\ gate_enabled => authenticated(b, bearer)
    /\ route = "admin" => jar[b].actor = "admin"

_rate_limited(route) == route \in {"chat", "mcp"}

\* A request that is refused, or whose route is not limited, leaves no trace in
\* the gate; the others ask the limiter, unless they are the app's own loopback.
Serve(b, route, bearer, ownLoopback) ==
    /\ bearer => gateSetup.token
    /\ PastTheKey(b, route, bearer) /\ _rate_limited(route)
    /\ ~(route = "mcp" /\ ownLoopback)
    /\ allow(b)
    /\ admitted' = IF Allowed(b) THEN [admitted EXCEPT ![b] = Append(@, clock)] ELSE admitted
    /\ UNCHANGED <<gateSetup, jar, clock>>

\* _exchange (GET with ?access=) and POST /access: the cookie is the token.
access_submit(b, supplied) ==
    /\ gate_enabled /\ gateSetup.token /\ supplied = "right"
    /\ jar' = [jar EXCEPT ![b].access = TRUE]
    /\ UNCHANGED <<gateSetup, _hits, _swept_at, clock, admitted>>

access_logout(b) ==
    /\ jar' = [jar EXCEPT ![b] = [access |-> FALSE, actor |-> "employee"]]
    /\ UNCHANGED <<gateSetup, _hits, _swept_at, clock, admitted>>

\* POST /session/actor is behind the gate as any page is.
set_actor(b, actor) ==
    /\ PastTheKey(b, "page", FALSE)
    /\ jar' = [jar EXCEPT ![b].actor = actor]
    /\ UNCHANGED <<gateSetup, _hits, _swept_at, clock, admitted>>

Tick ==
    /\ clock < LastTick
    /\ clock' = clock + 1
    /\ UNCHANGED <<gateSetup, jar, _hits, _swept_at, admitted>>

GateNext ==
    \/ \E b \in Browsers, route \in Routes, bearer, own \in BOOLEAN : Serve(b, route, bearer, own)
    \/ \E b \in Browsers, supplied \in {"right", "wrong"} : access_submit(b, supplied)
    \/ \E b \in Browsers : access_logout(b)
    \/ \E b \in Browsers, actor \in {"employee", "admin"} : set_actor(b, actor)
    \/ Tick

-----------------------------------------------------------------------------
\* What the limiter promises, said without its bookkeeping: the limited
\* requests let through that still count now.
Counting(b) == Cardinality({i \in DOMAIN admitted[b] : ~Old(admitted[b][i])})

(***************************************************************************)
(* The limiter is an exact sliding window: a browser is refused exactly    *)
(* when PerMinute of its admitted requests still lie in the window, no     *)
(* matter which keys a sweep, set off by whoever, has dropped; and it      *)
(* holds no key longer than the window and one sweep interval after its    *)
(* last hit, once anyone has asked (RateLimiter).                          *)
(***************************************************************************)
LimiterIsASlidingWindow ==
    /\ \A b \in Browsers : Counting(b) <= PerMinute /\ (Allowed(b) <=> Counting(b) < PerMinute)
    /\ \A k \in DOMAIN _hits : _hits[k] # <<>>
    /\ \A k \in DOMAIN _hits : _swept_at - _hits[k][Len(_hits[k])] <= RateWindow

=============================================================================
