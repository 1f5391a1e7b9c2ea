------------------------------ MODULE McpClient ------------------------------
(***************************************************************************)
(* The one McpClient every turn of the process shares: the handshake under *)
(* its lock, the cached catalog, reset() which takes no lock, and the tool *)
(* calls in flight on the connection another task may close.  Users of it  *)
(* are turns (discover, then call tools), GET /health (discover under a    *)
(* 5 s timeout that cancels it), and the admin's rediscover (reset, then   *)
(* discover).  One event loop: an action is the code between two awaits.   *)
(***************************************************************************)
EXTENDS Integers, FiniteSets

CONSTANTS
    McpUsers,         \* the tasks that use the client
    Connections,      \* bound: the _Connection objects alive at once
    CallsPerUser      \* bound: the tool calls one turn makes

None == "none"

ASSUME McpConstants ==
    /\ IsFiniteSet(Connections) /\ CallsPerUser \in Nat
    /\ None \notin Connections /\ None \notin McpUsers

VARIABLES
    role,        \* what each user is: "turn", "health" or "admin"
    user,        \* each user: where it is, its connection, its calls
    conn,        \* each connection: "free", "opening", "open" or "dead"
    _connection, \* McpClient._connection
    _catalog,    \* the connection whose tools McpClient._catalog lists
    _lock,       \* who holds McpClient._lock
    orphaned     \* history: connections no one will close, and why that happened

mcpVars == <<role, user, conn, _connection, _catalog, _lock, orphaned>>

McpInit ==
    /\ role \in [McpUsers -> {"turn", "health", "admin"}]
    /\ user = [u \in McpUsers |-> [at |-> "start", mine |-> None, why |-> None, calls |-> 0]]
    /\ conn = [c \in Connections |-> "free"]
    /\ _connection = None /\ _catalog = None /\ _lock = None
    /\ orphaned = {}

Referenced == {_connection, _catalog} \cup {user[u].mine : u \in McpUsers}
Fresh == {c \in Connections : conn[c] \in {"free", "dead"} /\ c \notin Referenced}

SessionOf(c) == c # None /\ conn[c] = "open"

Go(u, at) == user' = [user EXCEPT ![u].at = at]

-----------------------------------------------------------------------------
(* What the three users do with discover()'s answer.  A turn that fails    *)
(* resets and discovers once more (_discover); inside call_tool a failure  *)
(* is McpUnavailable to the turn, which stays ready for its next call.     *)
AfterDiscover(u) ==
    LET calls == user[u].why = "call"
        live == calls /\ SessionOf(_connection')
    IN  user' = [user EXCEPT
            ![u].at = IF live THEN "calling"
                      ELSE IF calls \/ role[u] = "turn" THEN "ready" ELSE "done",
            ![u].mine = IF live THEN _connection' ELSE None]

AfterFailure(u) ==
    LET again == user[u].why = "begin" /\ role[u] = "turn"
    IN  user' = [user EXCEPT
            ![u].at = IF user[u].why = "call" THEN "ready" ELSE IF again THEN "reset" ELSE "done",
            ![u].mine = None,
            ![u].why = IF again THEN "again" ELSE @]

Start(u) ==
    /\ user[u].at = "start"
    /\ user' = [user EXCEPT ![u].at = IF role[u] = "admin" THEN "reset" ELSE "lock",
                            ![u].why = "begin"]
    /\ UNCHANGED <<role, conn, _connection, _catalog, _lock, orphaned>>

-----------------------------------------------------------------------------
(* discover(): under the lock, a handshake unless there is a catalog.      *)
DiscoverCached(u) ==
    /\ user[u].at = "lock" /\ _lock = None /\ _catalog # None
    /\ UNCHANGED <<role, conn, _connection, _catalog, _lock, orphaned>>
    /\ AfterDiscover(u)

HandshakeStarts(u) ==
    /\ user[u].at = "lock" /\ _lock = None /\ _catalog = None /\ Fresh # {}
    /\ LET c == CHOOSE c \in Fresh : TRUE
       IN /\ conn' = [conn EXCEPT ![c] = "opening"]
          /\ user' = [user EXCEPT ![u].at = "opening", ![u].mine = c]
    /\ _lock' = u
    /\ UNCHANGED <<role, _connection, _catalog, orphaned>>

\* _Connection.open() returned its session: list_tools is next.
HandshakeOpened(u) ==
    /\ user[u].at = "opening" /\ conn[user[u].mine] = "open"
    /\ Go(u, "listing")
    /\ UNCHANGED <<role, conn, _connection, _catalog, _lock, orphaned>>

HandshakeFails(u) ==
    /\ \/ user[u].at = "opening" /\ conn[user[u].mine] = "dead"
       \/ user[u].at = "listing"
    /\ conn' = [conn EXCEPT ![user[u].mine] = "dead"]
    /\ _lock' = None
    /\ AfterFailure(u)
    /\ UNCHANGED <<role, _connection, _catalog, orphaned>>

\* The connection is the client's before the tools are validated: a malformed
\* one raises with _connection set and no catalog, and only a reset closes it.
HandshakeListed(u, wellFormed) ==
    LET c == user[u].mine IN
    /\ user[u].at = "listing" /\ conn[c] = "open"
    /\ _connection' = c
    /\ orphaned' = IF SessionOf(_connection) THEN orphaned \cup {_connection} ELSE orphaned
    /\ _lock' = None
    /\ IF wellFormed THEN _catalog' = c ELSE UNCHANGED _catalog
    /\ UNCHANGED <<role, conn>>
    /\ IF wellFormed THEN AfterDiscover(u) ELSE AfterFailure(u)

\* Faulty: a timeout leaves the lock to nobody.
HealthTimesOutLocked(u) ==
    /\ role[u] = "health" /\ user[u].at \in {"lock", "opening", "listing"}
    /\ user' = [user EXCEPT ![u].at = "done"]
    /\ orphaned' = IF user[u].mine # None THEN orphaned \cup {user[u].mine} ELSE orphaned
    /\ UNCHANGED <<role, conn, _connection, _catalog, _lock>>

\* GET /health gives up after HEALTH_MCP_TIMEOUT_S: the cancellation leaves the
\* lock, and no except clause of _handshake sees it.
HealthTimesOut(u) ==
    /\ role[u] = "health" /\ user[u].at \in {"lock", "opening", "listing"}
    /\ user' = [user EXCEPT ![u].at = "done", ![u].mine = None]
    /\ _lock' = IF _lock = u THEN None ELSE _lock
    /\ orphaned' = IF user[u].mine # None /\ conn[user[u].mine] \in {"opening", "open"}
                   THEN orphaned \cup {user[u].mine} ELSE orphaned
    /\ UNCHANGED <<role, conn, _connection, _catalog>>

-----------------------------------------------------------------------------
(* reset(): the connection and the catalog are dropped at once, without    *)
(* the lock; then the connection is closed, which ends its calls.          *)
\* Faulty: the catalog of the closed connection is kept.
ResetConnection(u) ==
    /\ user[u].at = "reset"
    /\ conn' = IF _connection = None THEN conn ELSE [conn EXCEPT ![_connection] = "dead"]
    /\ _connection' = None
    /\ Go(u, "lock")
    /\ UNCHANGED <<role, _catalog, _lock, orphaned>>

reset(u) ==
    /\ user[u].at = "reset"
    /\ conn' = IF _connection = None THEN conn ELSE [conn EXCEPT ![_connection] = "dead"]
    /\ _connection' = None /\ _catalog' = None
    /\ Go(u, "lock")
    /\ UNCHANGED <<role, _lock, orphaned>>

\* call_tool(): without a live session, reset and discover first; the catalog
\* and the connection are read again after it.
call_tool(u) ==
    /\ role[u] = "turn" /\ user[u].at = "ready" /\ user[u].calls < CallsPerUser
    /\ user' = IF _catalog = None \/ ~SessionOf(_connection)
               THEN [user EXCEPT ![u].at = "reset", ![u].why = "call", ![u].calls = @ + 1]
               ELSE [user EXCEPT ![u].at = "calling", ![u].mine = _connection,
                                 ![u].calls = @ + 1]
    /\ UNCHANGED <<role, conn, _connection, _catalog, _lock, orphaned>>

CallReturns(u) ==
    /\ user[u].at = "calling" /\ conn[user[u].mine] = "open"
    /\ user' = [user EXCEPT ![u].at = "ready", ![u].mine = None]
    /\ UNCHANGED <<role, conn, _connection, _catalog, _lock, orphaned>>

\* The transport raised: McpUnavailable, and the announced step stays open.
CallFails(u) ==
    /\ user[u].at = "calling"
    /\ user' = [user EXCEPT ![u].at = "ready", ![u].mine = None]
    /\ UNCHANGED <<role, conn, _connection, _catalog, _lock, orphaned>>

-----------------------------------------------------------------------------
(* _run, the task of a connection: it opens, fails, or ends.               *)
Opens(c) ==
    /\ conn[c] = "opening" /\ conn' = [conn EXCEPT ![c] = "open"]
    /\ UNCHANGED <<role, user, _connection, _catalog, _lock, orphaned>>

Dies(c) ==
    /\ conn[c] \in {"opening", "open"} /\ conn' = [conn EXCEPT ![c] = "dead"]
    /\ orphaned' = orphaned \ {c}
    /\ UNCHANGED <<role, user, _connection, _catalog, _lock>>

UserStep(u) ==
    \/ Start(u) \/ DiscoverCached(u) \/ HandshakeStarts(u) \/ HandshakeOpened(u)
    \/ HandshakeFails(u) \/ (\E ok \in BOOLEAN : HandshakeListed(u, ok)) \/ reset(u)
    \/ CallReturns(u) \/ CallFails(u)

McpNext ==
    \/ \E u \in McpUsers : UserStep(u) \/ HealthTimesOut(u) \/ call_tool(u)
    \/ \E c \in Connections : Opens(c) \/ Dies(c)

-----------------------------------------------------------------------------
(***************************************************************************)
(* The catalog a turn is offered is the one of the connection its calls go *)
(* to, however resets, handshakes and deaths interleave; and a connection  *)
(* that is alive is in use, in a handshake, or one of the two the code     *)
(* abandons: a cancelled health check's, and the one whose tools were      *)
(* malformed once the next handshake has replaced it.                      *)
(***************************************************************************)
CatalogAndConnectionAgree ==
    /\ _catalog # None => _catalog = _connection
    /\ _lock # None => user[_lock].at \in {"opening", "listing"}
    /\ \A c \in Connections : conn[c] \in {"opening", "open"} =>
          c = _connection \/ c \in orphaned \/ (_lock # None /\ c = user[_lock].mine)

(***************************************************************************)
(* Nobody waits for the client for ever: the lock is left on every path    *)
(* out of a handshake, a cancelled one included.                           *)
(***************************************************************************)
DiscoverAnswers == \A u \in McpUsers : (user[u].at = "lock") ~> (user[u].at \in {"ready", "calling", "done"})
=============================================================================
