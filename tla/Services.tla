------------------------------- MODULE Services -------------------------------
(***************************************************************************)
(* The services of one Mosaic process: the model calls, the activity rail, *)
(* the shared MCP client, the access gate, the trace store, the archive    *)
(* and the lifespan.  No action of one reads or writes a variable of       *)
(* another, so that nothing is lost by letting one service move in each    *)
(* behaviour: svc says which.                                              *)
(***************************************************************************)
EXTENDS LlmCalls, SpanBroker, McpClient, WebGate, TraceStore, TraceArchive, Boot

VARIABLE svc

ServiceNames == {"llm", "rail", "mcp", "gate", "store", "archive", "boot"}

servicesVars == <<svc, llmVars, railVars, mcpVars, gateVars, storeVars, archiveVars, bootVars>>

\* A service that does not move starts in one of its initial states.
ServicesInit ==
    /\ svc \in ServiceNames
    /\ LlmInit /\ (svc = "llm" \/ llmSetup = [primary |-> "anthropic", fallback |-> FALSE, cached |-> FALSE])
    /\ RailInit /\ (svc = "rail" \/ \A s \in Streams : rail[s].turn = CHOOSE t \in RailTurns : TRUE)
    /\ McpInit /\ (svc = "mcp" \/ role = [u \in McpUsers |-> "turn"])
    /\ GateInit /\ (svc = "gate" \/ gateSetup = [env |-> "local", token |-> FALSE])
    /\ StoreInit /\ (svc = "store" \/ backend = "sqlite")
    /\ ArchiveInit /\ (svc = "archive" \/ \A f \in ResultFiles : disk[f].kind = "run")
    /\ BootInit /\ (svc = "boot" \/ (storeUp /\ bootSetup = [embed_warmup |-> TRUE, keep_alive |-> FALSE]))

LlmMoves == svc = "llm" /\ LlmNext
RailMoves == svc = "rail" /\ RailNext
McpMoves == svc = "mcp" /\ McpNext
GateMoves == svc = "gate" /\ GateNext
StoreMoves == svc = "store" /\ StoreNext
ArchiveMoves == svc = "archive" /\ ArchiveNext
BootMoves == svc = "boot" /\ BootNext

ServicesNext ==
    /\ UNCHANGED svc
    /\ \/ LlmMoves /\ UNCHANGED <<railVars, mcpVars, gateVars, storeVars, archiveVars, bootVars>>
       \/ RailMoves /\ UNCHANGED <<llmVars, mcpVars, gateVars, storeVars, archiveVars, bootVars>>
       \/ McpMoves /\ UNCHANGED <<llmVars, railVars, gateVars, storeVars, archiveVars, bootVars>>
       \/ GateMoves /\ UNCHANGED <<llmVars, railVars, mcpVars, storeVars, archiveVars, bootVars>>
       \/ StoreMoves /\ UNCHANGED <<llmVars, railVars, mcpVars, gateVars, archiveVars, bootVars>>
       \/ ArchiveMoves /\ UNCHANGED <<llmVars, railVars, mcpVars, gateVars, storeVars, bootVars>>
       \/ BootMoves /\ UNCHANGED <<llmVars, railVars, mcpVars, gateVars, storeVars, archiveVars>>

\* Rail: the loop resumes a generator whose wait is over, unless it is suspended at a
\* yield; a turn, a browser that does not read and a shutdown owe nothing.  MCP: every
\* await of a user returns, and a connection opens or fails in time; what a turn calls
\* next is its own affair.
ServicesFairness ==
    /\ \A s \in Streams : WF_railVars(svc = "rail" /\ ReadRail(s))
    /\ \A u \in McpUsers : WF_mcpVars(svc = "mcp" /\ UserStep(u))
    /\ \A c \in Connections : WF_mcpVars(svc = "mcp" /\ (Opens(c) \/ Dies(c)))

ServicesSpec == ServicesInit /\ [][ServicesNext]_servicesVars /\ ServicesFairness
=============================================================================
