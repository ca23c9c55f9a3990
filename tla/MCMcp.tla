-------------------------------- MODULE MCMcp --------------------------------
(***************************************************************************)
(* The MCP manager and the SSE transport in one run: a behaviour is one of *)
(* the part it begins with, and the other stays in its initial state.      *)
(***************************************************************************)
EXTENDS SSETransport, MCPManager

VARIABLE active     \* "manager" or "stream"

MCInit == Init /\ McpInit /\ active \in {"manager", "stream"}

MCNext ==
    /\ \/ active = "stream" /\ Next /\ UNCHANGED mcpVars
       \/ active = "manager" /\ McpNext /\ UNCHANGED vars
    /\ UNCHANGED active

\* FairSpec and McpSpec, each for its own behaviours.
MCSpec ==
    /\ MCInit /\ [][MCNext]_<<vars, mcpVars, active>>
    /\ \A r \in Calls : WF_vars(active = "stream" /\ Caller(r))
    /\ WF_vars(active = "stream" /\ Reader)
    /\ WF_vars(active = "stream" /\ Starter)
    /\ McpFairness
=============================================================================
