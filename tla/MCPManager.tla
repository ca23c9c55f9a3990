----------------------------- MODULE MCPManager ------------------------------
(***************************************************************************)
(* internal/tools/mcp: the manager's registry, transport cache and schema  *)
(* cache for one server, and the stdio and HTTP transports it starts.      *)
(*                                                                         *)
(* The maps are guarded by a mutex; starting a transport and calling the   *)
(* server are not, so that requests overlap with each other and with an    *)
(* update of the configuration.  Servers do not interact: one is enough.   *)
(* A configuration is the number of its revision, whether it is enabled    *)
(* and the kind of transport.  A stream of the SSE transport is            *)
(* SSETransport's subject.                                                 *)
(***************************************************************************)
EXTENDS Naturals, FiniteSets

CONSTANTS
    McpRequests,    \* the requests the manager serves at a time
    MaxRevisions,   \* bound: configurations of the server
    MaxLinks        \* bound: transports started and not closed

ASSUME McpAssumption == MaxRevisions \in Nat /\ MaxLinks \in Nat

VARIABLES
    server,         \* m.servers[id]; revision 0 is no server
    transport,      \* m.transports[id], 0 when there is none
    schemas,        \* m.tools[id], m.lastRefresh[id]: of which revision; 0: none
    link,           \* every transport that has been started
    rpc,            \* who holds the rpcMu of a stdio transport
    mpc,            \* the stage of a request
    conf, mine,     \* the configuration it has read, the transport it uses
    dropped,        \* history: transports an update took out of the cache
    overlapped,     \* history: requests whose configuration was replaced
    overtaken,      \* history: transports cached by such a request
    staleSchemas    \* history: the cached schemas came by such a request

mcpLocal == <<mpc, conf, mine>>
mcpHistory == <<dropped, overlapped, overtaken, staleSchemas>>
mcpVars == <<server, transport, schemas, link, rpc, mcpLocal, mcpHistory>>

Links == 1..MaxLinks
Configs == [rev : 0..MaxRevisions, enabled : BOOLEAN, kind : {"stdio", "http"}]
NoServer == [rev |-> 0, enabled |-> FALSE, kind |-> "http"]
Unused == [rev |-> 0, kind |-> "http", life |-> "unused", starter |-> {}]

McpTypeOK ==
    /\ server \in Configs
    /\ transport \in 0..MaxLinks
    /\ schemas \in 0..MaxRevisions
    /\ link \in [Links -> [rev : 0..MaxRevisions, kind : {"stdio", "http"},
                           life : {"unused", "open", "dead"},
                           starter : SUBSET McpRequests]]
    /\ rpc \in [Links -> SUBSET McpRequests]
    /\ mpc \in [McpRequests -> {"idle", "lookup", "start", "publish",
                                "use", "wait", "store", "done"}]
    /\ conf \in [McpRequests -> Configs]
    /\ mine \in [McpRequests -> 0..MaxLinks]
    /\ dropped \subseteq Links
    /\ overlapped \in [McpRequests -> BOOLEAN]
    /\ overtaken \subseteq Links
    /\ staleSchemas \in BOOLEAN

McpInit ==
    /\ server = NoServer
    /\ transport = 0
    /\ schemas = 0
    /\ link = [t \in Links |-> Unused]
    /\ rpc = [t \in Links |-> {}]
    /\ mpc = [m \in McpRequests |-> "idle"]
    /\ conf = [m \in McpRequests |-> NoServer]
    /\ mine = [m \in McpRequests |-> 0]
    /\ dropped = {}
    /\ overlapped = [m \in McpRequests |-> FALSE]
    /\ overtaken = {}
    /\ staleSchemas = FALSE

McpGoto(m, stage) == mpc' = [mpc EXCEPT ![m] = stage]

-----------------------------------------------------------------------------
(* The registry *)

\* A mutant: the schemas of the old configuration stay.
ReplaceKeepsSchemas(kind, enabled) ==
    /\ server.rev < MaxRevisions
    /\ server' = [rev |-> server.rev + 1, enabled |-> enabled, kind |-> kind]
    /\ transport' = 0
    /\ dropped' = dropped \cup ({transport} \ {0})
    /\ overlapped' = [m \in McpRequests |-> mpc[m] # "idle"]
    /\ staleSchemas' = FALSE
    /\ UNCHANGED <<schemas, link, rpc, mcpLocal, overtaken>>

\* CreateServer and UpdateServer store the configuration and forget the
\* transport and the schemas of the former one.  The transport is not closed.
Replace(kind, enabled) ==
    /\ server.rev < MaxRevisions
    /\ server' = [rev |-> server.rev + 1, enabled |-> enabled, kind |-> kind]
    /\ transport' = 0
    /\ schemas' = 0
    /\ dropped' = dropped \cup ({transport} \ {0})
    /\ overlapped' = [m \in McpRequests |-> mpc[m] # "idle"]
    /\ staleSchemas' = FALSE
    /\ UNCHANGED <<link, rpc, mcpLocal, overtaken>>

-----------------------------------------------------------------------------
(* transportFor *)

\* ListTools, CallTool or Health begins: the configuration is copied.
privateServer(m) ==
    /\ mpc[m] = "idle"
    /\ \/ /\ server.rev = 0 \/ ~server.enabled
          /\ McpGoto(m, "done")
          /\ UNCHANGED <<conf, overlapped>>
       \/ /\ server.rev > 0 /\ server.enabled
          /\ conf' = [conf EXCEPT ![m] = server]
          /\ overlapped' = [overlapped EXCEPT ![m] = FALSE]
          /\ McpGoto(m, "lookup")
    /\ UNCHANGED <<server, transport, schemas, link, rpc, mine,
                   dropped, overtaken, staleSchemas>>

\* The cached transport, or a new one if the network policy and the factory
\* allow it.
lookup(m) ==
    /\ mpc[m] = "lookup"
    /\ \/ /\ transport # 0
          /\ mine' = [mine EXCEPT ![m] = transport]
          /\ conf' = [conf EXCEPT ![m] = NoServer]
          /\ McpGoto(m, "use")
       \/ /\ transport = 0
          /\ \E stage \in {"start", "done"} : McpGoto(m, stage)
          /\ UNCHANGED <<mine, conf>>
    /\ UNCHANGED <<server, transport, schemas, link, rpc, mcpHistory>>

\* Start: the child process runs under the context of m, which ends with the
\* HTTP request, or which the WebSocket handler never ends.  On an error it is
\* closed at once.  A transport that is closed is nobody's: it is Unused.
Start(m) ==
    /\ mpc[m] = "start"
    /\ \/ \E t \in Links, context \in {{m}, {}} :
            /\ link[t] = Unused /\ \A u \in 1..(t - 1) : link[u] # Unused
            /\ link' = [link EXCEPT ![t] =
                    [rev |-> conf[m].rev, kind |-> conf[m].kind, life |-> "open",
                     starter |-> context]]
            /\ mine' = [mine EXCEPT ![m] = t]
            /\ McpGoto(m, "publish")
       \/ McpGoto(m, "done") /\ UNCHANGED <<link, mine>>
    /\ UNCHANGED <<server, transport, schemas, rpc, conf, mcpHistory>>

\* A mutant: the transport that lost the race stays open.
PublishNoClose(m) ==
    /\ mpc[m] = "publish"
    /\ \/ /\ transport # 0
          /\ mine' = [mine EXCEPT ![m] = transport]
          /\ UNCHANGED <<transport, overtaken>>
       \/ /\ transport = 0
          /\ transport' = mine[m]
          /\ overtaken' = overtaken \cup {t \in {mine[m]} : overlapped[m]}
          /\ UNCHANGED mine
    /\ conf' = [conf EXCEPT ![m] = NoServer]
    /\ McpGoto(m, "use")
    /\ UNCHANGED <<server, schemas, link, rpc,
                   dropped, overlapped, staleSchemas>>

\* Somebody else's transport is preferred and the own one closed; else the
\* own one is cached, whatever the configuration is by now.
Publish(m) ==
    /\ mpc[m] = "publish"
    /\ \/ /\ transport # 0
          /\ link' = [link EXCEPT ![mine[m]] = Unused]
          /\ mine' = [mine EXCEPT ![m] = transport]
          /\ UNCHANGED <<transport, overtaken>>
       \/ /\ transport = 0
          /\ transport' = mine[m]
          /\ overtaken' = overtaken \cup {t \in {mine[m]} : overlapped[m]}
          /\ UNCHANGED <<link, mine>>
    /\ conf' = [conf EXCEPT ![m] = NoServer]
    /\ McpGoto(m, "use")
    /\ UNCHANGED <<server, schemas, rpc, dropped, overlapped, staleSchemas>>

-----------------------------------------------------------------------------
(* The transports *)

\* A stdio transport has no health check of its own: Health ends here.
Health(m) ==
    /\ mpc[m] = "use" /\ link[mine[m]].kind = "stdio"
    /\ McpGoto(m, "done")
    /\ UNCHANGED <<server, transport, schemas, link, rpc, conf, mine, mcpHistory>>

\* Any other request enters; a stdio transport lets one in at a time.
Enter(m) ==
    /\ mpc[m] = "use"
    /\ \/ /\ link[mine[m]].kind = "http"
          /\ UNCHANGED rpc
       \/ /\ link[mine[m]].kind = "stdio" /\ rpc[mine[m]] = {}
          /\ rpc' = [rpc EXCEPT ![mine[m]] = {m}]
    /\ McpGoto(m, "wait")
    /\ UNCHANGED <<server, transport, schemas, link, conf, mine, mcpHistory>>

Unlock(m) == rpc' = [t \in Links |-> rpc[t] \ {m}]

\* The server answers: the list of tools, to ListTools, or anything else.
Reply(m) ==
    /\ mpc[m] = "wait" /\ link[mine[m]].life = "open"
    /\ \E stage \in {"store", "done"} : McpGoto(m, stage)
    /\ Unlock(m)
    /\ UNCHANGED <<server, transport, schemas, link, conf, mine, mcpHistory>>

\* The child is gone: writing to it or reading from it fails.
Broken(m) ==
    /\ mpc[m] = "wait" /\ link[mine[m]].life # "open"
    /\ McpGoto(m, "done")
    /\ Unlock(m)
    /\ UNCHANGED <<server, transport, schemas, link, conf, mine, mcpHistory>>

\* A link whose process has been killed.  The transport is not told: t.cmd
\* stays set.
Killed(l) == IF l.kind = "stdio" /\ l.life = "open" THEN [l EXCEPT !.life = "dead"] ELSE l

\* A mutant: rpcMu is not unlocked on this path.
GiveUpKeepsLock(m) ==
    /\ mpc[m] = "wait"
    /\ link' = [link EXCEPT ![mine[m]] = Killed(@)]
    /\ McpGoto(m, "done")
    /\ UNCHANGED <<server, transport, schemas, rpc, conf, mine, mcpHistory>>

\* No answer in time, or the client has left: a child process is killed.
GiveUp(m) ==
    /\ mpc[m] = "wait"
    /\ link' = [link EXCEPT ![mine[m]] = Killed(@)]
    /\ McpGoto(m, "done")
    /\ Unlock(m)
    /\ UNCHANGED <<server, transport, schemas, conf, mine, mcpHistory>>

\* ListTools caches what it was told, whatever the configuration is by now.
StoreSchemas(m) ==
    /\ mpc[m] = "store"
    /\ schemas' = link[mine[m]].rev
    /\ staleSchemas' = (overlapped[m] \/ mine[m] \in overtaken)
    /\ McpGoto(m, "done")
    /\ UNCHANGED <<server, transport, link, rpc, conf, mine,
                   dropped, overlapped, overtaken>>

\* The handler returns and its context ends, and with it the child process
\* that was started under it.
Finish(m) ==
    /\ mpc[m] = "done"
    /\ link' = [t \in Links |->
                  IF m \in link[t].starter
                  THEN Killed([link[t] EXCEPT !.starter = {}]) ELSE link[t]]
    /\ mine' = [mine EXCEPT ![m] = 0]
    /\ conf' = [conf EXCEPT ![m] = NoServer]
    /\ overlapped' = [overlapped EXCEPT ![m] = FALSE]
    /\ McpGoto(m, "idle")
    /\ UNCHANGED <<server, transport, schemas, rpc, dropped, overtaken, staleSchemas>>

-----------------------------------------------------------------------------

McpStep(m) ==
    \/ lookup(m) \/ Start(m) \/ Publish(m)
    \/ Reply(m) \/ Broken(m) \/ GiveUp(m) \/ StoreSchemas(m) \/ Finish(m)

McpNext ==
    \/ \E kind \in {"stdio", "http"}, enabled \in BOOLEAN : Replace(kind, enabled)
    \/ \E m \in McpRequests : privateServer(m) \/ Health(m) \/ Enter(m) \/ McpStep(m)

\* A goroutine runs on, its timeouts fire, and a Go mutex starves nobody.
\* Whether a server answers is not assumed.
McpFairness ==
    \A m \in McpRequests : WF_mcpVars(McpStep(m)) /\ SF_mcpVars(Enter(m))

McpSpec == McpInit /\ [][McpNext]_mcpVars /\ McpFairness

-----------------------------------------------------------------------------
(* Properties *)

\* The cached transport was made from the current configuration, unless the
\* request that cached it had read its configuration before the update.
TransportCurrent ==
    transport # 0 => link[transport].rev = server.rev \/ transport \in overtaken

\* The cached schemas, which decide on approvals, were listed by the server as
\* it is configured now, with the same exception.
SchemasCurrent == schemas # 0 => schemas = server.rev \/ staleSchemas

\* Of the transports that requests start at once for one server one is kept
\* and the others are closed.  Only an update leaves one open behind.
NoSpareTransport ==
    \A t \in Links : link[t].life = "open" =>
        \/ t = transport \/ t \in dropped
        \/ \E m \in McpRequests : mpc[m] = "publish" /\ mine[m] = t

\* A transport that requests share is never closed under them.
NotClosedInUse ==
    \A m \in McpRequests :
        mpc[m] \in {"publish", "use", "wait", "store"} =>
            mine[m] \in Links /\ link[mine[m]].life # "unused"

RpcOwned ==
    \A t \in Links, m \in McpRequests :
        m \in rpc[t] => mpc[m] = "wait" /\ mine[m] = t /\ rpc[t] = {m}

\* A transport that is to be published is in nobody else's hands.
OwnedAlone ==
    \A m \in McpRequests : mpc[m] = "publish" =>
        /\ mine[m] # transport /\ mine[m] \notin dropped
        /\ \A n \in McpRequests \ {m} :
              mpc[n] \in {"publish", "use", "wait", "store"} => mine[m] # mine[n]

\* What a request works with is of the current configuration, unless it has been
\* overtaken, or the one that cached its transport.
RevisionFits ==
    \A m \in McpRequests :
        /\ mpc[m] \in {"lookup", "start", "publish"} => conf[m].rev = server.rev \/ overlapped[m]
        /\ mpc[m] = "publish" => link[mine[m]].rev = conf[m].rev
        /\ mpc[m] \in {"use", "wait", "store"} =>
               link[mine[m]].rev = server.rev \/ overlapped[m] \/ mine[m] \in overtaken

\* What is or was cached has been started and not been closed.
CachedNotClosed ==
    /\ transport # 0 => link[transport].life # "unused" /\ transport \notin dropped
    /\ \A t \in dropped : link[t].life # "unused"
    /\ \A t \in Links : link[t].life = "unused" => link[t] = Unused

\* The invariant of the manager, with what makes it inductive.
McpInv ==
    /\ McpTypeOK /\ OwnedAlone /\ RevisionFits /\ CachedNotClosed /\ RpcOwned
    /\ TransportCurrent /\ SchemasCurrent /\ NoSpareTransport /\ NotClosedInUse

\* Every request of a client is answered, be it with an error: neither a silent
\* server, nor a dead child process, nor a queue at rpcMu holds it for ever.
McpAnswers == \A m \in McpRequests : mpc[m] # "idle" ~> mpc[m] = "idle"

=============================================================================
