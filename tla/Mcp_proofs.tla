------------------------------ MODULE Mcp_proofs ------------------------------
(***************************************************************************)
(* The safety of the two MCP modules: TransportInv of SSETransport for any *)
(* number of calls, and McpInv of MCPManager for any number of requests,   *)
(* configurations and transports.  Both are inductive as they stand.       *)
(***************************************************************************)
EXTENDS SSETransport, MCPManager, TLAPS

\* The initial states satisfy the invariant.
LEMMA InitInv == Init => TransportInv
BY TransportAssumption
   DEF Init, TransportInv, TypeOK, LockOK, StartOK, StreamOK, ClosedOK, NoEntryLeaks,
       NoCallForgotten, AnswerNotLost, Drainers, Decoded, Waiting

\* A step of a caller keeps the invariant.
LEMMA CallerStep ==
    ASSUME TransportInv, NEW r \in Calls, Arrive(r) \/ Caller(r)
    PROVE  TransportInv'
<1> USE DEF TransportInv, connVars, callVars, Goto, Return, Free, Waiting, Drainers, Decoded
<1>1. CASE Arrive(r)
  BY <1>1 DEF Arrive, TypeOK, LockOK, StartOK, StreamOK, ClosedOK, NoEntryLeaks, NoCallForgotten, AnswerNotLost
<1>2. CASE Register(r)
  <2>1. TypeOK'
    BY <1>2, TransportAssumption DEF Register, TypeOK
  <2>2. LockOK'
    BY <1>2, TransportAssumption DEF Register, TypeOK, LockOK
  <2>3. StartOK'
    BY <1>2, TransportAssumption DEF Register, TypeOK, LockOK, StartOK
  <2>4. StreamOK'
    BY <1>2, TransportAssumption DEF Register, TypeOK, LockOK, StreamOK
  <2>5. ClosedOK'
    BY <1>2, TransportAssumption DEF Register, TypeOK, LockOK, ClosedOK
  <2>6. NoEntryLeaks'
    BY <1>2, TransportAssumption DEF Register, TypeOK, LockOK, NoEntryLeaks
  <2>7. NoCallForgotten'
    BY <1>2, TransportAssumption DEF Register, TypeOK, LockOK, NoCallForgotten
  <2>8. AnswerNotLost'
    BY <1>2, TransportAssumption DEF Register, TypeOK, LockOK, StreamOK, ClosedOK, AnswerNotLost
  <2> QED  BY <2>1, <2>2, <2>3, <2>4, <2>5, <2>6, <2>7, <2>8
<1>3. CASE Post(r)
  <2>1. TypeOK'
    BY <1>3, TransportAssumption DEF Post, TypeOK
  <2>2. LockOK'
    BY <1>3, TransportAssumption DEF Post, TypeOK, LockOK
  <2>3. StartOK'
    BY <1>3, TransportAssumption DEF Post, TypeOK, LockOK, StartOK
  <2>4. StreamOK'
    BY <1>3, TransportAssumption DEF Post, TypeOK, LockOK, StreamOK
  <2>5. ClosedOK'
    BY <1>3, TransportAssumption DEF Post, TypeOK, LockOK, ClosedOK
  <2>6. NoEntryLeaks'
    BY <1>3, TransportAssumption DEF Post, TypeOK, LockOK, NoEntryLeaks
  <2>7. NoCallForgotten'
    BY <1>3, TransportAssumption DEF Post, TypeOK, LockOK, NoCallForgotten
  <2>8. AnswerNotLost'
    BY <1>3, TransportAssumption DEF Post, TypeOK, LockOK, StreamOK, ClosedOK, AnswerNotLost
  <2> QED  BY <2>1, <2>2, <2>3, <2>4, <2>5, <2>6, <2>7, <2>8
<1>4. CASE Posted(r)
  <2>1. TypeOK'
    BY <1>4, TransportAssumption DEF Posted, TypeOK
  <2>2. LockOK'
    BY <1>4, TransportAssumption DEF Posted, TypeOK, LockOK
  <2>3. StartOK'
    BY <1>4, TransportAssumption DEF Posted, TypeOK, LockOK, StartOK
  <2>4. StreamOK'
    BY <1>4, TransportAssumption DEF Posted, TypeOK, LockOK, StreamOK
  <2>5. ClosedOK'
    BY <1>4, TransportAssumption DEF Posted, TypeOK, LockOK, ClosedOK
  <2>6. NoEntryLeaks'
    BY <1>4, TransportAssumption DEF Posted, TypeOK, LockOK, NoEntryLeaks
  <2>7. NoCallForgotten'
    BY <1>4, TransportAssumption DEF Posted, TypeOK, LockOK, NoCallForgotten
  <2>8. AnswerNotLost'
    BY <1>4, TransportAssumption DEF Posted, TypeOK, LockOK, StreamOK, ClosedOK, AnswerNotLost
  <2> QED  BY <2>1, <2>2, <2>3, <2>4, <2>5, <2>6, <2>7, <2>8
<1>5. CASE Receive(r)
  <2>1. TypeOK'
    BY <1>5, TransportAssumption DEF Receive, TypeOK
  <2>2. LockOK'
    BY <1>5, TransportAssumption DEF Receive, TypeOK, LockOK
  <2>3. StartOK'
    BY <1>5, TransportAssumption DEF Receive, TypeOK, LockOK, StartOK
  <2>4. StreamOK'
    BY <1>5, TransportAssumption DEF Receive, TypeOK, LockOK, StreamOK
  <2>5. ClosedOK'
    BY <1>5, TransportAssumption DEF Receive, TypeOK, LockOK, ClosedOK
  <2>6. NoEntryLeaks'
    BY <1>5, TransportAssumption DEF Receive, TypeOK, LockOK, NoEntryLeaks
  <2>7. NoCallForgotten'
    BY <1>5, TransportAssumption DEF Receive, TypeOK, LockOK, NoCallForgotten
  <2>8. AnswerNotLost'
    BY <1>5, TransportAssumption DEF Receive, TypeOK, LockOK, StreamOK, ClosedOK, AnswerNotLost
  <2> QED  BY <2>1, <2>2, <2>3, <2>4, <2>5, <2>6, <2>7, <2>8
<1>6. CASE Timeout(r)
  <2>1. TypeOK'
    BY <1>6, TransportAssumption DEF Timeout, TypeOK
  <2>2. LockOK'
    BY <1>6, TransportAssumption DEF Timeout, TypeOK, LockOK
  <2>3. StartOK'
    BY <1>6, TransportAssumption DEF Timeout, TypeOK, LockOK, StartOK
  <2>4. StreamOK'
    BY <1>6, TransportAssumption DEF Timeout, TypeOK, LockOK, StreamOK
  <2>5. ClosedOK'
    BY <1>6, TransportAssumption DEF Timeout, TypeOK, LockOK, ClosedOK
  <2>6. NoEntryLeaks'
    BY <1>6, TransportAssumption DEF Timeout, TypeOK, LockOK, NoEntryLeaks
  <2>7. NoCallForgotten'
    BY <1>6, TransportAssumption DEF Timeout, TypeOK, LockOK, NoCallForgotten
  <2>8. AnswerNotLost'
    BY <1>6, TransportAssumption DEF Timeout, TypeOK, LockOK, StreamOK, ClosedOK, AnswerNotLost
  <2> QED  BY <2>1, <2>2, <2>3, <2>4, <2>5, <2>6, <2>7, <2>8
<1>7. CASE forget(r)
  <2>1. TypeOK'
    BY <1>7, TransportAssumption DEF forget, TypeOK
  <2>2. LockOK'
    BY <1>7, TransportAssumption DEF forget, TypeOK, LockOK
  <2>3. StartOK'
    BY <1>7, TransportAssumption DEF forget, TypeOK, LockOK, StartOK
  <2>4. StreamOK'
    BY <1>7, TransportAssumption DEF forget, TypeOK, LockOK, StreamOK
  <2>5. ClosedOK'
    BY <1>7, TransportAssumption DEF forget, TypeOK, LockOK, ClosedOK
  <2>6. NoEntryLeaks'
    BY <1>7, TransportAssumption DEF forget, TypeOK, LockOK, NoEntryLeaks
  <2>7. NoCallForgotten'
    BY <1>7, TransportAssumption DEF forget, TypeOK, LockOK, NoCallForgotten
  <2>8. AnswerNotLost'
    BY <1>7, TransportAssumption DEF forget, TypeOK, LockOK, StreamOK, ClosedOK, AnswerNotLost
  <2> QED  BY <2>1, <2>2, <2>3, <2>4, <2>5, <2>6, <2>7, <2>8
<1> QED  BY <1>1, <1>2, <1>3, <1>4, <1>5, <1>6, <1>7 DEF Caller

\* A step of the reader, or of what it reads, keeps the invariant.
LEMMA ReaderStep ==
    ASSUME TransportInv, Server \/ Deliver \/ ReaderStops
    PROVE  TransportInv'
<1> USE DEF TransportInv, connVars, callVars, Free, Waiting, Drainers, Decoded
<1>1. ASSUME NEW r \in Calls, Dispatch(r) PROVE TransportInv'
  BY <1>1 DEF Dispatch, TypeOK, LockOK, StartOK, StreamOK, ClosedOK, NoEntryLeaks, NoCallForgotten, AnswerNotLost
<1>2. CASE setEndpoint
  BY <1>2 DEF setEndpoint, TypeOK, LockOK, StartOK, StreamOK, ClosedOK, NoEntryLeaks, NoCallForgotten, AnswerNotLost
<1>3. CASE StreamEnd
  BY <1>3 DEF StreamEnd, TypeOK, LockOK, StartOK, StreamOK, ClosedOK, NoEntryLeaks, NoCallForgotten, AnswerNotLost
<1>4. CASE Deliver
  <2>1. TypeOK'
    BY <1>4, TransportAssumption DEF Deliver, TypeOK, StreamOK
  <2>2. LockOK'
    BY <1>4, TransportAssumption DEF Deliver, TypeOK, LockOK
  <2>3. StartOK'
    BY <1>4, TransportAssumption DEF Deliver, TypeOK, LockOK, StartOK
  <2>4. StreamOK'
    BY <1>4, TransportAssumption DEF Deliver, TypeOK, LockOK, StreamOK
  <2>5. ClosedOK'
    BY <1>4, TransportAssumption DEF Deliver, TypeOK, LockOK, ClosedOK
  <2>6. NoEntryLeaks'
    BY <1>4, TransportAssumption DEF Deliver, TypeOK, LockOK, NoEntryLeaks
  <2>7. NoCallForgotten'
    BY <1>4, TransportAssumption DEF Deliver, TypeOK, LockOK, NoCallForgotten
  <2>8. AnswerNotLost'
    BY <1>4, TransportAssumption DEF Deliver, TypeOK, LockOK, StreamOK, ClosedOK, AnswerNotLost
  <2> QED  BY <2>1, <2>2, <2>3, <2>4, <2>5, <2>6, <2>7, <2>8
<1>5. CASE ReaderStops
  <2>1. TypeOK'
    BY <1>5, TransportAssumption DEF ReaderStops, TypeOK
  <2>2. LockOK'
    BY <1>5, TransportAssumption DEF ReaderStops, TypeOK, LockOK
  <2>3. StartOK'
    BY <1>5, TransportAssumption DEF ReaderStops, TypeOK, LockOK, StartOK
  <2>4. StreamOK'
    BY <1>5, TransportAssumption DEF ReaderStops, TypeOK, LockOK, StreamOK
  <2>5. ClosedOK'
    BY <1>5, TransportAssumption DEF ReaderStops, TypeOK, LockOK, ClosedOK
  <2>6. NoEntryLeaks'
    BY <1>5, TransportAssumption DEF ReaderStops, TypeOK, LockOK, NoEntryLeaks
  <2>7. NoCallForgotten'
    BY <1>5, TransportAssumption DEF ReaderStops, TypeOK, LockOK, NoCallForgotten
  <2>8. AnswerNotLost'
    BY <1>5, TransportAssumption DEF ReaderStops, TypeOK, LockOK, StreamOK, ClosedOK, AnswerNotLost
  <2> QED  BY <2>1, <2>2, <2>3, <2>4, <2>5, <2>6, <2>7, <2>8
<1> QED  BY <1>1, <1>2, <1>3, <1>4, <1>5 DEF Server

\* A step of a drainer keeps the invariant.
LEMMA DrainStep ==
    ASSUME TransportInv, NEW d \in Drainers, Drain(d)
    PROVE  TransportInv'
<1> USE DEF TransportInv, connVars, callVars, Waiting, Drainers, Decoded
<1>1. CASE Take(d)
  <2>1. TypeOK'
    BY <1>1, TransportAssumption DEF Take, TypeOK
  <2>2. LockOK'
    BY <1>1, TransportAssumption DEF Take, TypeOK, LockOK, StartOK, NoEntryLeaks
  <2>3. StartOK'
    BY <1>1, TransportAssumption DEF Take, TypeOK, LockOK, StartOK
  <2>4. StreamOK'
    BY <1>1, TransportAssumption DEF Take, TypeOK, LockOK, StreamOK
  <2>5. ClosedOK'
    BY <1>1, TransportAssumption DEF Take, TypeOK, LockOK, ClosedOK
  <2>6. NoEntryLeaks'
    BY <1>1, TransportAssumption DEF Take, TypeOK, LockOK, NoEntryLeaks
  <2>7. NoCallForgotten'
    BY <1>1, TransportAssumption DEF Take, TypeOK, LockOK, NoCallForgotten
  <2>8. AnswerNotLost'
    BY <1>1, TransportAssumption DEF Take, TypeOK, LockOK, StreamOK, ClosedOK, AnswerNotLost
  <2> QED  BY <2>1, <2>2, <2>3, <2>4, <2>5, <2>6, <2>7, <2>8
<1>2. CASE Send(d)
  <2>1. TypeOK'
    BY <1>2, TransportAssumption DEF Send, TypeOK
  <2>2. LockOK'
    BY <1>2, TransportAssumption DEF Send, TypeOK, LockOK
  <2>3. StartOK'
    BY <1>2, TransportAssumption DEF Send, TypeOK, LockOK, StartOK
  <2>4. StreamOK'
    BY <1>2, TransportAssumption DEF Send, TypeOK, LockOK, StreamOK
  <2>5. ClosedOK'
    BY <1>2, TransportAssumption DEF Send, TypeOK, LockOK, ClosedOK
  <2>6. NoEntryLeaks'
    BY <1>2, TransportAssumption DEF Send, TypeOK, LockOK, NoEntryLeaks
  <2>7. NoCallForgotten'
    BY <1>2, TransportAssumption DEF Send, TypeOK, LockOK, NoCallForgotten
  <2>8. AnswerNotLost'
    BY <1>2, TransportAssumption DEF Send, TypeOK, LockOK, StreamOK, ClosedOK, AnswerNotLost
  <2> QED  BY <2>1, <2>2, <2>3, <2>4, <2>5, <2>6, <2>7, <2>8
<1>3. CASE Drained(d)
  <2>1. TypeOK'
    BY <1>3, TransportAssumption DEF Drained, TypeOK
  <2>2. LockOK'
    BY <1>3, TransportAssumption DEF Drained, TypeOK, LockOK
  <2>3. StartOK'
    BY <1>3, TransportAssumption DEF Drained, TypeOK, LockOK, StartOK
  <2>4. StreamOK'
    BY <1>3, TransportAssumption DEF Drained, TypeOK, LockOK, StreamOK
  <2>5. ClosedOK'
    BY <1>3, TransportAssumption DEF Drained, TypeOK, LockOK, ClosedOK
  <2>6. NoEntryLeaks'
    BY <1>3, TransportAssumption DEF Drained, TypeOK, LockOK, NoEntryLeaks
  <2>7. NoCallForgotten'
    BY <1>3, TransportAssumption DEF Drained, TypeOK, LockOK, NoCallForgotten
  <2>8. AnswerNotLost'
    BY <1>3, TransportAssumption DEF Drained, TypeOK, LockOK, StreamOK, ClosedOK, AnswerNotLost
  <2> QED  BY <2>1, <2>2, <2>3, <2>4, <2>5, <2>6, <2>7, <2>8
<1> QED  BY <1>1, <1>2, <1>3 DEF Drain

\* A step of Start, or of Close after it, keeps the invariant.
LEMMA StarterStep ==
    ASSUME TransportInv, Connect \/ waitForEndpoint \/ Initialized \/ Notify \/ Discard \/ Close
    PROVE  TransportInv'
<1> USE DEF TransportInv, connVars, callVars, Free, Waiting, Drainers, Decoded
<1>1. CASE Connect
  <2>1. TypeOK'
    BY <1>1, TransportAssumption DEF Connect, TypeOK
  <2>2. LockOK'
    BY <1>1, TransportAssumption DEF Connect, TypeOK, LockOK, StreamOK
  <2>3. StartOK'
    BY <1>1, TransportAssumption DEF Connect, TypeOK, LockOK, StartOK
  <2>4. StreamOK'
    BY <1>1, TransportAssumption DEF Connect, TypeOK, LockOK, StreamOK
  <2>5. ClosedOK'
    BY <1>1, TransportAssumption DEF Connect, TypeOK, StreamOK, ClosedOK
  <2>6. NoEntryLeaks'
    BY <1>1, TransportAssumption DEF Connect, TypeOK, LockOK, NoEntryLeaks
  <2>7. NoCallForgotten'
    BY <1>1, TransportAssumption DEF Connect, TypeOK, LockOK, NoCallForgotten
  <2>8. AnswerNotLost'
    BY <1>1, TransportAssumption DEF Connect, TypeOK, LockOK, StreamOK, ClosedOK, AnswerNotLost
  <2> QED  BY <2>1, <2>2, <2>3, <2>4, <2>5, <2>6, <2>7, <2>8
<1>2. CASE waitForEndpoint
  BY <1>2 DEF waitForEndpoint, TypeOK, LockOK, StartOK, StreamOK, ClosedOK, NoEntryLeaks, NoCallForgotten, AnswerNotLost
<1>3. CASE Initialized
  BY <1>3 DEF Initialized, TypeOK, LockOK, StartOK, StreamOK, ClosedOK, NoEntryLeaks, NoCallForgotten, AnswerNotLost
<1>4. CASE Notify
  <2>1. TypeOK'
    BY <1>4, TransportAssumption DEF Notify, TypeOK
  <2>2. LockOK'
    BY <1>4, TransportAssumption DEF Notify, TypeOK, LockOK
  <2>3. StartOK'
    BY <1>4, TransportAssumption DEF Notify, TypeOK, LockOK, StartOK
  <2>4. StreamOK'
    BY <1>4, TransportAssumption DEF Notify, TypeOK, LockOK, StreamOK
  <2>5. ClosedOK'
    BY <1>4, TransportAssumption DEF Notify, TypeOK, LockOK, ClosedOK
  <2>6. NoEntryLeaks'
    BY <1>4, TransportAssumption DEF Notify, TypeOK, LockOK, NoEntryLeaks
  <2>7. NoCallForgotten'
    BY <1>4, TransportAssumption DEF Notify, TypeOK, LockOK, NoCallForgotten
  <2>8. AnswerNotLost'
    BY <1>4, TransportAssumption DEF Notify, TypeOK, LockOK, StreamOK, ClosedOK, AnswerNotLost
  <2> QED  BY <2>1, <2>2, <2>3, <2>4, <2>5, <2>6, <2>7, <2>8
<1>5. CASE Discard
  BY <1>5, TransportAssumption
     DEF Discard, TypeOK, LockOK, StartOK, StreamOK, ClosedOK, NoEntryLeaks, NoCallForgotten, AnswerNotLost
<1>6. CASE Close
  <2> USE <1>6 DEF Close, TypeOK
  <2>1. TypeOK' /\ LockOK'
    BY DEF LockOK
  <2>2. StartOK' /\ StreamOK' /\ ClosedOK'
    BY DEF LockOK, StartOK, StreamOK, ClosedOK
  <2>3. NoEntryLeaks' /\ NoCallForgotten'
    BY DEF LockOK, StreamOK, NoEntryLeaks, NoCallForgotten
  <2>4. AnswerNotLost'
    BY DEF LockOK, StreamOK, ClosedOK, AnswerNotLost
  <2> QED  BY <2>1, <2>2, <2>3, <2>4
<1> QED  BY <1>1, <1>2, <1>3, <1>4, <1>5, <1>6

\* Every step keeps the invariant.
LEMMA InvStep == TransportInv /\ [Next]_vars => TransportInv'
<1> SUFFICES ASSUME TransportInv, [Next]_vars PROVE TransportInv'
  OBVIOUS
<1>1. CASE UNCHANGED vars
  BY <1>1 DEF vars, connVars, callVars, TransportInv, TypeOK, LockOK, StartOK, StreamOK, ClosedOK,
     NoEntryLeaks, NoCallForgotten, AnswerNotLost
<1>2. CASE Reader \/ Starter \/ Server \/ Discard
  BY <1>2, CallerStep, ReaderStep, DrainStep, StarterStep, TransportAssumption
     DEF Reader, Starter, Server, Drainers
<1>3. CASE \E r \in Calls : Arrive(r) \/ Caller(r)
  BY <1>3, CallerStep
<1> QED  BY <1>1, <1>2, <1>3 DEF Next

\* TransportInv is an invariant of the transport.
THEOREM TransportInvariant == Spec => []TransportInv
BY InitInv, InvStep, PTL DEF Spec

\* However many calls there are and however they end, none that has returned
\* is left in the map of pending calls.
THEOREM EntriesReleased == Spec => []NoEntryLeaks
<1>1. TransportInv => NoEntryLeaks
  BY DEF TransportInv
<1> QED  BY <1>1, TransportInvariant, PTL

\* No waiting call is forgotten when the stream ends.
THEOREM EveryWaitingCallIsTold == Spec => []NoCallForgotten
<1>1. TransportInv => NoCallForgotten
  BY DEF TransportInv
<1> QED  BY <1>1, TransportInvariant, PTL

\* The end of the stream never hides an answer that came before it.
THEOREM FirstAnswerWins == Spec => []AnswerNotLost
<1>1. TransportInv => AnswerNotLost
  BY DEF TransportInv
<1> QED  BY <1>1, TransportInvariant, PTL

-----------------------------------------------------------------------------
\* A transport, and where a request can be.
Link == [rev : 0..MaxRevisions, kind : {"stdio", "http"},
         life : {"unused", "open", "dead"}, starter : SUBSET McpRequests]
Stage == {"idle", "lookup", "start", "publish", "use", "wait", "store", "done"}

\* The initial states satisfy the invariant.
LEMMA McpInitInv == McpInit => McpInv
<1> SUFFICES ASSUME McpInit PROVE McpInv
  OBVIOUS
<1> USE McpAssumption DEF McpInit
<1>1. McpTypeOK
  <2>1. NoServer \in Configs
    BY DEF NoServer, Configs
  <2>2. Unused \in Link
    BY DEF Unused, Link
  <2>3. link \in [Links -> Link] /\ rpc \in [Links -> SUBSET McpRequests]
    BY <2>2
  <2>4. conf \in [McpRequests -> Configs] /\ server \in Configs
    BY <2>1
  <2>5. overlapped \in [McpRequests -> BOOLEAN] /\ staleSchemas \in BOOLEAN
    OBVIOUS
  <2>6. transport \in 0..MaxLinks /\ schemas \in 0..MaxRevisions /\ mine \in [McpRequests -> 0..MaxLinks]
    OBVIOUS
  <2>7. mpc \in [McpRequests -> Stage]
    BY DEF Stage
  <2> QED  BY <2>3, <2>4, <2>5, <2>6, <2>7 DEF McpTypeOK, Link, Stage
<1>2. OwnedAlone /\ RevisionFits /\ NotClosedInUse
  BY DEF OwnedAlone, RevisionFits, NotClosedInUse
<1>3. CachedNotClosed /\ RpcOwned
  BY DEF CachedNotClosed, RpcOwned
<1>4. TransportCurrent /\ SchemasCurrent /\ NoSpareTransport
  BY DEF TransportCurrent, SchemasCurrent, NoSpareTransport, Unused
<1> QED  BY <1>1, <1>2, <1>3, <1>4 DEF McpInv

\* Killing a process changes nothing but an open transport's life.
LEMMA KilledLink ==
    ASSUME NEW l \in Link
    PROVE  /\ Killed(l) \in Link
           /\ Killed(l).rev = l.rev /\ Killed(l).kind = l.kind /\ Killed(l).starter = l.starter
           /\ Killed(l).life = "unused" <=> l.life = "unused"
           /\ Killed(l).life = "open" => l.life = "open"
<1>1. CASE l.kind = "stdio" /\ l.life = "open"
  BY <1>1 DEF Link, Killed
<1>2. CASE ~(l.kind = "stdio" /\ l.life = "open")
  BY <1>2 DEF Link, Killed
<1> QED  BY <1>1, <1>2

\* What requests and invariants look at of the transports when none is started,
\* cached or closed: a step that changes no more than this keeps the invariant
\* of the transports.
LEMMA LinksKept ==
    ASSUME McpInv,
           link' \in [Links -> Link],
           \A t \in Links : /\ link'[t].rev = link[t].rev
                            /\ link'[t].life = "unused" <=> link[t].life = "unused"
                            /\ link'[t].life = "open" => link[t].life = "open"
                            /\ link'[t].life = "unused" => link'[t] = link[t],
           server' = server, transport' = transport, dropped' = dropped,
           overtaken' = overtaken, schemas' = schemas, staleSchemas' = staleSchemas
    PROVE  CachedNotClosed' /\ TransportCurrent' /\ SchemasCurrent'
<1>1. (transport # 0 => transport \in Links) /\ dropped \subseteq Links
  BY DEF McpInv, McpTypeOK, Links
<1>2. CachedNotClosed /\ TransportCurrent /\ SchemasCurrent
  BY DEF McpInv
<1>3. CachedNotClosed'
  BY <1>1, <1>2 DEF CachedNotClosed, Unused
<1>4. TransportCurrent'
  BY <1>1, <1>2 DEF TransportCurrent
<1>5. SchemasCurrent'
  BY <1>2 DEF SchemasCurrent
<1> QED  BY <1>3, <1>4, <1>5

\* An update of the configuration keeps the invariant.
LEMMA ReplaceStep ==
    ASSUME McpInv, NEW kind \in {"stdio", "http"}, NEW enabled \in BOOLEAN,
           Replace(kind, enabled)
    PROVE  McpInv'
<1> USE McpAssumption DEF McpInv, Replace, mcpLocal
<1>1. McpTypeOK'
  <2>1. server' \in Configs
    BY DEF McpTypeOK, Configs
  <2>2. overlapped' \in [McpRequests -> BOOLEAN] /\ staleSchemas' \in BOOLEAN
    OBVIOUS
  <2>3. transport' \in 0..MaxLinks /\ schemas' \in 0..MaxRevisions /\ dropped' \subseteq Links
    BY DEF McpTypeOK, Links
  <2> QED  BY <2>1, <2>2, <2>3 DEF McpTypeOK
<1>2. OwnedAlone' /\ NotClosedInUse' /\ RpcOwned'
  BY DEF McpTypeOK, OwnedAlone, NotClosedInUse, RpcOwned, Links
<1>3. RevisionFits'
  BY DEF McpTypeOK, RevisionFits
<1>4. CachedNotClosed' /\ NoSpareTransport'
  BY DEF McpTypeOK, CachedNotClosed, NoSpareTransport, Links
<1>5. TransportCurrent' /\ SchemasCurrent'
  BY DEF TransportCurrent, SchemasCurrent
<1> QED  BY <1>1, <1>2, <1>3, <1>4, <1>5

\* A request that begins reads the configuration that is current.
LEMMA PrivateServerStep ==
    ASSUME McpInv, NEW m \in McpRequests, privateServer(m)
    PROVE  McpInv'
<1> USE McpAssumption DEF McpInv, privateServer, McpGoto
<1>1. McpTypeOK'
  <2>1. mpc' \in [McpRequests -> Stage] /\ conf' \in [McpRequests -> Configs]
    BY DEF McpTypeOK, Stage
  <2>2. overlapped' \in [McpRequests -> BOOLEAN]
    BY DEF McpTypeOK
  <2> QED  BY <2>1, <2>2 DEF McpTypeOK, Stage
<1>2. OwnedAlone' /\ NotClosedInUse' /\ RpcOwned'
  BY DEF McpTypeOK, OwnedAlone, NotClosedInUse, RpcOwned
<1>3. RevisionFits'
  BY DEF McpTypeOK, RevisionFits
<1>4. CachedNotClosed' /\ NoSpareTransport'
  BY DEF McpTypeOK, CachedNotClosed, NoSpareTransport
<1>5. TransportCurrent' /\ SchemasCurrent'
  BY DEF TransportCurrent, SchemasCurrent
<1> QED  BY <1>1, <1>2, <1>3, <1>4, <1>5

\* A cached transport that is found is current, or was cached by an overtaken request.
LEMMA LookupStep ==
    ASSUME McpInv, NEW m \in McpRequests, lookup(m)
    PROVE  McpInv'
<1> USE McpAssumption DEF McpInv, McpGoto, mcpHistory
<1>1. McpTypeOK'
  <2>1. NoServer \in Configs
    BY DEF NoServer, Configs
  <2>2. mpc' \in [McpRequests -> Stage] /\ conf' \in [McpRequests -> Configs]
    BY <2>1 DEF McpTypeOK, lookup, Stage
  <2>3. mine' \in [McpRequests -> 0..MaxLinks]
    BY DEF McpTypeOK, lookup
  <2> QED  BY <2>2, <2>3 DEF McpTypeOK, lookup, Stage
<1>2. CASE transport # 0
  <2>1. transport \in Links
    BY <1>2 DEF McpTypeOK, Links
  <2>2. /\ mpc' = [mpc EXCEPT ![m] = "use"] /\ mine' = [mine EXCEPT ![m] = transport]
        /\ conf' = [conf EXCEPT ![m] = NoServer] /\ mpc[m] = "lookup"
        /\ UNCHANGED <<server, transport, schemas, link, rpc, dropped, overlapped,
                       overtaken, staleSchemas>>
    BY <1>2 DEF lookup
  <2>3. OwnedAlone' /\ NotClosedInUse'
    BY <1>2, <2>1, <2>2 DEF McpTypeOK, OwnedAlone, NotClosedInUse, CachedNotClosed
  <2>4. RevisionFits'
    BY <1>2, <2>1, <2>2 DEF McpTypeOK, RevisionFits, TransportCurrent
  <2>5. NoSpareTransport' /\ RpcOwned'
    BY <2>2 DEF McpTypeOK, NoSpareTransport, RpcOwned
  <2>6. CachedNotClosed' /\ TransportCurrent' /\ SchemasCurrent'
    BY <2>2 DEF CachedNotClosed, TransportCurrent, SchemasCurrent
  <2> QED  BY <1>1, <2>3, <2>4, <2>5, <2>6
<1>3. CASE transport = 0
  <2>1. PICK stage \in {"start", "done"} : mpc' = [mpc EXCEPT ![m] = stage]
    BY <1>3 DEF lookup
  <2>2. /\ mpc[m] = "lookup"
        /\ UNCHANGED <<server, transport, schemas, link, rpc, mine, conf, dropped,
                       overlapped, overtaken, staleSchemas>>
    BY <1>3 DEF lookup
  <2>3. OwnedAlone' /\ NotClosedInUse' /\ RevisionFits'
    BY <2>1, <2>2 DEF McpTypeOK, OwnedAlone, NotClosedInUse, RevisionFits
  <2>4. NoSpareTransport' /\ RpcOwned'
    BY <2>1, <2>2 DEF McpTypeOK, NoSpareTransport, RpcOwned
  <2>5. CachedNotClosed' /\ TransportCurrent' /\ SchemasCurrent'
    BY <2>2 DEF CachedNotClosed, TransportCurrent, SchemasCurrent
  <2> QED  BY <1>1, <2>3, <2>4, <2>5
<1> QED  BY <1>2, <1>3

\* What is started is nobody else's.
LEMMA StartStep ==
    ASSUME McpInv, NEW m \in McpRequests, Start(m)
    PROVE  McpInv'
<1> USE McpAssumption DEF McpInv, McpGoto, mcpHistory
<1>1. ASSUME NEW t \in Links, NEW context \in {{m}, {}}, link[t] = Unused,
             link' = [link EXCEPT ![t] = [rev |-> conf[m].rev, kind |-> conf[m].kind,
                                          life |-> "open", starter |-> context]],
             mine' = [mine EXCEPT ![m] = t], mpc' = [mpc EXCEPT ![m] = "publish"]
      PROVE  McpInv'
  <2>1. /\ mpc[m] = "start"
        /\ UNCHANGED <<server, transport, schemas, rpc, conf, dropped, overlapped,
                       overtaken, staleSchemas>>
    BY DEF Start
  <2>2. link' \in [Links -> Link] /\ link'[t].rev = conf[m].rev /\ link'[t].life = "open"
    BY <1>1 DEF McpTypeOK, Link, Configs
  <2>3. \A u \in Links \ {t} : link'[u] = link[u]
    BY <1>1 DEF McpTypeOK
  <2>4. /\ link[t].life = "unused" /\ t # transport /\ t \notin dropped
        /\ \A n \in McpRequests : mpc[n] \in {"publish", "use", "wait", "store"} => mine[n] # t
    BY <1>1 DEF Unused, Links, CachedNotClosed, NotClosedInUse
  <2>5. mine' \in [McpRequests -> 0..MaxLinks] /\ mpc' \in [McpRequests -> Stage]
    BY <1>1 DEF McpTypeOK, Links, Stage
  <2>6. /\ mine'[m] = t /\ mpc'[m] = "publish"
        /\ \A n \in McpRequests \ {m} : mine'[n] = mine[n] /\ mpc'[n] = mpc[n]
    BY <1>1 DEF McpTypeOK
  <2>7. McpTypeOK'
    BY <2>1, <2>2, <2>5 DEF McpTypeOK, Link, Stage
  <2> HIDE <1>1
  <2>8. OwnedAlone' /\ NotClosedInUse'
    BY <2>1, <2>2, <2>3, <2>4, <2>6 DEF OwnedAlone, NotClosedInUse
  <2>9. RevisionFits'
    BY <2>1, <2>2, <2>3, <2>4, <2>6 DEF RevisionFits, NotClosedInUse
  <2>10. CachedNotClosed' /\ TransportCurrent' /\ SchemasCurrent'
    <3>1. (transport # 0 => transport \in Links) /\ dropped \subseteq Links
      BY DEF McpTypeOK, Links
    <3>2. CachedNotClosed'
      BY <2>1, <2>2, <2>3, <2>4, <3>1 DEF CachedNotClosed
    <3>3. TransportCurrent' /\ SchemasCurrent'
      BY <2>1, <2>3, <2>4, <3>1 DEF TransportCurrent, SchemasCurrent
    <3> QED  BY <3>2, <3>3
  <2>11. NoSpareTransport' /\ RpcOwned'
    BY <2>1, <2>2, <2>3, <2>4, <2>6 DEF NoSpareTransport, RpcOwned, McpTypeOK
  <2> QED  BY <2>7, <2>8, <2>9, <2>10, <2>11
<1>2. CASE McpGoto(m, "done") /\ UNCHANGED <<link, mine>>
  <2> USE <1>2 DEF Start
  <2>1. McpTypeOK' /\ OwnedAlone' /\ NotClosedInUse' /\ RevisionFits'
    BY DEF McpTypeOK, OwnedAlone, NotClosedInUse, RevisionFits
  <2>2. NoSpareTransport' /\ RpcOwned'
    BY DEF McpTypeOK, NoSpareTransport, RpcOwned
  <2>3. CachedNotClosed' /\ TransportCurrent' /\ SchemasCurrent'
    BY DEF CachedNotClosed, TransportCurrent, SchemasCurrent
  <2> QED  BY <2>1, <2>2, <2>3
<1> QED  BY <1>1, <1>2 DEF Start

\* The loser of a race closes what it alone has; the winner's is in nobody else's way.
LEMMA PublishStep ==
    ASSUME McpInv, NEW m \in McpRequests, Publish(m)
    PROVE  McpInv'
<1> USE McpAssumption DEF McpInv, McpGoto
<1>1. /\ mpc[m] = "publish" /\ mpc' = [mpc EXCEPT ![m] = "use"]
      /\ conf' = [conf EXCEPT ![m] = NoServer]
      /\ UNCHANGED <<server, schemas, rpc, dropped, overlapped, staleSchemas>>
  BY DEF Publish
<1>2. /\ mine[m] \in Links /\ mine[m] # transport /\ mine[m] \notin dropped
      /\ \A n \in McpRequests \ {m} :
            mpc[n] \in {"publish", "use", "wait", "store"} => mine[m] # mine[n]
  BY <1>1 DEF OwnedAlone, NotClosedInUse
<1>3. mpc' \in [McpRequests -> Stage] /\ conf' \in [McpRequests -> Configs]
  BY <1>1 DEF McpTypeOK, Stage, NoServer, Configs
<1>4. CASE /\ transport # 0
           /\ link' = [link EXCEPT ![mine[m]] = Unused]
           /\ mine' = [mine EXCEPT ![m] = transport]
           /\ UNCHANGED <<transport, overtaken>>
  <2>1. transport \in Links
    BY <1>4 DEF McpTypeOK, Links
  <2>2. link' \in [Links -> Link] /\ link'[mine[m]] = Unused
    <3>1. Unused \in Link
      BY DEF Unused, Link
    <3> QED  BY <1>2, <1>4, <3>1 DEF McpTypeOK, Link
  <2>3. \A u \in Links \ {mine[m]} : link'[u] = link[u]
    BY <1>4 DEF McpTypeOK
  <2>4. /\ mine' \in [McpRequests -> 0..MaxLinks]
        /\ mine'[m] = transport /\ mpc'[m] = "use"
        /\ \A n \in McpRequests \ {m} : mine'[n] = mine[n] /\ mpc'[n] = mpc[n] /\ conf'[n] = conf[n]
    BY <1>1, <1>4 DEF McpTypeOK
  <2>5. McpTypeOK'
    BY <1>1, <1>3, <1>4, <2>2, <2>4 DEF McpTypeOK, Link, Stage
  <2>6. OwnedAlone' /\ NotClosedInUse'
    BY <1>1, <1>2, <1>4, <2>1, <2>3, <2>4 DEF OwnedAlone, NotClosedInUse, CachedNotClosed
  <2>7. RevisionFits'
    BY <1>1, <1>2, <1>4, <2>1, <2>3, <2>4 DEF RevisionFits, NotClosedInUse, TransportCurrent
  <2>8. CachedNotClosed'
    BY <1>1, <1>2, <1>4, <2>1, <2>2, <2>3 DEF CachedNotClosed, McpTypeOK
  <2>9. TransportCurrent' /\ SchemasCurrent'
    BY <1>1, <1>2, <1>4, <2>1, <2>3 DEF TransportCurrent, SchemasCurrent
  <2>10. NoSpareTransport' /\ RpcOwned'
    BY <1>1, <1>2, <1>4, <2>2, <2>3, <2>4 DEF NoSpareTransport, RpcOwned, Unused
  <2> QED  BY <2>5, <2>6, <2>7, <2>8, <2>9, <2>10
<1>5. CASE /\ transport = 0
           /\ transport' = mine[m]
           /\ overtaken' = overtaken \cup {t \in {mine[m]} : overlapped[m]}
           /\ UNCHANGED <<link, mine>>
  <2>1. /\ mpc'[m] = "use"
        /\ \A n \in McpRequests \ {m} : mpc'[n] = mpc[n] /\ conf'[n] = conf[n]
    BY <1>1 DEF McpTypeOK
  <2>2. overtaken' \subseteq Links /\ transport' \in 0..MaxLinks
    BY <1>2, <1>5 DEF McpTypeOK, Links
  <2>3. McpTypeOK'
    BY <1>1, <1>3, <1>5, <2>2 DEF McpTypeOK, Stage
  <2>4. OwnedAlone' /\ NotClosedInUse'
    BY <1>1, <1>2, <1>5, <2>1 DEF OwnedAlone, NotClosedInUse
  <2>5. RevisionFits'
    BY <1>1, <1>5, <2>1 DEF RevisionFits
  <2>6. CachedNotClosed'
    BY <1>1, <1>2, <1>5 DEF CachedNotClosed, NotClosedInUse
  <2>7. TransportCurrent' /\ SchemasCurrent'
    BY <1>1, <1>5 DEF RevisionFits, TransportCurrent, SchemasCurrent
  <2>8. NoSpareTransport' /\ RpcOwned'
    BY <1>1, <1>2, <1>5, <2>1 DEF NoSpareTransport, RpcOwned, McpTypeOK, Links
  <2> QED  BY <2>3, <2>4, <2>5, <2>6, <2>7, <2>8
<1> QED  BY <1>4, <1>5 DEF Publish

\* A health check ends at a stdio transport; any other request waits in it, one
\* at a time.
LEMMA EnterStep ==
    ASSUME McpInv, NEW m \in McpRequests, Health(m) \/ Enter(m)
    PROVE  McpInv'
<1> USE McpAssumption DEF McpInv, McpGoto, mcpHistory
<1>1. PICK stage \in {"wait", "done"} : mpc' = [mpc EXCEPT ![m] = stage]
  BY DEF Health, Enter
<1>2. /\ mpc[m] = "use"
      /\ UNCHANGED <<server, transport, schemas, link, conf, mine, dropped,
                     overlapped, overtaken, staleSchemas>>
  BY DEF Health, Enter
<1>3. \/ UNCHANGED rpc
      \/ mpc'[m] = "wait" /\ rpc[mine[m]] = {} /\ rpc' = [rpc EXCEPT ![mine[m]] = {m}]
  BY DEF Health, Enter, McpTypeOK
<1>4. McpTypeOK'
  <2>1. mpc' \in [McpRequests -> Stage]
    BY <1>1 DEF McpTypeOK, Stage
  <2>2. rpc' \in [Links -> SUBSET McpRequests]
    BY <1>3 DEF McpTypeOK
  <2> QED  BY <1>2, <2>1, <2>2 DEF McpTypeOK, Stage
<1>5. RpcOwned'
  <2>1. \A t \in Links : m \notin rpc[t]
    BY <1>2 DEF RpcOwned
  <2>2. \A n \in McpRequests \ {m} : mpc'[n] = mpc[n]
    BY <1>1 DEF McpTypeOK
  <2> QED  BY <1>2, <1>3, <2>1, <2>2 DEF RpcOwned, McpTypeOK
<1>6. OwnedAlone' /\ NotClosedInUse' /\ RevisionFits'
  BY <1>1, <1>2 DEF McpTypeOK, OwnedAlone, NotClosedInUse, RevisionFits
<1>7. NoSpareTransport'
  BY <1>1, <1>2 DEF McpTypeOK, NoSpareTransport
<1>8. CachedNotClosed' /\ TransportCurrent' /\ SchemasCurrent'
  BY <1>2 DEF CachedNotClosed, TransportCurrent, SchemasCurrent
<1> QED  BY <1>4, <1>5, <1>6, <1>7, <1>8

\* However a request leaves the transport, it gives rpcMu back, and if it kills
\* the child process, the transport stays.
LEMMA LeaveStep ==
    ASSUME McpInv, NEW m \in McpRequests, Reply(m) \/ Broken(m) \/ GiveUp(m)
    PROVE  McpInv'
<1> USE McpAssumption DEF McpInv, McpGoto, mcpHistory
<1>1. PICK stage \in {"store", "done"} : mpc' = [mpc EXCEPT ![m] = stage]
  BY DEF Reply, Broken, GiveUp
<1>2. /\ mpc[m] = "wait" /\ rpc' = [t \in Links |-> rpc[t] \ {m}]
      /\ UNCHANGED <<server, transport, schemas, conf, mine, dropped,
                     overlapped, overtaken, staleSchemas>>
  BY DEF Reply, Broken, GiveUp, Unlock
<1>3. mine[m] \in Links /\ link \in [Links -> Link]
  BY <1>2 DEF NotClosedInUse, McpTypeOK, Link
<1>4. UNCHANGED link \/ link' = [link EXCEPT ![mine[m]] = Killed(link[mine[m]])]
  BY DEF Reply, Broken, GiveUp
<1>5. /\ link' \in [Links -> Link]
      /\ \A t \in Links : /\ link'[t].rev = link[t].rev
                          /\ link'[t].life = "unused" <=> link[t].life = "unused"
                          /\ link'[t].life = "open" => link[t].life = "open"
                          /\ link'[t].life = "unused" => link'[t] = link[t]
  <2>1. link[mine[m]].life # "unused"
    BY <1>2 DEF NotClosedInUse
  <2> QED  BY <1>3, <1>4, <2>1, KilledLink
<1>6. McpTypeOK'
  <2>1. mpc' \in [McpRequests -> Stage]
    BY <1>1 DEF McpTypeOK, Stage
  <2>2. rpc' \in [Links -> SUBSET McpRequests]
    BY <1>2 DEF McpTypeOK
  <2> QED  BY <1>2, <1>5, <2>1, <2>2 DEF McpTypeOK, Stage, Link
<1>7. RpcOwned'
  <2>1. \A n \in McpRequests \ {m} : mpc'[n] = mpc[n]
    BY <1>1 DEF McpTypeOK
  <2> QED  BY <1>2, <2>1 DEF RpcOwned
<1>8. OwnedAlone' /\ NotClosedInUse' /\ RevisionFits'
  BY <1>1, <1>2, <1>5 DEF McpTypeOK, OwnedAlone, NotClosedInUse, RevisionFits
<1>9. NoSpareTransport'
  BY <1>1, <1>2, <1>5 DEF McpTypeOK, NoSpareTransport
<1>10. CachedNotClosed' /\ TransportCurrent' /\ SchemasCurrent'
  BY <1>2, <1>5, LinksKept
<1> QED  BY <1>6, <1>7, <1>8, <1>9, <1>10

\* Schemas are of the transport they were listed by.
LEMMA StoreSchemasStep ==
    ASSUME McpInv, NEW m \in McpRequests, StoreSchemas(m)
    PROVE  McpInv'
<1> USE McpAssumption DEF McpInv, StoreSchemas, McpGoto
<1>1. mine[m] \in Links /\ link[mine[m]].rev \in 0..MaxRevisions
  BY DEF NotClosedInUse, McpTypeOK
<1>2. McpTypeOK'
  <2>1. mpc' \in [McpRequests -> Stage] /\ staleSchemas' \in BOOLEAN
    BY DEF McpTypeOK, Stage
  <2> QED  BY <1>1, <2>1 DEF McpTypeOK, Stage
<1>3. SchemasCurrent'
  BY DEF SchemasCurrent, RevisionFits
<1>4. OwnedAlone' /\ NotClosedInUse' /\ RevisionFits'
  BY DEF McpTypeOK, OwnedAlone, NotClosedInUse, RevisionFits
<1>5. NoSpareTransport' /\ RpcOwned'
  BY DEF McpTypeOK, NoSpareTransport, RpcOwned
<1>6. CachedNotClosed' /\ TransportCurrent'
  BY DEF CachedNotClosed, TransportCurrent
<1> QED  BY <1>2, <1>3, <1>4, <1>5, <1>6

\* The end of a request kills what it has started, and closes nothing.
LEMMA FinishStep ==
    ASSUME McpInv, NEW m \in McpRequests, Finish(m)
    PROVE  McpInv'
<1> USE McpAssumption DEF McpInv, McpGoto
<1>1. /\ mpc[m] = "done" /\ mpc' = [mpc EXCEPT ![m] = "idle"]
      /\ mine' = [mine EXCEPT ![m] = 0] /\ conf' = [conf EXCEPT ![m] = NoServer]
      /\ overlapped' = [overlapped EXCEPT ![m] = FALSE]
      /\ UNCHANGED <<server, transport, schemas, rpc, dropped, overtaken, staleSchemas>>
  BY DEF Finish
<1>2. /\ link' \in [Links -> Link]
      /\ \A t \in Links : /\ link'[t].rev = link[t].rev
                          /\ link'[t].life = "unused" <=> link[t].life = "unused"
                          /\ link'[t].life = "open" => link[t].life = "open"
                          /\ link'[t].life = "unused" => link'[t] = link[t]
  <2>1. ASSUME NEW t \in Links
        PROVE  /\ link'[t] \in Link /\ link'[t].rev = link[t].rev
               /\ link'[t].life = "unused" <=> link[t].life = "unused"
               /\ link'[t].life = "open" => link[t].life = "open"
               /\ link'[t].life = "unused" => link'[t] = link[t]
    <3>1. link[t] \in Link
      BY DEF McpTypeOK, Link
    <3>2. CASE m \notin link[t].starter
      BY <3>1, <3>2 DEF Finish
    <3>3. CASE m \in link[t].starter
      <4> DEFINE l == [link[t] EXCEPT !.starter = {}]
      <4>1. l \in Link /\ l.rev = link[t].rev /\ l.life = link[t].life
        BY <3>1 DEF Link
      <4>2. link'[t] = Killed(l)
        BY <3>3 DEF Finish
      <4>3. link[t].life # "unused"
        BY <3>3 DEF CachedNotClosed, Unused
      <4> HIDE DEF l
      <4> QED  BY <4>1, <4>2, <4>3, KilledLink
    <3> QED  BY <3>2, <3>3
  <2>2. link' = [t \in Links |-> link'[t]]
    BY DEF Finish
  <2> QED  BY <2>1, <2>2
<1>3. McpTypeOK'
  <2>1. mpc' \in [McpRequests -> Stage] /\ mine' \in [McpRequests -> 0..MaxLinks]
    BY <1>1 DEF McpTypeOK, Stage
  <2>2. conf' \in [McpRequests -> Configs]
    BY <1>1 DEF McpTypeOK, NoServer, Configs
  <2>3. overlapped' \in [McpRequests -> BOOLEAN]
    BY <1>1 DEF McpTypeOK
  <2> QED  BY <1>1, <1>2, <2>1, <2>2, <2>3 DEF McpTypeOK, Stage, Link
<1>4. OwnedAlone' /\ NotClosedInUse' /\ RevisionFits'
  BY <1>1, <1>2 DEF McpTypeOK, OwnedAlone, NotClosedInUse, RevisionFits
<1>5. NoSpareTransport' /\ RpcOwned'
  BY <1>1, <1>2 DEF McpTypeOK, NoSpareTransport, RpcOwned
<1>6. CachedNotClosed' /\ TransportCurrent' /\ SchemasCurrent'
  BY <1>1, <1>2, LinksKept
<1> QED  BY <1>3, <1>4, <1>5, <1>6

\* Every step keeps the invariant.
LEMMA McpInvStep == McpInv /\ [McpNext]_mcpVars => McpInv'
<1> SUFFICES ASSUME McpInv, [McpNext]_mcpVars PROVE McpInv'
  OBVIOUS
<1>1. CASE UNCHANGED mcpVars
  BY <1>1 DEF mcpVars, mcpLocal, mcpHistory, McpInv, McpTypeOK, OwnedAlone, RevisionFits, CachedNotClosed,
     RpcOwned, TransportCurrent, SchemasCurrent, NoSpareTransport, NotClosedInUse
<1>2. CASE \E kind \in {"stdio", "http"}, enabled \in BOOLEAN : Replace(kind, enabled)
  BY <1>2, ReplaceStep
<1>3. CASE \E m \in McpRequests : privateServer(m) \/ Health(m) \/ Enter(m) \/ McpStep(m)
  BY <1>3, PrivateServerStep, EnterStep, LookupStep, StartStep, PublishStep,
     LeaveStep, StoreSchemasStep, FinishStep DEF McpStep
<1> QED  BY <1>1, <1>2, <1>3 DEF McpNext

\* However requests and updates overlap: the cached transport and schemas are
\* of the current configuration but for an overtaken request, no transport but
\* a dropped one is left open, none is closed under a request, and rpcMu is held
\* by one request that waits.
THEOREM ManagerInvariant == McpSpec => []McpInv
BY McpInitInv, McpInvStep, PTL DEF McpSpec

=============================================================================
