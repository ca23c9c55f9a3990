---------------------------- MODULE SSETransport ----------------------------
(***************************************************************************)
(* internal/tools/mcp/transport_sse.go: JSON-RPC calls that are posted to  *)
(* a message endpoint and answered on an event stream.                     *)
(*                                                                         *)
(* Three kinds of goroutine share the struct and its mutex: the callers,   *)
(* the reader of the stream, and the one that starts the transport and may *)
(* close it.  The mutex is a variable because the reader and Close keep it *)
(* while they send on the callers' channels, which hold one response each. *)
(* Every other critical section is a single action that needs it free.     *)
(*                                                                         *)
(* What the server does is free: it answers a call in the body of the POST,*)
(* on the stream, on both, several times or never, and ends the stream     *)
(* when it likes.                                                          *)
(***************************************************************************)
EXTENDS Naturals

CONSTANTS
    Calls,          \* the ids of the requests
    Handshake,      \* the one of them that initialize makes
    NoCall,         \* no id
    HasMessageURL   \* whether a message_url is configured

ASSUME TransportAssumption ==
    /\ Handshake \in Calls
    /\ NoCall \notin Calls
    /\ HasMessageURL \in BOOLEAN

VARIABLES
    mu,             \* who keeps t.mu: "free", or a goroutine that drains
    pending,        \* the domain of t.pending
    channel,        \* the content of each call's channel
    connected, readErr, endpoint,
    cancelled,      \* the stream's context
    start,          \* where Start, and Close after it, stand
    reader,         \* where readLoop stands
    target,         \* the call whose channel dispatch has looked up
    sending,        \* the call whose channel each drainer is sending on
    pc, result,     \* where each call stands, and what it returns
    sent,           \* external: the calls the server has received
    delivered       \* history: the calls whose answer dispatch has delivered

connVars == <<connected, readErr, endpoint, cancelled>>
callVars == <<pc, result, sent>>
vars == <<mu, pending, channel, connVars, start, reader, target, sending,
          callVars, delivered>>

Drainers == {"reader", "closer"}

\* What the decoding of a response makes of it.
Decoded == {"result", "server_error", "invalid"}

\* The stages between the registration of a call and its return.
Waiting == {"post", "posted", "select"}

TypeOK ==
    /\ mu \in {"free"} \cup Drainers
    /\ pending \subseteq Calls
    /\ channel \in [Calls -> {"empty", "answer", "closed"}]
    /\ connected \in BOOLEAN /\ readErr \in BOOLEAN
    /\ endpoint \in BOOLEAN /\ cancelled \in BOOLEAN
    /\ start \in {"connect", "endpoint", "initialize", "notify", "notified",
                  "ready", "close", "closing", "closed"}
    /\ reader \in {"off", "scan", "send", "end", "drain", "stopped"}
    /\ target \in Calls \cup {NoCall}
    /\ sending \in [Drainers -> Calls \cup {NoCall}]
    /\ pc \in [Calls -> {"idle", "register", "forget", "done"} \cup Waiting]
    /\ result \in [Calls -> Decoded \cup {"none", "timeout", "failed", "closed"}]
    /\ sent \subseteq Calls
    /\ delivered \subseteq Calls

Init ==
    /\ mu = "free"
    /\ pending = {}
    /\ channel = [r \in Calls |-> "empty"]
    /\ connected = FALSE /\ readErr = FALSE /\ endpoint = FALSE
    /\ cancelled = FALSE
    /\ start = "connect"
    /\ reader = "off"
    /\ target = NoCall
    /\ sending = [d \in Drainers |-> NoCall]
    /\ pc = [r \in Calls |-> "idle"]
    /\ result = [r \in Calls |-> "none"]
    /\ sent = {}
    /\ delivered = {}

Free == mu = "free"

\* resolvedMessageURL
HasEndpoint == endpoint \/ HasMessageURL

-----------------------------------------------------------------------------
(* request *)

Goto(r, stage) == pc' = [pc EXCEPT ![r] = stage]

Return(r, res) ==
    /\ result' = [result EXCEPT ![r] = res]
    /\ Goto(r, "forget")

\* A caller comes: initialize, or ListTools and CallTool once Start is through.
Arrive(r) ==
    /\ pc[r] = "idle"
    /\ start = (IF r = Handshake THEN "initialize" ELSE "ready")
    /\ Goto(r, "register")
    /\ UNCHANGED <<mu, pending, channel, connVars, start, reader, target,
                   sending, result, sent, delivered>>

Register(r) ==
    /\ pc[r] = "register" /\ Free
    /\ pending' = pending \cup {r}
    /\ Goto(r, "post")
    /\ UNCHANGED <<mu, channel, connVars, start, reader, target, sending,
                   result, sent, delivered>>

\* post: without an endpoint the call fails, else the server gets it.
Post(r) ==
    /\ pc[r] = "post" /\ Free
    /\ IF HasEndpoint
       THEN Goto(r, "posted") /\ sent' = sent \cup {r} /\ UNCHANGED result
       ELSE Return(r, "failed") /\ UNCHANGED sent
    /\ UNCHANGED <<mu, pending, channel, connVars, start, reader, target,
                   sending, delivered>>

\* The POST returns: an error, a timeout, a response in its body, or none.
Posted(r) ==
    /\ pc[r] = "posted"
    /\ \/ \E res \in Decoded \cup {"failed", "timeout"} : Return(r, res)
       \/ Goto(r, "select") /\ UNCHANGED result
    /\ UNCHANGED <<mu, pending, channel, connVars, start, reader, target,
                   sending, sent, delivered>>

\* The call takes what is in its channel, or times out.
Receive(r) ==
    /\ pc[r] = "select"
    /\ channel[r] # "empty"
    /\ channel' = [channel EXCEPT ![r] = "empty"]
    /\ IF channel[r] = "closed" THEN Return(r, "closed")
                                ELSE \E res \in Decoded : Return(r, res)
    /\ UNCHANGED <<mu, pending, connVars, start, reader, target, sending,
                   sent, delivered>>

Timeout(r) ==
    /\ pc[r] = "select"
    /\ Return(r, "timeout")
    /\ UNCHANGED <<mu, pending, channel, connVars, start, reader, target,
                   sending, sent, delivered>>

\* A mutant: the entry of the call stays in the map.
ForgetNothing(r) ==
    /\ pc[r] = "forget" /\ Free
    /\ Goto(r, "done")
    /\ UNCHANGED <<mu, pending, channel, connVars, start, reader, target,
                   sending, result, sent, delivered>>

\* The deferred forget, after which the caller has its result.
forget(r) ==
    /\ pc[r] = "forget" /\ Free
    /\ pending' = pending \ {r}
    /\ Goto(r, "done")
    /\ UNCHANGED <<mu, channel, connVars, start, reader, target, sending,
                   result, sent, delivered>>

-----------------------------------------------------------------------------
(* readLoop and dispatch *)

\* A response on the stream: dispatch looks its channel up and lets the mutex
\* go; one that nobody waits for is dropped.
Dispatch(r) ==
    /\ reader = "scan" /\ Free
    /\ r \in sent
    /\ IF r \in pending THEN reader' = "send" /\ target' = r
                        ELSE UNCHANGED <<reader, target>>
    /\ UNCHANGED <<mu, pending, channel, connVars, start, sending, callVars,
                   delivered>>

\* A second response finds the channel full and is dropped.
Deliver ==
    /\ reader = "send"
    /\ IF channel[target] = "empty"
       THEN /\ channel' = [channel EXCEPT ![target] = "answer"]
            /\ delivered' = delivered \cup {target}
       ELSE UNCHANGED <<channel, delivered>>
    /\ reader' = "scan" /\ target' = NoCall
    /\ UNCHANGED <<mu, pending, connVars, start, sending, callVars>>

\* The endpoint event.
setEndpoint ==
    /\ reader = "scan" /\ Free
    /\ endpoint' = TRUE
    /\ UNCHANGED <<mu, pending, channel, connected, readErr, cancelled, start,
                   reader, target, sending, callVars, delivered>>

\* The server ends the stream, or its context is cancelled.
StreamEnd ==
    /\ reader = "scan"
    /\ reader' = "end"
    /\ UNCHANGED <<mu, pending, channel, connVars, start, target, sending,
                   callVars, delivered>>

\* The reader takes the mutex and keeps it until every pending call is told.
ReaderStops ==
    /\ reader = "end" /\ Free
    /\ mu' = "reader" /\ reader' = "drain"
    /\ connected' = FALSE
    /\ \E err \in {readErr, TRUE} : readErr' = err
    /\ UNCHANGED <<pending, channel, endpoint, cancelled, start, target,
                   sending, callVars, delivered>>

-----------------------------------------------------------------------------
(* The loop over t.pending that ends the stream and Close: one entry after  *)
(* another is deleted and its channel sent to, which blocks while it is full.*)

Take(d) ==
    /\ mu = d /\ sending[d] = NoCall
    /\ \E r \in pending :
         /\ pending' = pending \ {r}
         /\ sending' = [sending EXCEPT ![d] = r]
    /\ UNCHANGED <<mu, channel, connVars, start, reader, target, callVars,
                   delivered>>

\* Mutants: entries are deleted and nobody is told; a channel that is full is
\* overwritten.
SendNothing(d) ==
    /\ mu = d /\ sending[d] # NoCall
    /\ sending' = [sending EXCEPT ![d] = NoCall]
    /\ UNCHANGED <<mu, pending, channel, connVars, start, reader, target,
                   callVars, delivered>>

SendOver(d) ==
    /\ mu = d /\ sending[d] # NoCall
    /\ channel' = [channel EXCEPT ![sending[d]] = "closed"]
    /\ sending' = [sending EXCEPT ![d] = NoCall]
    /\ UNCHANGED <<mu, pending, connVars, start, reader, target, callVars,
                   delivered>>

Send(d) ==
    /\ mu = d /\ sending[d] # NoCall
    /\ channel[sending[d]] = "empty"
    /\ channel' = [channel EXCEPT ![sending[d]] = "closed"]
    /\ sending' = [sending EXCEPT ![d] = NoCall]
    /\ UNCHANGED <<mu, pending, connVars, start, reader, target, callVars,
                   delivered>>

\* The loop is over and the mutex is let go.
Drained(d) ==
    /\ mu = d /\ sending[d] = NoCall /\ pending = {}
    /\ mu' = "free"
    /\ IF d = "reader" THEN reader' = "stopped" /\ UNCHANGED start
                       ELSE start' = "closed" /\ UNCHANGED reader
    /\ UNCHANGED <<pending, channel, connVars, target, sending, callVars,
                   delivered>>

-----------------------------------------------------------------------------
(* Start and Close *)

\* The GET fails, or the stream is open and its reader runs.
Connect ==
    /\ start = "connect"
    /\ \/ /\ start' = "closed"
          /\ UNCHANGED <<connected, reader>>
       \/ /\ start' = "endpoint"
          /\ connected' = TRUE /\ reader' = "scan"
    /\ UNCHANGED <<mu, pending, channel, readErr, endpoint, cancelled, target,
                   sending, callVars, delivered>>

\* The endpoint is there, or it is given up: that is an error only without a
\* configured one.
waitForEndpoint ==
    /\ start = "endpoint" /\ Free
    /\ start' = IF HasEndpoint THEN "initialize" ELSE "close"
    /\ UNCHANGED <<mu, pending, channel, connVars, reader, target, sending,
                   callVars, delivered>>

\* A server that refuses the handshake with a JSON-RPC error is accepted.
Initialized ==
    /\ start = "initialize"
    /\ pc[Handshake] = "done"
    /\ start' = IF result[Handshake] \in {"result", "server_error"}
                THEN "notify" ELSE "close"
    /\ UNCHANGED <<mu, pending, channel, connVars, reader, target, sending,
                   callVars, delivered>>

\* notify posts the initialized notification, and may fail.
Notify ==
    /\ \/ start = "notify" /\ Free /\ HasEndpoint /\ start' = "notified"
       \/ start = "notified" /\ start' \in {"ready", "close"}
    /\ UNCHANGED <<mu, pending, channel, connVars, reader, target, sending,
                   callVars, delivered>>

\* A mutant: the transport is closed under the calls that use it.
DiscardInUse ==
    /\ start = "ready"
    /\ start' = "close"
    /\ UNCHANGED <<mu, pending, channel, connVars, reader, target, sending,
                   callVars, delivered>>

\* transportFor closes a transport that another request has made needless.
Discard ==
    /\ start = "ready"
    /\ \A r \in Calls \ {Handshake} : pc[r] = "idle"
    /\ start' = "close"
    /\ UNCHANGED <<mu, pending, channel, connVars, reader, target, sending,
                   callVars, delivered>>

Close ==
    /\ start = "close" /\ Free
    /\ start' = "closing" /\ mu' = "closer"
    /\ cancelled' = TRUE /\ connected' = FALSE
    /\ UNCHANGED <<pending, channel, readErr, endpoint, reader, target,
                   sending, callVars, delivered>>

-----------------------------------------------------------------------------

Caller(r) ==
    Register(r) \/ Post(r) \/ Posted(r) \/ Receive(r) \/ Timeout(r) \/ forget(r)

Drain(d) == Take(d) \/ Send(d) \/ Drained(d)

Reader == Deliver \/ ReaderStops \/ Drain("reader") \/ (cancelled /\ StreamEnd)

Starter == Connect \/ waitForEndpoint \/ Arrive(Handshake) \/ Initialized
           \/ Notify \/ Close \/ Drain("closer")

Server == setEndpoint \/ StreamEnd \/ \E r \in Calls : Dispatch(r)

Next == \/ \E r \in Calls : Arrive(r) \/ Caller(r)
        \/ Reader \/ Starter \/ Server \/ Discard

Spec == Init /\ [][Next]_vars

\* Goroutines that can go on do: the HTTP client's calls and the waits have
\* timeouts.  Nothing is assumed of the server and of the callers to come.
FairSpec ==
    /\ Spec
    /\ \A r \in Calls : WF_vars(Caller(r))
    /\ WF_vars(Reader)
    /\ WF_vars(Starter)

-----------------------------------------------------------------------------
(* Properties *)

\* A call that has returned leaves no entry behind, however it returned.
NoEntryLeaks == \A r \in pending : pc[r] \in Waiting \cup {"forget"}

\* A call that is not in the map any more and still waits has its response in
\* the channel, or somebody is about to send it one: no waiting call is
\* forgotten when the stream ends.
NoCallForgotten ==
    \A r \in Calls :
        pc[r] \in Waiting /\ r \notin pending =>
            channel[r] # "empty" \/ \E d \in Drainers : sending[d] = r

\* The first answer wins: once it is delivered it stays in the channel until
\* the call takes it or gives up, and the end of the stream does not hide it.
AnswerNotLost ==
    \A r \in delivered :
        /\ pc[r] \in Waiting => channel[r] = "answer"
        /\ result[r] # "closed"

\* Only a drainer keeps the mutex, and only the reader ever has someone to
\* tell: Close is called before the first call or after the only one.
LockOK ==
    /\ mu = "reader" <=> reader = "drain"
    /\ mu = "closer" <=> start = "closing"
    /\ sending["reader"] # NoCall => reader = "drain"
    /\ sending["closer"] = NoCall

StartOK ==
    /\ \A r \in Calls \ {Handshake} : pc[r] # "idle" => start = "ready"
    /\ pc[Handshake] \notin {"idle", "done"} => start = "initialize"
    /\ start \in {"notify", "notified", "ready"} => pc[Handshake] = "done"

\* The stream answers what was posted, after it was opened.
StreamOK ==
    /\ delivered \subseteq sent
    /\ \A r \in sent : pc[r] \notin {"idle", "register", "post"}
    /\ reader = "send" => target \in sent
    /\ start = "connect" => reader = "off"

\* Nobody has been told that the stream is closed before it is.
ClosedOK ==
    \A r \in Calls : channel[r] = "closed" \/ result[r] = "closed" =>
                       reader \in {"drain", "stopped"}

\* The invariant the proofs work with.
TransportInv ==
    /\ TypeOK /\ LockOK /\ StartOK /\ StreamOK /\ ClosedOK
    /\ NoEntryLeaks /\ NoCallForgotten /\ AnswerNotLost

\* The call a drainer sends to will take nothing out of its channel any more,
\* and waits for the mutex the drainer keeps.
Stuck == \E d \in Drainers, r \in Calls :
            mu = d /\ sending[d] = r /\ channel[r] # "empty" /\ pc[r] = "forget"

\* Every call returns: the timeouts of the POST and of the wait see to it.
CallsReturn == \A r \in Calls : (pc[r] = "register") ~> (pc[r] = "done")

\* They do but for one thing: a response nobody took when the stream ends.
CallsReturnUnlessStuck == []~Stuck => CallsReturn

=============================================================================
