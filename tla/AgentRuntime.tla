---------------------------- MODULE AgentRuntime ----------------------------
(***************************************************************************)
(* internal/agent/runtime.go with the handlers that call it: the runs of   *)
(* the agent, the approvals they wait for, and the requests that start,    *)
(* resume, reject, cancel and list them.                                   *)
(*                                                                         *)
(* Every incoming request is a goroutine of its own.  It works on a        *)
(* private copy `st' of the run's state, read once from the state store    *)
(* and written back whole after every stage, so a request never sees what  *)
(* another one wrote meanwhile.  One action is one call on the state store,*)
(* the approval center, the router or the planner.                         *)
(*                                                                         *)
(* Of the durable step history only the steps that carry an approval are   *)
(* kept: no code reads the others back.                                    *)
(***************************************************************************)
EXTENDS ApprovalCenter, Naturals, FiniteSets

CONSTANTS
    Requests,       \* the requests the server receives
    NoApproval,     \* the empty ApprovalID of a run state
    Entries,        \* the endpoints in use, a subset of AllEntries
    MaxSteps,       \* RunState.MaxSteps
    MaxCrashes,     \* bound: restarts of the process
    MaxFaults       \* bound: store calls that return an error

AllEntries == {"run", "resume", "http", "ws", "cancel", "pending", "tool"}

ASSUME RuntimeAssumption ==
    /\ NoApproval \notin Approvals
    /\ Entries \subseteq AllEntries
    /\ MaxSteps \in Nat /\ MaxCrashes \in Nat /\ MaxFaults \in Nat

VARIABLES
    store,          \* agent_runs: the last saved state of each run
    steps,          \* agent_run_steps: the steps that carry an approval
    pc,             \* where each request's goroutine stands
    call,           \* the request's parameters and what it found out
    st,             \* the request's private RunState
    copy,           \* the approval read from the step history, to be hydrated
    crashes, faults,
    granted,        \* history: who approved each id, and in which life
    executed,       \* history: who ran the approved snapshot, and when
    calls           \* history: tool executions on behalf of each run

runVars == <<store, steps, pc, call, st, copy, crashes, faults,
             granted, executed, calls>>
vars == <<centerVars, runVars>>

-----------------------------------------------------------------------------
(* Types *)

Terminal == {"completed", "failed", "cancelled"}

RunStatus == Terminal \cup
    {"received_user_message", "context_built", "planned", "tool_proposed",
     "effect_inferred", "policy_decided", "approval_requested",
     "paused_for_approval", "approval_approved", "approval_rejected",
     "tool_executing", "tool_failed", "tool_completed",
     "assistant_summarizing"}

\* Settled: nothing further happens to the run unless a client asks for it.
Settled == Terminal \cup {"paused_for_approval", "approval_rejected"}

RunState == [status : RunStatus \cup {"absent"}, idx : Nat, count : Nat,
             appr : Approvals \cup {NoApproval}]

NoState == [status |-> "absent", idx |-> 0, count |-> 0, appr |-> NoApproval]

Step == [idx : Nat, appr : Approvals \cup {NoApproval}, ast : ApprovalStatus]

Call == [entry : AllEntries \cup {"none"},
         run : Runs \cup {NoRun},
         appr : Approvals \cup {NoApproval},     \* asked about by the client
         approved : BOOLEAN,
         new : Approvals \cup {NoApproval},      \* made by the last proposal
         outcome : {"none", "approval", "ok", "error"}]

\* An act of request `by' in the process's life number `life'.
Deed == [by : Requests, life : Nat]

NoCall == [entry |-> "none", run |-> NoRun, appr |-> NoApproval,
           approved |-> FALSE, new |-> NoApproval, outcome |-> "none"]

-----------------------------------------------------------------------------
(* The stages of a goroutine.  A stage rec_X is the recordStep call for X, *)
(* and the stage to_X the transition call that follows it.                 *)

\* Where recordStep leads when it succeeds.
AfterRecord ==
    [rec_context  |-> "to_context",  rec_plan     |-> "to_plan",
     rec_continue |-> "to_continue", rec_propose  |-> "to_propose",
     rec_infer    |-> "to_infer",    rec_policy   |-> "to_policy",
     rec_request  |-> "to_request",  rec_exec     |-> "to_exec",
     rec_summary  |-> "to_summary",  rec_final    |-> "to_final",
     rec_fail     |-> "to_fail",     rec_cancel   |-> "to_cancel",
     rec_approved |-> "to_approved", rec_execfail |-> "to_execfail",
     rec_executed |-> "to_executed", rec_rejected |-> "to_rejected",
     rec_rejsum   |-> "to_rejsum",   rec_rejfinal |-> "to_rejfinal"]

\* The status of the approval a step carries; the other steps carry none.
Carried ==
    [rec_request  |-> "pending",  rec_approved |-> "approved",
     rec_execfail |-> "approved", rec_executed |-> "approved",
     rec_rejected |-> "rejected"]

\* The status a transition gives the run.
Entered ==
    [to_context   |-> "context_built",    to_plan      |-> "planned",
     to_continue  |-> "planned",          to_propose   |-> "tool_proposed",
     to_infer     |-> "effect_inferred",  to_policy    |-> "policy_decided",
     to_request   |-> "approval_requested", to_pause   |-> "paused_for_approval",
     to_exec      |-> "tool_executing",   to_failed    |-> "tool_failed",
     to_completed |-> "tool_completed",   to_summary   |-> "assistant_summarizing",
     to_final     |-> "completed",        to_fail      |-> "failed",
     to_cancel    |-> "cancelled",        to_approved  |-> "approval_approved",
     to_executing |-> "tool_executing",   to_execfail  |-> "tool_failed",
     to_executed  |-> "tool_completed",   to_rejected  |-> "approval_rejected",
     to_rejsum    |-> "assistant_summarizing", to_rejfinal |-> "approval_rejected"]

\* What follows a transition.  The error return of "to_fail" reaches the
\* caller, and the WebSocket handler then tries the approval by itself.
OnError(q) == IF call[q].entry = "ws" THEN "direct" ELSE "done"

AfterEntered(q) ==
    [to_context   |-> "loop",        to_plan      |-> "decide",
     to_continue  |-> "loop",        to_propose   |-> "propose",
     to_infer     |-> "rec_policy",  to_policy    |-> "outcome",
     to_request   |-> "to_pause",    to_pause     |-> "reply_pause",
     to_exec      |-> IF call[q].outcome = "ok" THEN "to_completed" ELSE "to_failed",
     to_failed    |-> "loop",        to_completed |-> "loop",
     to_summary   |-> "reply_answer", to_final    |-> "done",
     to_fail      |-> OnError(q),    to_cancel    |-> "done",
     to_approved  |-> "to_executing", to_executing |-> "check",
     to_execfail  |-> "rec_fail",    to_executed  |-> "clear",
     to_rejected  |-> "rec_rejsum",  to_rejsum    |-> "reply_reject",
     to_rejfinal  |-> "done"]

\* A mutant: a rejected run pauses again.
AfterReplyPaused == [reply_pause  |-> "done", reply_answer |-> "rec_final",
                     reply_reject |-> "to_pause"]

\* What follows persistAssistant.
AfterReply == [reply_pause  |-> "done", reply_answer |-> "rec_final",
               reply_reject |-> "rec_rejfinal"]

Stages == DOMAIN AfterRecord \cup DOMAIN Entered \cup DOMAIN AfterReply \cup
          {"idle", "message", "loop", "decide", "propose", "outcome",
           "lookup", "load", "hydrate", "steps", "put", "resolve", "check",
           "execute", "clear", "cancel", "cancel_reject",
           "direct", "direct_check", "direct_execute", "done"}

TypeOK ==
    /\ CenterTypeOK
    /\ store \in [Runs -> RunState]
    /\ steps \in [Runs -> SUBSET Step]
    /\ pc \in [Requests -> Stages]
    /\ call \in [Requests -> Call]
    /\ st \in [Requests -> RunState]
    /\ copy \in [Requests -> ApprovalStatus]
    /\ crashes \in 0..MaxCrashes
    /\ faults \in 0..MaxFaults
    /\ granted \in [Approvals -> SUBSET Deed]
    /\ executed \in [Approvals -> SUBSET Deed]
    /\ calls \in [Runs -> Nat]

-----------------------------------------------------------------------------
(* Pieces of actions *)

Init ==
    /\ CenterInit
    /\ store = [r \in Runs |-> NoState]
    /\ steps = [r \in Runs |-> {}]
    /\ pc = [q \in Requests |-> "idle"]
    /\ call = [q \in Requests |-> NoCall]
    /\ st = [q \in Requests |-> NoState]
    /\ copy = [q \in Requests |-> "pending"]
    /\ crashes = 0 /\ faults = 0
    /\ granted = [a \in Approvals |-> {}]
    /\ executed = [a \in Approvals |-> {}]
    /\ calls = [r \in Runs |-> 0]

\* What q does is done in the life the process is in.
Now(q) == [by |-> q, life |-> crashes]

Goto(q, stage) == pc' = [pc EXCEPT ![q] = stage]

\* A store call may return an error: the database fails, or the client has
\* disconnected and the request's context is cancelled.
Fault == faults < MaxFaults /\ faults' = faults + 1

Save(q, s) == store' = [store EXCEPT ![call[q].run] = s]

Paused(r, a) == store[r].status = "paused_for_approval" /\ store[r].appr = a

\* A client can only name a run or an approval it has been shown.
Known(r) == store[r].status # "absent"
Issued(a) == ~Fresh(a)

Arrive(q, c, stage) ==
    /\ pc[q] = "idle"
    /\ c.entry \in Entries
    /\ call' = [call EXCEPT ![q] = c]
    /\ Goto(q, stage)
    /\ UNCHANGED <<centerVars, steps, copy, crashes, granted, executed, calls>>

-----------------------------------------------------------------------------
(* Arrivals *)

\* POST messages or a WebSocket user.message: Run saves a new run.
StartRun(q, r) ==
    /\ ~Known(r)
    /\ Arrive(q, [NoCall EXCEPT !.entry = "run", !.run = r], "message")
    /\ LET s == [NoState EXCEPT !.status = "received_user_message"]
       IN  /\ st' = [st EXCEPT ![q] = s]
           /\ store' = [store EXCEPT ![r] = s]
    /\ UNCHANGED faults

\* POST /v1/runs/{run}/resume
ResumeHandler(q, r, a, ok) ==
    /\ Known(r) /\ Issued(a)
    /\ Arrive(q, [NoCall EXCEPT !.entry = "resume", !.run = r, !.appr = a,
                                !.approved = ok], "load")
    /\ UNCHANGED <<store, st, faults>>

\* POST /v1/approvals/{id}/approve and /reject: an approval that is present
\* and belongs to no run is resolved here, any other by ResumeApproval.
ApprovalHandler(q, a, ok) ==
    /\ Issued(a)
    /\ Arrive(q, [NoCall EXCEPT !.entry = "http", !.appr = a, !.approved = ok],
              IF center[a] # "absent" /\ owner[a] = {NoRun}
              THEN "direct" ELSE "lookup")
    /\ UNCHANGED <<store, st, faults>>

\* WebSocket approval.respond
SocketHandler(q, a, ok) ==
    /\ Issued(a)
    /\ Arrive(q, [NoCall EXCEPT !.entry = "ws", !.appr = a, !.approved = ok],
              "lookup")
    /\ UNCHANGED <<store, st, faults>>

\* POST /v1/runs/{run}/cancel
CancelHandler(q, r) ==
    /\ Known(r)
    /\ Arrive(q, [NoCall EXCEPT !.entry = "cancel", !.run = r], "cancel")
    /\ UNCHANGED <<store, st, faults>>

\* GET /v1/approvals/pending, for one of the paused runs it lists.
PendingHandler(q, r) ==
    /\ \E a \in Approvals : Paused(r, a)
    /\ Arrive(q, [NoCall EXCEPT !.entry = "pending", !.run = r,
                                !.appr = store[r].appr], "hydrate")
    /\ UNCHANGED <<store, st, faults>>

\* The memory, skill, ops and MCP endpoints propose a tool without a run; only
\* the outcome that asks for an approval touches this state.
ToolHandler(q, a) ==
    /\ "tool" \in Entries
    /\ pc[q] = "idle"
    /\ Create(a, NoRun)
    /\ Goto(q, "done")
    /\ UNCHANGED <<store, steps, call, st, copy, crashes, faults,
                   granted, executed, calls>>

-----------------------------------------------------------------------------
(* The bookkeeping calls *)

\* A mutant: the error of a failed save is ignored.
recordStepUnchecked(q) ==
    /\ pc[q] \in DOMAIN AfterRecord
    /\ LET s == [st[q] EXCEPT !.idx = @ + 1]
           new == IF pc[q] \in DOMAIN Carried
                  THEN {[idx |-> s.idx, ast |-> Carried[pc[q]],
                         appr |-> IF pc[q] = "rec_request" THEN call[q].new
                                                           ELSE call[q].appr]}
                  ELSE {}
       IN  /\ st' = [st EXCEPT ![q] = s]
           /\ \/ /\ Save(q, s)
                 /\ steps' = [steps EXCEPT ![call[q].run] = @ \cup new]
                 /\ UNCHANGED faults
              \/ Fault /\ UNCHANGED <<store, steps>>
    /\ Goto(q, AfterRecord[pc[q]])
    /\ UNCHANGED <<centerVars, call, copy, crashes, granted, executed, calls>>

\* SaveStep, then saveState.  Either may fail, the first without an effect,
\* the second when the step is already written.
recordStep(q) ==
    /\ pc[q] \in DOMAIN AfterRecord
    /\ LET r == call[q].run
           s == [st[q] EXCEPT !.idx = @ + 1]
           new == IF pc[q] \in DOMAIN Carried
                  THEN {[idx |-> s.idx, ast |-> Carried[pc[q]],
                         appr |-> IF pc[q] = "rec_request" THEN call[q].new
                                                           ELSE call[q].appr]}
                  ELSE {}
       IN  /\ st' = [st EXCEPT ![q] = s]
           /\ \/ /\ Save(q, s)
                 /\ steps' = [steps EXCEPT ![r] = @ \cup new]
                 /\ Goto(q, AfterRecord[pc[q]])
                 /\ UNCHANGED faults
              \/ /\ Fault
                 /\ \E written \in {{}, new} :
                        steps' = [steps EXCEPT ![r] = @ \cup written]
                 /\ Goto(q, IF pc[q] \in {"rec_fail", "rec_cancel"}
                            THEN OnError(q) ELSE "rec_fail")
                 /\ UNCHANGED store
    /\ UNCHANGED <<centerVars, call, copy, crashes, granted, executed, calls>>

\* The new status is saved; an error of that save is ignored.
transition(q) ==
    /\ pc[q] \in DOMAIN Entered
    /\ LET s == [st[q] EXCEPT !.status = Entered[pc[q]]]
       IN  /\ st' = [st EXCEPT ![q] = s]
           /\ \/ Save(q, s) /\ UNCHANGED faults
              \/ Fault /\ UNCHANGED store
    /\ Goto(q, AfterEntered(q)[pc[q]])
    /\ UNCHANGED <<centerVars, steps, call, copy, crashes,
                   granted, executed, calls>>

\* The answer is written to the message store.
persistAssistant(q) ==
    /\ pc[q] \in DOMAIN AfterReply
    /\ \/ Goto(q, AfterReply[pc[q]]) /\ UNCHANGED faults
       \/ Fault /\ Goto(q, "rec_fail")
    /\ UNCHANGED <<centerVars, store, steps, call, st, copy, crashes,
                   granted, executed, calls>>

-----------------------------------------------------------------------------
(* Run and continueWorkflow *)

\* A step of q that changes no more than its own stage.
Local(q, stage) ==
    /\ Goto(q, stage)
    /\ UNCHANGED <<centerVars, store, steps, call, st, copy, crashes, faults,
                   granted, executed, calls>>

\* CreateMessage, whose error leaves the run as it is, and the context.
ReadMessage(q) ==
    /\ pc[q] = "message"
    /\ \/ \E stage \in {"rec_context", "rec_fail"} : Local(q, stage)
       \/ /\ Fault
          /\ Goto(q, "done")
          /\ UNCHANGED <<centerVars, store, steps, call, st, copy, crashes,
                         granted, executed, calls>>

\* Mutants: one step too many is planned; the limit ends the loop silently.
PlanStepOffByOne(q) ==
    /\ pc[q] = "loop"
    /\ IF st[q].count > MaxSteps
       THEN Goto(q, "rec_fail") /\ UNCHANGED st
       ELSE /\ st' = [st EXCEPT ![q].count = @ + 1]
            /\ \E stage \in {"rec_plan", "rec_fail"} : Goto(q, stage)
    /\ UNCHANGED <<centerVars, store, steps, call, copy, crashes, faults,
                   granted, executed, calls>>

PlanStepSilent(q) ==
    /\ pc[q] = "loop"
    /\ IF st[q].count >= MaxSteps
       THEN Goto(q, "done") /\ UNCHANGED st
       ELSE /\ st' = [st EXCEPT ![q].count = @ + 1]
            /\ \E stage \in {"rec_plan", "rec_fail"} : Goto(q, stage)
    /\ UNCHANGED <<centerVars, store, steps, call, copy, crashes, faults,
                   granted, executed, calls>>

\* The head of the loop: the step limit, then the planner, which may fail.
PlanStep(q) ==
    /\ pc[q] = "loop"
    /\ IF st[q].count >= MaxSteps
       THEN Goto(q, "rec_fail") /\ UNCHANGED st
       ELSE /\ st' = [st EXCEPT ![q].count = @ + 1]
            /\ \E stage \in {"rec_plan", "rec_fail"} : Goto(q, stage)
    /\ UNCHANGED <<centerVars, store, steps, call, copy, crashes, faults,
                   granted, executed, calls>>

\* The plan's decision: continue, answer or stop, use a tool, or one that
\* cannot be followed (an unknown decision, no proposal, a runner error).
FollowPlan(q) ==
    /\ pc[q] = "decide"
    /\ \E stage \in {"rec_continue", "rec_summary", "rec_propose", "rec_fail"} :
           Local(q, stage)

\* Router.Propose: an inference, policy or execution error, an approval, a
\* denial, or an execution.
ProposeTool(q) ==
    /\ pc[q] = "propose"
    /\ LET r == call[q].run
       IN  \/ /\ \E ran \in {0, 1} : calls' = [calls EXCEPT ![r] = @ + ran]
              /\ Goto(q, "rec_fail")
              /\ UNCHANGED <<centerVars, call>>
           \/ \E a \in Approvals :
                /\ Create(a, r)
                /\ call' = [call EXCEPT ![q].new = a, ![q].outcome = "approval"]
                /\ Goto(q, "rec_infer")
                /\ UNCHANGED calls
           \/ /\ call' = [call EXCEPT ![q].outcome = "error"]
              /\ Goto(q, "rec_infer")
              /\ UNCHANGED <<centerVars, calls>>
           \/ /\ \E out \in {"ok", "error"} :
                     call' = [call EXCEPT ![q].outcome = out]
              /\ calls' = [calls EXCEPT ![r] = @ + 1]
              /\ Goto(q, "rec_infer")
              /\ UNCHANGED centerVars
    /\ UNCHANGED <<store, steps, st, copy, crashes, faults, granted, executed>>

\* The outcome of the proposal: the run takes the approval's id, or goes on.
TakeOutcome(q) ==
    /\ pc[q] = "outcome"
    /\ IF call[q].outcome = "approval"
       THEN /\ st' = [st EXCEPT ![q].appr = call[q].new]
            /\ Goto(q, "rec_request")
       ELSE Goto(q, "rec_exec") /\ UNCHANGED st
    /\ UNCHANGED <<centerVars, store, steps, call, copy, crashes, faults,
                   granted, executed, calls>>

-----------------------------------------------------------------------------
(* ResumeApproval, ResumeRun and hydrateApproval *)

\* The run is named by the record or, when the record is missing, by the
\* paused run that waits for the id.
ResumeApproval(q) ==
    /\ pc[q] = "lookup"
    /\ LET a == call[q].appr
           attached == IF center[a] # "absent" /\ owner[a] # {NoRun}
                       THEN owner[a] ELSE {r \in Runs : Paused(r, a)}
       IN  IF attached = {}
           THEN Goto(q, OnError(q)) /\ UNCHANGED call
           ELSE \E r \in attached :
                    /\ call' = [call EXCEPT ![q].run = r]
                    /\ Goto(q, "load")
    /\ UNCHANGED <<store, centerVars, steps, st, copy, crashes, faults,
                   granted, executed, calls>>

\* ResumeRun reads the run, which must be paused for this approval.
LoadPaused(q) ==
    /\ pc[q] = "load"
    /\ \/ /\ Paused(call[q].run, call[q].appr)
          /\ st' = [st EXCEPT ![q] = store[call[q].run]]
          /\ Goto(q, "hydrate")
          /\ UNCHANGED faults
       \/ /\ ~Paused(call[q].run, call[q].appr)
          /\ Goto(q, OnError(q))
          /\ UNCHANGED <<st, faults>>
       \/ /\ Fault
          /\ Goto(q, OnError(q))
          /\ UNCHANGED st
    /\ UNCHANGED <<centerVars, store, steps, call, copy, crashes,
                   granted, executed, calls>>

\* A mutant: the step history is trusted over the center.
GetApprovalAlwaysHydrated(q) ==
    /\ pc[q] = "hydrate"
    /\ Local(q, "steps")

\* The record is looked up; Pending has nothing to do when it is there, and
\* ResumeRun refuses one that belongs to another run.
GetApproval(q) ==
    /\ pc[q] = "hydrate"
    /\ LET a == call[q].appr
       IN  Local(q, IF center[a] = "absent" THEN "steps"
                    ELSE IF call[q].entry = "pending" THEN "done"
                    ELSE IF owner[a] = {call[q].run} THEN "resolve"
                    ELSE OnError(q))

\* A mutant: the first step that carries the approval is taken.
ReadFirstStep(q) ==
    /\ pc[q] = "steps"
    /\ LET carrying == {s \in steps[call[q].run] : s.appr = call[q].appr}
           first == {s \in carrying : \A t \in carrying : t.idx >= s.idx}
       IN  IF carrying = {}
           THEN Goto(q, OnError(q)) /\ UNCHANGED copy
           ELSE \E s \in first :
                    /\ copy' = [copy EXCEPT ![q] = s.ast]
                    /\ Goto(q, "put")
    /\ UNCHANGED <<centerVars, store, steps, call, st, crashes, faults,
                   granted, executed, calls>>

\* The last step of the run that carries the approval, if there is one.
ReadSteps(q) ==
    /\ pc[q] = "steps"
    /\ LET carrying == {s \in steps[call[q].run] : s.appr = call[q].appr}
           latest == {s \in carrying : \A t \in carrying : t.idx <= s.idx}
       IN  IF carrying = {}
           THEN Goto(q, OnError(q)) /\ UNCHANGED copy
           ELSE \E s \in latest :
                    /\ copy' = [copy EXCEPT ![q] = s.ast]
                    /\ Goto(q, "put")
    /\ UNCHANGED <<centerVars, store, steps, call, st, crashes, faults,
                   granted, executed, calls>>

\* The copy is hydrated without another look at the center.
PutCopy(q) ==
    /\ pc[q] = "put"
    /\ Hydrate(call[q].appr, copy[q])
    /\ Goto(q, IF call[q].entry = "pending" THEN "done" ELSE "resolve")
    /\ UNCHANGED <<store, steps, call, st, copy, crashes, faults,
                   granted, executed, calls>>

\* A mutant: a record that is already resolved is taken for approved.
ResolveRunLenient(q) ==
    /\ pc[q] = "resolve"
    /\ LET a == call[q].appr
       IN  \/ /\ resolve(a, call[q].approved)
              /\ IF call[q].approved
                 THEN /\ granted' = [granted EXCEPT ![a] = @ \cup {Now(q)}]
                      /\ Goto(q, "rec_approved")
                 ELSE Goto(q, "rec_rejected") /\ UNCHANGED granted
           \/ /\ ~Resolvable(a)
              /\ Goto(q, "rec_approved")
              /\ UNCHANGED <<centerVars, granted>>
    /\ UNCHANGED <<store, steps, call, st, copy, crashes, faults, executed, calls>>

\* Approve or Reject; of a record that is already resolved the run fails.
ResolveRun(q) ==
    /\ pc[q] = "resolve"
    /\ LET a == call[q].appr
       IN  \/ /\ resolve(a, call[q].approved)
              /\ IF call[q].approved
                 THEN /\ granted' = [granted EXCEPT ![a] = @ \cup {Now(q)}]
                      /\ Goto(q, "rec_approved")
                 ELSE Goto(q, "rec_rejected") /\ UNCHANGED granted
           \/ /\ ~Resolvable(a)
              /\ Goto(q, "rec_fail")
              /\ UNCHANGED <<centerVars, granted>>
    /\ UNCHANGED <<store, steps, call, st, copy, crashes, faults, executed, calls>>

\* ExecuteApproved: the record must still be approved and the tool known.
ExecuteApproved(q) ==
    /\ pc[q] = "check"
    /\ \/ center[call[q].appr] = "approved" /\ Local(q, "execute")
       \/ Local(q, "rec_execfail")

\* The tool runs on the approved snapshot, and returns a result or an error.
RunSnapshot(q) ==
    /\ pc[q] = "execute"
    /\ executed' = [executed EXCEPT ![call[q].appr] = @ \cup {Now(q)}]
    /\ calls' = [calls EXCEPT ![call[q].run] = @ + 1]
    /\ \E stage \in {"rec_executed", "rec_execfail"} : Goto(q, stage)
    /\ UNCHANGED <<centerVars, store, steps, call, st, copy, crashes, faults, granted>>

\* The run lets go of the approval and the loop is entered again.
ClearApproval(q) ==
    /\ pc[q] = "clear"
    /\ LET s == [st[q] EXCEPT !.appr = NoApproval]
       IN  /\ st' = [st EXCEPT ![q] = s]
           /\ \/ Save(q, s) /\ Goto(q, "loop") /\ UNCHANGED faults
              \/ Fault /\ Goto(q, OnError(q)) /\ UNCHANGED store
    /\ UNCHANGED <<centerVars, steps, call, copy, crashes, granted, executed, calls>>

-----------------------------------------------------------------------------
(* CancelRun *)

LoadForCancel(q) ==
    /\ pc[q] = "cancel"
    /\ LET s == store[call[q].run]
       IN  IF s.status \in Terminal
           THEN Goto(q, "done") /\ UNCHANGED st
           ELSE /\ st' = [st EXCEPT ![q] = s]
                /\ Goto(q, IF s.appr = NoApproval THEN "rec_cancel"
                           ELSE "cancel_reject")
    /\ UNCHANGED <<centerVars, store, steps, call, copy, crashes, faults,
                   granted, executed, calls>>

\* A pending approval of the run is rejected with it.
RejectCancelled(q) ==
    /\ pc[q] = "cancel_reject"
    /\ IF Resolvable(st[q].appr) THEN resolve(st[q].appr, FALSE)
                                 ELSE UNCHANGED centerVars
    /\ Goto(q, "rec_cancel")
    /\ UNCHANGED <<store, steps, call, st, copy, crashes, faults,
                   granted, executed, calls>>

-----------------------------------------------------------------------------
(* The handlers that resolve an approval without its run *)

\* A mutant: a decision that came too late is followed all the same.
DirectResolveLenient(q) ==
    /\ pc[q] = "direct"
    /\ LET a == call[q].appr
       IN  \/ /\ resolve(a, call[q].approved)
              /\ IF call[q].approved
                 THEN /\ granted' = [granted EXCEPT ![a] = @ \cup {Now(q)}]
                      /\ Goto(q, "direct_check")
                 ELSE Goto(q, "done") /\ UNCHANGED granted
           \/ /\ ~Resolvable(a)
              /\ Goto(q, IF call[q].approved THEN "direct_check" ELSE "done")
              /\ UNCHANGED <<centerVars, granted>>
    /\ UNCHANGED <<store, steps, call, st, copy, crashes, faults, executed, calls>>

DirectResolve(q) ==
    /\ pc[q] = "direct"
    /\ LET a == call[q].appr
       IN  \/ /\ resolve(a, call[q].approved)
              /\ IF call[q].approved
                 THEN /\ granted' = [granted EXCEPT ![a] = @ \cup {Now(q)}]
                      /\ Goto(q, "direct_check")
                 ELSE Goto(q, "done") /\ UNCHANGED granted
           \/ /\ ~Resolvable(a)
              /\ Goto(q, "done")
              /\ UNCHANGED <<centerVars, granted>>
    /\ UNCHANGED <<store, steps, call, st, copy, crashes, faults, executed, calls>>

DirectExecuteApproved(q) ==
    /\ pc[q] = "direct_check"
    /\ \/ center[call[q].appr] = "approved" /\ Local(q, "direct_execute")
       \/ Local(q, "done")

DirectRun(q) ==
    /\ pc[q] = "direct_execute"
    /\ executed' = [executed EXCEPT ![call[q].appr] = @ \cup {Now(q)}]
    /\ calls' = [r \in Runs |-> IF owner[call[q].appr] = {r}
                                THEN calls[r] + 1 ELSE calls[r]]
    /\ Goto(q, "done")
    /\ UNCHANGED <<centerVars, store, steps, call, st, copy, crashes, faults, granted>>

-----------------------------------------------------------------------------

\* The process dies and starts again: the approval center and the goroutines
\* are gone, the repositories remain.
Crash ==
    /\ crashes < MaxCrashes
    /\ crashes' = crashes + 1
    /\ CenterCrash
    /\ pc' = [q \in Requests |-> IF pc[q] = "idle" THEN "idle" ELSE "done"]
    /\ UNCHANGED <<store, steps, call, st, copy, faults, granted, executed, calls>>

Request(q) ==
    \/ \E r \in Runs : StartRun(q, r) \/ CancelHandler(q, r) \/ PendingHandler(q, r)
    \/ \E a \in Approvals : ToolHandler(q, a)
    \/ \E a \in Approvals, ok \in BOOLEAN :
           \/ ApprovalHandler(q, a, ok)
           \/ SocketHandler(q, a, ok)
           \/ \E r \in Runs : ResumeHandler(q, r, a, ok)

Continue(q) ==
    \/ recordStep(q) \/ transition(q) \/ persistAssistant(q)
    \/ ReadMessage(q) \/ PlanStep(q) \/ FollowPlan(q) \/ ProposeTool(q)
    \/ TakeOutcome(q)
    \/ ResumeApproval(q) \/ LoadPaused(q) \/ GetApproval(q) \/ ReadSteps(q)
    \/ PutCopy(q) \/ ResolveRun(q) \/ ExecuteApproved(q) \/ RunSnapshot(q)
    \/ ClearApproval(q)
    \/ LoadForCancel(q) \/ RejectCancelled(q)
    \/ DirectResolve(q) \/ DirectExecuteApproved(q) \/ DirectRun(q)

Next == Crash \/ \E q \in Requests : Request(q) \/ Continue(q)

Spec == Init /\ [][Next]_vars

\* A goroutine that can go on does: planner, tools and store calls return.
FairSpec == Spec /\ \A q \in Requests : WF_vars(Continue(q))

-----------------------------------------------------------------------------
(* Properties *)

\* The stages of a request that has found no run yet, or has left it.
Unattached == {"idle", "lookup", "direct", "direct_check", "direct_execute", "done"}

\* The stages that look at the approval the client named.
AtApproval == {"lookup", "load", "hydrate", "steps", "put", "resolve",
               "rec_approved", "to_approved", "to_executing", "check", "execute",
               "direct", "direct_check", "direct_execute"}

\* The stages between a request's own Approve and the execution.
Entitled == {"rec_approved", "to_approved", "to_executing", "check", "execute",
             "direct_check", "direct_execute"}

\* A snapshot is only executed by a request that approved it itself, while it
\* was pending: no path reaches the executor with a decision it lost, with a
\* rejected record or with one somebody else approved.
ExecutedWasGranted == \A a \in Approvals : executed[a] \subseteq granted[a]

\* Until the process restarts, racing requests resolve an approval once: one
\* of them approves it, or it is rejected and none does.
ResolvedOnce ==
    crashes = 0 =>
        \A a \in Approvals :
            /\ \A x, y \in granted[a] : x = y
            /\ center[a] \in {"pending", "rejected"} => granted[a] = {}

\* A request knows its run and its approval whenever it uses them.
CallFits(q) ==
    /\ pc[q] \notin Unattached => call[q].run \in Runs
    /\ pc[q] \in AtApproval => call[q].appr \in Approvals
    /\ call[q].entry = "ws" => call[q].appr \in Approvals

CallOK == \A q \in Requests : CallFits(q)

\* Every id that is referred to has been issued.
Ids == {NoApproval} \cup {a \in Approvals : Issued(a)}

RefsIssued ==
    /\ \A r \in Runs : store[r].appr \in Ids
    /\ \A q \in Requests : {st[q].appr, call[q].appr, call[q].new} \subseteq Ids

\* A request on its way to the executor has approved the record in this life.
EntitledWasGranted ==
    \A q \in Requests : pc[q] \in Entitled => Now(q) \in granted[call[q].appr]

\* Until the process restarts no issued record is missing and none is hydrated.
NothingLost ==
    crashes = 0 =>
        /\ \A a \in Approvals : Issued(a) <=> center[a] # "absent"
        /\ \A a \in Approvals : Fresh(a) => granted[a] = {}
        /\ \A q \in Requests : pc[q] \notin {"steps", "put"}

\* Until the process restarts such a request has not executed it yet.
Unspent ==
    crashes = 0 =>
        \A q \in Requests :
            pc[q] \in Entitled => Now(q) \notin executed[call[q].appr]

\* The invariant the proofs work with.
RuntimeInv ==
    /\ TypeOK /\ CallOK /\ RefsIssued /\ EntitledWasGranted /\ NothingLost
    /\ ExecutedWasGranted /\ ResolvedOnce /\ Unspent

\* No approved snapshot is executed twice.
ExecutedAtMostOnce ==
    \A a \in Approvals : \A x, y \in executed[a] : x = y

\* Until the process restarts, a run executes at most MaxSteps tools, however
\* its loop is interrupted by approvals and by requests that race for them.
CallsWithinLimit ==
    crashes = 0 => \A r \in Runs : calls[r] <= MaxSteps

\* The approval of a run is in the step history before its snapshot is
\* executed, whatever store call fails and whenever the process dies.
RecordedBeforeExecuted ==
    \A a \in Approvals, r \in Runs :
        executed[a] # {} /\ owner[a] = {r} =>
            \E s \in steps[r] : s.appr = a /\ s.ast = "approved"

\* What was executed in one life of the process is not approved in a later
\* one: the copy that is hydrated then is the resolved one.
NotRegrantedAfterRestart ==
    \A a \in Approvals :
        \A x \in executed[a], y \in granted[a] : y.life <= x.life

\* No request is at work on run r.
Quiet(r) == \A q \in Requests : call[q].run = r => pc[q] \in {"idle", "done"}

\* A run that is left paused can be resumed: its approval is still to be
\* decided, in the center or in the copy that will be hydrated.
PausedIsResumable ==
    \A r \in Runs, a \in Approvals :
        Paused(r, a) /\ Quiet(r) =>
            \/ center[a] = "pending"
            \/ /\ center[a] = "absent"
               /\ \E s \in steps[r] : s.appr = a
               /\ \A s \in steps[r] : s.appr = a => s.ast = "pending"

\* A status the runtime calls terminal is not overwritten.
TerminalIsFinal ==
    [][\A r \in Runs : store[r].status \in Terminal =>
            store'[r].status = store[r].status]_vars

\* When the requests have been served every run has come to rest: it waits for
\* an approval or it is finished.
RunsSettle ==
    \A r \in Runs : <>[](store[r].status \in Settled \cup {"absent"})

\* The approval gate, as long as the process is not restarted.
Phase == [a \in Approvals |-> IF executed[a] # {} THEN "executed"
                              ELSE IF center[a] = "absent" THEN "none"
                              ELSE center[a]]

Lifecycle == INSTANCE ApprovalLifecycle WITH phase <- Phase

ImplementsLifecycle == Lifecycle!Spec

=============================================================================
