------------------------ MODULE AgentRuntime_proofs -------------------------
(***************************************************************************)
(* What is proved of AgentRuntime and of its approvals for every value of  *)
(* the constants.  First the conjuncts of RuntimeInv that do not speak of  *)
(* who executed what: the types, what a request knows at each stage, the   *)
(* ids that are in use, and that a request on its way to the executor has  *)
(* approved the record.  Then the parts that speak of the approval gate,   *)
(* the theorems, and the refinement of ApprovalLifecycle.  One lemma per   *)
(* conjunct, one step per action.                                          *)
(***************************************************************************)
EXTENDS AgentRuntime, TLAPS

\* The tables lead from one stage to another.
LEMMA StageTables ==
    /\ \A p \in DOMAIN AfterRecord : AfterRecord[p] \in DOMAIN Entered
    /\ \A p \in DOMAIN Entered : Entered[p] \in RunStatus
    /\ \A p \in DOMAIN AfterReply : AfterReply[p] \in {"done", "rec_final", "rec_rejfinal"}
    /\ \A p \in DOMAIN Carried : Carried[p] \in ApprovalStatus
<1>1. \A p \in DOMAIN AfterRecord : AfterRecord[p] \in DOMAIN Entered
  BY DEF AfterRecord, Entered
<1>2. \A p \in DOMAIN Entered : Entered[p] \in RunStatus
  BY DEF Entered, RunStatus, Terminal
<1>3. \A p \in DOMAIN AfterReply : AfterReply[p] \in {"done", "rec_final", "rec_rejfinal"}
  BY DEF AfterReply
<1>4. \A p \in DOMAIN Carried : Carried[p] \in ApprovalStatus
  BY DEF Carried, ApprovalStatus
<1> QED  BY <1>1, <1>2, <1>3, <1>4

\* The stages that follow a transition.
AfterTransition ==
    {"loop", "decide", "propose", "rec_policy", "outcome", "to_pause",
     "reply_pause", "to_completed", "to_failed", "reply_answer", "done",
     "direct", "to_executing", "check", "rec_fail", "clear", "rec_rejsum",
     "reply_reject"}

\* What follows a transition is one of the stages listed above.
LEMMA EnteredTable ==
    ASSUME NEW q, NEW p \in DOMAIN Entered
    PROVE  AfterEntered(q)[p] \in AfterTransition
BY DEF Entered, AfterEntered, AfterTransition, OnError

\* Those are stages a goroutine can stand at.
LEMMA AfterTransitionStages == AfterTransition \subseteq Stages
BY DEF AfterTransition, Stages, AfterRecord, Entered, AfterReply

\* Every stage an action names is one a goroutine can stand at.
LEMMA NamedStages ==
    /\ DOMAIN AfterRecord \subseteq Stages
    /\ DOMAIN Entered \subseteq Stages
    /\ DOMAIN AfterReply \subseteq Stages
    /\ {"idle", "message", "loop", "decide", "propose", "outcome",
        "lookup", "load", "hydrate", "steps", "put", "resolve", "check",
        "execute", "clear", "cancel", "cancel_reject",
        "direct", "direct_check", "direct_execute", "done"} \subseteq Stages
    /\ {"rec_context", "rec_plan", "rec_continue", "rec_propose", "rec_infer",
        "rec_policy", "rec_request", "rec_exec", "rec_summary", "rec_final",
        "rec_fail", "rec_cancel", "rec_approved", "rec_execfail",
        "rec_executed", "rec_rejected", "rec_rejsum", "rec_rejfinal"}
           = DOMAIN AfterRecord
BY DEF Stages, AfterRecord

\* Every step leads to a stage there is.
LEMMA StageStep == pc \in [Requests -> Stages] /\ [Next]_vars => pc' \in [Requests -> Stages]
<1> SUFFICES ASSUME pc \in [Requests -> Stages], [Next]_vars
             PROVE  pc' \in [Requests -> Stages]
  OBVIOUS
<1>0. \A q : OnError(q) \in Stages
  BY NamedStages DEF OnError
<1>1. ASSUME NEW q \in Requests, recordStep(q) PROVE \E p \in Stages : Goto(q, p)
  BY <1>0, <1>1, StageTables, NamedStages DEF recordStep
<1>2. ASSUME NEW q \in Requests, transition(q) PROVE \E p \in Stages : Goto(q, p)
  BY <1>2, EnteredTable, AfterTransitionStages DEF transition
<1>3. ASSUME NEW q \in Requests, persistAssistant(q) PROVE \E p \in Stages : Goto(q, p)
  BY <1>3, StageTables, NamedStages DEF persistAssistant
<1>4. ASSUME NEW q \in Requests,
             ReadMessage(q) \/ PlanStep(q) \/ FollowPlan(q) \/ ProposeTool(q) \/ TakeOutcome(q)
      PROVE  \E p \in Stages : Goto(q, p)
  BY <1>4, NamedStages DEF ReadMessage, PlanStep, FollowPlan, ProposeTool, TakeOutcome, Local
<1>5. ASSUME NEW q \in Requests,
             ResumeApproval(q) \/ LoadPaused(q) \/ GetApproval(q) \/ ReadSteps(q) \/ PutCopy(q)
      PROVE  \E p \in Stages : Goto(q, p)
  BY <1>0, <1>5, NamedStages DEF ResumeApproval, LoadPaused, GetApproval, ReadSteps, PutCopy, Local
<1>6. ASSUME NEW q \in Requests,
             ResolveRun(q) \/ ExecuteApproved(q) \/ RunSnapshot(q) \/ ClearApproval(q)
      PROVE  \E p \in Stages : Goto(q, p)
  BY <1>0, <1>6, NamedStages DEF ResolveRun, ExecuteApproved, RunSnapshot, ClearApproval, Local
<1>7. ASSUME NEW q \in Requests,
             \/ LoadForCancel(q) \/ RejectCancelled(q)
             \/ DirectResolve(q) \/ DirectExecuteApproved(q) \/ DirectRun(q)
      PROVE  \E p \in Stages : Goto(q, p)
  BY <1>7, NamedStages DEF LoadForCancel, RejectCancelled, DirectResolve, DirectExecuteApproved, DirectRun, Local
<1>8. ASSUME NEW q \in Requests, Request(q) PROVE \E p \in Stages : Goto(q, p)
  BY <1>8, NamedStages DEF Request, StartRun, CancelHandler, PendingHandler, ToolHandler,
     ApprovalHandler, SocketHandler, ResumeHandler, Arrive
<1>9. ASSUME NEW q \in Requests, \E p \in Stages : Goto(q, p) PROVE pc' \in [Requests -> Stages]
  BY <1>9 DEF Goto
<1>10. ASSUME Crash PROVE pc' \in [Requests -> Stages]
  BY <1>10, NamedStages DEF Crash
<1>11. ASSUME UNCHANGED vars PROVE pc' \in [Requests -> Stages]
  BY <1>11 DEF vars, runVars
<1> QED
  BY <1>1, <1>2, <1>3, <1>4, <1>5, <1>6, <1>7, <1>8, <1>9, <1>10, <1>11 DEF Next, Continue

-----------------------------------------------------------------------------

\* Updating a function at a point keeps its type, wherever the point is.
LEMMA Update ==
    ASSUME NEW S, NEW T, NEW f \in [S -> T], NEW x, NEW y \in T
    PROVE  [f EXCEPT ![x] = y] \in [S -> T]
OBVIOUS

\* The updates the actions make to a run state keep it one.
LEMMA StateUpdate ==
    ASSUME NEW s \in RunState
    PROVE  /\ [s EXCEPT !.idx = @ + 1] \in RunState
           /\ [s EXCEPT !.count = @ + 1] \in RunState
           /\ \A x \in RunStatus : [s EXCEPT !.status = x] \in RunState
           /\ \A a \in Approvals \cup {NoApproval} : [s EXCEPT !.appr = a] \in RunState
BY DEF RunState

\* So do the updates they make to a request's parameters.
LEMMA CallUpdate ==
    ASSUME NEW c \in Call
    PROVE  /\ \A r \in Runs : [c EXCEPT !.run = r] \in Call
           /\ \A x \in {"ok", "error"} : [c EXCEPT !.outcome = x] \in Call
           /\ \A a \in Approvals : [c EXCEPT !.new = a, !.outcome = "approval"] \in Call
BY DEF Call

\* Every step keeps the types of the data.
LEMMA TypeStep == TypeOK /\ CallOK /\ [Next]_vars => TypeOK'
<1> SUFFICES ASSUME TypeOK, CallOK, [Next]_vars PROVE TypeOK'
  OBVIOUS
<1>0. pc' \in [Requests -> Stages]
  BY StageStep DEF TypeOK
<1> DEFINE DataOK ==
      /\ CenterTypeOK
      /\ store \in [Runs -> RunState]
      /\ steps \in [Runs -> SUBSET Step]
      /\ call \in [Requests -> Call]
      /\ st \in [Requests -> RunState]
      /\ copy \in [Requests -> ApprovalStatus]
      /\ crashes \in 0..MaxCrashes
      /\ faults \in 0..MaxFaults
      /\ granted \in [Approvals -> SUBSET Deed]
      /\ executed \in [Approvals -> SUBSET Deed]
      /\ calls \in [Runs -> Nat]
<1> SUFFICES DataOK'
  BY <1>0 DEF TypeOK
<1>b. DataOK
  BY DEF TypeOK
<1>s. store \in [Runs -> RunState] /\ st \in [Requests -> RunState]
  BY <1>b
<1>1. ASSUME NEW q \in Requests, recordStep(q) PROVE DataOK'
  <2> DEFINE s == [st[q] EXCEPT !.idx = @ + 1]
             new == IF pc[q] \in DOMAIN Carried
                    THEN {[idx |-> s.idx, ast |-> Carried[pc[q]],
                           appr |-> IF pc[q] = "rec_request" THEN call[q].new
                                                             ELSE call[q].appr]}
                    ELSE {}
  <2>1. s \in RunState
    BY <1>b, StateUpdate
  <2>2. new \subseteq Step
    <3>1. call[q].new \in Approvals \cup {NoApproval} /\ call[q].appr \in Approvals \cup {NoApproval}
      BY <1>b DEF Call
    <3>2. s.idx \in Nat
      BY <2>1 DEF RunState
    <3> QED  BY <3>1, <3>2, StageTables DEF Step
  <2>3. /\ st' = [st EXCEPT ![q] = s]
        /\ store' = [store EXCEPT ![call[q].run] = s] \/ UNCHANGED store
        /\ \E w \in {{}, new} : steps' = [steps EXCEPT ![call[q].run] = @ \cup w]
        /\ UNCHANGED faults \/ Fault
        /\ UNCHANGED <<centerVars, call, copy, crashes, granted, executed, calls>>
    BY <1>1 DEF recordStep, Save
  <2> HIDE DEF s, new
  <2>4. store' \in [Runs -> RunState] /\ st' \in [Requests -> RunState]
    <3>1. st' \in [Requests -> RunState]
      BY <1>s, <2>1, <2>3
    <3>2. [store EXCEPT ![call[q].run] = s] \in [Runs -> RunState]
      BY <1>s, <2>1
    <3> QED  BY <1>s, <2>3, <3>1, <3>2
  <2>5. steps' \in [Runs -> SUBSET Step]
    <3> DEFINE r == call[q].run
    <3>1. PICK w \in {{}, new} : steps' = [steps EXCEPT ![r] = @ \cup w]
      BY <2>3
    <3> HIDE DEF r
    <3>2. CASE r \in Runs
      BY <1>b, <2>2, <3>1, <3>2
    <3>3. CASE r \notin Runs
      BY <1>b, <3>1, <3>3
    <3> QED  BY <3>2, <3>3
  <2>6. faults' \in 0..MaxFaults
    BY <1>b, <2>3, RuntimeAssumption DEF Fault
  <2> QED  BY <1>b, <2>3, <2>4, <2>5, <2>6 DEF centerVars, CenterTypeOK
<1>2. ASSUME NEW q \in Requests, transition(q) PROVE DataOK'
  <2> DEFINE s == [st[q] EXCEPT !.status = Entered[pc[q]]]
  <2>1. s \in RunState
    BY <1>b, <1>2, StageTables, StateUpdate DEF transition
  <2>2. /\ st' = [st EXCEPT ![q] = s]
        /\ store' = [store EXCEPT ![call[q].run] = s] \/ UNCHANGED store
        /\ UNCHANGED faults \/ Fault
        /\ UNCHANGED <<centerVars, steps, call, copy, crashes, granted, executed, calls>>
    BY <1>2 DEF transition, Save
  <2> HIDE DEF s
  <2>3. store' \in [Runs -> RunState] /\ st' \in [Requests -> RunState]
    <3>1. st' \in [Requests -> RunState]
      BY <1>s, <2>1, <2>2
    <3>2. [store EXCEPT ![call[q].run] = s] \in [Runs -> RunState]
      BY <1>s, <2>1
    <3> QED  BY <1>s, <2>2, <3>1, <3>2
  <2>4. faults' \in 0..MaxFaults
    BY <1>b, <2>2, RuntimeAssumption DEF Fault
  <2> QED  BY <1>b, <2>2, <2>3, <2>4 DEF centerVars, CenterTypeOK
<1>3. ASSUME NEW q \in Requests, persistAssistant(q) \/ ReadMessage(q) \/ FollowPlan(q)
      PROVE DataOK'
  BY <1>b, <1>3, RuntimeAssumption
     DEF persistAssistant, ReadMessage, FollowPlan, Local, Fault, centerVars, CenterTypeOK
<1>4. ASSUME NEW q \in Requests, PlanStep(q) PROVE DataOK'
  <2>1. UNCHANGED st \/ st' = [st EXCEPT ![q] = [st[q] EXCEPT !.count = @ + 1]]
    BY <1>4 DEF PlanStep
  <2>2. st' \in [Requests -> RunState]
    <3> DEFINE s == [st[q] EXCEPT !.count = @ + 1]
    <3>1. s \in RunState
      BY <1>b, StateUpdate
    <3> HIDE DEF s
    <3> QED  BY <1>b, <2>1, <3>1, Update DEF s
  <2> QED  BY <1>b, <1>4, <2>2 DEF PlanStep, centerVars, CenterTypeOK
<1>5. ASSUME NEW q \in Requests, ProposeTool(q) PROVE DataOK'
  <2>1. calls' \in [Runs -> Nat]
    <3> DEFINE r == call[q].run
    <3>1. \E n \in {0, 1} : calls' = [calls EXCEPT ![r] = @ + n] \/ UNCHANGED calls
      BY <1>5 DEF ProposeTool
    <3> HIDE DEF r
    <3> QED  BY <1>b, <3>1
  <2>2. call' \in [Requests -> Call]
    <3>1. CASE UNCHANGED call
      BY <1>b, <3>1
    <3>2. ASSUME NEW x \in {"ok", "error"}, call' = [call EXCEPT ![q].outcome = x]
          PROVE  call' \in [Requests -> Call]
      <4> DEFINE c == [call[q] EXCEPT !.outcome = x]
      <4>1. c \in Call
        BY <1>b, CallUpdate
      <4>2. call' = [call EXCEPT ![q] = c]
        BY <3>2
      <4> HIDE DEF c
      <4> QED  BY <1>b, <4>1, <4>2
    <3>3. ASSUME NEW a \in Approvals,
                 call' = [call EXCEPT ![q].new = a, ![q].outcome = "approval"]
          PROVE  call' \in [Requests -> Call]
      <4> DEFINE c == [call[q] EXCEPT !.new = a, !.outcome = "approval"]
      <4>1. c \in Call
        BY <1>b, CallUpdate
      <4>2. call' = [call EXCEPT ![q] = c]
        BY <1>b, <3>3
      <4> HIDE DEF c
      <4> QED  BY <1>b, <4>1, <4>2
    <3> QED  BY <1>5, <3>1, <3>2, <3>3 DEF ProposeTool
  <2>3. CenterTypeOK'
    <3> DEFINE r == call[q].run
    <3>1. r \in Runs \cup {NoRun}
      BY <1>b DEF Call
    <3>2. UNCHANGED centerVars \/ \E a \in Approvals : Create(a, r)
      BY <1>5 DEF ProposeTool
    <3> HIDE DEF r
    <3> QED  BY <1>b, <3>1, <3>2 DEF Create, ApprovalStatus, centerVars, CenterTypeOK
  <2> QED  BY <1>b, <1>5, <2>1, <2>2, <2>3 DEF ProposeTool
<1>6. ASSUME NEW q \in Requests, TakeOutcome(q) PROVE DataOK'
  <2>1. call[q].new \in Approvals \cup {NoApproval}
    BY <1>b DEF Call
  <2>2. UNCHANGED st \/ st' = [st EXCEPT ![q] = [st[q] EXCEPT !.appr = call[q].new]]
    BY <1>6 DEF TakeOutcome
  <2>3. st' \in [Requests -> RunState]
    <3> DEFINE s == [st[q] EXCEPT !.appr = call[q].new]
    <3>1. s \in RunState
      BY <1>b, <2>1, StateUpdate
    <3> HIDE DEF s
    <3> QED  BY <1>b, <2>2, <3>1, Update DEF s
  <2> QED  BY <1>b, <1>6, <2>3 DEF TakeOutcome, centerVars, CenterTypeOK
<1>7. ASSUME NEW q \in Requests, ResumeApproval(q) PROVE DataOK'
  <2>1. call[q].appr \in Approvals
    BY <1>7 DEF ResumeApproval, CallOK, CallFits, AtApproval
  <2>2. owner[call[q].appr] \subseteq Runs \cup {NoRun}
    BY <1>b, <2>1 DEF CenterTypeOK
  <2>3. call' \in [Requests -> Call]
    <3> DEFINE a == call[q].appr
               named == center[a] # "absent" /\ owner[a] # {NoRun}
               waiting == {r \in Runs : Paused(r, a)}
    <3>1. CASE UNCHANGED call
      BY <1>b, <3>1
    <3>2. ASSUME NEW r \in Runs, call' = [call EXCEPT ![q].run = r]
          PROVE  call' \in [Requests -> Call]
      <4> DEFINE c == [call[q] EXCEPT !.run = r]
      <4>1. c \in Call
        BY <1>b, CallUpdate
      <4>2. call' = [call EXCEPT ![q] = c]
        BY <3>2
      <4> HIDE DEF c
      <4> QED  BY <1>b, <4>1, <4>2
    <3>3. named => owner[a] \subseteq Runs
      BY <1>b, <2>1 DEF CenterTypeOK
    <3>4. UNCHANGED call \/ \E r \in Runs : call' = [call EXCEPT ![q].run = r]
      <4>1. CASE named
        BY <1>7, <3>3, <4>1 DEF ResumeApproval
      <4>2. CASE ~named
        BY <1>7, <4>2 DEF ResumeApproval
      <4> QED  BY <4>1, <4>2
    <3> QED  BY <3>1, <3>2, <3>4
  <2> QED  BY <1>b, <1>7, <2>3 DEF ResumeApproval, centerVars, CenterTypeOK
<1>8. ASSUME NEW q \in Requests, LoadPaused(q) \/ LoadForCancel(q) PROVE DataOK'
  <2>1. call[q].run \in Runs
    BY <1>8 DEF LoadPaused, LoadForCancel, CallOK, CallFits, Unattached
  <2>2. store[call[q].run] \in RunState
    BY <1>b, <2>1
  <2>3. UNCHANGED st \/ st' = [st EXCEPT ![q] = store[call[q].run]]
    BY <1>8 DEF LoadPaused, LoadForCancel
  <2>4. faults' \in 0..MaxFaults
    BY <1>b, <1>8, RuntimeAssumption DEF LoadPaused, LoadForCancel, Fault
  <2>5. UNCHANGED <<centerVars, store, steps, call, copy, crashes, granted, executed, calls>>
    BY <1>8 DEF LoadPaused, LoadForCancel
  <2> QED  BY <1>b, <2>2, <2>3, <2>4, <2>5 DEF centerVars, CenterTypeOK
<1>9. ASSUME NEW q \in Requests, GetApproval(q) \/ ExecuteApproved(q) \/ DirectExecuteApproved(q)
      PROVE DataOK'
  BY <1>b, <1>9 DEF GetApproval, ExecuteApproved, DirectExecuteApproved, Local, centerVars, CenterTypeOK
<1>10. ASSUME NEW q \in Requests, ReadSteps(q) PROVE DataOK'
  <2>1. call[q].run \in Runs
    BY <1>10 DEF ReadSteps, CallOK, CallFits, Unattached
  <2>2. \A s \in steps[call[q].run] : s.ast \in ApprovalStatus
    BY <1>b, <2>1 DEF Step
  <2>3. copy' \in [Requests -> ApprovalStatus]
    BY <1>b, <1>10, <2>2 DEF ReadSteps
  <2> QED  BY <1>b, <1>10, <2>3 DEF ReadSteps, centerVars, CenterTypeOK
<1>11. ASSUME NEW q \in Requests, PutCopy(q) PROVE DataOK'
  BY <1>b, <1>11 DEF PutCopy, Hydrate, CenterTypeOK
<1>12. ASSUME NEW q \in Requests, ResolveRun(q) \/ DirectResolve(q) PROVE DataOK'
  <2>1. Now(q) \in Deed
    BY <1>b, RuntimeAssumption DEF Now, Deed
  <2>2. granted' \in [Approvals -> SUBSET Deed]
    BY <1>b, <1>12, <2>1 DEF ResolveRun, DirectResolve
  <2>3. CenterTypeOK'
    BY <1>b, <1>12 DEF ResolveRun, DirectResolve, resolve, ApprovalStatus, centerVars, CenterTypeOK
  <2> QED  BY <1>b, <1>12, <2>2, <2>3 DEF ResolveRun, DirectResolve
<1>13. ASSUME NEW q \in Requests, RunSnapshot(q) \/ DirectRun(q) PROVE DataOK'
  <2>1. Now(q) \in Deed
    BY <1>b, RuntimeAssumption DEF Now, Deed
  <2>2. executed' \in [Approvals -> SUBSET Deed] /\ calls' \in [Runs -> Nat]
    BY <1>b, <1>13, <2>1 DEF RunSnapshot, DirectRun
  <2> QED  BY <1>b, <1>13, <2>2 DEF RunSnapshot, DirectRun, centerVars, CenterTypeOK
<1>14. ASSUME NEW q \in Requests, ClearApproval(q) PROVE DataOK'
  <2> DEFINE s == [st[q] EXCEPT !.appr = NoApproval]
  <2>1. s \in RunState
    BY <1>b, StateUpdate
  <2>2. /\ st' = [st EXCEPT ![q] = s]
        /\ store' = [store EXCEPT ![call[q].run] = s] \/ UNCHANGED store
        /\ UNCHANGED faults \/ Fault
        /\ UNCHANGED <<centerVars, steps, call, copy, crashes, granted, executed, calls>>
    BY <1>14 DEF ClearApproval, Save
  <2> HIDE DEF s
  <2>3. store' \in [Runs -> RunState] /\ st' \in [Requests -> RunState]
    <3>1. st' \in [Requests -> RunState]
      BY <1>s, <2>1, <2>2
    <3>2. [store EXCEPT ![call[q].run] = s] \in [Runs -> RunState]
      BY <1>s, <2>1
    <3> QED  BY <1>s, <2>2, <3>1, <3>2
  <2>4. faults' \in 0..MaxFaults
    BY <1>b, <2>2, RuntimeAssumption DEF Fault
  <2> QED  BY <1>b, <2>2, <2>3, <2>4 DEF centerVars, CenterTypeOK
<1>15. ASSUME NEW q \in Requests, RejectCancelled(q) PROVE DataOK'
  BY <1>b, <1>15 DEF RejectCancelled, resolve, ApprovalStatus, centerVars, CenterTypeOK
<1>16. ASSUME NEW q \in Requests, Request(q) PROVE DataOK'
  <2>1. ASSUME NEW r \in Runs, StartRun(q, r) PROVE DataOK'
    <3>1. [NoState EXCEPT !.status = "received_user_message"] \in RunState
      BY DEF NoState, RunState, RunStatus
    <3>2. [NoCall EXCEPT !.entry = "run", !.run = r] \in Call
      BY DEF NoCall, Call, AllEntries
    <3> QED  BY <1>b, <2>1, <3>1, <3>2 DEF StartRun, Arrive, centerVars, CenterTypeOK
  <2>2. ASSUME NEW r \in Runs, CancelHandler(q, r) PROVE DataOK'
    <3>1. [NoCall EXCEPT !.entry = "cancel", !.run = r] \in Call
      BY DEF NoCall, Call, AllEntries
    <3> QED  BY <1>b, <2>2, <3>1 DEF CancelHandler, Arrive, centerVars, CenterTypeOK
  <2>3. ASSUME NEW r \in Runs, PendingHandler(q, r) PROVE DataOK'
    <3>1. store[r].appr \in Approvals
      BY <2>3 DEF PendingHandler, Paused
    <3>2. [NoCall EXCEPT !.entry = "pending", !.run = r, !.appr = store[r].appr] \in Call
      BY <3>1 DEF NoCall, Call, AllEntries
    <3> QED  BY <1>b, <2>3, <3>2 DEF PendingHandler, Arrive, centerVars, CenterTypeOK
  <2>4. ASSUME NEW a \in Approvals, ToolHandler(q, a) PROVE DataOK'
    BY <1>b, <2>4 DEF ToolHandler, Create, ApprovalStatus, CenterTypeOK
  <2>5. ASSUME NEW a \in Approvals, NEW ok \in BOOLEAN,
               ApprovalHandler(q, a, ok) \/ SocketHandler(q, a, ok) PROVE DataOK'
    <3>1. \A e \in {"http", "ws"} :
             [NoCall EXCEPT !.entry = e, !.appr = a, !.approved = ok] \in Call
      BY DEF NoCall, Call, AllEntries
    <3> QED  BY <1>b, <2>5, <3>1 DEF ApprovalHandler, SocketHandler, Arrive, centerVars, CenterTypeOK
  <2>6. ASSUME NEW a \in Approvals, NEW ok \in BOOLEAN, NEW r \in Runs,
               ResumeHandler(q, r, a, ok) PROVE DataOK'
    <3>1. [NoCall EXCEPT !.entry = "resume", !.run = r, !.appr = a, !.approved = ok] \in Call
      BY DEF NoCall, Call, AllEntries
    <3> QED  BY <1>b, <2>6, <3>1 DEF ResumeHandler, Arrive, centerVars, CenterTypeOK
  <2> QED  BY <1>16, <2>1, <2>2, <2>3, <2>4, <2>5, <2>6 DEF Request
<1>17. ASSUME Crash PROVE DataOK'
  BY <1>b, <1>17, RuntimeAssumption DEF Crash, CenterCrash, CenterTypeOK
<1>18. ASSUME UNCHANGED vars PROVE DataOK'
  BY <1>b, <1>18 DEF vars, runVars, centerVars, CenterTypeOK
<1> HIDE DEF DataOK
<1> QED
  BY <1>1, <1>2, <1>3, <1>4, <1>5, <1>6, <1>7, <1>8, <1>9, <1>10, <1>11, <1>12,
     <1>13, <1>14, <1>15, <1>16, <1>17, <1>18 DEF Next, Continue

-----------------------------------------------------------------------------

\* How the tables connect the stages the invariants speak of.
LEMMA StageFlow ==
    /\ \A p \in DOMAIN AfterRecord :
          /\ p \notin Unattached
          /\ AfterRecord[p] \notin Unattached
          /\ AfterRecord[p] \notin {"steps", "put"}
          /\ AfterRecord[p] \in AtApproval => p \in AtApproval
          /\ AfterRecord[p] \in Entitled => p \in Entitled
    /\ \A q : \A p \in DOMAIN Entered :
          /\ p \notin Unattached
          /\ AfterEntered(q)[p] \notin {"steps", "put"}
          /\ AfterEntered(q)[p] \in Unattached => AfterEntered(q)[p] \in {"done", OnError(q)}
          /\ AfterEntered(q)[p] \in AtApproval => p \in AtApproval \/ AfterEntered(q)[p] = OnError(q)
          /\ AfterEntered(q)[p] \in Entitled => p \in Entitled
<1>1. \A p \in DOMAIN AfterRecord :
          /\ p \notin Unattached
          /\ AfterRecord[p] \notin Unattached
          /\ AfterRecord[p] \notin {"steps", "put"}
          /\ AfterRecord[p] \in AtApproval => p \in AtApproval
          /\ AfterRecord[p] \in Entitled => p \in Entitled
  BY DEF AfterRecord, Unattached, AtApproval, Entitled
<1>2. ASSUME NEW q, NEW p \in DOMAIN Entered
      PROVE
          /\ p \notin Unattached
          /\ AfterEntered(q)[p] \notin {"steps", "put"}
          /\ AfterEntered(q)[p] \in Unattached => AfterEntered(q)[p] \in {"done", OnError(q)}
          /\ AfterEntered(q)[p] \in AtApproval => p \in AtApproval \/ AfterEntered(q)[p] = OnError(q)
          /\ AfterEntered(q)[p] \in Entitled => p \in Entitled
  BY DEF Entered, AfterEntered, OnError, Unattached, AtApproval, Entitled
<1> QED  BY <1>1, <1>2

\* A request knows its run and its approval whenever it uses them.
LEMMA CallStep == TypeOK /\ CallOK /\ [Next]_vars => CallOK'
<1> SUFFICES ASSUME TypeOK, CallOK, [Next]_vars PROVE CallOK'
  OBVIOUS
<1>a. pc \in [Requests -> Stages] /\ call \in [Requests -> Call]
  BY DEF TypeOK
<1>b. ASSUME NEW q \in Requests, NEW p, Goto(q, p), UNCHANGED call,
             p \notin Unattached => call[q].run \in Runs,
             p \in AtApproval => call[q].appr \in Approvals
      PROVE  CallOK'
  BY <1>a, <1>b DEF CallOK, CallFits, Goto
<1>c. ASSUME NEW q \in Requests, CallFits(q) PROVE OnError(q) \in AtApproval => call[q].appr \in Approvals
  BY <1>c DEF CallFits, OnError, AtApproval
<1>d. \A q : OnError(q) \in Unattached
  BY DEF OnError, Unattached
<1>1. ASSUME NEW q \in Requests, recordStep(q) PROVE CallOK'
  <2>1. PICK p : Goto(q, p) /\ p \in {AfterRecord[pc[q]], OnError(q), "rec_fail"}
    BY <1>1 DEF recordStep
  <2>2. CallFits(q) /\ pc[q] \in DOMAIN AfterRecord /\ UNCHANGED call
    BY <1>1 DEF recordStep, CallOK
  <2>3. p \notin Unattached => call[q].run \in Runs
    BY <2>1, <2>2, StageFlow DEF CallFits
  <2>4. p \in AtApproval => call[q].appr \in Approvals
    BY <2>1, <2>2, <1>c, StageFlow DEF CallFits, AtApproval
  <2> QED  BY <1>b, <2>1, <2>2, <2>3, <2>4
<1>2. ASSUME NEW q \in Requests, transition(q) PROVE CallOK'
  <2>1. Goto(q, AfterEntered(q)[pc[q]]) /\ UNCHANGED call /\ pc[q] \in DOMAIN Entered /\ CallFits(q)
    BY <1>2 DEF transition, CallOK
  <2>2. AfterEntered(q)[pc[q]] \notin Unattached => call[q].run \in Runs
    BY <2>1, StageFlow DEF CallFits
  <2>3. AfterEntered(q)[pc[q]] \in AtApproval => call[q].appr \in Approvals
    BY <2>1, <1>c, StageFlow DEF CallFits
  <2> QED  BY <1>b, <2>1, <2>2, <2>3
<1>3. ASSUME NEW q \in Requests, persistAssistant(q) PROVE CallOK'
  <2>1. PICK p \in {"done", "rec_final", "rec_rejfinal", "rec_fail"} : Goto(q, p)
    BY <1>3, StageTables DEF persistAssistant
  <2>2. pc[q] \in DOMAIN AfterReply /\ UNCHANGED call /\ CallFits(q)
    BY <1>3 DEF persistAssistant, CallOK
  <2>3. pc[q] \notin Unattached
    BY <2>2 DEF AfterReply, Unattached
  <2> QED  BY <1>b, <2>1, <2>2, <2>3 DEF CallFits, AtApproval
<1>4. ASSUME NEW q \in Requests,
             ReadMessage(q) \/ PlanStep(q) \/ FollowPlan(q) \/ TakeOutcome(q)
      PROVE  CallOK'
  <2>1. PICK p \in {"rec_context", "rec_fail", "done", "rec_plan", "rec_continue", "rec_summary",
                    "rec_propose", "rec_request", "rec_exec"} : Goto(q, p)
    BY <1>4 DEF ReadMessage, PlanStep, FollowPlan, TakeOutcome, Local
  <2>2. UNCHANGED call /\ CallFits(q) /\ pc[q] \notin Unattached
    BY <1>4 DEF ReadMessage, PlanStep, FollowPlan, TakeOutcome, Local, CallOK, Unattached
  <2> QED  BY <1>b, <2>1, <2>2 DEF CallFits, AtApproval
<1>5. ASSUME NEW q \in Requests, ProposeTool(q) PROVE CallOK'
  <2>1. PICK p \in {"rec_fail", "rec_infer"} : Goto(q, p)
    BY <1>5 DEF ProposeTool
  <2>2. call[q].run \in Runs
    BY <1>5 DEF ProposeTool, CallOK, CallFits, Unattached
  <2> DEFINE Kept == /\ call'[q].run = call[q].run /\ call'[q].appr = call[q].appr
                     /\ call'[q].entry = call[q].entry
                     /\ \A r \in Requests \ {q} : call'[r] = call[r]
  <2>3. Kept
    <3>0. call[q] \in Call
      BY <1>a
    <3>1. \/ \E a \in Approvals : call' = [call EXCEPT ![q].new = a, ![q].outcome = "approval"]
          \/ \E out \in {"ok", "error"} : call' = [call EXCEPT ![q].outcome = out]
          \/ call' = call
      BY <1>5 DEF ProposeTool
    <3>2. ASSUME NEW a, call' = [call EXCEPT ![q].new = a, ![q].outcome = "approval"] PROVE Kept
      BY <1>a, <3>0, <3>2 DEF Call
    <3>3. ASSUME NEW out, call' = [call EXCEPT ![q].outcome = out] PROVE Kept
      BY <1>a, <3>0, <3>3 DEF Call
    <3> QED  BY <3>1, <3>2, <3>3
  <2> QED  BY <1>a, <2>1, <2>2, <2>3 DEF CallOK, CallFits, Goto, AtApproval
<1>6. ASSUME NEW q \in Requests, ResumeApproval(q) PROVE CallOK'
  <2> DEFINE a == call[q].appr
             named == center[a] # "absent" /\ owner[a] # {NoRun}
  <2>1. a \in Approvals
    BY <1>6 DEF ResumeApproval, CallOK, CallFits, AtApproval
  <2>2. named => owner[a] \subseteq Runs
    BY <2>1 DEF TypeOK, CenterTypeOK
  <2>3. \/ UNCHANGED call /\ Goto(q, OnError(q))
        \/ \E r \in Runs : call' = [call EXCEPT ![q].run = r] /\ Goto(q, "load")
    <3>1. CASE named
      BY <1>6, <2>2, <3>1 DEF ResumeApproval
    <3>2. CASE ~named
      BY <1>6, <3>2 DEF ResumeApproval
    <3> QED  BY <3>1, <3>2
  <2>4. CASE UNCHANGED call /\ Goto(q, OnError(q))
    BY <1>b, <1>d, <2>1, <2>4
  <2>5. ASSUME NEW r \in Runs, call' = [call EXCEPT ![q].run = r], Goto(q, "load")
        PROVE  CallOK'
    <3>1. call'[q].run = r /\ call'[q].appr = a /\ \A x \in Requests \ {q} : call'[x] = call[x]
      BY <1>a, <2>5 DEF Call
    <3> QED  BY <1>a, <2>1, <2>5, <3>1 DEF CallOK, CallFits, Goto
  <2> QED  BY <2>3, <2>4, <2>5
<1>7. ASSUME NEW q \in Requests,
             \/ LoadPaused(q) \/ GetApproval(q) \/ ReadSteps(q) \/ PutCopy(q)
             \/ ResolveRun(q) \/ ExecuteApproved(q) \/ RunSnapshot(q)
      PROVE  CallOK'
  <2>1. PICK p : Goto(q, p)
    BY <1>7 DEF LoadPaused, GetApproval, ReadSteps, PutCopy, ResolveRun, ExecuteApproved, RunSnapshot, Local
  <2>2. UNCHANGED call
    BY <1>7 DEF LoadPaused, GetApproval, ReadSteps, PutCopy, ResolveRun, ExecuteApproved, RunSnapshot, Local
  <2>3. CallFits(q) /\ pc[q] \notin Unattached /\ pc[q] \in AtApproval
    BY <1>7 DEF LoadPaused, GetApproval, ReadSteps, PutCopy, ResolveRun, ExecuteApproved, RunSnapshot,
                CallOK, Unattached, AtApproval
  <2> QED  BY <1>b, <2>1, <2>2, <2>3 DEF CallFits
<1>8. ASSUME NEW q \in Requests, ClearApproval(q) PROVE CallOK'
  <2>1. CallFits(q) /\ pc[q] \notin Unattached /\ UNCHANGED call
    BY <1>8 DEF ClearApproval, CallOK, Unattached
  <2>2. PICK p \in {"loop", OnError(q)} : Goto(q, p)
    BY <1>8 DEF ClearApproval
  <2> QED  BY <1>b, <1>c, <2>1, <2>2 DEF CallFits, AtApproval
<1>9. ASSUME NEW q \in Requests, LoadForCancel(q) \/ RejectCancelled(q) PROVE CallOK'
  <2>1. CallFits(q) /\ pc[q] \notin Unattached /\ UNCHANGED call
    BY <1>9 DEF LoadForCancel, RejectCancelled, CallOK, Unattached
  <2>2. PICK p \in {"done", "rec_cancel", "cancel_reject"} : Goto(q, p)
    BY <1>9 DEF LoadForCancel, RejectCancelled
  <2> QED  BY <1>b, <2>1, <2>2 DEF CallFits, AtApproval
<1>10. ASSUME NEW q \in Requests, DirectResolve(q) \/ DirectExecuteApproved(q) \/ DirectRun(q)
       PROVE  CallOK'
  <2>1. CallFits(q) /\ pc[q] \in AtApproval /\ UNCHANGED call
    BY <1>10 DEF DirectResolve, DirectExecuteApproved, DirectRun, Local, CallOK, AtApproval
  <2>2. PICK p \in {"done", "direct_check", "direct_execute"} : Goto(q, p)
    BY <1>10 DEF DirectResolve, DirectExecuteApproved, DirectRun, Local
  <2> QED  BY <1>b, <2>1, <2>2 DEF CallFits, Unattached
<1>11. ASSUME NEW q \in Requests, Request(q) PROVE CallOK'
  <2>1. ASSUME NEW c \in Call, NEW stage, Arrive(q, c, stage),
               stage \notin Unattached => c.run \in Runs,
               stage \in AtApproval \/ c.entry = "ws" => c.appr \in Approvals
        PROVE  CallOK'
    BY <1>a, <2>1 DEF Arrive, Goto, CallOK, CallFits
  <2>2. ASSUME NEW r \in Runs, StartRun(q, r) PROVE CallOK'
    <3>1. [NoCall EXCEPT !.entry = "run", !.run = r] \in Call
      BY DEF NoCall, Call, AllEntries
    <3> QED  BY <2>1, <2>2, <3>1 DEF StartRun, NoCall, AtApproval
  <2>3. ASSUME NEW r \in Runs, CancelHandler(q, r) PROVE CallOK'
    <3>1. [NoCall EXCEPT !.entry = "cancel", !.run = r] \in Call
      BY DEF NoCall, Call, AllEntries
    <3> QED  BY <2>1, <2>3, <3>1 DEF CancelHandler, NoCall, AtApproval
  <2>4. ASSUME NEW r \in Runs, PendingHandler(q, r) PROVE CallOK'
    <3>1. store[r].appr \in Approvals
      BY <2>4 DEF PendingHandler, Paused
    <3>2. [NoCall EXCEPT !.entry = "pending", !.run = r, !.appr = store[r].appr] \in Call
      BY <3>1 DEF NoCall, Call, AllEntries
    <3> QED  BY <2>1, <2>4, <3>1, <3>2 DEF PendingHandler, NoCall
  <2>5. ASSUME NEW a \in Approvals, ToolHandler(q, a) PROVE CallOK'
    BY <1>b, <2>5 DEF ToolHandler, Unattached, AtApproval
  <2>6. ASSUME NEW a \in Approvals, NEW ok \in BOOLEAN,
               ApprovalHandler(q, a, ok) \/ SocketHandler(q, a, ok) PROVE CallOK'
    <3>1. \A e \in {"http", "ws"} :
             [NoCall EXCEPT !.entry = e, !.appr = a, !.approved = ok] \in Call
      BY DEF NoCall, Call, AllEntries
    <3>2. \E e \in {"http", "ws"}, stage \in {"direct", "lookup"} :
             Arrive(q, [NoCall EXCEPT !.entry = e, !.appr = a, !.approved = ok], stage)
      BY <2>6 DEF ApprovalHandler, SocketHandler
    <3> QED  BY <2>1, <3>1, <3>2 DEF NoCall, Unattached
  <2>7. ASSUME NEW a \in Approvals, NEW ok \in BOOLEAN, NEW r \in Runs,
               ResumeHandler(q, r, a, ok) PROVE CallOK'
    <3>1. [NoCall EXCEPT !.entry = "resume", !.run = r, !.appr = a, !.approved = ok] \in Call
      BY DEF NoCall, Call, AllEntries
    <3> QED  BY <2>1, <2>7, <3>1 DEF ResumeHandler, NoCall
  <2> QED  BY <1>11, <2>2, <2>3, <2>4, <2>5, <2>6, <2>7 DEF Request
<1>12. ASSUME Crash PROVE CallOK'
  BY <1>a, <1>12 DEF Crash, CallOK, CallFits, Unattached, AtApproval
<1>13. ASSUME UNCHANGED vars PROVE CallOK'
  BY <1>13 DEF vars, runVars, CallOK, CallFits
<1> QED
  BY <1>1, <1>2, <1>3, <1>4, <1>5, <1>6, <1>7, <1>8, <1>9, <1>10, <1>11, <1>12, <1>13
     DEF Next, Continue

-----------------------------------------------------------------------------

\* The approval gate: what resolving and executing approvals may change.
Gate == <<centerVars, crashes, granted, executed>>

\* The steps that neither resolve nor execute leave the gate alone.
LEMMA QuietSteps ==
    ASSUME NEW q \in Requests,
           \/ recordStep(q) \/ transition(q) \/ persistAssistant(q) \/ ReadMessage(q)
           \/ PlanStep(q) \/ FollowPlan(q) \/ TakeOutcome(q) \/ ResumeApproval(q)
           \/ LoadPaused(q) \/ GetApproval(q) \/ ReadSteps(q) \/ ExecuteApproved(q)
           \/ ClearApproval(q) \/ LoadForCancel(q) \/ DirectExecuteApproved(q)
    PROVE  UNCHANGED Gate
BY DEF Gate, centerVars, recordStep, transition, persistAssistant, ReadMessage, PlanStep, FollowPlan,
       TakeOutcome, ResumeApproval, LoadPaused, GetApproval, ReadSteps, ExecuteApproved,
       ClearApproval, LoadForCancel, DirectExecuteApproved, Local

\* Ids stay issued, grants stay, and only a restart advances the life.
LEMMA Monotone ==
    ASSUME TypeOK, Next
    PROVE  /\ \A a \in Approvals : Issued(a) => Issued(a)'
           /\ \A a \in Approvals : granted[a] \subseteq granted'[a]
           /\ UNCHANGED crashes \/ Crash
<1> USE DEF TypeOK, CenterTypeOK, Issued, Fresh
<1>1. ASSUME UNCHANGED <<owner, granted, crashes>> PROVE
           /\ \A a \in Approvals : Issued(a) => Issued(a)'
           /\ \A a \in Approvals : granted[a] \subseteq granted'[a]
           /\ UNCHANGED crashes \/ Crash
  BY <1>1
<1>2. ASSUME NEW a \in Approvals, NEW r, Create(a, r), UNCHANGED <<granted, crashes>> PROVE
           /\ \A b \in Approvals : Issued(b) => Issued(b)'
           /\ \A b \in Approvals : granted[b] \subseteq granted'[b]
           /\ UNCHANGED crashes \/ Crash
  BY <1>2 DEF Create
<1>3. ASSUME NEW q \in Requests, ResolveRun(q) \/ DirectResolve(q) PROVE
           /\ \A b \in Approvals : Issued(b) => Issued(b)'
           /\ \A b \in Approvals : granted[b] \subseteq granted'[b]
           /\ UNCHANGED crashes \/ Crash
  BY <1>3 DEF ResolveRun, DirectResolve, resolve, centerVars
<1>4. ASSUME Crash PROVE
           /\ \A b \in Approvals : Issued(b) => Issued(b)'
           /\ \A b \in Approvals : granted[b] \subseteq granted'[b]
           /\ UNCHANGED crashes \/ Crash
  BY <1>4 DEF Crash, CenterCrash
<1>5. ASSUME NEW q \in Requests, PutCopy(q) \/ RunSnapshot(q) \/ RejectCancelled(q) \/ DirectRun(q)
      PROVE  UNCHANGED <<owner, granted, crashes>>
  BY <1>5 DEF PutCopy, Hydrate, RunSnapshot, RejectCancelled, resolve, DirectRun, centerVars
<1>6. ASSUME NEW q \in Requests, ProposeTool(q)
      PROVE  UNCHANGED <<owner, granted, crashes>>
             \/ \E a \in Approvals : Create(a, call[q].run) /\ UNCHANGED <<granted, crashes>>
  BY <1>6 DEF ProposeTool, centerVars
<1>7. ASSUME NEW q \in Requests, Request(q)
      PROVE  UNCHANGED <<owner, granted, crashes>>
             \/ \E a \in Approvals : Create(a, NoRun) /\ UNCHANGED <<granted, crashes>>
  BY <1>7 DEF Request, StartRun, CancelHandler, PendingHandler, ToolHandler, ApprovalHandler,
     SocketHandler, ResumeHandler, Arrive, centerVars
<1>8. ASSUME UNCHANGED Gate PROVE UNCHANGED <<owner, granted, crashes>>
  BY <1>8 DEF Gate, centerVars
<1> QED
  BY <1>1, <1>2, <1>3, <1>4, <1>5, <1>6, <1>7, <1>8, QuietSteps DEF Next, Continue

\* Every id that is referred to has been issued.
LEMMA RefsStep == TypeOK /\ CallOK /\ RefsIssued /\ [Next]_vars => RefsIssued'
<1> SUFFICES ASSUME TypeOK, CallOK, RefsIssued, [Next]_vars PROVE RefsIssued'
  OBVIOUS
<1>1. CASE UNCHANGED vars
  BY <1>1 DEF vars, runVars, centerVars, RefsIssued, Ids, Issued, Fresh
<1> SUFFICES ASSUME Next PROVE RefsIssued'
  BY <1>1
<1>t. /\ store \in [Runs -> RunState] /\ st \in [Requests -> RunState]
      /\ call \in [Requests -> Call]
  BY DEF TypeOK
<1>m. Ids \subseteq Ids'
  BY Monotone DEF Ids
<1>i. /\ \A r \in Runs : store[r].appr \in Ids'
      /\ \A q \in Requests : st[q].appr \in Ids' /\ call[q].appr \in Ids' /\ call[q].new \in Ids'
  BY <1>m DEF RefsIssued
<1>n. NoApproval \in Ids'
  BY DEF Ids
<1> DEFINE J == Ids'
<1>g. ASSUME /\ \A r \in Runs : store'[r].appr \in J
             /\ \A q \in Requests : st'[q].appr \in J /\ call'[q].appr \in J /\ call'[q].new \in J
      PROVE  RefsIssued'
  BY <1>g DEF RefsIssued
<1> HIDE DEF J
<1>j. /\ \A r \in Runs : store[r].appr \in J
      /\ \A q \in Requests : st[q].appr \in J /\ call[q].appr \in J /\ call[q].new \in J
      /\ NoApproval \in J
  BY <1>i, <1>n DEF J
\* A step that gives q the state s, and perhaps saves it.
<1>s. ASSUME NEW q \in Requests, NEW s, s.appr \in J,
             UNCHANGED store \/ store' = [store EXCEPT ![call[q].run] = s],
             UNCHANGED st \/ st' = [st EXCEPT ![q] = s],
             UNCHANGED call
      PROVE  RefsIssued'
  <2>1. \A r \in Runs : store'[r] \in {store[r], s}
    BY <1>t, <1>s
  <2>2. \A r \in Requests : st'[r] \in {st[r], s}
    BY <1>t, <1>s
  <2> QED  BY <1>g, <1>j, <1>s, <2>1, <2>2
\* A step that gives q the parameters c.
<1>c. ASSUME NEW q \in Requests, NEW c, c.appr \in J, c.new \in J,
             call' = [call EXCEPT ![q] = c], UNCHANGED <<store, st>>
      PROVE  RefsIssued'
  <2>1. \A r \in Requests : call'[r] \in {call[r], c}
    BY <1>t, <1>c
  <2> QED  BY <1>g, <1>j, <1>c, <2>1
<1>u. ASSUME UNCHANGED <<store, st, call>> PROVE RefsIssued'
  BY <1>g, <1>j, <1>u
<1>2. ASSUME NEW q \in Requests, recordStep(q) PROVE RefsIssued'
  <2> DEFINE s == [st[q] EXCEPT !.idx = @ + 1]
  <2>1. s.appr \in J
    BY <1>t, <1>j DEF RunState
  <2>2. /\ UNCHANGED store \/ store' = [store EXCEPT ![call[q].run] = s]
        /\ st' = [st EXCEPT ![q] = s] /\ UNCHANGED call
    BY <1>2 DEF recordStep, Save
  <2> HIDE DEF s
  <2> QED  BY <1>s, <2>1, <2>2
<1>3. ASSUME NEW q \in Requests, transition(q) PROVE RefsIssued'
  <2> DEFINE s == [st[q] EXCEPT !.status = Entered[pc[q]]]
  <2>1. s.appr \in J
    BY <1>t, <1>j DEF RunState
  <2>2. /\ UNCHANGED store \/ store' = [store EXCEPT ![call[q].run] = s]
        /\ st' = [st EXCEPT ![q] = s] /\ UNCHANGED call
    BY <1>3 DEF transition, Save
  <2> HIDE DEF s
  <2> QED  BY <1>s, <2>1, <2>2
<1>4. ASSUME NEW q \in Requests, ClearApproval(q) PROVE RefsIssued'
  <2> DEFINE s == [st[q] EXCEPT !.appr = NoApproval]
  <2>1. s.appr \in J
    BY <1>t, <1>j DEF RunState
  <2>2. /\ UNCHANGED store \/ store' = [store EXCEPT ![call[q].run] = s]
        /\ st' = [st EXCEPT ![q] = s] /\ UNCHANGED call
    BY <1>4 DEF ClearApproval, Save
  <2> HIDE DEF s
  <2> QED  BY <1>s, <2>1, <2>2
<1>5. ASSUME NEW q \in Requests, PlanStep(q) PROVE RefsIssued'
  <2> DEFINE s == [st[q] EXCEPT !.count = @ + 1]
  <2>1. s.appr \in J
    BY <1>t, <1>j DEF RunState
  <2>2. UNCHANGED <<store, call>> /\ (UNCHANGED st \/ st' = [st EXCEPT ![q] = s])
    BY <1>5 DEF PlanStep
  <2> HIDE DEF s
  <2> QED  BY <1>s, <2>1, <2>2
<1>6. ASSUME NEW q \in Requests, TakeOutcome(q) PROVE RefsIssued'
  <2> DEFINE s == [st[q] EXCEPT !.appr = call[q].new]
  <2>1. s.appr \in J
    BY <1>t, <1>j DEF RunState
  <2>2. UNCHANGED <<store, call>> /\ (UNCHANGED st \/ st' = [st EXCEPT ![q] = s])
    BY <1>6 DEF TakeOutcome
  <2> HIDE DEF s
  <2> QED  BY <1>s, <2>1, <2>2
<1>7. ASSUME NEW q \in Requests, LoadPaused(q) \/ LoadForCancel(q) PROVE RefsIssued'
  <2>1. call[q].run \in Runs
    BY <1>7 DEF LoadPaused, LoadForCancel, CallOK, CallFits, Unattached
  <2>2. store[call[q].run].appr \in J
    BY <1>j, <2>1
  <2>3. UNCHANGED <<store, call>> /\ (UNCHANGED st \/ st' = [st EXCEPT ![q] = store[call[q].run]])
    BY <1>7 DEF LoadPaused, LoadForCancel
  <2> QED  BY <1>s, <2>2, <2>3
<1>8. ASSUME NEW q \in Requests, ResumeApproval(q) PROVE RefsIssued'
  <2>1. UNCHANGED <<store, st>>
    BY <1>8 DEF ResumeApproval
  <2>2. CASE UNCHANGED call
    BY <1>u, <2>1, <2>2
  <2>3. ASSUME NEW r, call' = [call EXCEPT ![q].run = r] PROVE RefsIssued'
    <3> DEFINE c == [call[q] EXCEPT !.run = r]
    <3>1. c.appr \in J /\ c.new \in J
      BY <1>t, <1>j DEF Call
    <3>2. call' = [call EXCEPT ![q] = c]
      BY <2>3
    <3> HIDE DEF c
    <3> QED  BY <1>c, <2>1, <3>1, <3>2
  <2>4. UNCHANGED call \/ \E r : call' = [call EXCEPT ![q].run = r]
    BY <1>8 DEF ResumeApproval
  <2> QED  BY <2>2, <2>3, <2>4
<1>9. ASSUME NEW q \in Requests, ProposeTool(q) PROVE RefsIssued'
  <2>1. UNCHANGED <<store, st>>
    BY <1>9 DEF ProposeTool
  <2>2. CASE UNCHANGED call
    BY <1>u, <2>1, <2>2
  <2>3. ASSUME NEW x, call' = [call EXCEPT ![q].outcome = x] PROVE RefsIssued'
    <3> DEFINE c == [call[q] EXCEPT !.outcome = x]
    <3>1. c.appr \in J /\ c.new \in J
      BY <1>t, <1>j DEF Call
    <3>2. call' = [call EXCEPT ![q] = c]
      BY <2>3
    <3> HIDE DEF c
    <3> QED  BY <1>c, <2>1, <3>1, <3>2
  <2>4. ASSUME NEW a \in Approvals, Create(a, call[q].run),
               call' = [call EXCEPT ![q].new = a, ![q].outcome = "approval"]
        PROVE  RefsIssued'
    <3> DEFINE c == [call[q] EXCEPT !.new = a, !.outcome = "approval"]
    <3>1. a \in Ids'
      BY <2>4 DEF Create, Ids, Issued, Fresh, TypeOK, CenterTypeOK
    <3>2. c.appr \in J /\ c.new \in J
      BY <1>t, <1>j, <3>1 DEF Call, J
    <3>3. call' = [call EXCEPT ![q] = c]
      BY <1>t, <2>4
    <3> HIDE DEF c
    <3> QED  BY <1>c, <2>1, <3>2, <3>3
  <2>5. \/ UNCHANGED call
        \/ \E x : call' = [call EXCEPT ![q].outcome = x]
        \/ \E a \in Approvals :
              Create(a, call[q].run) /\ call' = [call EXCEPT ![q].new = a, ![q].outcome = "approval"]
    BY <1>9 DEF ProposeTool
  <2> QED  BY <2>2, <2>3, <2>4, <2>5
<1>10. ASSUME NEW q \in Requests,
              \/ persistAssistant(q) \/ ReadMessage(q) \/ FollowPlan(q) \/ GetApproval(q)
              \/ ReadSteps(q) \/ PutCopy(q) \/ ResolveRun(q) \/ ExecuteApproved(q)
              \/ RunSnapshot(q) \/ RejectCancelled(q) \/ DirectResolve(q)
              \/ DirectExecuteApproved(q) \/ DirectRun(q)
       PROVE  RefsIssued'
  <2>1. UNCHANGED <<store, st, call>>
    BY <1>10 DEF persistAssistant, ReadMessage, FollowPlan, GetApproval, ReadSteps, PutCopy,
       ResolveRun, ExecuteApproved, RunSnapshot, RejectCancelled, DirectResolve,
       DirectExecuteApproved, DirectRun, Local
  <2> QED  BY <1>u, <2>1
<1>11. ASSUME NEW q \in Requests, Request(q) PROVE RefsIssued'
  <2>1. ASSUME NEW c, NEW stage, Arrive(q, c, stage), UNCHANGED <<store, st>>,
               c.appr \in J, c.new \in J
        PROVE  RefsIssued'
    BY <1>c, <2>1 DEF Arrive
  <2>2. ASSUME NEW r \in Runs, StartRun(q, r) PROVE RefsIssued'
    <3> DEFINE c == [NoCall EXCEPT !.entry = "run", !.run = r]
               s == [NoState EXCEPT !.status = "received_user_message"]
    <3>1. c.appr = NoApproval /\ c.new = NoApproval /\ s.appr = NoApproval
      BY DEF NoCall, NoState
    <3>2. /\ call' = [call EXCEPT ![q] = c] /\ st' = [st EXCEPT ![q] = s]
          /\ store' = [store EXCEPT ![r] = s]
      BY <2>2 DEF StartRun, Arrive
    <3> HIDE DEF c, s
    <3>3. /\ \A x \in Requests : call'[x] \in {call[x], c} /\ st'[x] \in {st[x], s}
          /\ \A x \in Runs : store'[x] \in {store[x], s}
      BY <1>t, <3>2
    <3> QED  BY <1>g, <1>j, <3>1, <3>3
  <2>3. ASSUME NEW r \in Runs, CancelHandler(q, r) PROVE RefsIssued'
    <3> DEFINE c == [NoCall EXCEPT !.entry = "cancel", !.run = r]
    <3>1. c.appr = NoApproval /\ c.new = NoApproval
      BY DEF NoCall
    <3> HIDE DEF c
    <3> QED  BY <1>j, <2>1, <2>3, <3>1 DEF CancelHandler, c
  <2>4. ASSUME NEW r \in Runs, PendingHandler(q, r) PROVE RefsIssued'
    <3> DEFINE c == [NoCall EXCEPT !.entry = "pending", !.run = r, !.appr = store[r].appr]
    <3>1. c.appr = store[r].appr /\ c.new = NoApproval
      BY DEF NoCall
    <3> HIDE DEF c
    <3> QED  BY <1>j, <2>1, <2>4, <3>1 DEF PendingHandler, c
  <2>5. ASSUME NEW a \in Approvals, ToolHandler(q, a) PROVE RefsIssued'
    BY <1>u, <2>5 DEF ToolHandler
  <2>6. ASSUME NEW a \in Approvals, NEW ok \in BOOLEAN,
               ApprovalHandler(q, a, ok) \/ SocketHandler(q, a, ok) PROVE RefsIssued'
    <3>1. PICK e \in {"http", "ws"}, stage \in {"direct", "lookup"} :
             Arrive(q, [NoCall EXCEPT !.entry = e, !.appr = a, !.approved = ok], stage)
      BY <2>6 DEF ApprovalHandler, SocketHandler
    <3> DEFINE c == [NoCall EXCEPT !.entry = e, !.appr = a, !.approved = ok]
    <3>2. c.appr = a /\ c.new = NoApproval
      BY DEF NoCall
    <3>3. a \in J /\ UNCHANGED <<store, st>>
      BY <1>m, <2>6 DEF J, Ids, ApprovalHandler, SocketHandler
    <3> HIDE DEF c
    <3> QED  BY <1>j, <2>1, <3>1, <3>2, <3>3 DEF c
  <2>7. ASSUME NEW a \in Approvals, NEW ok \in BOOLEAN, NEW r \in Runs,
               ResumeHandler(q, r, a, ok) PROVE RefsIssued'
    <3> DEFINE c == [NoCall EXCEPT !.entry = "resume", !.run = r, !.appr = a, !.approved = ok]
    <3>1. c.appr = a /\ c.new = NoApproval
      BY DEF NoCall
    <3>2. a \in J
      BY <1>m, <2>7 DEF J, Ids, ResumeHandler
    <3> HIDE DEF c
    <3> QED  BY <1>j, <2>1, <2>7, <3>1, <3>2 DEF c, ResumeHandler
  <2> QED  BY <1>11, <2>2, <2>3, <2>4, <2>5, <2>6, <2>7 DEF Request
<1>12. ASSUME Crash PROVE RefsIssued'
  BY <1>12, <1>u DEF Crash
<1> QED
  BY <1>2, <1>3, <1>4, <1>5, <1>6, <1>7, <1>8, <1>9, <1>10, <1>11, <1>12 DEF Next, Continue

-----------------------------------------------------------------------------

\* A request gets on its way to the executor by approving a pending record.
Won(q) ==
    /\ call[q].appr \in Approvals
    /\ Resolvable(call[q].appr)
    /\ granted' = [granted EXCEPT ![call[q].appr] = @ \cup {Now(q)}]
    /\ UNCHANGED executed

\* Nothing but its own approval sets a request on its way to the executor.
LEMMA EntitledFlow ==
    ASSUME TypeOK, CallOK, Next, ~Crash, NEW x \in Requests, pc'[x] \in Entitled
    PROVE  UNCHANGED call[x] /\ (pc[x] \in Entitled \/ Won(x))
<1> DEFINE Flow == UNCHANGED call[x] /\ (pc[x] \in Entitled \/ Won(x))
<1> SUFFICES Flow
  OBVIOUS
<1>t. pc \in [Requests -> Stages] /\ call \in [Requests -> Call] /\ granted \in [Approvals -> SUBSET Deed]
  BY DEF TypeOK
\* A step of q that leads to p, by way of Entitled if p belongs there.
<1>g. ASSUME NEW q \in Requests, NEW p, Goto(q, p),
             \A y \in Requests \ {q} : UNCHANGED call[y],
             p \in Entitled => UNCHANGED call[q] /\ (pc[q] \in Entitled \/ Won(q))
      PROVE  Flow
  <2>1. CASE x = q
    <3>1. pc'[q] = p
      BY <1>t, <1>g DEF Goto
    <3> QED  BY <1>g, <2>1, <3>1
  <2>2. CASE x # q
    BY <1>t, <1>g, <2>2 DEF Goto
  <2> QED  BY <2>1, <2>2
<1> HIDE DEF Flow
<1>o. \A q : OnError(q) \notin Entitled
  BY DEF OnError, Entitled
<1>3. ASSUME NEW q \in Requests, recordStep(q) PROVE Flow
  <2>1. PICK p : Goto(q, p) /\ p \in {AfterRecord[pc[q]], OnError(q), "rec_fail"}
    BY <1>3 DEF recordStep
  <2>2. pc[q] \in DOMAIN AfterRecord /\ UNCHANGED call
    BY <1>3 DEF recordStep
  <2>3. p \in Entitled => pc[q] \in Entitled
    BY <1>o, <2>1, <2>2, StageFlow DEF Entitled
  <2> QED  BY <1>g, <2>1, <2>2, <2>3
<1>4. ASSUME NEW q \in Requests, transition(q) PROVE Flow
  <2>1. Goto(q, AfterEntered(q)[pc[q]]) /\ UNCHANGED call /\ pc[q] \in DOMAIN Entered
    BY <1>4 DEF transition
  <2> QED  BY <1>g, <2>1, StageFlow
<1>5. ASSUME NEW q \in Requests,
             \/ persistAssistant(q) \/ ReadMessage(q) \/ PlanStep(q) \/ FollowPlan(q)
             \/ TakeOutcome(q) \/ LoadPaused(q) \/ GetApproval(q) \/ ReadSteps(q)
             \/ PutCopy(q) \/ ClearApproval(q) \/ LoadForCancel(q) \/ RejectCancelled(q)
      PROVE  Flow
  <2>1. PICK p \in {"done", "rec_final", "rec_rejfinal", "rec_fail", "rec_context", "rec_plan",
                    "rec_continue", "rec_summary", "rec_propose", "rec_request", "rec_exec",
                    "hydrate", "steps", "put", "resolve", "loop", "rec_cancel",
                    "cancel_reject", OnError(q)} : Goto(q, p)
    BY <1>5, StageTables DEF persistAssistant, ReadMessage, PlanStep, FollowPlan, TakeOutcome,
       LoadPaused, GetApproval, ReadSteps, PutCopy, ClearApproval, LoadForCancel,
       RejectCancelled, Local
  <2>2. UNCHANGED call
    BY <1>5 DEF persistAssistant, ReadMessage, PlanStep, FollowPlan, TakeOutcome,
       LoadPaused, GetApproval, ReadSteps, PutCopy, ClearApproval, LoadForCancel,
       RejectCancelled, Local
  <2>3. p \notin Entitled
    BY <1>o, <2>1 DEF Entitled
  <2> QED  BY <1>g, <2>1, <2>2, <2>3
<1>6. ASSUME NEW q \in Requests,
             \/ ExecuteApproved(q) \/ RunSnapshot(q) \/ DirectExecuteApproved(q) \/ DirectRun(q)
      PROVE  Flow
  <2>1. PICK p : Goto(q, p)
    BY <1>6 DEF ExecuteApproved, RunSnapshot, DirectExecuteApproved, DirectRun, Local
  <2>2. UNCHANGED call /\ pc[q] \in Entitled
    BY <1>6 DEF ExecuteApproved, RunSnapshot, DirectExecuteApproved, DirectRun, Local, Entitled
  <2> QED  BY <1>g, <2>1, <2>2
<1>7. ASSUME NEW q \in Requests, ResolveRun(q) \/ DirectResolve(q) PROVE Flow
  <2>1. PICK p \in {"rec_approved", "rec_rejected", "rec_fail", "direct_check", "done"} : Goto(q, p)
    BY <1>7 DEF ResolveRun, DirectResolve
  <2>2. UNCHANGED call
    BY <1>7 DEF ResolveRun, DirectResolve
  <2>3. call[q].appr \in Approvals
    BY <1>7 DEF ResolveRun, DirectResolve, CallOK, CallFits, AtApproval
  <2>4. p \in {"rec_approved", "direct_check"} => Won(q)
    <3>1. pc'[q] = p
      BY <1>t, <2>1 DEF Goto
    <3> QED  BY <1>t, <1>7, <2>3, <3>1 DEF ResolveRun, DirectResolve, Goto, resolve, Won
  <2>5. p \in Entitled => Won(q)
    BY <2>1, <2>4 DEF Entitled
  <2> QED  BY <1>g, <2>1, <2>2, <2>5
<1>8. ASSUME NEW q \in Requests, ProposeTool(q) \/ ResumeApproval(q) PROVE Flow
  <2>1. PICK p \in {"rec_fail", "rec_infer", "load", OnError(q)} : Goto(q, p)
    BY <1>8 DEF ProposeTool, ResumeApproval
  <2>2. p \notin Entitled
    BY <1>o, <2>1 DEF Entitled
  <2>3. \A y \in Requests \ {q} : call'[y] = call[y]
    <3>1. CASE ProposeTool(q)
      BY <1>t, <3>1 DEF ProposeTool
    <3>2. CASE ResumeApproval(q)
      BY <1>t, <3>2 DEF ResumeApproval
    <3> QED  BY <1>8, <3>1, <3>2
  <2> QED  BY <1>g, <2>1, <2>2, <2>3
<1>9. ASSUME NEW q \in Requests, Request(q) PROVE Flow
  <2>1. PICK p \in {"message", "load", "direct", "lookup", "cancel", "hydrate", "done"} : Goto(q, p)
    BY <1>9 DEF Request, StartRun, CancelHandler, PendingHandler, ToolHandler, ApprovalHandler,
       SocketHandler, ResumeHandler, Arrive
  <2>2. UNCHANGED call \/ \E c : call' = [call EXCEPT ![q] = c]
    BY <1>9 DEF Request, StartRun, CancelHandler, PendingHandler, ToolHandler, ApprovalHandler,
       SocketHandler, ResumeHandler, Arrive
  <2>3. \A y \in Requests \ {q} : call'[y] = call[y]
    BY <1>t, <2>2
  <2>4. p \notin Entitled
    BY <2>1 DEF Entitled
  <2> QED  BY <1>g, <2>1, <2>3, <2>4
<1> QED
  BY <1>3, <1>4, <1>5, <1>6, <1>7, <1>8, <1>9 DEF Next, Continue

\* A request on its way to the executor has approved the record in this life.
LEMMA EntitledStep ==
    TypeOK /\ CallOK /\ EntitledWasGranted /\ [Next]_vars => EntitledWasGranted'
<1> SUFFICES ASSUME TypeOK, CallOK, EntitledWasGranted, [Next]_vars PROVE EntitledWasGranted'
  OBVIOUS
<1>1. CASE UNCHANGED vars
  BY <1>1 DEF vars, runVars, EntitledWasGranted, Now
<1>2. CASE Crash
  BY <1>2 DEF Crash, EntitledWasGranted, Entitled
<1>3. CASE Next /\ ~Crash
  <2>m. UNCHANGED crashes /\ \A a \in Approvals : granted[a] \subseteq granted'[a]
    BY <1>3, Monotone
  <2>1. ASSUME NEW x \in Requests, pc'[x] \in Entitled PROVE Now(x)' \in granted'[call'[x].appr]
    <3>1. UNCHANGED call[x] /\ (pc[x] \in Entitled \/ Won(x))
      BY <1>3, <2>1, EntitledFlow
    <3>2. Now(x)' = Now(x)
      BY <2>m DEF Now
    <3>3. pc[x] \in Entitled => call[x].appr \in Approvals /\ Now(x) \in granted[call[x].appr]
      BY DEF EntitledWasGranted, CallOK, CallFits, AtApproval, Entitled
    <3>4. Won(x) => Now(x) \in granted'[call[x].appr]
      BY DEF Won, TypeOK
    <3> QED  BY <2>m, <3>1, <3>2, <3>3, <3>4
  <2> QED  BY <2>1 DEF EntitledWasGranted
<1> QED  BY <1>1, <1>2, <1>3

-----------------------------------------------------------------------------
\* What a step can do to the approval gate: restart it, create a record,
\* resolve one, hydrate one, or execute one that the request has approved.
Created ==
    \E a \in Approvals : \E r : Create(a, r) /\ UNCHANGED <<crashes, granted, executed>>

Resolved ==
    \E a \in Approvals, ok \in BOOLEAN, q \in Requests :
        /\ resolve(a, ok)
        /\ granted' = IF ok THEN [granted EXCEPT ![a] = @ \cup {Now(q)}] ELSE granted
        /\ UNCHANGED <<crashes, executed>>

Hydrated == \E q \in Requests : PutCopy(q)

Executed ==
    \E a \in Approvals, q \in Requests :
        /\ pc[q] \in Entitled /\ pc'[q] \notin Entitled /\ call[q].appr = a
        /\ executed' = [executed EXCEPT ![a] = @ \cup {Now(q)}]
        /\ UNCHANGED <<centerVars, crashes, granted>>

\* A step leaves the gate alone, or does one of those things to it.
LEMMA GateStep ==
    ASSUME TypeOK, CallOK, Next
    PROVE  \/ UNCHANGED Gate \/ Crash
           \/ Created \/ Resolved \/ Hydrated \/ Executed
<1>1. ASSUME NEW q \in Requests, ProposeTool(q) PROVE Created \/ UNCHANGED Gate
  BY <1>1 DEF ProposeTool, Created, Gate, centerVars
<1>2. ASSUME NEW q \in Requests, ResolveRun(q) \/ DirectResolve(q)
      PROVE  Resolved \/ UNCHANGED Gate
  <2>1. call[q].appr \in Approvals
    BY <1>2 DEF ResolveRun, DirectResolve, CallOK, CallFits, AtApproval
  <2>2. call[q].approved \in BOOLEAN
    BY DEF TypeOK, Call
  <2>3. UNCHANGED <<crashes, executed>>
    BY <1>2 DEF ResolveRun, DirectResolve
  <2>4. \/ /\ resolve(call[q].appr, call[q].approved)
           /\ granted' = IF call[q].approved
                         THEN [granted EXCEPT ![call[q].appr] = @ \cup {Now(q)}]
                         ELSE granted
        \/ UNCHANGED <<centerVars, granted>>
    BY <1>2 DEF ResolveRun, DirectResolve
  <2> QED  BY <2>1, <2>2, <2>3, <2>4 DEF Resolved, Gate
<1>3. ASSUME NEW q \in Requests, RejectCancelled(q) PROVE Resolved \/ UNCHANGED Gate
  <2>1. UNCHANGED <<crashes, granted, executed>>
    BY <1>3 DEF RejectCancelled
  <2>2. CASE UNCHANGED centerVars
    BY <2>1, <2>2 DEF Gate
  <2>3. CASE resolve(st[q].appr, FALSE) /\ st[q].appr \in Approvals
    BY <2>1, <2>3 DEF Resolved
  <2>4. CASE resolve(st[q].appr, FALSE) /\ st[q].appr \notin Approvals
    <3>1. UNCHANGED centerVars
      BY <2>4 DEF resolve, centerVars, TypeOK, CenterTypeOK
    <3> QED  BY <2>2, <3>1
  <2> QED  BY <1>3, <2>2, <2>3, <2>4 DEF RejectCancelled
<1>4. ASSUME NEW q \in Requests, RunSnapshot(q) \/ DirectRun(q) PROVE Executed
  <2>1. pc[q] \in Entitled
    BY <1>4 DEF RunSnapshot, DirectRun, Entitled
  <2>2. call[q].appr \in Approvals
    BY <2>1 DEF Entitled, CallOK, CallFits, AtApproval
  <2>3. pc'[q] \in {"rec_executed", "rec_execfail", "done"}
    BY <1>4 DEF RunSnapshot, DirectRun, Goto, TypeOK
  <2>4. pc'[q] \notin Entitled
    BY <2>3 DEF Entitled
  <2> QED  BY <1>4, <2>1, <2>2, <2>4 DEF RunSnapshot, DirectRun, Executed
<1>5. ASSUME NEW q \in Requests, Request(q) PROVE Created \/ UNCHANGED Gate
  <2>1. CASE \E a \in Approvals : ToolHandler(q, a)
    BY <2>1 DEF ToolHandler, Created
  <2>2. CASE ~\E a \in Approvals : ToolHandler(q, a)
    BY <1>5, <2>2 DEF Request, StartRun, CancelHandler, PendingHandler, ApprovalHandler,
       SocketHandler, ResumeHandler, Arrive, Gate
  <2> QED  BY <2>1, <2>2
<1> QED
  BY <1>1, <1>2, <1>3, <1>4, <1>5, QuietSteps DEF Next, Continue, Hydrated

-----------------------------------------------------------------------------

\* A snapshot is only executed by a request that approved it itself.
LEMMA ExecutedStep ==
    TypeOK /\ CallOK /\ EntitledWasGranted /\ ExecutedWasGranted /\ [Next]_vars
        => ExecutedWasGranted'
<1> SUFFICES ASSUME TypeOK, CallOK, EntitledWasGranted, ExecutedWasGranted, [Next]_vars
             PROVE  ExecutedWasGranted'
  OBVIOUS
<1>1. CASE UNCHANGED vars
  BY <1>1 DEF vars, runVars, ExecutedWasGranted
<1>2. CASE Next
  <2>m. \A a \in Approvals : granted[a] \subseteq granted'[a]
    BY <1>2, Monotone
  <2>1. CASE UNCHANGED executed
    BY <2>m, <2>1 DEF ExecutedWasGranted
  <2>2. CASE Executed
    <3>1. PICK a \in Approvals, q \in Requests :
             /\ pc[q] \in Entitled /\ call[q].appr = a
             /\ executed' = [executed EXCEPT ![a] = @ \cup {Now(q)}]
      BY <2>2 DEF Executed
    <3>2. Now(q) \in granted[a]
      BY <3>1 DEF EntitledWasGranted
    <3>3. \A b \in Approvals : executed'[b] \subseteq executed[b] \cup (IF b = a THEN {Now(q)} ELSE {})
      BY <3>1 DEF TypeOK
    <3> QED  BY <2>m, <3>2, <3>3 DEF ExecutedWasGranted
  <2>3. UNCHANGED executed \/ Executed
    BY <1>2, GateStep DEF Gate, Crash, Created, Resolved, Hydrated, PutCopy
  <2> QED  BY <2>1, <2>2, <2>3
<1> QED  BY <1>1, <1>2

\* Until the process restarts no issued record is missing and none is hydrated.
LEMMA NothingLostStep ==
    TypeOK /\ CallOK /\ RefsIssued /\ NothingLost /\ [Next]_vars => NothingLost'
<1> SUFFICES ASSUME TypeOK, CallOK, RefsIssued, NothingLost, [Next]_vars PROVE NothingLost'
  OBVIOUS
<1>1. CASE UNCHANGED vars
  BY <1>1 DEF vars, runVars, centerVars, NothingLost, Issued, Fresh
<1> SUFFICES ASSUME Next, crashes' = 0 PROVE NothingLost'
  BY <1>1 DEF NothingLost
<1>c. ~Crash /\ crashes = 0
  <2>1. UNCHANGED crashes \/ Crash
    BY Monotone
  <2>2. ~Crash
    BY RuntimeAssumption DEF Crash, TypeOK
  <2> QED  BY <2>1, <2>2
<1>a. /\ \A a \in Approvals : Issued(a) <=> center[a] # "absent"
      /\ \A a \in Approvals : Fresh(a) => granted[a] = {}
      /\ \A q \in Requests : pc[q] \notin {"steps", "put"}
  BY <1>c DEF NothingLost
<1>2. /\ \A a \in Approvals : Issued(a)' <=> center'[a] # "absent"
      /\ \A a \in Approvals : Fresh(a)' => granted'[a] = {}
  <2>1. CASE UNCHANGED Gate
    BY <1>a, <2>1 DEF Gate, centerVars, Issued, Fresh
  <2>2. CASE Created
    BY <1>a, <2>2 DEF Created, Create, Issued, Fresh, TypeOK, CenterTypeOK
  <2>3. CASE Resolved
    <3>1. PICK a \in Approvals, ok \in BOOLEAN, q \in Requests :
             /\ resolve(a, ok)
             /\ granted' = IF ok THEN [granted EXCEPT ![a] = @ \cup {Now(q)}] ELSE granted
      BY <2>3 DEF Resolved
    <3>2. \A b \in Approvals : center'[b] = "absent" <=> center[b] = "absent"
      BY <3>1 DEF resolve, Resolvable, TypeOK, CenterTypeOK
    <3>3. \A b \in Approvals : Issued(b)' = Issued(b)
      BY <3>1 DEF resolve, Issued, Fresh
    <3>4. \A b \in Approvals \ {a} : granted'[b] = granted[b]
      BY <3>1 DEF TypeOK
    <3>5. Issued(a)
      BY <1>a, <3>1 DEF resolve, Resolvable
    <3>6. \A b \in Approvals : Fresh(b)' => b # a /\ Fresh(b)
      BY <3>3, <3>5 DEF Issued
    <3> QED  BY <1>a, <3>2, <3>3, <3>4, <3>6
  <2>4. CASE Executed
    BY <1>a, <2>4 DEF Executed, centerVars, Issued, Fresh
  <2> QED  BY <1>a, <1>c, <2>1, <2>2, <2>3, <2>4, GateStep DEF Hydrated, PutCopy
<1>3. \A x \in Requests : pc'[x] \notin {"steps", "put"}
  <2>t. pc \in [Requests -> Stages]
    BY DEF TypeOK
  <2>g. ASSUME NEW q \in Requests, NEW p, Goto(q, p), p \notin {"steps", "put"}
        PROVE  \A x \in Requests : pc'[x] \notin {"steps", "put"}
    BY <1>a, <2>t, <2>g DEF Goto
  <2>o. \A q : OnError(q) \notin {"steps", "put"}
    BY DEF OnError
  <2>1. ASSUME NEW q \in Requests, recordStep(q)
        PROVE  \E p : Goto(q, p) /\ p \notin {"steps", "put"}
    BY <2>1, <2>o, StageFlow DEF recordStep
  <2>2. ASSUME NEW q \in Requests, transition(q)
        PROVE  \E p : Goto(q, p) /\ p \notin {"steps", "put"}
    BY <2>2, StageFlow DEF transition
  <2>3. ASSUME NEW q \in Requests, GetApproval(q)
        PROVE  \E p : Goto(q, p) /\ p \notin {"steps", "put"}
    <3>1. call[q].appr \in Approvals
      BY <2>3 DEF GetApproval, CallOK, CallFits, AtApproval
    <3>2. center[call[q].appr] # "absent"
      BY <1>a, <3>1, RuntimeAssumption DEF RefsIssued, Ids
    <3> QED  BY <2>3, <2>o, <3>2 DEF GetApproval, Local
  <2>4. ASSUME NEW q \in Requests,
               \/ persistAssistant(q) \/ ReadMessage(q) \/ PlanStep(q) \/ FollowPlan(q)
               \/ TakeOutcome(q) \/ LoadPaused(q) \/ ClearApproval(q) \/ LoadForCancel(q)
               \/ ProposeTool(q) \/ ResumeApproval(q)
        PROVE  \E p : Goto(q, p) /\ p \notin {"steps", "put"}
    <3>1. PICK p \in {"done", "rec_final", "rec_rejfinal", "rec_fail", "rec_context", "rec_plan",
                      "rec_continue", "rec_summary", "rec_propose", "rec_request", "rec_exec",
                      "hydrate", "loop", "rec_cancel", "cancel_reject", "rec_infer", "load",
                      OnError(q)} : Goto(q, p)
      BY <2>4, StageTables DEF persistAssistant, ReadMessage, PlanStep, FollowPlan, TakeOutcome,
         LoadPaused, ClearApproval, LoadForCancel, ProposeTool, ResumeApproval, Local
    <3> QED  BY <2>o, <3>1
  <2>5. ASSUME NEW q \in Requests,
               \/ ResolveRun(q) \/ ExecuteApproved(q) \/ RunSnapshot(q) \/ RejectCancelled(q)
               \/ DirectResolve(q) \/ DirectExecuteApproved(q) \/ DirectRun(q)
        PROVE  \E p : Goto(q, p) /\ p \notin {"steps", "put"}
    <3>1. PICK p \in {"rec_approved", "rec_rejected", "rec_fail", "execute", "rec_execfail",
                      "rec_executed", "rec_cancel", "direct_check", "direct_execute", "done"} :
             Goto(q, p)
      BY <2>5 DEF ResolveRun, ExecuteApproved, RunSnapshot, RejectCancelled, DirectResolve,
         DirectExecuteApproved, DirectRun, Local
    <3> QED  BY <3>1
  <2>6. ASSUME NEW q \in Requests, Request(q)
        PROVE  \E p : Goto(q, p) /\ p \notin {"steps", "put"}
    <3>1. PICK p \in {"message", "load", "direct", "lookup", "cancel", "hydrate", "done"} :
             Goto(q, p)
      BY <2>6 DEF Request, StartRun, CancelHandler, PendingHandler, ToolHandler, ApprovalHandler,
         SocketHandler, ResumeHandler, Arrive
    <3> QED  BY <3>1
  <2>7. ASSUME NEW q \in Requests, Continue(q)
        PROVE  \E p : Goto(q, p) /\ p \notin {"steps", "put"}
    <3>1. ~ReadSteps(q) /\ ~PutCopy(q)
      BY <1>a DEF ReadSteps, PutCopy
    <3> QED  BY <2>1, <2>2, <2>3, <2>4, <2>5, <2>7, <3>1 DEF Continue
  <2> QED  BY <1>c, <2>6, <2>7, <2>g DEF Next
<1> QED  BY <1>2, <1>3 DEF NothingLost

\* Until the process restarts an approval is resolved once.
LEMMA ResolvedOnceStep ==
    TypeOK /\ CallOK /\ RefsIssued /\ NothingLost /\ ResolvedOnce /\ [Next]_vars => ResolvedOnce'
<1> SUFFICES ASSUME TypeOK, CallOK, RefsIssued, NothingLost, ResolvedOnce, [Next]_vars
             PROVE  ResolvedOnce'
  OBVIOUS
<1>1. CASE UNCHANGED vars
  BY <1>1 DEF vars, runVars, centerVars, ResolvedOnce
<1> SUFFICES ASSUME Next, crashes' = 0 PROVE ResolvedOnce'
  BY <1>1 DEF ResolvedOnce
<1>c. ~Crash /\ crashes = 0
  <2>1. UNCHANGED crashes \/ Crash
    BY Monotone
  <2>2. ~Crash
    BY RuntimeAssumption DEF Crash, TypeOK
  <2> QED  BY <2>1, <2>2
<1>a. \A a \in Approvals :
         /\ \A x, y \in granted[a] : x = y
         /\ center[a] \in {"pending", "rejected"} => granted[a] = {}
  BY <1>c DEF ResolvedOnce
<1>b. /\ \A a \in Approvals : Fresh(a) => granted[a] = {}
      /\ \A q \in Requests : pc[q] \notin {"steps", "put"}
  BY <1>c DEF NothingLost
<1>2. CASE UNCHANGED Gate
  BY <1>a, <1>2 DEF Gate, centerVars, ResolvedOnce
<1>3. CASE Created
  BY <1>a, <1>b, <1>3 DEF Created, Create, ResolvedOnce, TypeOK, CenterTypeOK
<1>4. CASE Resolved
  <2>1. PICK a \in Approvals, ok \in BOOLEAN, q \in Requests :
           /\ resolve(a, ok)
           /\ granted' = IF ok THEN [granted EXCEPT ![a] = @ \cup {Now(q)}] ELSE granted
    BY <1>4 DEF Resolved
  <2>2. granted[a] = {}
    BY <1>a, <2>1 DEF resolve, Resolvable
  <2>3. \A b \in Approvals \ {a} : center'[b] = center[b] /\ granted'[b] = granted[b]
    BY <2>1 DEF resolve, TypeOK, CenterTypeOK
  <2>4. center'[a] = (IF ok THEN "approved" ELSE "rejected")
    BY <2>1 DEF resolve, TypeOK, CenterTypeOK
  <2>5. granted'[a] = (IF ok THEN {Now(q)} ELSE {})
    BY <2>1, <2>2 DEF TypeOK
  <2> QED  BY <1>a, <2>3, <2>4, <2>5 DEF ResolvedOnce
<1>5. CASE Executed
  BY <1>a, <1>5 DEF Executed, centerVars, ResolvedOnce
<1>6. ~Hydrated
  BY <1>b DEF Hydrated, PutCopy
<1> QED  BY <1>c, <1>2, <1>3, <1>4, <1>5, <1>6, GateStep

\* Until the process restarts a request executes what it approved once.
LEMMA UnspentStep ==
    TypeOK /\ CallOK /\ ExecutedWasGranted /\ ResolvedOnce /\ Unspent /\ [Next]_vars => Unspent'
<1> SUFFICES ASSUME TypeOK, CallOK, ExecutedWasGranted, ResolvedOnce, Unspent, [Next]_vars
             PROVE  Unspent'
  OBVIOUS
<1>1. CASE UNCHANGED vars
  BY <1>1 DEF vars, runVars, Unspent, Now
<1> SUFFICES ASSUME Next, crashes' = 0, NEW x \in Requests, pc'[x] \in Entitled
             PROVE  Now(x)' \notin executed'[call'[x].appr]
  BY <1>1 DEF Unspent
<1>c. ~Crash /\ crashes = 0
  <2>1. UNCHANGED crashes \/ Crash
    BY Monotone
  <2>2. ~Crash
    BY RuntimeAssumption DEF Crash, TypeOK
  <2> QED  BY <2>1, <2>2
<1>n. \A q : Now(q)' = Now(q)
  BY <1>c DEF Now
<1>2. UNCHANGED call[x] /\ (pc[x] \in Entitled \/ Won(x))
  BY <1>c, EntitledFlow
<1>3. Now(x) \notin executed[call[x].appr]
  <2>1. CASE pc[x] \in Entitled
    BY <1>c, <2>1 DEF Unspent
  <2>2. CASE Won(x)
    BY <1>c, <2>2 DEF Won, Resolvable, ResolvedOnce, ExecutedWasGranted
  <2> QED  BY <1>2, <2>1, <2>2
<1>4. CASE Executed
  <2>1. PICK a \in Approvals, q \in Requests :
           /\ pc'[q] \notin Entitled
           /\ executed' = [executed EXCEPT ![a] = @ \cup {Now(q)}]
    BY <1>4 DEF Executed
  <2>2. Now(q) # Now(x)
    BY <2>1 DEF Now
  <2> QED  BY <1>n, <1>2, <1>3, <2>1, <2>2 DEF TypeOK
<1>5. CASE UNCHANGED executed
  BY <1>n, <1>2, <1>3, <1>5
<1> QED  BY <1>c, <1>4, <1>5, GateStep DEF Gate, Created, Resolved, Hydrated, PutCopy

-----------------------------------------------------------------------------

\* The initial states satisfy the invariant.
LEMMA InitInv == Init => RuntimeInv
<1> SUFFICES ASSUME Init PROVE RuntimeInv
  OBVIOUS
<1>1. TypeOK
  <2>1. NoState \in RunState /\ NoCall \in Call
    BY DEF NoState, RunState, NoCall, Call
  <2>2. "idle" \in Stages
    BY NamedStages
  <2> QED  BY <2>1, <2>2, RuntimeAssumption
           DEF Init, CenterInit, TypeOK, CenterTypeOK, ApprovalStatus
<1>2. CallOK
  BY DEF Init, NoCall, CallOK, CallFits, Unattached, AtApproval
<1>3. RefsIssued
  BY DEF Init, NoCall, NoState, RefsIssued, Ids
<1>4. EntitledWasGranted
  BY DEF Init, EntitledWasGranted, Entitled
<1>5. NothingLost
  BY DEF Init, CenterInit, NothingLost, Issued, Fresh
<1>6. ExecutedWasGranted /\ ResolvedOnce
  BY DEF Init, ExecutedWasGranted, ResolvedOnce
<1>7. Unspent
  BY DEF Init, Unspent, Entitled
<1> QED  BY <1>1, <1>2, <1>3, <1>4, <1>5, <1>6, <1>7 DEF RuntimeInv

\* Every step preserves it.
LEMMA InvStep == RuntimeInv /\ [Next]_vars => RuntimeInv'
BY TypeStep, CallStep, RefsStep, EntitledStep, NothingLostStep, ExecutedStep, ResolvedOnceStep, UnspentStep
   DEF RuntimeInv

\* RuntimeInv is an invariant of the runtime.
THEOREM RuntimeInvariant == Spec => []RuntimeInv
BY InitInv, InvStep, PTL DEF Spec

\* Every variable keeps its type.
THEOREM TypeCorrect == Spec => []TypeOK
<1>1. RuntimeInv => TypeOK
  BY DEF RuntimeInv
<1> QED  BY <1>1, RuntimeInvariant, PTL

\* Whatever requests race and whenever the process restarts, an approved
\* snapshot is only executed by a request that approved it while it was pending.
THEOREM OnlyGrantedIsExecuted == Spec => []ExecutedWasGranted
<1>1. RuntimeInv => ExecutedWasGranted
  BY DEF RuntimeInv
<1> QED  BY <1>1, RuntimeInvariant, PTL

\* Until the process restarts, racing requests resolve an approval once.
THEOREM OneResolution == Spec => []ResolvedOnce
<1>1. RuntimeInv => ResolvedOnce
  BY DEF RuntimeInv
<1> QED  BY <1>1, RuntimeInvariant, PTL

\* Until the process restarts no snapshot is executed twice.
THEOREM OneExecution == Spec => [](crashes = 0 => ExecutedAtMostOnce)
<1>1. RuntimeInv => (crashes = 0 => ExecutedAtMostOnce)
  BY DEF RuntimeInv, ResolvedOnce, ExecutedWasGranted, ExecutedAtMostOnce
<1> QED  BY <1>1, RuntimeInvariant, PTL

-----------------------------------------------------------------------------

\* A step of a process that is not restarted is a step of the lifecycle of one
\* approval, or none: the refinement mapping Phase is shown to follow it.
LEMMA LifecycleStep ==
    ASSUME MaxCrashes = 0, RuntimeInv, [Next]_vars
    PROVE  [Lifecycle!Next]_Phase
<1> USE DEF RuntimeInv
<1>1. CASE UNCHANGED vars
  BY <1>1 DEF vars, runVars, centerVars, Phase
<1> SUFFICES ASSUME Next PROVE [Lifecycle!Next]_Phase
  BY <1>1
<1>c. ~Crash /\ crashes = 0
  BY DEF Crash, TypeOK
<1>t. /\ center \in [Approvals -> ApprovalStatus \cup {"absent"}]
      /\ owner \in [Approvals -> {{}} \cup {{r} : r \in Runs \cup {NoRun}}]
      /\ executed \in [Approvals -> SUBSET Deed]
  BY DEF TypeOK, CenterTypeOK
<1>i. /\ \A a \in Approvals : Issued(a) <=> center[a] # "absent"
      /\ \A a \in Approvals : Fresh(a) => granted[a] = {}
      /\ \A q \in Requests : pc[q] \notin {"steps", "put"}
  BY <1>c DEF NothingLost
<1>e. \A a \in Approvals : center[a] \in {"pending", "rejected", "absent"} => executed[a] = {}
  BY <1>c, <1>i DEF ResolvedOnce, ExecutedWasGranted, Issued
\* A change of one approval's phase is what the lifecycle allows.
<1>m. ASSUME NEW a \in Approvals, NEW from, NEW to, Phase[a] = from,
             Phase' = [Phase EXCEPT ![a] = to],
             <<from, to>> \in {<<"none", "pending">>, <<"pending", "approved">>,
                                <<"pending", "rejected">>, <<"approved", "executed">>}
      PROVE  Lifecycle!Next
  BY <1>m DEF Lifecycle!Next, Lifecycle!Request, Lifecycle!Approve, Lifecycle!Reject,
     Lifecycle!Execute, Lifecycle!Move
<1>2. CASE UNCHANGED Gate
  BY <1>2 DEF Gate, centerVars, Phase
<1>3. CASE Created
  <2>1. PICK a \in Approvals : \E r : Create(a, r) /\ UNCHANGED executed
    BY <1>3 DEF Created
  <2>2. Phase[a] = "none"
    BY <1>i, <1>e, <2>1 DEF Create, Issued, Phase
  <2>3. Phase' = [Phase EXCEPT ![a] = "pending"]
    BY <1>t, <1>i, <1>e, <2>1 DEF Create, Issued, Phase
  <2> QED  BY <1>m, <2>2, <2>3
<1>4. CASE Resolved
  <2>1. PICK a \in Approvals, ok \in BOOLEAN : resolve(a, ok) /\ UNCHANGED executed
    BY <1>4 DEF Resolved
  <2>2. Phase[a] = "pending"
    BY <1>e, <2>1 DEF resolve, Resolvable, Phase
  <2>3. Phase' = [Phase EXCEPT ![a] = IF ok THEN "approved" ELSE "rejected"]
    BY <1>t, <1>e, <2>1 DEF resolve, Resolvable, Phase
  <2> QED  BY <1>m, <2>2, <2>3
<1>5. CASE Executed
  <2>1. PICK a \in Approvals, q \in Requests :
           /\ pc[q] \in Entitled /\ call[q].appr = a
           /\ executed' = [executed EXCEPT ![a] = @ \cup {Now(q)}]
           /\ UNCHANGED centerVars
    BY <1>5 DEF Executed
  <2>2. Now(q) \in granted[a] /\ Now(q) \notin executed[a]
    BY <1>c, <2>1 DEF EntitledWasGranted, Unspent
  <2>3. executed[a] = {}
    BY <1>c, <2>2 DEF ResolvedOnce, ExecutedWasGranted
  <2>4. center[a] = "approved"
    BY <1>t, <1>c, <1>i, <2>2 DEF ResolvedOnce, ApprovalStatus, Issued
  <2>5. Phase[a] = "approved"
    BY <2>3, <2>4 DEF Phase
  <2>6. Phase' = [Phase EXCEPT ![a] = "executed"]
    BY <1>t, <2>1 DEF Phase, centerVars
  <2> QED  BY <1>m, <2>5, <2>6
<1>6. ~Hydrated
  BY <1>i DEF Hydrated, PutCopy
<1> QED  BY <1>c, <1>2, <1>3, <1>4, <1>5, <1>6, GateStep

\* As long as the process is not restarted the runtime implements the
\* lifecycle of an approval.
THEOREM Refinement == ASSUME MaxCrashes = 0 PROVE Spec => ImplementsLifecycle
<1>1. Init => Lifecycle!Init
  BY DEF Init, CenterInit, Phase, Lifecycle!Init
<1>2. RuntimeInv /\ [Next]_vars => [Lifecycle!Next]_Phase
  BY LifecycleStep
<1> QED  BY <1>1, <1>2, RuntimeInvariant, PTL DEF Spec, ImplementsLifecycle, Lifecycle!Spec

=============================================================================
