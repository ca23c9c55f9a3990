------------------------ MODULE AgentRuntime_history -------------------------
(***************************************************************************)
(* What is proved of the records AgentRuntime keeps, for every value of    *)
(* the constants: the step history says of each approval what became of    *)
(* it before its snapshot is executed and in the order in which it became  *)
(* so, which is what a later life of the process is told of it.            *)
(*                                                                         *)
(* The first part says of each action what it does to the request that     *)
(* takes it and to its run (a Move); the proofs of the history and of the  *)
(* step limit, in the second half, go by these moves.                      *)
(*                                                                         *)
(* The step limit: until the process restarts a run executes at most       *)
(* MaxSteps tools, whatever requests race for its approvals and whatever   *)
(* store calls fail.  And, where nothing fails and nobody cancels, a       *)
(* paused run can be resumed.                                              *)
(***************************************************************************)
EXTENDS AgentRuntime_proofs

-----------------------------------------------------------------------------
(* What each step does, request by request and run by run *)

\* Of the requests but q nothing changes.
Alone(q) ==
    \A x \in Requests \ {q} : UNCHANGED <<pc[x], st[x], call[x], copy[x]>>

\* The state of q's run is saved, or is not.
Saves(q) ==
    /\ \A r \in Runs \ {call[q].run} : UNCHANGED store[r]
    /\ call[q].run \in Runs =>
          UNCHANGED store[call[q].run] \/ store'[call[q].run] = st'[q]

\* The step that recordStep writes.
StepOf(q) ==
    [idx |-> st[q].idx + 1, ast |-> Carried[pc[q]],
     appr |-> IF pc[q] = "rec_request" THEN call[q].new ELSE call[q].appr]

\* A store call that fails is counted.
LEMMA FaultCounts == TypeOK /\ Fault => faults' # faults
BY RuntimeAssumption DEF TypeOK, Fault

\* recordStep counts one more step; the approval's status is written with it.
RecordMove(q) ==
    /\ Alone(q) /\ Saves(q)
    /\ UNCHANGED <<centerVars, call, copy, crashes, granted, executed, calls>>
    /\ pc[q] \in DOMAIN AfterRecord
    /\ st'[q].idx = st[q].idx + 1
    /\ st'[q].status = st[q].status
    /\ st'[q].count = st[q].count
    /\ st'[q].appr = st[q].appr
    /\ \A r \in Runs :
          /\ steps[r] \subseteq steps'[r]
          /\ \A s \in steps'[r] \ steps[r] :
                r = call[q].run /\ pc[q] \in DOMAIN Carried /\ s = StepOf(q)
    /\ \/ /\ pc'[q] = AfterRecord[pc[q]]
          /\ call[q].run \in Runs => store'[call[q].run] = st'[q]
          /\ pc[q] \in DOMAIN Carried => StepOf(q) \in steps'[call[q].run]
       \/ /\ pc'[q] \in {"rec_fail", OnError(q)}
          /\ pc'[q] # "rec_fail" => pc[q] \in {"rec_fail", "rec_cancel"}
          /\ UNCHANGED store /\ faults' # faults

\* The action recordStep makes that move.
LEMMA RecordEffect ==
    ASSUME TypeOK, CallOK, NEW q \in Requests, recordStep(q)
    PROVE  RecordMove(q)
<1> DEFINE s == [st[q] EXCEPT !.idx = @ + 1]
           new == IF pc[q] \in DOMAIN Carried THEN {StepOf(q)} ELSE {}
           r == call[q].run
<1>t. /\ pc \in [Requests -> Stages] /\ st \in [Requests -> RunState]
      /\ store \in [Runs -> RunState] /\ steps \in [Runs -> SUBSET Step]
  BY DEF TypeOK
<1>1. s.idx = st[q].idx + 1 /\ s.status = st[q].status /\ s.count = st[q].count /\ s.appr = st[q].appr
  BY <1>t DEF RunState
<1>2. r \in Runs /\ pc[q] \in DOMAIN AfterRecord
  BY StageFlow DEF recordStep, CallOK, CallFits
<1>3. /\ st' = [st EXCEPT ![q] = s]
      /\ \/ /\ store' = [store EXCEPT ![r] = s]
            /\ steps' = [steps EXCEPT ![r] = @ \cup new]
            /\ pc' = [pc EXCEPT ![q] = AfterRecord[pc[q]]]
         \/ /\ \E written \in {{}, new} : steps' = [steps EXCEPT ![r] = @ \cup written]
            /\ pc' = [pc EXCEPT ![q] = IF pc[q] \in {"rec_fail", "rec_cancel"}
                                       THEN OnError(q) ELSE "rec_fail"]
            /\ UNCHANGED store /\ faults' # faults
      /\ UNCHANGED <<centerVars, call, copy, crashes, granted, executed, calls>>
  BY <1>1, FaultCounts DEF recordStep, Save, Goto, StepOf
<1> HIDE DEF s, r
<1>4. st'[q] = s /\ Alone(q)
  BY <1>t, <1>3 DEF Alone
<1>5. \E w \in {{}, new} : steps' = [steps EXCEPT ![r] = @ \cup w]
  BY <1>3
<1>6. \A p \in Runs : /\ steps[p] \subseteq steps'[p]
                      /\ \A x \in steps'[p] \ steps[p] : p = r /\ x \in new
  BY <1>t, <1>2, <1>5
<1> HIDE DEF new
<1>7. Saves(q)
  BY <1>t, <1>2, <1>3, <1>4 DEF Saves, r
<1>8. \/ /\ pc'[q] = AfterRecord[pc[q]] /\ store'[r] = s /\ new \subseteq steps'[r]
      \/ /\ pc'[q] = IF pc[q] \in {"rec_fail", "rec_cancel"} THEN OnError(q) ELSE "rec_fail"
         /\ UNCHANGED store /\ faults' # faults
  BY <1>t, <1>2, <1>3
<1> QED  BY <1>1, <1>2, <1>3, <1>4, <1>6, <1>7, <1>8 DEF new, r, RecordMove

\* A transition gives the run its next status, which may not be saved.
TransitionMove(q) ==
    /\ Alone(q) /\ Saves(q)
    /\ UNCHANGED <<centerVars, steps, call, copy, crashes, granted, executed, calls>>
    /\ pc[q] \in DOMAIN Entered
    /\ pc'[q] = AfterEntered(q)[pc[q]]
    /\ st'[q].idx = st[q].idx
    /\ st'[q].status = Entered[pc[q]]
    /\ st'[q].count = st[q].count
    /\ st'[q].appr = st[q].appr
    /\ UNCHANGED faults => store'[call[q].run] = st'[q]

\* The action transition makes that move.
LEMMA TransitionEffect ==
    ASSUME TypeOK, CallOK, NEW q \in Requests, transition(q)
    PROVE  TransitionMove(q)
<1> DEFINE s == [st[q] EXCEPT !.status = Entered[pc[q]]]
           r == call[q].run
<1>t. /\ pc \in [Requests -> Stages] /\ st \in [Requests -> RunState]
      /\ store \in [Runs -> RunState]
  BY DEF TypeOK
<1>1. s.idx = st[q].idx /\ s.status = Entered[pc[q]] /\ s.count = st[q].count /\ s.appr = st[q].appr
  BY <1>t DEF RunState
<1>2. r \in Runs /\ pc[q] \in DOMAIN Entered
  BY StageFlow DEF transition, CallOK, CallFits
<1>3. /\ st' = [st EXCEPT ![q] = s]
      /\ store' = [store EXCEPT ![r] = s] \/ UNCHANGED store
      /\ UNCHANGED faults => store' = [store EXCEPT ![r] = s]
      /\ pc' = [pc EXCEPT ![q] = AfterEntered(q)[pc[q]]]
      /\ UNCHANGED <<centerVars, steps, call, copy, crashes, granted, executed, calls>>
  BY FaultCounts DEF transition, Save, Goto
<1> HIDE DEF s, r
<1>4. st'[q] = s /\ Alone(q) /\ pc'[q] = AfterEntered(q)[pc[q]]
  BY <1>t, <1>3 DEF Alone
<1>5. Saves(q) /\ (UNCHANGED faults => store'[r] = s)
  BY <1>t, <1>2, <1>3, <1>4 DEF Saves, r
<1> QED  BY <1>1, <1>2, <1>3, <1>4, <1>5 DEF r, TransitionMove

\* The head of the loop counts a step, unless the limit is reached.
PlanMove(q) ==
    /\ Alone(q)
    /\ UNCHANGED <<centerVars, store, steps, call, copy, crashes, granted, executed, calls>>
    /\ pc[q] = "loop"
    /\ st'[q].idx = st[q].idx
    /\ st'[q].status = st[q].status
    /\ st'[q].appr = st[q].appr
    /\ \/ pc'[q] = "rec_fail" /\ st'[q].count = st[q].count
       \/ /\ pc'[q] \in {"rec_plan", "rec_fail"}
          /\ st[q].count < MaxSteps
          /\ st'[q].count = st[q].count + 1

\* The action PlanStep makes that move.
LEMMA PlanEffect ==
    ASSUME TypeOK, NEW q \in Requests, PlanStep(q)
    PROVE  PlanMove(q)
<1> DEFINE s == [st[q] EXCEPT !.count = @ + 1]
<1>t. pc \in [Requests -> Stages] /\ st \in [Requests -> RunState]
  BY DEF TypeOK
<1>1. s.idx = st[q].idx /\ s.status = st[q].status /\ s.count = st[q].count + 1 /\ s.appr = st[q].appr
  BY <1>t DEF RunState
<1>2. /\ pc[q] = "loop"
      /\ \/ UNCHANGED st /\ pc' = [pc EXCEPT ![q] = "rec_fail"]
         \/ /\ st[q].count < MaxSteps
            /\ st' = [st EXCEPT ![q] = s]
            /\ \E p \in {"rec_plan", "rec_fail"} : pc' = [pc EXCEPT ![q] = p]
      /\ UNCHANGED <<centerVars, store, steps, call, copy, crashes, granted, executed, calls>>
  BY <1>t, RuntimeAssumption DEF PlanStep, Goto, RunState
<1> HIDE DEF s
<1>3. Alone(q)
  BY <1>t, <1>2 DEF Alone
<1> QED  BY <1>t, <1>1, <1>2, <1>3 DEF PlanMove

\* The run takes the id of the approval that was asked for.
OutcomeMove(q) ==
    /\ Alone(q)
    /\ UNCHANGED <<centerVars, store, steps, call, copy, crashes, granted, executed, calls>>
    /\ pc[q] = "outcome"
    /\ st'[q].idx = st[q].idx
    /\ st'[q].status = st[q].status
    /\ st'[q].count = st[q].count
    /\ \/ /\ call[q].outcome = "approval" /\ pc'[q] = "rec_request"
          /\ st'[q].appr = call[q].new
       \/ /\ call[q].outcome # "approval" /\ pc'[q] = "rec_exec"
          /\ st'[q].appr = st[q].appr

\* The action TakeOutcome makes that move.
LEMMA OutcomeEffect ==
    ASSUME TypeOK, NEW q \in Requests, TakeOutcome(q)
    PROVE  OutcomeMove(q)
<1> DEFINE s == [st[q] EXCEPT !.appr = call[q].new]
<1>t. pc \in [Requests -> Stages] /\ st \in [Requests -> RunState]
  BY DEF TypeOK
<1>1. s.idx = st[q].idx /\ s.status = st[q].status /\ s.count = st[q].count /\ s.appr = call[q].new
  BY <1>t DEF RunState
<1>2. /\ pc[q] = "outcome"
      /\ \/ /\ call[q].outcome = "approval" /\ st' = [st EXCEPT ![q] = s]
            /\ pc' = [pc EXCEPT ![q] = "rec_request"]
         \/ /\ call[q].outcome # "approval" /\ UNCHANGED st
            /\ pc' = [pc EXCEPT ![q] = "rec_exec"]
      /\ UNCHANGED <<centerVars, store, steps, call, copy, crashes, granted, executed, calls>>
  BY DEF TakeOutcome, Goto
<1> HIDE DEF s
<1>3. Alone(q)
  BY <1>t, <1>2 DEF Alone
<1> QED  BY <1>t, <1>1, <1>2, <1>3 DEF OutcomeMove

\* The run lets go of its approval, and must have that saved to go on.
ClearMove(q) ==
    /\ Alone(q) /\ Saves(q)
    /\ UNCHANGED <<centerVars, steps, call, copy, crashes, granted, executed, calls>>
    /\ pc[q] = "clear"
    /\ pc'[q] \in {"loop", OnError(q)}
    /\ pc'[q] # "loop" => UNCHANGED store
    /\ UNCHANGED faults => pc'[q] = "loop" /\ store'[call[q].run] = st'[q]
    /\ st'[q].idx = st[q].idx
    /\ st'[q].status = st[q].status
    /\ st'[q].count = st[q].count
    /\ st'[q].appr = NoApproval

\* The action ClearApproval makes that move.
LEMMA ClearEffect ==
    ASSUME TypeOK, CallOK, NEW q \in Requests, ClearApproval(q)
    PROVE  ClearMove(q)
<1> DEFINE s == [st[q] EXCEPT !.appr = NoApproval]
           r == call[q].run
<1>t. /\ pc \in [Requests -> Stages] /\ st \in [Requests -> RunState]
      /\ store \in [Runs -> RunState]
  BY DEF TypeOK
<1>1. s.idx = st[q].idx /\ s.status = st[q].status /\ s.count = st[q].count /\ s.appr = NoApproval
  BY <1>t DEF RunState
<1>2. r \in Runs /\ pc[q] = "clear"
  BY DEF ClearApproval, CallOK, CallFits, Unattached
<1>3. /\ st' = [st EXCEPT ![q] = s]
      /\ \/ store' = [store EXCEPT ![r] = s] /\ pc' = [pc EXCEPT ![q] = "loop"]
         \/ UNCHANGED store /\ pc' = [pc EXCEPT ![q] = OnError(q)] /\ faults' # faults
      /\ UNCHANGED <<centerVars, steps, call, copy, crashes, granted, executed, calls>>
  BY FaultCounts DEF ClearApproval, Save, Goto
<1> HIDE DEF s, r
<1>4. st'[q] = s /\ Alone(q)
  BY <1>t, <1>3 DEF Alone
<1>5. \/ pc'[q] = "loop" /\ store'[r] = s
      \/ pc'[q] = OnError(q) /\ UNCHANGED store /\ faults' # faults
  BY <1>t, <1>2, <1>3
<1>6. Saves(q)
  BY <1>t, <1>2, <1>3, <1>4 DEF Saves, r
<1> QED  BY <1>1, <1>2, <1>3, <1>4, <1>5, <1>6 DEF r, ClearMove

\* ResumeRun goes on with the state of a run that is paused for the approval.
LoadMove(q) ==
    /\ Alone(q)
    /\ UNCHANGED <<centerVars, store, steps, call, copy, crashes, granted, executed, calls>>
    /\ pc[q] = "load"
    /\ \/ /\ pc'[q] = "hydrate"
          /\ Paused(call[q].run, call[q].appr)
          /\ st'[q] = store[call[q].run]
       \/ pc'[q] = OnError(q) /\ UNCHANGED st

\* The action LoadPaused makes that move.
LEMMA LoadEffect ==
    ASSUME TypeOK, NEW q \in Requests, LoadPaused(q)
    PROVE  LoadMove(q)
<1>t. pc \in [Requests -> Stages] /\ st \in [Requests -> RunState]
  BY DEF TypeOK
<1>1. /\ pc[q] = "load"
      /\ \/ /\ Paused(call[q].run, call[q].appr)
            /\ st' = [st EXCEPT ![q] = store[call[q].run]]
            /\ pc' = [pc EXCEPT ![q] = "hydrate"]
         \/ UNCHANGED st /\ pc' = [pc EXCEPT ![q] = OnError(q)]
      /\ UNCHANGED <<centerVars, store, steps, call, copy, crashes, granted, executed, calls>>
  BY DEF LoadPaused, Goto
<1>2. Alone(q)
  BY <1>t, <1>1 DEF Alone
<1> QED  BY <1>t, <1>1, <1>2 DEF LoadMove

\* CancelRun goes on with the state of a run that is not finished.
CancelMove(q) ==
    /\ Alone(q)
    /\ UNCHANGED <<centerVars, store, steps, call, copy, crashes, granted, executed, calls>>
    /\ pc[q] = "cancel"
    /\ \/ pc'[q] = "done" /\ UNCHANGED st
       \/ /\ pc'[q] \in {"rec_cancel", "cancel_reject"}
          /\ pc'[q] = "cancel_reject" <=> store[call[q].run].appr # NoApproval
          /\ st'[q] = store[call[q].run]

\* The action LoadForCancel makes that move.
LEMMA CancelEffect ==
    ASSUME TypeOK, NEW q \in Requests, LoadForCancel(q)
    PROVE  CancelMove(q)
<1>t. pc \in [Requests -> Stages] /\ st \in [Requests -> RunState]
  BY DEF TypeOK
<1>1. /\ pc[q] = "cancel"
      /\ \/ UNCHANGED st /\ pc' = [pc EXCEPT ![q] = "done"]
         \/ /\ st' = [st EXCEPT ![q] = store[call[q].run]]
            /\ pc' = [pc EXCEPT ![q] = IF store[call[q].run].appr = NoApproval THEN "rec_cancel"
                                       ELSE "cancel_reject"]
      /\ UNCHANGED <<centerVars, store, steps, call, copy, crashes, granted, executed, calls>>
  BY DEF LoadForCancel, Goto
<1>2. Alone(q)
  BY <1>t, <1>1 DEF Alone
<1> QED  BY <1>t, <1>1, <1>2 DEF CancelMove

\* ResumeApproval finds the run by the record, or by who waits for the id.
LookupMove(q) ==
    /\ Alone(q)
    /\ UNCHANGED <<centerVars, store, steps, st, copy, crashes, granted, executed, calls>>
    /\ pc[q] = "lookup"
    /\ \/ pc'[q] = OnError(q) /\ UNCHANGED call
       \/ /\ pc'[q] = "load"
          /\ call'[q].run \in Runs
          /\ \/ owner[call[q].appr] = {call'[q].run}
             \/ Paused(call'[q].run, call[q].appr)
    /\ call'[q].entry = call[q].entry
    /\ call'[q].appr = call[q].appr
    /\ call'[q].new = call[q].new
    /\ call'[q].outcome = call[q].outcome

\* The action ResumeApproval makes that move.
LEMMA LookupEffect ==
    ASSUME TypeOK, CallOK, NEW q \in Requests, ResumeApproval(q)
    PROVE  LookupMove(q)
<1> DEFINE a == call[q].appr
           c(r) == [call[q] EXCEPT !.run = r]
           named == center[a] # "absent" /\ owner[a] # {NoRun}
           waiting == {r \in Runs : Paused(r, a)}
<1>t. /\ pc \in [Requests -> Stages] /\ call \in [Requests -> Call]
      /\ owner \in [Approvals -> {{}} \cup {{r} : r \in Runs \cup {NoRun}}]
  BY DEF TypeOK, CenterTypeOK
<1>1. \A r : c(r).run = r /\ c(r).entry = call[q].entry /\ c(r).appr = a
             /\ c(r).new = call[q].new /\ c(r).outcome = call[q].outcome
  BY <1>t DEF Call
<1>2. pc[q] = "lookup" /\ a \in Approvals
  BY DEF ResumeApproval, CallOK, CallFits, AtApproval
<1>3. UNCHANGED <<centerVars, store, steps, st, copy, crashes, granted, executed, calls>>
  BY DEF ResumeApproval
<1>4. \/ pc' = [pc EXCEPT ![q] = OnError(q)] /\ UNCHANGED call
      \/ \E r \in (IF named THEN owner[a] ELSE waiting) :
            /\ call' = [call EXCEPT ![q] = c(r)]
            /\ pc' = [pc EXCEPT ![q] = "load"]
  BY DEF ResumeApproval, Goto
<1>5. \A r \in (IF named THEN owner[a] ELSE waiting) :
         r \in Runs /\ (owner[a] = {r} \/ Paused(r, a))
  BY <1>t, <1>2
<1> HIDE DEF c, a, named, waiting
<1>6. Alone(q)
  BY <1>t, <1>3, <1>4 DEF Alone
<1>7. \/ pc'[q] = OnError(q) /\ UNCHANGED call
      \/ \E r \in (IF named THEN owner[a] ELSE waiting) : call'[q] = c(r) /\ pc'[q] = "load"
  BY <1>t, <1>4
<1> QED  BY <1>1, <1>2, <1>3, <1>5, <1>6, <1>7 DEF a, LookupMove

\* A proposal fails, asks for an approval, is refused, or is executed at once.
ProposeMove(q) ==
    /\ Alone(q)
    /\ UNCHANGED <<store, steps, st, copy, crashes, granted, executed>>
    /\ pc[q] = "propose"
    /\ \/ pc'[q] = "rec_fail" /\ UNCHANGED call /\ UNCHANGED centerVars
       \/ \E a \in Approvals :
             /\ pc'[q] = "rec_infer" /\ Create(a, call[q].run) /\ UNCHANGED calls
             /\ call'[q].new = a /\ call'[q].outcome = "approval"
       \/ /\ pc'[q] = "rec_infer" /\ UNCHANGED centerVars
          /\ call'[q].new = call[q].new /\ call'[q].outcome \in {"ok", "error"}
    /\ call'[q].entry = call[q].entry
    /\ call'[q].run = call[q].run
    /\ call'[q].appr = call[q].appr
    /\ \A r \in Runs \ {call[q].run} : UNCHANGED calls[r]
    /\ calls'[call[q].run] \in {calls[call[q].run], calls[call[q].run] + 1}

\* The action ProposeTool makes that move.
LEMMA ProposeEffect ==
    ASSUME TypeOK, CallOK, NEW q \in Requests, ProposeTool(q)
    PROVE  ProposeMove(q)
<1> DEFINE r == call[q].run
           asked(a) == [call[q] EXCEPT !.new = a, !.outcome = "approval"]
           got(x) == [call[q] EXCEPT !.outcome = x]
<1>t. /\ pc \in [Requests -> Stages] /\ call \in [Requests -> Call]
      /\ calls \in [Runs -> Nat]
  BY DEF TypeOK
<1>1. /\ \A a : /\ asked(a).run = r /\ asked(a).entry = call[q].entry
                /\ asked(a).appr = call[q].appr
                /\ asked(a).new = a /\ asked(a).outcome = "approval"
      /\ \A x : /\ got(x).run = r /\ got(x).entry = call[q].entry
                /\ got(x).appr = call[q].appr
                /\ got(x).new = call[q].new /\ got(x).outcome = x
  BY <1>t DEF Call
<1>2. pc[q] = "propose" /\ r \in Runs
  BY DEF ProposeTool, CallOK, CallFits, Unattached
<1>3. UNCHANGED <<store, steps, st, copy, crashes, granted, executed>>
  BY DEF ProposeTool
<1>4. /\ \/ /\ UNCHANGED call /\ UNCHANGED centerVars
            /\ pc' = [pc EXCEPT ![q] = "rec_fail"]
         \/ \E a \in Approvals :
               /\ Create(a, r) /\ call' = [call EXCEPT ![q] = asked(a)]
               /\ pc' = [pc EXCEPT ![q] = "rec_infer"] /\ UNCHANGED calls
         \/ /\ \E x \in {"ok", "error"} : call' = [call EXCEPT ![q] = got(x)]
            /\ pc' = [pc EXCEPT ![q] = "rec_infer"] /\ UNCHANGED centerVars
      /\ \E ran \in {0, 1} : calls' = [calls EXCEPT ![r] = @ + ran]
  <2>1. UNCHANGED calls => calls' = [calls EXCEPT ![r] = @ + 0]
    BY <1>t, <1>2
  <2> QED  BY <2>1 DEF ProposeTool, Goto
<1> HIDE DEF r, asked, got
<1>5. /\ \A p \in Runs \ {r} : UNCHANGED calls[p]
      /\ calls'[r] \in {calls[r], calls[r] + 1}
  <2>1. calls[r] \in Nat
    BY <1>t, <1>2
  <2>2. PICK ran \in {0, 1} : calls' = [calls EXCEPT ![r] = @ + ran]
    BY <1>4
  <2>3. calls'[r] = calls[r] + ran /\ \A p \in Runs \ {r} : calls'[p] = calls[p]
    BY <1>t, <1>2, <2>2
  <2> QED  BY <2>1, <2>3
<1>6. Alone(q)
  BY <1>t, <1>3, <1>4 DEF Alone
<1>7. \/ pc'[q] = "rec_fail" /\ UNCHANGED call /\ UNCHANGED centerVars
      \/ \E a \in Approvals : /\ pc'[q] = "rec_infer" /\ Create(a, r) /\ call'[q] = asked(a)
                              /\ UNCHANGED calls
      \/ \E x \in {"ok", "error"} : pc'[q] = "rec_infer" /\ UNCHANGED centerVars /\ call'[q] = got(x)
  BY <1>t, <1>4
<1> QED  BY <1>1, <1>2, <1>3, <1>5, <1>6, <1>7 DEF r, ProposeMove

\* The other steps that only lead the request to its next stage.
StageMove(q) ==
    /\ Alone(q) /\ UNCHANGED <<st[q], call[q], copy[q]>>
    /\ UNCHANGED <<centerVars, store, steps, call, st, copy, crashes, granted, executed, calls>>
    /\ \/ pc[q] \in DOMAIN AfterReply /\ pc'[q] \in {AfterReply[pc[q]], "rec_fail"}
       \/ pc[q] = "message" /\ pc'[q] \in {"rec_context", "rec_fail"}
       \/ pc[q] = "message" /\ pc'[q] = "done" /\ faults' # faults
       \/ pc[q] = "decide" /\ pc'[q] \in {"rec_continue", "rec_summary", "rec_propose", "rec_fail"}
       \/ pc[q] = "hydrate" /\ pc'[q] = "steps" /\ center[call[q].appr] = "absent"
       \/ pc[q] = "hydrate" /\ pc'[q] = "done"
       \/ pc[q] = "hydrate" /\ pc'[q] = OnError(q)
       \/ /\ pc[q] = "hydrate" /\ pc'[q] = "resolve"
          /\ center[call[q].appr] # "absent" /\ owner[call[q].appr] = {call[q].run}
          /\ call[q].entry # "pending"
       \/ pc[q] = "check" /\ pc'[q] = "execute" /\ center[call[q].appr] = "approved"
       \/ pc[q] = "check" /\ pc'[q] = "rec_execfail"
       \/ pc[q] = "direct_check" /\ pc'[q] \in {"direct_execute", "done"}

\* These are the actions that make that move.
LEMMA StageEffect ==
    ASSUME TypeOK, NEW q \in Requests,
           \/ persistAssistant(q) \/ ReadMessage(q) \/ FollowPlan(q) \/ GetApproval(q)
           \/ ExecuteApproved(q) \/ DirectExecuteApproved(q)
    PROVE  StageMove(q)
<1>t. pc \in [Requests -> Stages]
  BY DEF TypeOK
<1>1. UNCHANGED <<centerVars, store, steps, call, st, copy, crashes, granted, executed, calls>>
  BY DEF persistAssistant, ReadMessage, FollowPlan, GetApproval, ExecuteApproved,
     DirectExecuteApproved, Local
<1>2. ASSUME NEW p, Goto(q, p) PROVE pc'[q] = p /\ Alone(q)
  BY <1>t, <1>1, <1>2 DEF Goto, Alone
<1>3. CASE persistAssistant(q)
  BY <1>1, <1>2, <1>3 DEF persistAssistant, StageMove
<1>4. CASE ReadMessage(q) \/ FollowPlan(q)
  BY <1>1, <1>2, <1>4, FaultCounts DEF ReadMessage, FollowPlan, Local, StageMove
<1>5. CASE GetApproval(q)
  BY <1>1, <1>2, <1>5 DEF GetApproval, Local, StageMove
<1>6. CASE ExecuteApproved(q) \/ DirectExecuteApproved(q)
  BY <1>1, <1>2, <1>6 DEF ExecuteApproved, DirectExecuteApproved, Local, StageMove
<1> QED  BY <1>3, <1>4, <1>5, <1>6

\* The copy is read from the last step that carries the approval.
ReadMove(q) ==
    /\ Alone(q)
    /\ UNCHANGED <<centerVars, store, steps, call, st, crashes, granted, executed, calls>>
    /\ pc[q] = "steps"
    /\ \/ pc'[q] = OnError(q) /\ UNCHANGED copy
       \/ /\ pc'[q] = "put"
          /\ \E s \in steps[call[q].run] :
                /\ s.appr = call[q].appr /\ copy'[q] = s.ast
                /\ \A t \in steps[call[q].run] : t.appr = call[q].appr => t.idx <= s.idx

\* The action ReadSteps makes that move.
LEMMA ReadEffect ==
    ASSUME TypeOK, NEW q \in Requests, ReadSteps(q)
    PROVE  ReadMove(q)
<1>t. pc \in [Requests -> Stages] /\ copy \in [Requests -> ApprovalStatus]
  BY DEF TypeOK
<1>1. /\ pc[q] = "steps"
      /\ \/ pc' = [pc EXCEPT ![q] = OnError(q)] /\ UNCHANGED copy
         \/ \E s \in steps[call[q].run] :
               /\ s.appr = call[q].appr
               /\ \A t \in steps[call[q].run] : t.appr = call[q].appr => t.idx <= s.idx
               /\ copy' = [copy EXCEPT ![q] = s.ast]
               /\ pc' = [pc EXCEPT ![q] = "put"]
      /\ UNCHANGED <<centerVars, store, steps, call, st, crashes, granted, executed, calls>>
  BY DEF ReadSteps, Goto
<1>2. Alone(q)
  BY <1>t, <1>1 DEF Alone
<1> QED  BY <1>t, <1>1, <1>2 DEF ReadMove

\* The center is given that copy.
PutMove(q) ==
    /\ Alone(q)
    /\ UNCHANGED <<owner, store, steps, call, st, copy, crashes, granted, executed, calls>>
    /\ UNCHANGED <<st[q], call[q], copy[q]>>
    /\ pc[q] = "put"
    /\ pc'[q] = IF call[q].entry = "pending" THEN "done" ELSE "resolve"
    /\ call[q].appr \in Approvals
    /\ center'[call[q].appr] = copy[q]
    /\ \A a \in Approvals \ {call[q].appr} : UNCHANGED center[a]

\* The action PutCopy makes that move.
LEMMA PutEffect ==
    ASSUME TypeOK, CallOK, NEW q \in Requests, PutCopy(q)
    PROVE  PutMove(q)
<1>t. /\ pc \in [Requests -> Stages]
      /\ center \in [Approvals -> ApprovalStatus \cup {"absent"}]
  BY DEF TypeOK, CenterTypeOK
<1>1. pc[q] = "put" /\ call[q].appr \in Approvals
  BY DEF PutCopy, CallOK, CallFits, AtApproval
<1>2. /\ center' = [center EXCEPT ![call[q].appr] = copy[q]]
      /\ pc' = [pc EXCEPT ![q] = IF call[q].entry = "pending" THEN "done" ELSE "resolve"]
      /\ UNCHANGED <<owner, store, steps, call, st, copy, crashes, granted, executed, calls>>
  BY DEF PutCopy, Hydrate, Goto
<1>3. Alone(q)
  BY <1>t, <1>2 DEF Alone
<1> QED  BY <1>t, <1>1, <1>2, <1>3 DEF PutMove

\* Approve or Reject; of a record that is resolved already nothing changes.
ResolveMove(q) ==
    /\ Alone(q)
    /\ UNCHANGED <<owner, store, steps, call, st, copy, crashes, executed, calls>>
    /\ UNCHANGED <<st[q], call[q], copy[q]>>
    /\ pc[q] \in {"resolve", "direct"}
    /\ call[q].appr \in Approvals
    /\ \/ /\ center[call[q].appr] = "pending" /\ call[q].approved
          /\ center'[call[q].appr] = "approved"
          /\ \A a \in Approvals \ {call[q].appr} : UNCHANGED <<center[a], granted[a]>>
          /\ granted'[call[q].appr] = granted[call[q].appr] \cup {Now(q)}
          /\ pc'[q] = IF pc[q] = "resolve" THEN "rec_approved" ELSE "direct_check"
       \/ /\ center[call[q].appr] = "pending"
          /\ center'[call[q].appr] = "rejected"
          /\ \A a \in Approvals \ {call[q].appr} : UNCHANGED center[a]
          /\ UNCHANGED granted
          /\ pc'[q] = IF pc[q] = "resolve" THEN "rec_rejected" ELSE "done"
       \/ /\ center[call[q].appr] # "pending"
          /\ UNCHANGED center /\ UNCHANGED granted
          /\ pc'[q] = IF pc[q] = "resolve" THEN "rec_fail" ELSE "done"

\* The actions ResolveRun and DirectResolve make that move.
LEMMA ResolveEffect ==
    ASSUME TypeOK, CallOK, NEW q \in Requests, ResolveRun(q) \/ DirectResolve(q)
    PROVE  ResolveMove(q)
<1> DEFINE a == call[q].appr
<1>t. /\ pc \in [Requests -> Stages]
      /\ center \in [Approvals -> ApprovalStatus \cup {"absent"}]
      /\ granted \in [Approvals -> SUBSET Deed]
  BY DEF TypeOK, CenterTypeOK
<1>1. pc[q] \in {"resolve", "direct"} /\ a \in Approvals
  BY DEF ResolveRun, DirectResolve, CallOK, CallFits, AtApproval
<1>2. /\ UNCHANGED <<owner, store, steps, call, st, copy, crashes, executed, calls>>
      /\ \/ /\ center[a] = "pending" /\ call[q].approved
            /\ center' = [center EXCEPT ![a] = "approved"]
            /\ granted' = [granted EXCEPT ![a] = @ \cup {Now(q)}]
            /\ pc' = [pc EXCEPT ![q] = IF pc[q] = "resolve" THEN "rec_approved" ELSE "direct_check"]
         \/ /\ center[a] = "pending"
            /\ center' = [center EXCEPT ![a] = "rejected"]
            /\ UNCHANGED granted
            /\ pc' = [pc EXCEPT ![q] = IF pc[q] = "resolve" THEN "rec_rejected" ELSE "done"]
         \/ /\ center[a] # "pending"
            /\ UNCHANGED center /\ UNCHANGED granted
            /\ pc' = [pc EXCEPT ![q] = IF pc[q] = "resolve" THEN "rec_fail" ELSE "done"]
  <2>1. CASE ResolveRun(q)
    BY <2>1 DEF ResolveRun, resolve, Resolvable, Goto, centerVars
  <2>2. CASE DirectResolve(q)
    BY <2>2 DEF DirectResolve, resolve, Resolvable, Goto, centerVars
  <2> QED  BY <2>1, <2>2
<1> HIDE DEF a
<1>3. Alone(q)
  BY <1>t, <1>2 DEF Alone
<1> QED  BY <1>t, <1>1, <1>2, <1>3 DEF a, ResolveMove

\* A pending approval of a cancelled run is rejected.
RejectMove(q) ==
    /\ Alone(q)
    /\ UNCHANGED <<owner, store, steps, call, st, copy, crashes, granted, executed, calls>>
    /\ UNCHANGED <<st[q], call[q], copy[q]>>
    /\ pc[q] = "cancel_reject"
    /\ pc'[q] = "rec_cancel"
    /\ \A a \in Approvals :
          \/ UNCHANGED center[a]
          \/ a = st[q].appr /\ center[a] = "pending" /\ center'[a] = "rejected"

\* The action RejectCancelled makes that move.
LEMMA RejectEffect ==
    ASSUME TypeOK, NEW q \in Requests, RejectCancelled(q)
    PROVE  RejectMove(q)
<1>t. /\ pc \in [Requests -> Stages]
      /\ center \in [Approvals -> ApprovalStatus \cup {"absent"}]
  BY DEF TypeOK, CenterTypeOK
<1>1. /\ pc[q] = "cancel_reject"
      /\ UNCHANGED <<owner, store, steps, call, st, copy, crashes, granted, executed, calls>>
      /\ pc' = [pc EXCEPT ![q] = "rec_cancel"]
      /\ \/ center[st[q].appr] = "pending" /\ center' = [center EXCEPT ![st[q].appr] = "rejected"]
         \/ UNCHANGED center
  BY DEF RejectCancelled, resolve, Resolvable, Goto, centerVars
<1>2. Alone(q)
  BY <1>t, <1>1 DEF Alone
<1>3. \A a \in Approvals :
          \/ UNCHANGED center[a]
          \/ a = st[q].appr /\ center[a] = "pending" /\ center'[a] = "rejected"
  BY <1>t, <1>1
<1> QED  BY <1>t, <1>1, <1>2, <1>3 DEF RejectMove

\* The approved snapshot is executed, on behalf of the run that owns it.
RunMove(q) ==
    /\ Alone(q) /\ UNCHANGED <<st[q], call[q], copy[q]>>
    /\ UNCHANGED <<centerVars, store, steps, call, st, copy, crashes, granted>>
    /\ call[q].appr \in Approvals
    /\ executed'[call[q].appr] = executed[call[q].appr] \cup {Now(q)}
    /\ \A a \in Approvals \ {call[q].appr} : UNCHANGED executed[a]
    /\ \/ /\ pc[q] = "execute" /\ pc'[q] \in {"rec_executed", "rec_execfail"}
          /\ \A r \in Runs : calls'[r] = IF r = call[q].run THEN calls[r] + 1 ELSE calls[r]
       \/ /\ pc[q] = "direct_execute" /\ pc'[q] = "done"
          /\ \A r \in Runs : calls'[r] = IF owner[call[q].appr] = {r} THEN calls[r] + 1
                                          ELSE calls[r]

\* The actions RunSnapshot and DirectRun make that move.
LEMMA RunEffect ==
    ASSUME TypeOK, CallOK, NEW q \in Requests, RunSnapshot(q) \/ DirectRun(q)
    PROVE  RunMove(q)
<1> DEFINE a == call[q].appr
<1>t. /\ pc \in [Requests -> Stages] /\ calls \in [Runs -> Nat]
      /\ executed \in [Approvals -> SUBSET Deed]
  BY DEF TypeOK
<1>1. a \in Approvals
  BY DEF RunSnapshot, DirectRun, CallOK, CallFits, AtApproval
<1>2. /\ UNCHANGED <<centerVars, store, steps, call, st, copy, crashes, granted>>
      /\ executed' = [executed EXCEPT ![a] = @ \cup {Now(q)}]
      /\ \E p : pc' = [pc EXCEPT ![q] = p]
  BY DEF RunSnapshot, DirectRun, Goto
<1>3. /\ \/ /\ pc[q] = "execute" /\ pc'[q] \in {"rec_executed", "rec_execfail"}
            /\ \A r \in Runs : calls'[r] = IF r = call[q].run THEN calls[r] + 1 ELSE calls[r]
         \/ /\ pc[q] = "direct_execute" /\ pc'[q] = "done"
            /\ \A r \in Runs : calls'[r] = IF owner[a] = {r} THEN calls[r] + 1 ELSE calls[r]
  <2>1. CASE RunSnapshot(q)
    BY <1>t, <2>1 DEF RunSnapshot, Goto
  <2>2. CASE DirectRun(q)
    BY <1>t, <2>2 DEF DirectRun, Goto
  <2> QED  BY <2>1, <2>2
<1> HIDE DEF a
<1>4. Alone(q)
  BY <1>t, <1>2 DEF Alone
<1>5. /\ executed'[a] = executed[a] \cup {Now(q)}
      /\ \A b \in Approvals \ {a} : UNCHANGED executed[b]
  BY <1>t, <1>1, <1>2
<1> QED  BY <1>1, <1>2, <1>3, <1>4, <1>5 DEF a, RunMove

\* A request arrives: a new run is saved, or a run or an approval is named.
ArriveMove(q) ==
    /\ Alone(q) /\ UNCHANGED copy[q]
    /\ UNCHANGED <<centerVars, steps, copy, crashes, granted, executed, calls>>
    /\ pc[q] = "idle"
    /\ call'[q].outcome = "none" /\ call'[q].new = NoApproval /\ call'[q].entry \in Entries
    /\ \/ /\ pc'[q] = "message" /\ call'[q].entry = "run"
          /\ st'[q].status = "received_user_message" /\ st'[q].idx = 0
          /\ st'[q].count = 0 /\ st'[q].appr = NoApproval
          /\ \E r \in Runs : /\ ~Known(r) /\ call'[q].run = r /\ store'[r] = st'[q]
                            /\ \A p \in Runs \ {r} : UNCHANGED store[p]
       \/ /\ UNCHANGED <<store, st, st[q]>>
          /\ \/ /\ pc'[q] \in {"load", "cancel"} /\ call'[q].entry \in {"resume", "cancel"}
                /\ call'[q].entry = "cancel" <=> pc'[q] = "cancel"
                /\ call'[q].run \in Runs /\ Known(call'[q].run)
             \/ /\ pc'[q] = "hydrate" /\ call'[q].entry = "pending" /\ call'[q].run \in Runs
                /\ \E a \in Approvals : Paused(call'[q].run, a)
             \/ /\ pc'[q] = "lookup" /\ call'[q].run = NoRun /\ call'[q].entry \in {"http", "ws"}
             \/ /\ pc'[q] = "direct" /\ call'[q].run = NoRun /\ call'[q].entry = "http"
                /\ owner[call'[q].appr] = {NoRun}

\* A tool is proposed without a run.
ToolMove(q) ==
    /\ Alone(q) /\ UNCHANGED <<st[q], call[q], copy[q]>>
    /\ UNCHANGED <<store, steps, call, st, copy, crashes, granted, executed, calls>>
    /\ pc[q] = "idle" /\ pc'[q] = "done"
    /\ \E a \in Approvals : Create(a, NoRun)

\* The arrival of a request is one of those moves.
LEMMA ArriveEffect ==
    ASSUME TypeOK, NEW q \in Requests, Request(q)
    PROVE  ArriveMove(q) \/ ToolMove(q)
<1>t. /\ pc \in [Requests -> Stages] /\ call \in [Requests -> Call]
      /\ st \in [Requests -> RunState] /\ store \in [Runs -> RunState]
  BY DEF TypeOK
\* What the arrival of c at a stage does, as far as Arrive says it.
<1>a. ASSUME NEW c, NEW p, Arrive(q, c, p), UNCHANGED st \/ \E s : st' = [st EXCEPT ![q] = s]
      PROVE  /\ pc[q] = "idle" /\ pc'[q] = p /\ call'[q] = c /\ c.entry \in Entries
             /\ Alone(q) /\ UNCHANGED copy[q]
             /\ UNCHANGED <<centerVars, steps, copy, crashes, granted, executed, calls>>
  BY <1>t, <1>a DEF Arrive, Goto, Alone
<1>1. ASSUME NEW r \in Runs, StartRun(q, r) PROVE ArriveMove(q)
  <2> DEFINE c == [NoCall EXCEPT !.entry = "run", !.run = r]
             s == [NoState EXCEPT !.status = "received_user_message"]
  <2>1. /\ c.entry = "run" /\ c.run = r /\ c.outcome = "none" /\ c.new = NoApproval
        /\ s.status = "received_user_message" /\ s.idx = 0 /\ s.count = 0 /\ s.appr = NoApproval
    BY DEF NoCall, NoState
  <2>2. /\ ~Known(r) /\ Arrive(q, c, "message")
        /\ st' = [st EXCEPT ![q] = s] /\ store' = [store EXCEPT ![r] = s]
    BY <1>1 DEF StartRun
  <2> HIDE DEF c, s
  <2>3. st'[q] = s /\ store'[r] = s /\ \A p \in Runs \ {r} : store'[p] = store[p]
    BY <1>t, <2>2
  <2> QED  BY <1>a, <2>1, <2>2, <2>3 DEF ArriveMove
<1>2. ASSUME NEW r \in Runs, CancelHandler(q, r) PROVE ArriveMove(q)
  <2> DEFINE c == [NoCall EXCEPT !.entry = "cancel", !.run = r]
  <2>1. c.entry = "cancel" /\ c.run = r /\ c.outcome = "none" /\ c.new = NoApproval
    BY DEF NoCall
  <2>2. Known(r) /\ Arrive(q, c, "cancel") /\ UNCHANGED <<store, st>>
    BY <1>2 DEF CancelHandler
  <2> HIDE DEF c
  <2> QED  BY <1>a, <2>1, <2>2 DEF ArriveMove
<1>3. ASSUME NEW r \in Runs, PendingHandler(q, r) PROVE ArriveMove(q)
  <2> DEFINE c == [NoCall EXCEPT !.entry = "pending", !.run = r, !.appr = store[r].appr]
  <2>1. c.entry = "pending" /\ c.run = r /\ c.outcome = "none" /\ c.new = NoApproval
    BY DEF NoCall
  <2>2. /\ \E a \in Approvals : Paused(r, a)
        /\ Arrive(q, c, "hydrate") /\ UNCHANGED <<store, st>>
    BY <1>3 DEF PendingHandler
  <2> HIDE DEF c
  <2> QED  BY <1>a, <2>1, <2>2 DEF ArriveMove
<1>4. ASSUME NEW a \in Approvals, NEW ok \in BOOLEAN, ApprovalHandler(q, a, ok) PROVE ArriveMove(q)
  <2> DEFINE c == [NoCall EXCEPT !.entry = "http", !.appr = a, !.approved = ok]
  <2>1. /\ c.entry = "http" /\ c.run = NoRun /\ c.appr = a /\ c.outcome = "none"
        /\ c.new = NoApproval
    BY DEF NoCall
  <2>2. /\ \/ Arrive(q, c, "direct") /\ owner[a] = {NoRun}
           \/ Arrive(q, c, "lookup")
        /\ UNCHANGED <<store, st>>
    BY <1>4 DEF ApprovalHandler
  <2> HIDE DEF c
  <2> QED  BY <1>a, <2>1, <2>2 DEF ArriveMove
<1>5. ASSUME NEW a \in Approvals, NEW ok \in BOOLEAN, SocketHandler(q, a, ok) PROVE ArriveMove(q)
  <2> DEFINE c == [NoCall EXCEPT !.entry = "ws", !.appr = a, !.approved = ok]
  <2>1. /\ c.entry = "ws" /\ c.run = NoRun /\ c.appr = a /\ c.outcome = "none"
        /\ c.new = NoApproval
    BY DEF NoCall
  <2>2. Arrive(q, c, "lookup") /\ UNCHANGED <<store, st>>
    BY <1>5 DEF SocketHandler
  <2> HIDE DEF c
  <2> QED  BY <1>a, <2>1, <2>2 DEF ArriveMove
<1>6. ASSUME NEW a \in Approvals, NEW ok \in BOOLEAN, NEW r \in Runs, ResumeHandler(q, r, a, ok)
      PROVE  ArriveMove(q)
  <2> DEFINE c == [NoCall EXCEPT !.entry = "resume", !.run = r, !.appr = a, !.approved = ok]
  <2>1. c.entry = "resume" /\ c.run = r /\ c.outcome = "none" /\ c.new = NoApproval
    BY DEF NoCall
  <2>2. Known(r) /\ Arrive(q, c, "load") /\ UNCHANGED <<store, st>>
    BY <1>6 DEF ResumeHandler
  <2> HIDE DEF c
  <2> QED  BY <1>a, <2>1, <2>2 DEF ArriveMove
<1>7. ASSUME NEW a \in Approvals, ToolHandler(q, a) PROVE ToolMove(q)
  <2>1. /\ pc[q] = "idle" /\ Create(a, NoRun) /\ pc' = [pc EXCEPT ![q] = "done"]
        /\ UNCHANGED <<store, steps, call, st, copy, crashes, granted, executed, calls>>
    BY <1>7 DEF ToolHandler, Goto
  <2>2. Alone(q) /\ pc'[q] = "done"
    BY <1>t, <2>1 DEF Alone
  <2> QED  BY <2>1, <2>2 DEF ToolMove
<1> QED  BY <1>1, <1>2, <1>3, <1>4, <1>5, <1>6, <1>7 DEF Request

\* What a request can do.
Move(q) ==
    \/ RecordMove(q) \/ TransitionMove(q) \/ PlanMove(q) \/ OutcomeMove(q) \/ ClearMove(q)
    \/ LoadMove(q) \/ CancelMove(q) \/ LookupMove(q) \/ ProposeMove(q) \/ StageMove(q)
    \/ ReadMove(q) \/ PutMove(q) \/ ResolveMove(q) \/ RejectMove(q) \/ RunMove(q)
    \/ ArriveMove(q) \/ ToolMove(q)

\* Every step is a restart or a move of one request.
LEMMA MoveStep ==
    ASSUME TypeOK, CallOK, Next
    PROVE  Crash \/ \E q \in Requests : Move(q)
<1> SUFFICES ASSUME NEW q \in Requests, Request(q) \/ Continue(q) PROVE Move(q)
  BY DEF Next
<1>1. CASE Request(q)
  BY <1>1, ArriveEffect DEF Move
<1>2. CASE Continue(q)
  BY <1>2, RecordEffect, TransitionEffect, PlanEffect, OutcomeEffect, ClearEffect, LoadEffect,
     CancelEffect, LookupEffect, ProposeEffect, StageEffect, ReadEffect, PutEffect, ResolveEffect,
     RejectEffect, RunEffect DEF Continue, Move
<1> QED  BY <1>1, <1>2

-----------------------------------------------------------------------------
(* Whose approval it is *)

\* The stages of a request that looks for a decision, the ones after it has
\* decided, and the ones of a proposal before and after it is recorded.
Looking == {"hydrate", "steps", "put"}
Decided == {"resolve", "rec_approved", "to_approved", "to_executing", "check", "execute",
            "rec_execfail", "to_execfail", "rec_executed", "to_executed", "clear",
            "rec_rejected", "to_rejected"}
Recorded == {"to_approved", "to_executing", "check", "execute"}
Asking == {"rec_infer", "to_infer", "rec_policy", "to_policy", "outcome", "rec_request"}
Asked == {"rec_request", "to_request", "to_pause"}
Direct == {"direct", "direct_check", "direct_execute"}

\* The approval a proposal asks for is the run's, and the run's state has it.
ProposalFits(q) ==
    /\ call[q].outcome = "approval" =>
          call[q].new \in Approvals /\ owner[call[q].new] = {call[q].run}
    /\ pc[q] = "lookup" => call[q].outcome = "none"
    /\ pc[q] \in Asked => call[q].outcome = "approval" /\ st[q].appr = call[q].new

\* What is decided, or hydrated, is an approval of the request's own run, for
\* which the run is paused when it is resumed.
ResumptionFits(q) ==
    /\ pc[q] \in Decided \cup {"put"} =>
          call[q].appr \in Approvals /\ owner[call[q].appr] = {call[q].run}
    /\ pc[q] \in Looking \cup Decided /\ call[q].entry # "pending" =>
          st[q].appr = call[q].appr
    /\ pc[q] \in Looking \cup {"resolve"} /\ call[q].entry # "pending" =>
          st[q].status = "paused_for_approval"
    /\ call[q].entry = "pending" => pc[q] \in Looking \cup {"done"}

\* Only the socket handler resolves an approval of a run without the run.
DirectFits(q) ==
    pc[q] \in Direct => call[q].entry = "ws" \/ owner[call[q].appr] = {NoRun}

\* A step carries an approval of the run it belongs to.
StepsOwned ==
    \A r \in Runs : \A s \in steps[r] : s.appr \in Approvals /\ owner[s.appr] = {r}

Ownership ==
    /\ StepsOwned
    /\ \A q \in Requests : ProposalFits(q) /\ ResumptionFits(q) /\ DirectFits(q)

\* Where the recorded stages lead.
LEMMA RecordTable ==
    ASSUME NEW p \in DOMAIN AfterRecord
    PROVE  LET n == AfterRecord[p]
           IN  /\ n = "to_request" <=> p = "rec_request"
               /\ n \notin {"rec_request", "to_pause", "lookup", "resolve"} \cup Looking \cup Direct
               /\ n \in Decided => p \in Decided
               /\ n \in Asking => p \in Asking \ {"rec_request"}
               /\ n \in Recorded => p = "rec_approved"
               /\ p \notin Looking \cup Recorded \cup {"resolve", "idle", "done"}
               /\ p \in DOMAIN Carried /\ p # "rec_request" => p \in Decided
BY DEF AfterRecord, Carried, Looking, Direct, Decided, Asking, Recorded

\* Where the transitions lead.
LEMMA TransitionTable ==
    ASSUME NEW q, NEW p \in DOMAIN Entered
    PROVE  LET n == AfterEntered(q)[p]
           IN  /\ n = "to_pause" <=> p = "to_request"
               /\ n \notin {"rec_request", "to_request", "lookup", "resolve"} \cup Looking
               /\ n \in Direct => call[q].entry = "ws"
               /\ n \in Decided => p \in Decided
               /\ n \in Asking => p \in Asking
               /\ n \in Recorded => p \in Recorded
               /\ p \notin Looking \cup {"resolve", "idle", "done"}
BY DEF AfterEntered, Entered, OnError, Looking, Direct, Decided, Asking, Recorded

\* Where the replies lead.
LEMMA ReplyTable ==
    ASSUME NEW p \in DOMAIN AfterReply
    PROVE  /\ AfterReply[p] \in {"done", "rec_final", "rec_rejfinal"}
           /\ p \notin Looking \cup Decided \cup Asking \cup Asked \cup {"idle", "done"}
BY DEF AfterReply, Looking, Decided, Asking, Asked

\* An approval that was issued stays whose it is.
LEMMA OwnerKept ==
    ASSUME TypeOK, NEW q \in Requests, Move(q)
    PROVE  \A a \in Approvals : owner[a] # {} => UNCHANGED owner[a]
<1>t. owner \in [Approvals -> {{}} \cup {{r} : r \in Runs \cup {NoRun}}]
  BY DEF TypeOK, CenterTypeOK
<1>1. UNCHANGED owner \/ \E a \in Approvals : \E r : Create(a, r)
  BY DEF Move, RecordMove, TransitionMove, PlanMove, OutcomeMove, ClearMove, LoadMove, CancelMove,
     LookupMove, ProposeMove, StageMove, ReadMove, PutMove, ResolveMove, RejectMove, RunMove,
     ArriveMove, ToolMove, centerVars
<1> QED  BY <1>t, <1>1 DEF Create, Fresh

\* Every step keeps the ownership.
LEMMA OwnershipStep == TypeOK /\ CallOK /\ Ownership /\ [Next]_vars => Ownership'
<1> SUFFICES ASSUME TypeOK, CallOK, Ownership, [Next]_vars PROVE Ownership'
  OBVIOUS
<1> USE DEF Ownership
<1>1. CASE UNCHANGED vars
  BY <1>1 DEF vars, runVars, centerVars, StepsOwned, ProposalFits, ResumptionFits, DirectFits
<1>2. CASE Crash
  <2>1. UNCHANGED <<owner, steps, call, st>> /\ \A q \in Requests : pc'[q] \in {"idle", "done"}
                                          /\ (pc'[q] = "idle" => pc[q] = "idle")
    BY <1>2 DEF Crash, CenterCrash
  <2> QED
    BY <2>1 DEF StepsOwned, ProposalFits, ResumptionFits, DirectFits, Looking, Decided, Asked, Direct
<1>3. ASSUME NEW q \in Requests, Move(q) PROVE Ownership'
  <2>o. \A a \in Approvals : owner[a] # {} => UNCHANGED owner[a]
    BY <1>3, OwnerKept
  <2>c. pc[q] \in AtApproval \cup Looking \cup Direct => call[q].appr \in Approvals
    BY DEF CallOK, CallFits, AtApproval, Looking, Direct
  <2>d. \A x \in Requests : pc[x] \in Decided \cup {"put"} => call[x].appr \in Approvals
    BY DEF ResumptionFits
  <2>q. ProposalFits(q) /\ ResumptionFits(q) /\ DirectFits(q)
    OBVIOUS
  <2>s. StepsOwned'
    <3>1. CASE UNCHANGED steps
      BY <2>o, <3>1 DEF StepsOwned
    <3>2. CASE RecordMove(q)
      <4>1. ASSUME NEW r \in Runs, NEW s \in steps'[r], s \notin steps[r]
            PROVE  s.appr \in Approvals /\ owner[s.appr] = {r}
        <5>1. r = call[q].run /\ pc[q] \in DOMAIN Carried \cap DOMAIN AfterRecord /\ s = StepOf(q)
          BY <3>2, <4>1 DEF RecordMove
        <5>2. s.appr = IF pc[q] = "rec_request" THEN call[q].new ELSE call[q].appr
          BY <5>1 DEF StepOf
        <5>3. CASE pc[q] = "rec_request"
          BY <2>q, <5>1, <5>2, <5>3 DEF ProposalFits, Asked
        <5>4. CASE pc[q] # "rec_request"
          BY <2>q, <2>d, <5>1, <5>2, <5>4, RecordTable DEF ResumptionFits
        <5> QED  BY <5>3, <5>4
      <4> QED  BY <2>o, <3>2, <4>1 DEF RecordMove, StepsOwned, centerVars
    <3> QED
      BY <1>3, <3>1, <3>2 DEF Move, TransitionMove, PlanMove, OutcomeMove, ClearMove, LoadMove,
         CancelMove, LookupMove, ProposeMove, StageMove, ReadMove, PutMove, ResolveMove, RejectMove,
         RunMove, ArriveMove, ToolMove
  <2>a. Alone(q)
    BY <1>3 DEF Move, RecordMove, TransitionMove, PlanMove, OutcomeMove, ClearMove, LoadMove,
       CancelMove, LookupMove, ProposeMove, StageMove, ReadMove, PutMove, ResolveMove, RejectMove,
       RunMove, ArriveMove, ToolMove
  <2>x. ASSUME NEW x \in Requests, x # q
        PROVE  (ProposalFits(x) /\ ResumptionFits(x) /\ DirectFits(x))'
    <3>1. UNCHANGED <<pc[x], st[x], call[x]>> /\ ProposalFits(x) /\ ResumptionFits(x) /\ DirectFits(x)
      BY <2>a, <2>x DEF Alone
    <3>2. pc[x] \in Direct => call[x].appr \in Approvals
      BY DEF CallOK, CallFits, AtApproval, Direct
    <3> QED  BY <2>o, <2>d, <3>1, <3>2 DEF ProposalFits, ResumptionFits, DirectFits
  <2>p. ProposalFits(q)'
    <3> USE <2>q, <2>o DEF ProposalFits
    <3>1. CASE RecordMove(q)
      BY <3>1, RecordTable DEF RecordMove, Asked, OnError, centerVars
    <3>2. CASE TransitionMove(q)
      BY <3>2, TransitionTable DEF TransitionMove, Asked, centerVars
    <3>3. CASE PlanMove(q) \/ OutcomeMove(q) \/ ClearMove(q)
      BY <3>3 DEF PlanMove, OutcomeMove, ClearMove, Asked, OnError, centerVars
    <3>4. CASE LoadMove(q) \/ CancelMove(q) \/ LookupMove(q)
      BY <3>4 DEF LoadMove, CancelMove, LookupMove, Asked, OnError, centerVars
    <3>5. CASE ProposeMove(q)
      BY <3>5 DEF ProposeMove, Asked, centerVars, Create, TypeOK, CenterTypeOK
    <3>6. CASE StageMove(q)
      BY <3>6, ReplyTable DEF StageMove, Asked, OnError, centerVars
    <3>7. CASE ReadMove(q) \/ PutMove(q) \/ ResolveMove(q) \/ RejectMove(q) \/ RunMove(q)
      BY <3>7 DEF ReadMove, PutMove, ResolveMove, RejectMove, RunMove, Asked, OnError, centerVars
    <3>8. CASE ArriveMove(q) \/ ToolMove(q)
      BY <3>8 DEF ArriveMove, ToolMove, Asked, centerVars
    <3> QED  BY <1>3, <3>1, <3>2, <3>3, <3>4, <3>5, <3>6, <3>7, <3>8 DEF Move
  <2>r. ResumptionFits(q)'
    <3> USE <2>q, <2>o, <2>c, <2>d DEF ResumptionFits
    <3>1. CASE RecordMove(q)
      BY <3>1, RecordTable DEF RecordMove, OnError, centerVars, Looking, Decided
    <3>2. CASE TransitionMove(q)
      BY <3>2, TransitionTable DEF TransitionMove, centerVars, Looking, Decided
    <3>3. CASE PlanMove(q) \/ OutcomeMove(q) \/ ClearMove(q)
      BY <3>3 DEF PlanMove, OutcomeMove, ClearMove, OnError, centerVars, Looking, Decided
    <3>4. CASE LoadMove(q) \/ CancelMove(q) \/ LookupMove(q)
      BY <3>4 DEF LoadMove, CancelMove, LookupMove, OnError, centerVars, Looking, Decided, Paused
    <3>5. CASE ProposeMove(q)
      BY <3>5 DEF ProposeMove, centerVars, Looking, Decided
    <3>6. CASE StageMove(q)
      BY <3>6, ReplyTable DEF StageMove, OnError, centerVars, Looking, Decided
    <3>7. CASE ReadMove(q)
      BY <3>7 DEF ReadMove, OnError, centerVars, Looking, Decided, StepsOwned, CallOK, CallFits, Unattached
    <3>8. CASE PutMove(q) \/ ResolveMove(q) \/ RejectMove(q) \/ RunMove(q)
      BY <3>8 DEF PutMove, ResolveMove, RejectMove, RunMove, centerVars, Looking, Decided
    <3>9. CASE ArriveMove(q) \/ ToolMove(q)
      BY <3>9 DEF ArriveMove, ToolMove, centerVars, Looking, Decided
    <3> QED  BY <1>3, <3>1, <3>2, <3>3, <3>4, <3>5, <3>6, <3>7, <3>8, <3>9 DEF Move
  <2>w. DirectFits(q)'
    <3> USE <2>q, <2>o, <2>c DEF DirectFits
    <3>1. CASE RecordMove(q)
      BY <3>1, RecordTable DEF RecordMove, OnError, Direct
    <3>2. CASE TransitionMove(q)
      BY <3>2, TransitionTable DEF TransitionMove
    <3>3. CASE PlanMove(q) \/ OutcomeMove(q) \/ ClearMove(q)
      BY <3>3 DEF PlanMove, OutcomeMove, ClearMove, OnError, Direct
    <3>4. CASE LoadMove(q) \/ CancelMove(q) \/ LookupMove(q)
      BY <3>4 DEF LoadMove, CancelMove, LookupMove, OnError, Direct
    <3>5. CASE ProposeMove(q)
      BY <3>5 DEF ProposeMove, Direct
    <3>6. CASE StageMove(q)
      BY <3>6, ReplyTable DEF StageMove, OnError, Direct, centerVars
    <3>7. CASE ReadMove(q) \/ PutMove(q) \/ ResolveMove(q) \/ RejectMove(q) \/ RunMove(q)
      BY <3>7 DEF ReadMove, PutMove, ResolveMove, RejectMove, RunMove, OnError, Direct, centerVars
    <3>8. CASE ArriveMove(q) \/ ToolMove(q)
      BY <3>8 DEF ArriveMove, ToolMove, Direct, centerVars
    <3> QED  BY <1>3, <3>1, <3>2, <3>3, <3>4, <3>5, <3>6, <3>7, <3>8 DEF Move
  <2> QED  BY <2>s, <2>x, <2>p, <2>r, <2>w
<1> QED  BY <1>1, <1>2, <1>3, MoveStep

-----------------------------------------------------------------------------
(* The approval is recorded before its snapshot is executed *)

\* What x did was asked for over the WebSocket.
BySocket(x) == call[x.by].entry = "ws"

\* A request on its way to the executor has recorded the approval.
WasRecorded ==
    \A q \in Requests : pc[q] \in Recorded =>
        \E s \in steps[call[q].run] : s.appr = call[q].appr /\ s.ast = "approved"

\* What was executed had been issued, and by a request that had arrived.
DeedsFit ==
    \A a \in Approvals : /\ executed[a] # {} => Issued(a)
                         /\ \A x \in executed[a] : x.by \in Requests /\ pc[x.by] # "idle"

\* The approval of a run is in the step history before its snapshot is
\* executed, unless the socket handler executed it without the run: that path
\* of the code resolves and executes the approval and records nothing.
RecordedUnlessSocket ==
    \A a \in Approvals, r \in Runs :
        owner[a] = {r} =>
            \A x \in executed[a] :
                BySocket(x) \/ \E s \in steps[r] : s.appr = a /\ s.ast = "approved"

Recording == WasRecorded /\ DeedsFit /\ RecordedUnlessSocket

\* A request that has arrived keeps its entry and does not arrive again; the
\* step history only grows.
LEMMA Kept ==
    ASSUME TypeOK, NEW q \in Requests, Move(q)
    PROVE  /\ Alone(q)
           /\ \A x \in Requests : pc[x] # "idle" =>
                 pc'[x] # "idle" /\ call'[x].entry = call[x].entry
           /\ \A r \in Runs : steps[r] \subseteq steps'[r]
<1>1. Alone(q) /\ \A r \in Runs : steps[r] \subseteq steps'[r]
  BY DEF Move, RecordMove, TransitionMove, PlanMove, OutcomeMove, ClearMove, LoadMove,
     CancelMove, LookupMove, ProposeMove, StageMove, ReadMove, PutMove, ResolveMove, RejectMove,
     RunMove, ArriveMove, ToolMove
<1>2. pc[q] # "idle" => pc'[q] # "idle" /\ call'[q].entry = call[q].entry
  <2>1. CASE RecordMove(q)
    BY <2>1, StageFlow DEF RecordMove, OnError, Unattached
  <2>2. CASE TransitionMove(q)
    <3>1. AfterEntered(q)[pc[q]] # "idle"
      BY <2>2 DEF TransitionMove, Entered, AfterEntered, OnError
    <3> QED  BY <2>2, <3>1 DEF TransitionMove
  <2>3. CASE PlanMove(q) \/ OutcomeMove(q) \/ ClearMove(q) \/ LoadMove(q) \/ CancelMove(q)
             \/ LookupMove(q) \/ ProposeMove(q) \/ ReadMove(q) \/ PutMove(q) \/ ResolveMove(q)
             \/ RejectMove(q) \/ RunMove(q) \/ ArriveMove(q) \/ ToolMove(q)
    BY <2>3 DEF PlanMove, OutcomeMove, ClearMove, LoadMove, CancelMove, LookupMove, ProposeMove,
       ReadMove, PutMove, ResolveMove, RejectMove, RunMove, ArriveMove, ToolMove, OnError
  <2>4. CASE StageMove(q)
    BY <2>4, ReplyTable DEF StageMove, OnError
  <2> QED  BY <2>1, <2>2, <2>3, <2>4 DEF Move
<1> QED  BY <1>1, <1>2 DEF Alone

\* Every step keeps that order.
LEMMA RecordingStep ==
    TypeOK /\ CallOK /\ RefsIssued /\ Ownership /\ Recording /\ [Next]_vars => Recording'
<1> SUFFICES ASSUME TypeOK, CallOK, RefsIssued, Ownership, Recording, [Next]_vars
             PROVE  Recording'
  OBVIOUS
<1> USE DEF Recording
<1>1. CASE UNCHANGED vars
  BY <1>1 DEF vars, runVars, centerVars, WasRecorded, DeedsFit, RecordedUnlessSocket, BySocket,
     Issued, Fresh
<1>2. CASE Crash
  <2>1. /\ UNCHANGED <<owner, steps, call, executed>>
        /\ \A q \in Requests : pc'[q] \in {"idle", "done"} /\ (pc'[q] = "idle" => pc[q] = "idle")
    BY <1>2 DEF Crash, CenterCrash
  <2> QED
    BY <2>1 DEF WasRecorded, DeedsFit, RecordedUnlessSocket, BySocket, Issued, Fresh, Recorded
<1>3. ASSUME NEW q \in Requests, Move(q) PROVE Recording'
  <2>o. \A a \in Approvals : owner[a] # {} => UNCHANGED owner[a]
    BY <1>3, OwnerKept
  <2>k. /\ Alone(q)
        /\ \A x \in Requests : pc[x] # "idle" =>
              pc'[x] # "idle" /\ call'[x].entry = call[x].entry
        /\ \A r \in Runs : steps[r] \subseteq steps'[r]
    BY <1>3, Kept
  <2>q. ProposalFits(q) /\ ResumptionFits(q) /\ DirectFits(q)
    BY DEF Ownership
  <2>r. \A x \in Requests : pc[x] \in Recorded => call[x].run \in Runs
    BY DEF CallOK, CallFits, Recorded, Unattached
  <2>1. WasRecorded'
    <3>1. ASSUME NEW x \in Requests, x # q, pc'[x] \in Recorded
          PROVE  \E s \in steps'[call'[x].run] : s.appr = call'[x].appr /\ s.ast = "approved"
      BY <2>k, <2>r, <3>1 DEF WasRecorded, Alone
    <3>2. ASSUME pc'[q] \in Recorded
          PROVE  \E s \in steps'[call'[q].run] : s.appr = call'[q].appr /\ s.ast = "approved"
      <4>1. CASE RecordMove(q)
        <5>1. pc[q] = "rec_approved"
          BY <3>2, <4>1, RecordTable DEF RecordMove, Recorded, OnError
        <5>2. /\ StepOf(q) \in steps'[call[q].run] /\ UNCHANGED call
              /\ StepOf(q).appr = call[q].appr /\ StepOf(q).ast = "approved"
          BY <3>2, <4>1, <5>1 DEF RecordMove, StepOf, Carried, Recorded, OnError
        <5> QED  BY <5>2
      <4>2. CASE pc[q] \in Recorded /\ UNCHANGED call
        BY <2>k, <2>r, <4>2 DEF WasRecorded
      <4>3. CASE TransitionMove(q)
        BY <3>2, <4>2, <4>3, TransitionTable DEF TransitionMove
      <4>4. CASE StageMove(q)
        BY <3>2, <4>2, <4>4, ReplyTable DEF StageMove, Recorded, OnError
      <4>5. CASE PlanMove(q) \/ OutcomeMove(q) \/ ClearMove(q) \/ LoadMove(q) \/ CancelMove(q)
                 \/ LookupMove(q) \/ ProposeMove(q)
        BY <3>2, <4>5 DEF PlanMove, OutcomeMove, ClearMove, LoadMove, CancelMove, LookupMove,
           ProposeMove, Recorded, OnError
      <4>6. CASE ReadMove(q) \/ PutMove(q) \/ ResolveMove(q) \/ RejectMove(q) \/ RunMove(q)
                 \/ ArriveMove(q) \/ ToolMove(q)
        BY <3>2, <4>6 DEF ReadMove, PutMove, ResolveMove, RejectMove, RunMove, ArriveMove, ToolMove,
           Recorded, OnError
      <4> QED  BY <1>3, <4>1, <4>3, <4>4, <4>5, <4>6 DEF Move
    <3> QED  BY <3>1, <3>2 DEF WasRecorded
  <2>2. CASE UNCHANGED executed
    <3>1. DeedsFit'
      BY <2>o, <2>k, <2>2 DEF DeedsFit, Issued, Fresh
    <3>2. ASSUME NEW a \in Approvals, NEW r \in Runs, owner'[a] = {r}, NEW x \in executed'[a]
          PROVE  BySocket(x)' \/ \E s \in steps'[r] : s.appr = a /\ s.ast = "approved"
      <4>1. owner[a] = {r} /\ x \in executed[a]
        BY <2>o, <2>2, <3>2 DEF DeedsFit, Issued, Fresh
      <4>2. call'[x.by].entry = call[x.by].entry
        BY <2>k, <4>1 DEF DeedsFit
      <4> QED  BY <2>k, <4>1, <4>2 DEF RecordedUnlessSocket, BySocket
    <3> QED  BY <2>1, <3>1, <3>2 DEF RecordedUnlessSocket
  <2>3. CASE RunMove(q)
    <3> DEFINE a == call[q].appr
    <3>1. /\ UNCHANGED <<owner, steps, call>> /\ a \in Approvals
          /\ executed'[a] = executed[a] \cup {Now(q)}
          /\ \A b \in Approvals \ {a} : executed'[b] = executed[b]
          /\ pc[q] \in {"execute", "direct_execute"}
      BY <2>3 DEF RunMove, centerVars
    <3>2. Now(q).by = q
      BY DEF Now
    <3>3. Issued(a)
      BY <3>1, RuntimeAssumption DEF RefsIssued, Ids
    <3> HIDE DEF a
    <3>4. DeedsFit'
      BY <2>k, <3>1, <3>2, <3>3 DEF DeedsFit, Issued, Fresh
    <3>5. ASSUME NEW b \in Approvals, NEW r \in Runs, owner[b] = {r}, NEW x \in executed[b]
          PROVE  call'[x.by].entry = "ws" \/ \E s \in steps'[r] : s.appr = b /\ s.ast = "approved"
      BY <3>1, <3>5 DEF RecordedUnlessSocket, BySocket
    <3>6. ASSUME NEW r \in Runs, owner[a] = {r}
          PROVE  call'[q].entry = "ws" \/ \E s \in steps'[r] : s.appr = a /\ s.ast = "approved"
      <4>1. CASE pc[q] = "execute"
        BY <2>q, <3>1, <3>6, <4>1 DEF ResumptionFits, WasRecorded, Decided, Recorded, a
      <4>2. CASE pc[q] = "direct_execute"
        <5>1. call[q].entry = "ws"
          BY <2>q, <3>6, <4>2, NoRunAssumption DEF DirectFits, Direct, a
        <5> QED  BY <3>1, <5>1
      <4> QED  BY <3>1, <4>1, <4>2
    <3>7. RecordedUnlessSocket'
      BY <3>1, <3>2, <3>5, <3>6 DEF RecordedUnlessSocket, BySocket
    <3> QED  BY <2>1, <3>4, <3>7
  <2>4. UNCHANGED executed \/ RunMove(q)
    BY <1>3 DEF Move, RecordMove, TransitionMove, PlanMove, OutcomeMove, ClearMove, LoadMove,
       CancelMove, LookupMove, ProposeMove, StageMove, ReadMove, PutMove, ResolveMove, RejectMove,
       ArriveMove, ToolMove
  <2> QED  BY <2>2, <2>3, <2>4
<1> QED  BY <1>1, <1>2, <1>3, MoveStep

-----------------------------------------------------------------------------
(* The step history is in the order in which things became so *)

\* Until its request has recorded it, nobody else knows of an approval.
PrivateTo(q) ==
    LET a == call[q].new
    IN  pc[q] \in Asking /\ call[q].outcome = "approval" =>
            /\ \A x \in Requests \ {q} : call[x].new # a /\ st[x].appr # a
            /\ pc[q] # "rec_request" => st[q].appr # a
            /\ \A r \in Runs : store[r].appr # a /\ \A s \in steps[r] : s.appr # a

Private == \A q \in Requests : PrivateTo(q)

\* A new step of any state that names a pending approval comes after the step
\* that asked for it.
IdxAbove ==
    \A r \in Runs : \A s \in steps[r] : s.ast = "pending" =>
        /\ \A q \in Requests : st[q].appr = s.appr => s.idx <= st[q].idx
        /\ \A p \in Runs : store[p].appr = s.appr => s.idx <= store[p].idx

\* The step that asked for an approval precedes those that say what became of
\* it, so the last one that carries it is never the pending one again.
StepsOrder ==
    \A r \in Runs : \A s, t \in steps[r] :
        s.appr = t.appr /\ s.ast = "pending" /\ t.ast # "pending" => s.idx < t.idx

Order == Private /\ IdxAbove /\ StepsOrder

\* Every step keeps it.
LEMMA OrderStep ==
    TypeOK /\ CallOK /\ RefsIssued /\ Ownership /\ Order /\ [Next]_vars => Order'
<1> SUFFICES ASSUME TypeOK, CallOK, RefsIssued, Ownership, Order, [Next]_vars
             PROVE  Order'
  OBVIOUS
<1> USE DEF Order
<1>1. CASE UNCHANGED vars
  BY <1>1 DEF vars, runVars, centerVars, Private, PrivateTo, IdxAbove, StepsOrder
<1>2. CASE Crash
  <2>1. UNCHANGED <<steps, store, st, call>> /\ \A q \in Requests : pc'[q] \in {"idle", "done"}
    BY <1>2 DEF Crash
  <2> QED  BY <2>1 DEF Private, PrivateTo, IdxAbove, StepsOrder, Asking
<1>3. ASSUME NEW q \in Requests, Move(q) PROVE Order'
  <2>t. /\ \A r \in Runs : \A s \in steps[r] : s.idx \in Nat
        /\ \A x \in Requests : st[x].idx \in Nat /\ call[x].run \in Runs \cup {NoRun}
        /\ \A r \in Runs : store[r].idx \in Nat
    BY DEF TypeOK, Step, RunState, Call
  <2>o. \A a \in Approvals : owner[a] # {} => UNCHANGED owner[a]
    BY <1>3, OwnerKept
  <2>a. Alone(q)
    BY <1>3, Kept
  <2>q. ProposalFits(q) /\ ResumptionFits(q) /\ PrivateTo(q)
    BY DEF Ownership, Private
  <2>i. \A a \in Approvals : Fresh(a) =>
           /\ \A x \in Requests : st[x].appr # a /\ call[x].new # a
           /\ \A r \in Runs : store[r].appr # a /\ \A s \in steps[r] : s.appr # a
    BY RuntimeAssumption DEF RefsIssued, Ids, Issued, Fresh, Ownership, StepsOwned
\* The approval of q's state is one it had, one a stored run had, or its own proposal.
  <2>s. \/ st'[q].appr = st[q].appr /\ st[q].idx <= st'[q].idx
        \/ st'[q].appr = NoApproval
        \/ \E r \in Runs : st'[q] = store[r]
        \/ /\ pc[q] = "outcome" /\ call[q].outcome = "approval" /\ st'[q].appr = call[q].new
           /\ pc'[q] = "rec_request" /\ st'[q].idx = st[q].idx
    <3>1. CASE UNCHANGED st[q]
      BY <2>t, <3>1
    <3>2. CASE RecordMove(q) \/ TransitionMove(q) \/ PlanMove(q) \/ OutcomeMove(q) \/ ClearMove(q)
      BY <2>t, <3>2 DEF RecordMove, TransitionMove, PlanMove, OutcomeMove, ClearMove
    <3>3. CASE LoadMove(q) \/ CancelMove(q) \/ ArriveMove(q)
      BY <3>1, <3>3 DEF LoadMove, CancelMove, ArriveMove, CallOK, CallFits, Unattached
    <3>4. CASE LookupMove(q) \/ ProposeMove(q) \/ StageMove(q) \/ ReadMove(q) \/ PutMove(q)
               \/ ResolveMove(q) \/ RejectMove(q) \/ RunMove(q) \/ ToolMove(q)
      BY <3>1, <3>4 DEF LookupMove, ProposeMove, StageMove, ReadMove, PutMove, ResolveMove,
         RejectMove, RunMove, ToolMove
    <3> QED  BY <1>3, <3>2, <3>3, <3>4 DEF Move
\* The store changes to that state, and to one with no other approval.
  <2>w. \A r \in Runs :
           \/ UNCHANGED store[r]
           \/ store'[r] = st'[q] /\ (st'[q].appr = st[q].appr \/ st'[q].appr = NoApproval)
    BY <1>3 DEF Move, RecordMove, TransitionMove, PlanMove, OutcomeMove, ClearMove, LoadMove,
       CancelMove, LookupMove, ProposeMove, StageMove, ReadMove, PutMove, ResolveMove, RejectMove,
       RunMove, ArriveMove, ToolMove, Saves
\* The history gains at most the step that is being recorded.
  <2>h. \/ UNCHANGED steps
        \/ /\ pc[q] \in DOMAIN AfterRecord \cap DOMAIN Carried /\ UNCHANGED call
           /\ st'[q].idx = st[q].idx + 1 /\ st'[q].appr = st[q].appr
           /\ \A r \in Runs : \A s \in steps'[r] : s \in steps[r] \/ s = StepOf(q)
    <3>1. CASE RecordMove(q) /\ pc[q] \in DOMAIN Carried
      BY <3>1 DEF RecordMove
    <3>2. CASE RecordMove(q) /\ pc[q] \notin DOMAIN Carried
      <4>1. \A r \in Runs : steps'[r] = steps[r]
        BY <3>2 DEF RecordMove
      <4>2. steps \in [Runs -> SUBSET Step] /\ steps' \in [Runs -> SUBSET Step]
        BY TypeStep DEF TypeOK
      <4> QED  BY <4>1, <4>2
    <3> QED
      BY <1>3, <3>1, <3>2 DEF Move, TransitionMove, PlanMove, OutcomeMove, ClearMove, LoadMove,
         CancelMove, LookupMove, ProposeMove, StageMove, ReadMove, PutMove, ResolveMove, RejectMove,
         RunMove, ArriveMove, ToolMove
\* That step is the request for the approval, or a later one of a run that has it.
  <2>n. pc[q] \in DOMAIN AfterRecord \cap DOMAIN Carried =>
           /\ StepOf(q).idx = st[q].idx + 1 /\ StepOf(q).appr = st[q].appr
           /\ StepOf(q).ast = "pending" <=> pc[q] = "rec_request"
           /\ pc[q] = "rec_request" => call[q].outcome = "approval" /\ call[q].new = st[q].appr
           /\ pc[q] = "rec_request" => call[q].new \in Approvals
    <3>1. pc[q] \in DOMAIN AfterRecord \cap DOMAIN Carried =>
             /\ StepOf(q).idx = st[q].idx + 1
             /\ StepOf(q).appr = IF pc[q] = "rec_request" THEN call[q].new ELSE call[q].appr
             /\ StepOf(q).ast = "pending" <=> pc[q] = "rec_request"
      BY DEF StepOf, Carried
    <3> QED
      BY <2>q, <3>1, RecordTable DEF ProposalFits, ResumptionFits, Asked, Decided, Looking
  <2>1. StepsOrder'
    <3>1. CASE UNCHANGED steps
      BY <3>1 DEF StepsOrder
    <3>2. CASE pc[q] \in DOMAIN AfterRecord \cap DOMAIN Carried /\ ~UNCHANGED steps
      <4> SUFFICES ASSUME NEW r \in Runs, NEW s \in steps'[r], NEW u \in steps'[r],
                          s.appr = u.appr, s.ast = "pending", u.ast # "pending"
                   PROVE  s.idx < u.idx
        BY DEF StepsOrder
      <4>1. CASE s \in steps[r] /\ u \in steps[r]
        BY <4>1 DEF StepsOrder
      <4>2. CASE s \in steps[r] /\ u = StepOf(q)
        BY <2>t, <2>n, <3>2, <4>2 DEF IdxAbove
      <4>3. CASE s = StepOf(q) /\ u \in steps[r]
        BY <2>q, <2>n, <3>2, <4>3 DEF PrivateTo, Asking
      <4> QED  BY <2>h, <3>2, <4>1, <4>2, <4>3
    <3> QED  BY <2>h, <3>1, <3>2
  <2>2. IdxAbove'
    <3> SUFFICES ASSUME NEW r \in Runs, NEW s \in steps'[r], s.ast = "pending"
                 PROVE  /\ \A x \in Requests : st'[x].appr = s.appr => s.idx <= st'[x].idx
                        /\ \A p \in Runs : store'[p].appr = s.appr => s.idx <= store'[p].idx
      BY DEF IdxAbove
    <3>1. CASE s \in steps[r]
      <4>1. /\ \A x \in Requests : st[x].appr = s.appr => s.idx <= st[x].idx
            /\ \A p \in Runs : store[p].appr = s.appr => s.idx <= store[p].idx
            /\ s.idx \in Nat /\ s.appr \in Approvals
        BY <2>t, <3>1 DEF IdxAbove, Ownership, StepsOwned
      <4>2. st'[q].idx \in Nat
        BY TypeStep DEF TypeOK, RunState
      <4>3. st'[q].appr = s.appr => s.idx <= st'[q].idx
        BY <2>t, <2>q, <2>s, <3>1, <4>1, <4>2, RuntimeAssumption DEF PrivateTo, Asking
      <4> QED  BY <2>a, <2>w, <4>1, <4>3 DEF Alone
    <3>2. CASE s \notin steps[r]
      <4>1. /\ s = StepOf(q) /\ pc[q] = "rec_request" /\ s.appr = call[q].new
            /\ s.idx = st'[q].idx /\ st'[q].appr = s.appr
            /\ call[q].outcome = "approval"
        BY <2>h, <2>n, <3>2
      <4>2. st'[q].idx \in Nat
        BY TypeStep DEF TypeOK, RunState
      <4> QED  BY <2>a, <2>q, <2>w, <4>1, <4>2 DEF PrivateTo, Asking, Alone
    <3> QED  BY <3>1, <3>2
\* The mover's last proposal is the one it had, none, or a fresh one.
  <2>c. \/ call'[q].new = call[q].new
        \/ call'[q].new = NoApproval
        \/ /\ Fresh(call'[q].new) /\ call'[q].new \in Approvals
           /\ UNCHANGED <<store, steps, st>> /\ UNCHANGED st[q] /\ pc'[q] = "rec_infer"
    <3>1. CASE UNCHANGED call
      BY <3>1
    <3>2. CASE LookupMove(q) \/ ArriveMove(q)
      BY <3>2 DEF LookupMove, ArriveMove
    <3>3. CASE ProposeMove(q)
      BY <2>a, <3>3 DEF ProposeMove, Create
    <3> QED
      BY <1>3, <3>1, <3>2, <3>3 DEF Move, RecordMove, TransitionMove, PlanMove, OutcomeMove,
         ClearMove, LoadMove, CancelMove, StageMove, ReadMove, PutMove, ResolveMove, RejectMove,
         RunMove, ToolMove
\* It gets to ask by a proposal, or goes on asking.
  <2>p. pc'[q] \in Asking =>
           \/ pc[q] = "propose" /\ call'[q].outcome # "approval"
           \/ /\ Fresh(call'[q].new) /\ call'[q].new \in Approvals
              /\ UNCHANGED <<store, steps, st>> /\ UNCHANGED st[q] /\ pc'[q] = "rec_infer"
           \/ /\ pc[q] \in Asking \ {"rec_request"} /\ UNCHANGED <<call, steps>>
              /\ call'[q] = call[q]
              /\ pc'[q] # "rec_request" => st'[q].appr = st[q].appr
    <3>1. CASE RecordMove(q)
      <4>1. pc'[q] \in Asking => pc[q] \in Asking \ {"rec_request"} /\ pc'[q] # "rec_request"
        BY <3>1, RecordTable DEF RecordMove, OnError, Asking
      <4>2. pc'[q] \in Asking => pc[q] \notin DOMAIN Carried
        BY <4>1 DEF Carried, Asking
      <4> QED  BY <2>h, <3>1, <4>1, <4>2 DEF RecordMove
    <3>2. CASE TransitionMove(q)
      <4>1. pc[q] # "rec_request"
        BY <3>2 DEF TransitionMove, Entered
      <4> QED  BY <3>2, <4>1, TransitionTable DEF TransitionMove
    <3>3. CASE ProposeMove(q)
      BY <3>3 DEF ProposeMove, Create, Asking
    <3>4. CASE OutcomeMove(q)
      BY <3>4 DEF OutcomeMove, Asking
    <3>5. CASE StageMove(q)
      BY <3>5, ReplyTable DEF StageMove, OnError, Asking
    <3>6. CASE PlanMove(q) \/ ClearMove(q) \/ LoadMove(q) \/ CancelMove(q) \/ LookupMove(q)
               \/ ReadMove(q) \/ PutMove(q) \/ ResolveMove(q) \/ RejectMove(q) \/ RunMove(q)
               \/ ArriveMove(q) \/ ToolMove(q)
      BY <3>6 DEF PlanMove, ClearMove, LoadMove, CancelMove, LookupMove, ReadMove, PutMove,
         ResolveMove, RejectMove, RunMove, ArriveMove, ToolMove, Asking, OnError
    <3> QED  BY <1>3, <3>1, <3>2, <3>3, <3>4, <3>5, <3>6 DEF Move
  <2>3. Private'
    <3>1. ASSUME NEW x \in Requests, x # q, pc'[x] \in Asking, call'[x].outcome = "approval"
          PROVE  PrivateTo(x)'
      <4> DEFINE a == call[x].new
      <4>1. /\ UNCHANGED <<pc[x], st[x], call[x]>> /\ PrivateTo(x)
            /\ a \in Approvals /\ ~Fresh(a) /\ a # NoApproval
        BY <2>a, <3>1, RuntimeAssumption DEF Alone, Private, Ownership, ProposalFits, Fresh
      <4>2. /\ \A y \in Requests \ {x} : call[y].new # a /\ st[y].appr # a
            /\ pc[x] # "rec_request" => st[x].appr # a
            /\ \A r \in Runs : store[r].appr # a /\ \A s \in steps[r] : s.appr # a
        BY <3>1, <4>1 DEF PrivateTo
      <4> HIDE DEF a
      <4>3. call'[q].new # a /\ st'[q].appr # a
        BY <2>c, <2>s, <3>1, <4>1, <4>2
      <4>4. \A y \in Requests \ {x} : call'[y].new # a /\ st'[y].appr # a
        BY <2>a, <4>2, <4>3 DEF Alone
      <4>5. \A r \in Runs : store'[r].appr # a /\ \A s \in steps'[r] : s.appr # a
        BY <2>w, <2>h, <2>n, <3>1, <4>2, <4>3
      <4> QED  BY <4>1, <4>2, <4>4, <4>5 DEF PrivateTo, a
    <3>2. ASSUME pc'[q] \in Asking, call'[q].outcome = "approval" PROVE PrivateTo(q)'
      <4>1. CASE /\ Fresh(call'[q].new) /\ call'[q].new \in Approvals
                 /\ UNCHANGED <<store, steps, st>> /\ UNCHANGED st[q] /\ pc'[q] = "rec_infer"
        BY <2>a, <2>i, <4>1 DEF PrivateTo, Alone
      <4>2. CASE /\ pc[q] \in Asking \ {"rec_request"} /\ UNCHANGED <<call, steps>>
                 /\ call'[q] = call[q]
                 /\ pc'[q] # "rec_request" => st'[q].appr = st[q].appr
        <5> DEFINE a == call[q].new
        <5>1. /\ \A y \in Requests \ {q} : call[y].new # a /\ st[y].appr # a
              /\ st[q].appr # a
              /\ \A r \in Runs : store[r].appr # a /\ \A s \in steps[r] : s.appr # a
          BY <2>q, <3>2, <4>2 DEF PrivateTo
        <5>2. a # NoApproval
          BY <2>q, <3>2, <4>2, RuntimeAssumption DEF ProposalFits
        <5> HIDE DEF a
        <5>3. \A r \in Runs : store'[r].appr # a
          BY <2>w, <5>1, <5>2
        <5>4. call'[q].new = a /\ \A y \in Requests \ {q} : call'[y].new # a /\ st'[y].appr # a
          BY <2>a, <4>2, <5>1 DEF Alone, a
        <5> QED  BY <4>2, <5>1, <5>3, <5>4 DEF PrivateTo
      <4> QED  BY <2>p, <3>2, <4>1, <4>2
    <3> QED  BY <3>1, <3>2 DEF Private, PrivateTo
  <2> QED  BY <2>1, <2>2, <2>3
<1> QED  BY <1>1, <1>2, <1>3, MoveStep

-----------------------------------------------------------------------------
(* What was executed is not approved again *)

\* An approval that was executed in an earlier life of the process is neither
\* pending nor about to be hydrated as pending.
NoRegrant ==
    \A a \in Approvals : \A x \in executed[a] :
        /\ x.life <= crashes
        /\ BySocket(x) \/ x.life = crashes \/
              /\ center[a] # "pending"
              /\ \A q \in Requests : pc[q] = "put" /\ call[q].appr = a => copy[q] # "pending"

\* No approval was given in a life still to come.
GrantLife == \A a \in Approvals : \A y \in granted[a] : y.life <= crashes

\* What was executed in one life of the process is not approved in a later
\* one, unless the socket handler executed it without the run.
NotRegrantedUnlessSocket ==
    \A a \in Approvals : \A x \in executed[a], y \in granted[a] :
        BySocket(x) \/ y.life <= x.life

Regranting == NoRegrant /\ GrantLife /\ NotRegrantedUnlessSocket

\* Every step keeps that.
LEMMA RegrantingStep ==
    /\ TypeOK /\ CallOK /\ RefsIssued /\ Ownership /\ Recording /\ Order
    /\ Regranting /\ [Next]_vars
    => Regranting'
<1> SUFFICES ASSUME TypeOK, CallOK, RefsIssued, Ownership, Recording, Order, Regranting, [Next]_vars
             PROVE  Regranting'
  OBVIOUS
<1> USE DEF Regranting
<1>t. /\ crashes \in Nat
      /\ \A a \in Approvals : /\ \A x \in executed[a] : x.life \in Nat
                             /\ \A y \in granted[a] : y.life \in Nat
  BY RuntimeAssumption DEF TypeOK, Deed
<1>1. CASE UNCHANGED vars
  BY <1>1 DEF vars, runVars, centerVars, NoRegrant, GrantLife, NotRegrantedUnlessSocket, BySocket
<1>2. CASE Crash
  <2>1. /\ UNCHANGED <<call, granted, executed>> /\ crashes' = crashes + 1
        /\ \A q \in Requests : pc'[q] # "put"
        /\ \A a \in Approvals : center'[a] = "absent"
    BY <1>2 DEF Crash, CenterCrash
  <2> QED  BY <1>t, <2>1 DEF NoRegrant, GrantLife, NotRegrantedUnlessSocket, BySocket
<1>3. ASSUME NEW q \in Requests, Move(q) PROVE Regranting'
  <2>k. /\ Alone(q)
        /\ \A x \in Requests : pc[x] # "idle" =>
              pc'[x] # "idle" /\ call'[x].entry = call[x].entry
    BY <1>3, Kept
  <2>e. \A a \in Approvals : \A x \in executed[a] : call'[x.by].entry = call[x.by].entry
    BY <2>k DEF Recording, DeedsFit
  <2>c. UNCHANGED crashes
    BY <1>3 DEF Move, RecordMove, TransitionMove, PlanMove, OutcomeMove, ClearMove, LoadMove,
       CancelMove, LookupMove, ProposeMove, StageMove, ReadMove, PutMove, ResolveMove, RejectMove,
       RunMove, ArriveMove, ToolMove
  <2>n. Now(q).life = crashes
    BY DEF Now
\* A step that executes and approves nothing, makes nothing pending that was
\* executed, and hydrates nothing.
  <2>f. ASSUME UNCHANGED <<executed, granted>>,
               \A a \in Approvals : executed[a] # {} /\ center'[a] = "pending" => center[a] = "pending",
               pc'[q] # "put"
        PROVE  Regranting'
    BY <2>k, <2>e, <2>c, <2>f DEF NoRegrant, GrantLife, NotRegrantedUnlessSocket, BySocket, Alone
  <2>1. CASE RecordMove(q)
    BY <2>1, <2>f, RecordTable DEF RecordMove, OnError, centerVars, Looking
  <2>2. CASE TransitionMove(q)
    BY <2>2, <2>f, TransitionTable DEF TransitionMove, centerVars, Looking
  <2>3. CASE PlanMove(q) \/ OutcomeMove(q) \/ ClearMove(q) \/ LoadMove(q) \/ CancelMove(q)
             \/ LookupMove(q) \/ ArriveMove(q)
    BY <2>3, <2>f DEF PlanMove, OutcomeMove, ClearMove, LoadMove, CancelMove, LookupMove, ArriveMove,
       OnError, centerVars
  <2>4. CASE StageMove(q)
    BY <2>4, <2>f, ReplyTable DEF StageMove, OnError, centerVars
  <2>5. CASE RejectMove(q)
    BY <2>5, <2>f DEF RejectMove
  <2>6. CASE ProposeMove(q) \/ ToolMove(q)
    <3>1. UNCHANGED <<executed, granted>> /\ pc'[q] # "put"
      BY <2>6 DEF ProposeMove, ToolMove
    <3>2. UNCHANGED centerVars \/ \E a \in Approvals : \E r : Create(a, r)
      BY <2>6 DEF ProposeMove, ToolMove
    <3>3. \A a \in Approvals : executed[a] # {} /\ center'[a] = "pending" => center[a] = "pending"
      BY <3>2 DEF Create, Recording, DeedsFit, Issued, TypeOK, CenterTypeOK, centerVars
    <3> QED  BY <2>f, <3>1, <3>3
  <2>7. CASE ReadMove(q)
    <3>1. UNCHANGED <<center, executed, granted, call>>
      BY <2>7 DEF ReadMove, centerVars
    <3>2. CASE pc'[q] # "put"
      BY <2>f, <3>1, <3>2
    <3>3. CASE pc'[q] = "put"
      <4> DEFINE a == call[q].appr
                 r == call[q].run
      <4>1. PICK s \in steps[r] : /\ s.appr = a /\ copy'[q] = s.ast
                                 /\ \A u \in steps[r] : u.appr = a => u.idx <= s.idx
        BY <2>7, <3>3 DEF ReadMove, OnError
      <4>2. r \in Runs
        BY <2>7 DEF ReadMove, CallOK, CallFits, Unattached
      <4>3. owner[a] = {r}
        BY <4>1, <4>2 DEF Ownership, StepsOwned
      <4>4. \A u \in steps[r] : u.idx \in Nat
        BY <4>2 DEF TypeOK, Step
      <4>5. ASSUME NEW x \in executed[a], a \in Approvals, ~BySocket(x)
            PROVE  copy'[q] # "pending"
        BY <4>1, <4>2, <4>3, <4>4, <4>5
           DEF Recording, RecordedUnlessSocket, Order, StepsOrder
      <4> HIDE DEF a
      <4>6. \A x \in Requests : pc'[x] = "put" /\ x # q => pc[x] = "put" /\ copy'[x] = copy[x]
        BY <2>k DEF Alone
      <4>7. NoRegrant'
        BY <2>c, <3>1, <4>5, <4>6 DEF NoRegrant, BySocket, a
      <4> QED  BY <2>c, <3>1, <4>7 DEF GrantLife, NotRegrantedUnlessSocket, BySocket
    <3> QED  BY <3>2, <3>3
  <2>8. CASE PutMove(q)
    <3>1. /\ UNCHANGED <<executed, granted, call, copy>> /\ pc'[q] # "put" /\ pc[q] = "put"
          /\ center'[call[q].appr] = copy[q]
          /\ \A a \in Approvals \ {call[q].appr} : UNCHANGED center[a]
      BY <2>8 DEF PutMove
    <3> QED
      BY <2>k, <2>c, <3>1 DEF NoRegrant, GrantLife, NotRegrantedUnlessSocket, BySocket, Alone
  <2>9. CASE ResolveMove(q)
    <3> DEFINE a == call[q].appr
    <3>1. /\ UNCHANGED <<executed, call, copy>> /\ pc'[q] # "put" /\ a \in Approvals
          /\ \/ /\ center[a] = "pending" /\ center'[a] = "approved"
                /\ granted'[a] = granted[a] \cup {Now(q)}
                /\ \A b \in Approvals \ {a} : center'[b] = center[b] /\ granted'[b] = granted[b]
             \/ /\ center[a] = "pending" /\ center'[a] = "rejected" /\ UNCHANGED granted
                /\ \A b \in Approvals \ {a} : center'[b] = center[b]
             \/ UNCHANGED center /\ UNCHANGED granted
      BY <2>9 DEF ResolveMove
    <3> HIDE DEF a
    <3>2. CASE granted'[a] = granted[a] \cup {Now(q)} /\ center[a] = "pending"
               /\ center'[a] = "approved"
               /\ \A b \in Approvals \ {a} : center'[b] = center[b] /\ granted'[b] = granted[b]
      <4>1. NoRegrant'
        BY <2>k, <2>c, <3>1, <3>2 DEF NoRegrant, BySocket, Alone
      <4>2. GrantLife'
        BY <1>t, <2>c, <2>n, <3>1, <3>2 DEF GrantLife
      <4>3. \A x \in executed[a] : BySocket(x) \/ x.life = crashes
        BY <3>1, <3>2 DEF NoRegrant
      <4>4. NotRegrantedUnlessSocket'
        BY <1>t, <2>n, <3>1, <3>2, <4>3 DEF NotRegrantedUnlessSocket, BySocket
      <4> QED  BY <4>1, <4>2, <4>4
    <3>3. CASE UNCHANGED granted /\ \A b \in Approvals : center'[b] = "pending" => center[b] = "pending"
      BY <2>f, <3>1, <3>3
    <3> QED  BY <3>1, <3>2, <3>3
  <2>10. CASE RunMove(q)
    <3> DEFINE a == call[q].appr
    <3>1. /\ UNCHANGED <<granted, center, call, copy>> /\ pc'[q] # "put" /\ a \in Approvals
          /\ executed'[a] = executed[a] \cup {Now(q)}
          /\ \A b \in Approvals \ {a} : executed'[b] = executed[b]
      BY <2>10 DEF RunMove, centerVars
    <3> HIDE DEF a
    <3>2. NoRegrant'
      BY <1>t, <2>k, <2>c, <2>n, <3>1 DEF NoRegrant, BySocket, Alone
    <3>3. NotRegrantedUnlessSocket'
      BY <1>t, <2>n, <3>1 DEF NotRegrantedUnlessSocket, GrantLife, BySocket
    <3> QED  BY <2>c, <3>1, <3>2, <3>3 DEF GrantLife
  <2> QED
    BY <1>3, <2>1, <2>2, <2>3, <2>4, <2>5, <2>6, <2>7, <2>8, <2>9, <2>10 DEF Move
<1> QED  BY <1>1, <1>2, <1>3, MoveStep

-----------------------------------------------------------------------------
(* The theorems on the step history *)

\* The inductive invariant of the step history, on top of RuntimeInv.
HistoryInv == Ownership /\ Recording /\ Order /\ Regranting

\* It holds when nothing has been asked for yet.
LEMMA HistoryInit == Init => HistoryInv
BY RuntimeAssumption DEF Init, CenterInit, NoCall, NoState, HistoryInv, Ownership, ProposalFits, ResumptionFits,
   DirectFits, StepsOwned, Recording, WasRecorded, DeedsFit, RecordedUnlessSocket, Order, Private,
   PrivateTo, IdxAbove, StepsOrder, Regranting, NoRegrant, GrantLife, NotRegrantedUnlessSocket,
   Looking, Decided, Recorded, Asking, Asked, Direct

\* HistoryInv is an invariant of the runtime.
THEOREM HistoryInvariant == Spec => []HistoryInv
<1>1. RuntimeInv /\ HistoryInv /\ [Next]_vars => HistoryInv'
  BY OwnershipStep, RecordingStep, OrderStep, RegrantingStep DEF RuntimeInv, HistoryInv
<1> QED  BY <1>1, HistoryInit, RuntimeInvariant, PTL DEF Spec

\* A request comes by one of the endpoints in use.
EntriesUsed == \A q \in Requests : call[q].entry \in Entries \cup {"none"}

\* A request keeps the endpoint it came through, one of those in use.
LEMMA EntriesStep == TypeOK /\ CallOK /\ EntriesUsed /\ [Next]_vars => EntriesUsed'
<1> SUFFICES ASSUME TypeOK, CallOK, EntriesUsed, [Next]_vars PROVE EntriesUsed'
  OBVIOUS
<1>1. CASE UNCHANGED vars
  BY <1>1 DEF vars, runVars, EntriesUsed
<1>2. CASE Crash
  BY <1>2 DEF Crash, EntriesUsed
<1>3. ASSUME NEW q \in Requests, Move(q) PROVE EntriesUsed'
  <2>1. Alone(q)
    BY <1>3, Kept
  <2>2. UNCHANGED call \/ call'[q].entry = call[q].entry \/ call'[q].entry \in Entries
    BY <1>3 DEF Move, RecordMove, TransitionMove, PlanMove, OutcomeMove, ClearMove, LoadMove,
       CancelMove, LookupMove, ProposeMove, StageMove, ReadMove, PutMove, ResolveMove, RejectMove,
       RunMove, ArriveMove, ToolMove
  <2> QED  BY <2>1, <2>2 DEF EntriesUsed, Alone
<1> QED  BY <1>1, <1>2, <1>3, MoveStep

\* It is an invariant of the runtime by itself.
LEMMA EntriesInvariant == Spec => []EntriesUsed
<1>1. Init => EntriesUsed
  BY DEF Init, EntriesUsed, NoCall
<1>2. RuntimeInv /\ EntriesUsed /\ [Next]_vars => EntriesUsed'
  BY EntriesStep DEF RuntimeInv
<1> QED  BY <1>1, <1>2, RuntimeInvariant, PTL DEF Spec

\* Where the socket handler is not in use nothing was executed by it.
LEMMA NoSocketDeeds ==
    ASSUME "ws" \notin Entries, EntriesUsed, HistoryInv, NEW a \in Approvals, NEW x \in executed[a]
    PROVE  ~BySocket(x)
<1>1. x.by \in Requests
  BY DEF HistoryInv, Recording, DeedsFit
<1> QED  BY <1>1 DEF BySocket, EntriesUsed

\* Without the WebSocket handler, the approval of a run is in the step history
\* before its snapshot is executed, whatever store calls fail and whenever the
\* process dies.
THEOREM RecordedFirst ==
    ASSUME "ws" \notin Entries PROVE Spec => []RecordedBeforeExecuted
<1>1. HistoryInv /\ EntriesUsed => RecordedBeforeExecuted
  BY NoSocketDeeds DEF HistoryInv, Recording, RecordedUnlessSocket, RecordedBeforeExecuted
<1> QED  BY <1>1, HistoryInvariant, EntriesInvariant, PTL

\* Without it, what was executed in one life of the process is not approved in
\* a later one: the step history hydrates it as resolved.
THEOREM NotRegranted ==
    ASSUME "ws" \notin Entries PROVE Spec => []NotRegrantedAfterRestart
<1>1. HistoryInv /\ EntriesUsed => NotRegrantedAfterRestart
  BY NoSocketDeeds DEF HistoryInv, Regranting, NotRegrantedUnlessSocket, NotRegrantedAfterRestart
<1> QED  BY <1>1, HistoryInvariant, EntriesInvariant, PTL

-----------------------------------------------------------------------------
(* A run has one request in its loop at most, and one approval that may    *)
(* still be executed; while it has the approval, the request in the loop   *)
(* is the one that asked for it or the one that was granted it.            *)

(* Runs that are named are known *)

\* The stages at which a request need not hold the state of a run.
Stateless == {"idle", "lookup", "load", "cancel", "done"} \cup Looking \cup Direct

\* A run that is named, owns an approval or has executed a tool was saved, and
\* stays so.
KnownRuns ==
    /\ \A q \in Requests : /\ \A r \in Runs : call[q].run = r => Known(r)
                           /\ pc[q] \notin Stateless => st[q].status # "absent"
    /\ \A r \in Runs : /\ calls[r] # 0 => Known(r)
                       /\ \A a \in Approvals : owner[a] = {r} => Known(r)

\* A request that records, enters a status or replies holds a state.
LEMMA StatefulTable ==
    DOMAIN AfterRecord \cup DOMAIN Entered \cup DOMAIN AfterReply \subseteq Stages \ Stateless
BY DEF AfterRecord, Entered, AfterReply, Stages, Stateless, Looking, Direct

\* No step names a run that was not saved, nor loses one.
LEMMA KnownStep ==
    TypeOK /\ CallOK /\ Ownership /\ KnownRuns /\ [Next]_vars => KnownRuns'
<1> SUFFICES ASSUME TypeOK, CallOK, Ownership, KnownRuns, [Next]_vars PROVE KnownRuns'
  OBVIOUS
<1>1. CASE UNCHANGED vars
  BY <1>1 DEF vars, runVars, centerVars, KnownRuns, Known
<1>2. CASE Crash
  BY <1>2 DEF Crash, CenterCrash, KnownRuns, Known, Stateless
<1>3. ASSUME NEW q \in Requests, Move(q) PROVE KnownRuns'
  <2>a. Alone(q)
    BY <1>3, Kept
  <2>q. /\ \A r \in Runs : call[q].run = r => Known(r)
        /\ pc[q] \notin Stateless => st[q].status # "absent"
        /\ ProposalFits(q) /\ ResumptionFits(q)
    BY DEF KnownRuns, Ownership
\* What is saved is a state of q, and q holds one when it saves.
  <2>1. \A r \in Runs : Known(r) => Known(r)'
    <3>1. CASE UNCHANGED store
      BY <3>1 DEF Known
    <3>2. CASE RecordMove(q)
      <4>1. st'[q].status # "absent"
        BY <2>q, <3>2, StatefulTable DEF RecordMove
      <4> QED  BY <3>2, <4>1 DEF RecordMove, Saves, Known
    <3>3. CASE TransitionMove(q)
      <4>1. st'[q].status # "absent"
        BY <3>3, StageTables DEF TransitionMove, RunStatus, Terminal
      <4> QED  BY <3>3, <4>1 DEF TransitionMove, Saves, Known
    <3>4. CASE ClearMove(q)
      <4>1. st'[q].status # "absent"
        BY <2>q, <3>4 DEF ClearMove, Stateless, Looking, Direct
      <4> QED  BY <3>4, <4>1 DEF ClearMove, Saves, Known
    <3>5. CASE ArriveMove(q)
      BY <3>5 DEF ArriveMove, Known
    <3> QED
      BY <1>3, <3>1, <3>2, <3>3, <3>4, <3>5 DEF Move, PlanMove, OutcomeMove, LoadMove, CancelMove,
         LookupMove, ProposeMove, StageMove, ReadMove, PutMove, ResolveMove, RejectMove, RunMove,
         ToolMove
  <2>2. \A r \in Runs : call'[q].run = r => Known(r)'
    <3>1. CASE call'[q].run = call[q].run
      BY <2>1, <2>q, <3>1
    <3>2. CASE LookupMove(q)
      BY <2>1, <3>1, <3>2 DEF LookupMove, KnownRuns, Paused, Known, CallOK, CallFits, AtApproval
    <3>3. CASE ArriveMove(q)
      BY <2>1, <3>3, NoRunAssumption DEF ArriveMove, Paused, Known
    <3> QED
      BY <1>3, <3>1, <3>2, <3>3 DEF Move, RecordMove, TransitionMove, PlanMove, OutcomeMove,
         ClearMove, LoadMove, CancelMove, ProposeMove, StageMove, ReadMove, PutMove, ResolveMove,
         RejectMove, RunMove, ToolMove
  <2>3. pc'[q] \notin Stateless => st'[q].status # "absent"
    <3>1. CASE RecordMove(q)
      BY <2>q, <3>1, StatefulTable DEF RecordMove
    <3>2. CASE TransitionMove(q)
      BY <3>2, StageTables DEF TransitionMove, RunStatus, Terminal
    <3> USE <2>q DEF Stateless, Looking, Direct
    <3>3. CASE PlanMove(q) \/ OutcomeMove(q) \/ ClearMove(q)
      BY <3>3 DEF PlanMove, OutcomeMove, ClearMove
    <3>4. CASE LoadMove(q) \/ CancelMove(q) \/ LookupMove(q)
      BY <3>4 DEF LoadMove, CancelMove, LookupMove, OnError, Known, Paused, CallOK, CallFits, Unattached
    <3>5. CASE ProposeMove(q) \/ ReadMove(q) \/ RejectMove(q) \/ RunMove(q)
      BY <3>5 DEF ProposeMove, ReadMove, RejectMove, RunMove, OnError
    <3>6. CASE StageMove(q) \/ PutMove(q) \/ ResolveMove(q)
      BY <3>6, ReplyTable, StatefulTable DEF StageMove, PutMove, ResolveMove, OnError, ResumptionFits
    <3>7. CASE ArriveMove(q) \/ ToolMove(q)
      BY <3>7 DEF ArriveMove, ToolMove
    <3> QED  BY <1>3, <3>1, <3>2, <3>3, <3>4, <3>5, <3>6, <3>7 DEF Move
  <2>4. ASSUME NEW r \in Runs PROVE calls'[r] # 0 => Known(r)'
    <3>1. CASE calls'[r] = calls[r]
      BY <2>1, <3>1 DEF KnownRuns
    <3>2. CASE calls'[r] # calls[r]
      <4>1. r = call[q].run \/ \E a \in Approvals : owner[a] = {r}
        BY <1>3, <3>2 DEF Move, RecordMove, TransitionMove, PlanMove, OutcomeMove, ClearMove, LoadMove,
           CancelMove, LookupMove, ProposeMove, StageMove, ReadMove, PutMove, ResolveMove, RejectMove,
           RunMove, ArriveMove, ToolMove
      <4> QED  BY <2>1, <4>1 DEF KnownRuns
    <3> QED  BY <3>1, <3>2
  <2>5. ASSUME NEW r \in Runs, NEW a \in Approvals, owner'[a] = {r} PROVE Known(r)'
    <3>1. CASE owner[a] = {r}
      BY <2>1, <3>1 DEF KnownRuns
    <3>2. CASE owner'[a] # owner[a]
      <4>1. (ProposeMove(q) /\ r = call[q].run) \/ r = NoRun
        <5>1. ProposeMove(q) \/ ToolMove(q)
          BY <1>3, <3>2 DEF Move, RecordMove, TransitionMove, PlanMove, OutcomeMove, ClearMove,
             LoadMove, CancelMove, LookupMove, StageMove, ReadMove, PutMove, ResolveMove, RejectMove,
             RunMove, ArriveMove, centerVars
        <5> QED
          BY <2>5, <3>2, <5>1 DEF ProposeMove, ToolMove, Create, TypeOK, CenterTypeOK, centerVars
      <4> QED  BY <2>1, <2>q, <4>1, NoRunAssumption
    <3> QED  BY <2>5, <3>1, <3>2
  <2>6. ASSUME NEW x \in Requests, x # q
        PROVE  /\ \A r \in Runs : call'[x].run = r => Known(r)'
               /\ pc'[x] \notin Stateless => st'[x].status # "absent"
    BY <2>a, <2>1, <2>6 DEF KnownRuns, Alone
  <2> QED  BY <2>2, <2>3, <2>4, <2>5, <2>6 DEF KnownRuns
<1> QED  BY <1>1, <1>2, <1>3, MoveStep

\* No state counts more steps than the limit.
CountBound ==
    /\ \A q \in Requests : st[q].count <= MaxSteps
    /\ \A r \in Runs : store[r].count <= MaxSteps

\* Only the head of the loop counts a step, below the limit.
LEMMA CountStep == TypeOK /\ CallOK /\ CountBound /\ [Next]_vars => CountBound'
<1> SUFFICES ASSUME TypeOK, CallOK, CountBound, [Next]_vars PROVE CountBound'
  OBVIOUS
<1>1. CASE UNCHANGED vars
  BY <1>1 DEF vars, runVars, CountBound
<1>2. CASE Crash
  BY <1>2 DEF Crash, CountBound
<1>3. ASSUME NEW q \in Requests, Move(q) PROVE CountBound'
  <2>a. Alone(q)
    BY <1>3, Kept
  <2>t. MaxSteps \in Nat /\ st[q].count \in Nat
    BY RuntimeAssumption DEF TypeOK, RunState
  <2>1. st'[q].count <= MaxSteps
    <3>1. CASE st'[q].count = st[q].count
      BY <3>1 DEF CountBound
    <3>2. CASE PlanMove(q)
      BY <2>t, <3>1, <3>2 DEF PlanMove
    <3>3. CASE LoadMove(q) \/ CancelMove(q) \/ ArriveMove(q)
      BY <2>t, <3>1, <3>3 DEF LoadMove, CancelMove, ArriveMove, CountBound, CallOK, CallFits, Unattached
    <3> QED
      BY <1>3, <3>1, <3>2, <3>3 DEF Move, RecordMove, TransitionMove, OutcomeMove, ClearMove,
         LookupMove, ProposeMove, StageMove, ReadMove, PutMove, ResolveMove, RejectMove, RunMove,
         ToolMove
  <2>2. \A r \in Runs : UNCHANGED store[r] \/ store'[r] = st'[q]
    BY <1>3 DEF Move, RecordMove, TransitionMove, PlanMove, OutcomeMove, ClearMove, LoadMove,
       CancelMove, LookupMove, ProposeMove, StageMove, ReadMove, PutMove, ResolveMove, RejectMove,
       RunMove, ArriveMove, ToolMove, Saves
  <2> QED  BY <2>a, <2>1, <2>2 DEF CountBound, Alone
<1> QED  BY <1>1, <1>2, <1>3, MoveStep

-----------------------------------------------------------------------------
(* Nobody waits for an approval that is still being asked for *)

\* The stages of a proposal until the run is paused for it.
Parking == Asking \cup {"to_request", "to_pause"}

\* Until the run is paused nobody can resume it for the approval.
ParkedAlone(q) ==
    LET a == call[q].new
    IN  pc[q] \in Parking /\ call[q].outcome = "approval" =>
            /\ \A x \in Requests \ {q} : call[x].new # a
            /\ \A x \in Requests : st[x].appr = a => st[x].status # "paused_for_approval"
            /\ \A r \in Runs : ~Paused(r, a)

NotYetPaused ==
    \A q \in Requests :
        /\ ParkedAlone(q)
        /\ pc[q] \in Parking \cup {"propose"} => st[q].status # "paused_for_approval"

\* How a request gets to park: it proposes, or goes on.
LEMMA ParkingFlow ==
    ASSUME TypeOK, CallOK, NEW q \in Requests, Move(q), pc'[q] \in Parking \cup {"propose"}
    PROVE  /\ st'[q].status # "paused_for_approval" \/ UNCHANGED st[q].status
           /\ st'[q].status = "paused_for_approval" => pc[q] \in Parking \cup {"propose"}
           /\ \/ pc'[q] = "propose"
              \/ pc[q] = "propose" /\ call'[q].outcome # "approval"
              \/ /\ pc[q] = "propose" /\ Fresh(call'[q].new) /\ call'[q].new \in Approvals
                 /\ UNCHANGED <<store, steps, st>> /\ UNCHANGED st[q]
              \/ pc[q] \in Parking /\ UNCHANGED call /\ UNCHANGED call[q]
<1>1. CASE RecordMove(q)
  <2>1. pc'[q] = AfterRecord[pc[q]]
    BY <1>1 DEF RecordMove, Parking, Asking, OnError
  <2>2. pc[q] \in Parking \cup {"rec_plan", "rec_propose"} /\ pc'[q] # "propose"
    BY <1>1, <2>1 DEF RecordMove, Parking, Asking, AfterRecord
  <2>3. pc[q] \in Parking
    BY <1>1, <2>1, <2>2 DEF RecordMove, Parking, Asking, AfterRecord
  <2> QED  BY <1>1, <2>2, <2>3 DEF RecordMove
<1>2. CASE TransitionMove(q)
  <2>1. /\ pc[q] \in Parking \/ pc'[q] = "propose"
        /\ Entered[pc[q]] # "paused_for_approval"
    BY <1>2 DEF TransitionMove, Parking, Asking, Entered, AfterEntered, OnError
  <2> QED  BY <1>2, <2>1 DEF TransitionMove
<1>3. CASE ProposeMove(q)
  BY <1>3 DEF ProposeMove, Create, Parking, Asking
<1>4. CASE OutcomeMove(q)
  BY <1>4 DEF OutcomeMove, Parking, Asking
<1>5. CASE StageMove(q)
  BY <1>5, ReplyTable DEF StageMove, OnError, Parking, Asking
<1>6. CASE PlanMove(q) \/ ClearMove(q) \/ LoadMove(q) \/ CancelMove(q) \/ LookupMove(q)
           \/ ReadMove(q) \/ PutMove(q) \/ ResolveMove(q) \/ RejectMove(q) \/ RunMove(q)
           \/ ArriveMove(q) \/ ToolMove(q)
  BY <1>6 DEF PlanMove, ClearMove, LoadMove, CancelMove, LookupMove, ReadMove, PutMove,
     ResolveMove, RejectMove, RunMove, ArriveMove, ToolMove, Parking, Asking, OnError
<1> QED  BY <1>1, <1>2, <1>3, <1>4, <1>5, <1>6 DEF Move

\* What may become paused: the run of a request that parks it, with its own proposal.
LEMMA PausingFlow ==
    ASSUME TypeOK, CallOK, Ownership, NEW q \in Requests, Move(q),
           st'[q].status = "paused_for_approval"
    PROVE  \/ st[q].status = "paused_for_approval" /\ st'[q].appr = st[q].appr
           \/ st'[q].appr = NoApproval
           \/ \E r \in Runs : st'[q] = store[r]
           \/ pc[q] = "outcome" /\ st[q].status = "paused_for_approval"
           \/ /\ pc[q] = "to_pause" /\ call[q].outcome = "approval"
              /\ st'[q].appr = call[q].new /\ UNCHANGED call
<1>1. CASE UNCHANGED st[q]
  BY <1>1
<1>2. CASE RecordMove(q) \/ PlanMove(q) \/ OutcomeMove(q) \/ ClearMove(q)
  BY <1>2 DEF RecordMove, PlanMove, OutcomeMove, ClearMove
<1>3. CASE TransitionMove(q)
  <2>1. pc[q] = "to_pause"
    BY <1>3 DEF TransitionMove, Entered
  <2> QED  BY <1>3, <2>1 DEF TransitionMove, Ownership, ProposalFits, Asked
<1>4. CASE LoadMove(q) \/ CancelMove(q) \/ ArriveMove(q)
  BY <1>1, <1>4 DEF LoadMove, CancelMove, ArriveMove, CallOK, CallFits, Unattached
<1>5. CASE LookupMove(q) \/ ProposeMove(q) \/ StageMove(q) \/ ReadMove(q) \/ PutMove(q)
           \/ ResolveMove(q) \/ RejectMove(q) \/ RunMove(q) \/ ToolMove(q)
  BY <1>1, <1>5 DEF LookupMove, ProposeMove, StageMove, ReadMove, PutMove, ResolveMove,
     RejectMove, RunMove, ToolMove
<1> QED  BY <1>2, <1>3, <1>4, <1>5 DEF Move

\* The last proposal of the mover is the one it had, none, or a fresh one; the
\* store is given its state or left alone.
LEMMA ProposalFlow ==
    ASSUME TypeOK, CallOK, NEW q \in Requests, Move(q)
    PROVE  /\ \/ call'[q].new = call[q].new \/ call'[q].new = NoApproval
              \/ Fresh(call'[q].new) /\ call'[q].new \in Approvals
           /\ \A r \in Runs : UNCHANGED store[r] \/ store'[r] = st'[q]
<1>1. \A r \in Runs : UNCHANGED store[r] \/ store'[r] = st'[q]
  BY DEF Move, RecordMove, TransitionMove, PlanMove, OutcomeMove, ClearMove, LoadMove,
     CancelMove, LookupMove, ProposeMove, StageMove, ReadMove, PutMove, ResolveMove, RejectMove,
     RunMove, ArriveMove, ToolMove, Saves
<1>2. CASE UNCHANGED call
  BY <1>1, <1>2
<1>3. CASE LookupMove(q) \/ ArriveMove(q)
  BY <1>1, <1>3 DEF LookupMove, ArriveMove
<1>4. CASE ProposeMove(q)
  BY <1>1, <1>4 DEF ProposeMove, Create
<1> QED
  BY <1>2, <1>3, <1>4 DEF Move, RecordMove, TransitionMove, PlanMove, OutcomeMove, ClearMove,
     LoadMove, CancelMove, StageMove, ReadMove, PutMove, ResolveMove, RejectMove, RunMove, ToolMove

\* No step pauses a run for an approval that another request still asks for.
LEMMA NotYetPausedStep ==
    TypeOK /\ CallOK /\ RefsIssued /\ Ownership /\ NotYetPaused /\ [Next]_vars => NotYetPaused'
<1> SUFFICES ASSUME TypeOK, CallOK, RefsIssued, Ownership, NotYetPaused, [Next]_vars
             PROVE  NotYetPaused'
  OBVIOUS
<1>1. CASE UNCHANGED vars
  BY <1>1 DEF vars, runVars, NotYetPaused, ParkedAlone, Paused
<1>2. CASE Crash
  BY <1>2 DEF Crash, NotYetPaused, ParkedAlone, Parking, Asking
<1>3. ASSUME NEW q \in Requests, Move(q) PROVE NotYetPaused'
  <2>a. Alone(q)
    BY <1>3, Kept
  <2>i. \A a \in Approvals : Fresh(a) =>
           /\ \A x \in Requests : st[x].appr # a /\ call[x].new # a
           /\ \A r \in Runs : store[r].appr # a
    BY RuntimeAssumption DEF RefsIssued, Ids, Issued, Fresh
  <2>w. \A r \in Runs : UNCHANGED store[r] \/ store'[r] = st'[q]
    BY <1>3, ProposalFlow
  <2>n. \/ call'[q].new = call[q].new \/ call'[q].new = NoApproval
        \/ Fresh(call'[q].new) /\ call'[q].new \in Approvals
    BY <1>3, ProposalFlow
\* No approval that x asks for becomes one that q's state is paused for.
  <2>s. ASSUME NEW x \in Requests, ParkedAlone(x), ProposalFits(x), x = q => pc[q] # "to_pause",
               pc[x] \in Parking, call[x].outcome = "approval", st'[q].appr = call[x].new
        PROVE  st'[q].status # "paused_for_approval"
    <3> DEFINE a == call[x].new
    <3> SUFFICES ASSUME st'[q].status = "paused_for_approval" PROVE FALSE
      OBVIOUS
    <3>1. /\ \A y \in Requests \ {x} : call[y].new # a
          /\ \A y \in Requests : st[y].appr = a => st[y].status # "paused_for_approval"
          /\ \A r \in Runs : ~Paused(r, a)
          /\ a \in Approvals /\ a # NoApproval
      BY <2>s, RuntimeAssumption DEF ParkedAlone, ProposalFits
    <3>2. ~(pc[q] = "outcome" /\ st[q].status = "paused_for_approval")
      BY DEF NotYetPaused, Parking, Asking
    <3> HIDE DEF a
    <3>3. st'[q].appr = a
      BY <2>s DEF a
    <3> QED  BY <1>3, <2>s, <3>1, <3>2, <3>3, PausingFlow DEF Paused, a
  <2>1. ASSUME NEW x \in Requests, x # q PROVE ParkedAlone(x)'
    <3> DEFINE a == call[x].new
    <3> SUFFICES ASSUME pc'[x] \in Parking, call'[x].outcome = "approval" PROVE ParkedAlone(x)'
      BY DEF ParkedAlone
    <3>1. /\ UNCHANGED <<pc[x], st[x], call[x]>> /\ ParkedAlone(x) /\ ProposalFits(x)
      BY <2>a, <2>1 DEF Alone, NotYetPaused, Ownership
    <3>2. /\ \A y \in Requests \ {x} : call[y].new # a
          /\ \A y \in Requests : st[y].appr = a => st[y].status # "paused_for_approval"
          /\ \A r \in Runs : ~Paused(r, a)
          /\ a \in Approvals /\ a # NoApproval /\ ~Fresh(a)
      BY <3>1, RuntimeAssumption DEF ParkedAlone, ProposalFits, Fresh
    <3>3. st'[q].appr = a => st'[q].status # "paused_for_approval"
      BY <2>1, <2>s, <3>1
    <3> HIDE DEF a
    <3>4. \A y \in Requests \ {x} : call'[y].new # a
      BY <2>a, <2>n, <2>1, <3>2 DEF Alone
    <3>5. \A y \in Requests : st'[y].appr = a => st'[y].status # "paused_for_approval"
      BY <2>a, <3>2, <3>3 DEF Alone
    <3>6. \A r \in Runs : ~(store'[r].appr = a /\ store'[r].status = "paused_for_approval")
      BY <2>w, <3>2, <3>3 DEF Paused
    <3> QED  BY <3>1, <3>4, <3>5, <3>6 DEF ParkedAlone, Paused, a
  <2>2. pc'[q] \in Parking \cup {"propose"} => st'[q].status # "paused_for_approval"
    BY <1>3, ParkingFlow DEF NotYetPaused
  <2>3. ParkedAlone(q)'
    <3> DEFINE a == call'[q].new
    <3> SUFFICES ASSUME pc'[q] \in Parking, call'[q].outcome = "approval" PROVE ParkedAlone(q)'
      BY DEF ParkedAlone
    <3>0. pc'[q] # "propose"
      BY DEF Parking, Asking
    <3>1. CASE /\ Fresh(a) /\ a \in Approvals
               /\ UNCHANGED <<store, steps, st>> /\ UNCHANGED st[q]
      <4>1. \A y \in Requests \ {q} : call'[y].new # a
        BY <2>a, <2>i, <3>1 DEF Alone
      <4> QED  BY <2>i, <3>1, <4>1 DEF ParkedAlone, Paused
    <3>2. CASE pc[q] \in Parking /\ UNCHANGED call /\ UNCHANGED call[q]
      <4>1. /\ \A y \in Requests \ {q} : call[y].new # a
            /\ \A y \in Requests : st[y].appr = a => st[y].status # "paused_for_approval"
            /\ \A r \in Runs : ~Paused(r, a)
        BY <3>2 DEF NotYetPaused, ParkedAlone
      <4>2. st'[q].status # "paused_for_approval"
        BY <2>2
      <4>3. \A r \in Runs : ~(store'[r].appr = a /\ store'[r].status = "paused_for_approval")
        BY <2>w, <4>1, <4>2 DEF Paused
      <4> QED  BY <2>a, <3>2, <4>1, <4>2, <4>3 DEF ParkedAlone, Paused, Alone
    <3> QED  BY <1>3, <3>0, <3>1, <3>2, ParkingFlow
  <2>4. \A x \in Requests \ {q} :
           pc'[x] \in Parking \cup {"propose"} => st'[x].status # "paused_for_approval"
    BY <2>a DEF NotYetPaused, Alone
  <2> QED  BY <2>1, <2>2, <2>3, <2>4 DEF NotYetPaused
<1> QED  BY <1>1, <1>2, <1>3, MoveStep

-----------------------------------------------------------------------------
(* One request in the loop of a run, one approval that may be executed *)

\* The stages of the loop: with a step of the plan that may execute a tool,
\* with none, and with an approval that was granted.
Proposing == {"rec_plan", "to_plan", "decide", "rec_propose", "to_propose", "propose"}
Unowing == {"message", "rec_context", "to_context", "loop", "rec_continue", "to_continue",
            "rec_exec", "to_exec", "to_completed", "to_failed", "rec_executed", "to_executed",
            "clear"}
Winning == {"rec_approved", "to_approved", "to_executing", "check", "execute"}

LoopStages == Proposing \cup Unowing \cup Parking \cup Winning

Looping(q, r) == pc[q] \in LoopStages /\ call[q].run = r

\* Approval a of run r may still be executed.
Open(a, r) == owner[a] = {r} /\ center[a] \in {"pending", "approved"} /\ executed[a] = {}

\* Request q asks for approval a, or was granted it.
Awaits(q, a) ==
    \/ pc[q] \in Parking /\ call[q].outcome = "approval" /\ call[q].new = a
    \/ pc[q] \in Winning /\ call[q].appr = a

OneThread ==
    \A r \in Runs :
        /\ \A q, x \in Requests : Looping(q, r) /\ Looping(x, r) => q = x
        /\ \A a \in Approvals, q \in Requests : Open(a, r) /\ Looping(q, r) => Awaits(q, a)
        /\ \A a, b \in Approvals : Open(a, r) /\ Open(b, r) => a = b

\* The recorded stages and the transitions keep a request in its part of the loop.
LEMMA LoopTable ==
    /\ \A p \in DOMAIN AfterRecord : AfterRecord[p] \in LoopStages =>
          /\ p \in LoopStages
          /\ AfterRecord[p] \in Proposing => p \in Proposing
          /\ AfterRecord[p] \in Parking <=> p \in Parking
          /\ AfterRecord[p] \in Winning <=> p \in Winning
    /\ \A q : \A p \in DOMAIN Entered : AfterEntered(q)[p] \in LoopStages =>
          /\ p \in LoopStages
          /\ AfterEntered(q)[p] \in Proposing => p \in Proposing
          /\ AfterEntered(q)[p] \in Parking <=> p \in Parking
          /\ AfterEntered(q)[p] \in Winning <=> p \in Winning
    /\ {"rec_fail", "done", "direct", "rec_final", "rec_rejfinal", "rec_summary", "hydrate",
        "steps", "put", "resolve", "cancel", "cancel_reject", "rec_cancel", "load", "lookup",
        "rec_execfail", "rec_rejected", "direct_check", "direct_execute", "idle"}
          \cap LoopStages = {}
    /\ Parking \cap Winning = {} /\ Parking \cap Proposing = {} /\ Parking \cap Unowing = {}
    /\ Winning \cap Proposing = {} /\ Winning \cap Unowing = {} /\ Proposing \cap Unowing = {}
<1> USE DEF LoopStages, Proposing, Unowing, Parking, Asking, Winning
<1>1. \A p \in DOMAIN AfterRecord : AfterRecord[p] \in LoopStages =>
          /\ p \in LoopStages
          /\ AfterRecord[p] \in Proposing => p \in Proposing
          /\ AfterRecord[p] \in Parking <=> p \in Parking
          /\ AfterRecord[p] \in Winning <=> p \in Winning
  BY DEF AfterRecord
<1>2. \A q : \A p \in DOMAIN Entered : AfterEntered(q)[p] \in LoopStages =>
          /\ p \in LoopStages
          /\ AfterEntered(q)[p] \in Proposing => p \in Proposing
          /\ AfterEntered(q)[p] \in Parking <=> p \in Parking
          /\ AfterEntered(q)[p] \in Winning <=> p \in Winning
  BY DEF Entered, AfterEntered, OnError
<1>3. /\ {"rec_fail", "done", "direct", "rec_final", "rec_rejfinal", "rec_summary", "hydrate",
          "steps", "put", "resolve", "cancel", "cancel_reject", "rec_cancel", "load", "lookup",
          "rec_execfail", "rec_rejected", "direct_check", "direct_execute", "idle"}
            \cap LoopStages = {}
      /\ Parking \cap Winning = {} /\ Parking \cap Proposing = {} /\ Parking \cap Unowing = {}
      /\ Winning \cap Proposing = {} /\ Winning \cap Unowing = {} /\ Proposing \cap Unowing = {}
  OBVIOUS
<1> QED  BY <1>1, <1>2, <1>3

\* q goes on in its part of the loop, or from a proposal that needs no
\* approval, or from a finished step, back to where it owes none.
Goes(q) ==
    /\ UNCHANGED <<centerVars, call, crashes, executed, calls>> /\ UNCHANGED call[q]
    /\ pc[q] \in LoopStages
    /\ pc'[q] \in Proposing => pc[q] \in Proposing
    /\ pc'[q] \in Parking => pc[q] \in Parking
    /\ pc[q] \in Parking => pc'[q] \in Parking \/ call[q].outcome # "approval"
    /\ pc'[q] \in Winning <=> pc[q] \in Winning
    /\ st'[q].count = st[q].count

\* q plans a step.
Plans(q) ==
    /\ UNCHANGED <<centerVars, call, crashes, executed, calls>> /\ UNCHANGED call[q]
    /\ pc[q] = "loop" /\ pc'[q] = "rec_plan" /\ st'[q].count = st[q].count + 1

\* A request gets into the loop with a new run or a granted approval, and goes
\* on by planning, proposing and executing.
LEMMA LoopFlow ==
    ASSUME TypeOK, CallOK, NEW q \in Requests, Move(q), pc'[q] \in LoopStages
    PROVE  \/ Goes(q) \/ Plans(q)
           \/ ProposeMove(q) /\ pc'[q] = "rec_infer"
           \/ ResolveMove(q) /\ pc[q] = "resolve" /\ pc'[q] = "rec_approved"
           \/ RunMove(q) /\ pc[q] = "execute" /\ pc'[q] = "rec_executed"
           \/ ArriveMove(q) /\ pc'[q] = "message"
<1>1. CASE RecordMove(q)
  BY <1>1, LoopTable DEF RecordMove, OnError, Goes
<1>2. CASE TransitionMove(q)
  BY <1>2, LoopTable DEF TransitionMove, Goes
<1>3. CASE PlanMove(q)
  BY <1>3, LoopTable DEF PlanMove, Plans
<1>4. CASE OutcomeMove(q)
  BY <1>4 DEF OutcomeMove, Goes, LoopStages, Proposing, Parking, Asking, Winning
<1>5. CASE ClearMove(q)
  BY <1>5, LoopTable DEF ClearMove, OnError, Goes, LoopStages, Unowing
<1>6. CASE StageMove(q)
  BY <1>6, LoopTable, ReplyTable
     DEF StageMove, OnError, Goes, LoopStages, Proposing, Unowing, Parking, Asking, Winning
<1>7. CASE LoadMove(q) \/ CancelMove(q) \/ LookupMove(q) \/ ReadMove(q) \/ PutMove(q)
           \/ RejectMove(q) \/ ToolMove(q)
  BY <1>7, LoopTable DEF LoadMove, CancelMove, LookupMove, ReadMove, PutMove, RejectMove, ToolMove,
     OnError
<1>8. CASE ProposeMove(q) \/ ResolveMove(q) \/ RunMove(q) \/ ArriveMove(q)
  BY <1>8, LoopTable DEF ProposeMove, ResolveMove, RunMove, ArriveMove
<1> QED  BY <1>1, <1>2, <1>3, <1>4, <1>5, <1>6, <1>7, <1>8 DEF Move

\* q asks for approval a, which nobody had.
Asks(q, a) ==
    /\ ProposeMove(q) /\ pc'[q] = "rec_infer" /\ Create(a, call[q].run) /\ UNCHANGED calls
    /\ call'[q].new = a /\ call'[q].outcome = "approval"

\* Until the process restarts, an approval that may be executed could be before,
\* or is new.
LEMMA OpenFlow ==
    ASSUME TypeOK, CallOK, RefsIssued, ExecutedWasGranted, NothingLost, crashes = 0,
           NEW q \in Requests, Move(q),
           NEW a \in Approvals, NEW r \in Runs, Open(a, r)'
    PROVE  Open(a, r) \/ (Asks(q, a) /\ call[q].run = r)
<1>t. /\ center \in [Approvals -> ApprovalStatus \cup {"absent"}]
      /\ owner \in [Approvals -> {{}} \cup {{p} : p \in Runs \cup {NoRun}}]
  BY DEF TypeOK, CenterTypeOK
<1>o. owner'[a] = {r} /\ center'[a] \in {"pending", "approved"} /\ executed'[a] = {}
  BY DEF Open
<1>e. executed[a] = {}
  <2>1. executed[a] \subseteq executed'[a]
    BY DEF Move, RecordMove, TransitionMove, PlanMove, OutcomeMove, ClearMove, LoadMove, CancelMove,
       LookupMove, ProposeMove, StageMove, ReadMove, PutMove, ResolveMove, RejectMove, RunMove,
       ArriveMove, ToolMove
  <2> QED  BY <1>o, <2>1
<1>1. CASE UNCHANGED <<center[a], owner[a]>>
  BY <1>o, <1>e, <1>1 DEF Open
<1>2. CASE ResolveMove(q) \/ RejectMove(q)
  BY <1>o, <1>e, <1>2 DEF ResolveMove, RejectMove, Open
<1>3. CASE PutMove(q)
  BY <1>3 DEF NothingLost, PutMove
<1>4. CASE ToolMove(q)
  BY <1>t, <1>o, <1>1, <1>4, NoRunAssumption DEF ToolMove, Create
<1>5. CASE ProposeMove(q)
  <2>1. CASE UNCHANGED centerVars
    BY <1>1, <2>1 DEF centerVars
  <2>2. ASSUME NEW b \in Approvals,
               /\ pc'[q] = "rec_infer" /\ Create(b, call[q].run) /\ UNCHANGED calls
               /\ call'[q].new = b /\ call'[q].outcome = "approval"
        PROVE  Open(a, r) \/ (Asks(q, a) /\ call[q].run = r)
    BY <1>t, <1>o, <1>1, <1>5, <2>2 DEF Create, Asks
  <2> QED  BY <1>5, <2>1, <2>2 DEF ProposeMove
<1>6. CASE RecordMove(q) \/ TransitionMove(q) \/ PlanMove(q) \/ OutcomeMove(q) \/ ClearMove(q)
           \/ LoadMove(q) \/ CancelMove(q) \/ LookupMove(q) \/ StageMove(q) \/ ReadMove(q)
           \/ RunMove(q) \/ ArriveMove(q)
  BY <1>1, <1>6 DEF RecordMove, TransitionMove, PlanMove, OutcomeMove, ClearMove, LoadMove,
     CancelMove, LookupMove, StageMove, ReadMove, RunMove, ArriveMove, centerVars
<1> QED  BY <1>2, <1>3, <1>4, <1>5, <1>6 DEF Move

\* Until the process restarts a pending approval has been granted to nobody, and
\* one that is about to be executed may be executed, by nobody else.
LEMMA Entitlement ==
    ASSUME RuntimeInv, crashes = 0
    PROVE  /\ \A a \in Approvals : center[a] = "pending" =>
                 /\ executed[a] = {}
                 /\ \A q \in Requests : pc[q] \in Entitled => call[q].appr # a
           /\ \A q \in Requests, r \in Runs :
                 pc[q] \in Entitled /\ owner[call[q].appr] = {r} => Open(call[q].appr, r)
           /\ \A q, x \in Requests :
                 pc[q] \in Entitled /\ pc[x] \in Entitled /\ call[q].appr = call[x].appr => q = x
           /\ Winning \cup {"direct_execute"} \subseteq Entitled
<1> USE DEF RuntimeInv
<1>a. \A q \in Requests : pc[q] \in Entitled =>
         /\ call[q].appr \in Approvals /\ Now(q) \in granted[call[q].appr]
         /\ Now(q) \notin executed[call[q].appr]
  BY DEF CallOK, CallFits, AtApproval, Entitled, EntitledWasGranted, Unspent
<1>1. \A a \in Approvals : center[a] = "pending" => granted[a] = {} /\ executed[a] = {}
  BY DEF ResolvedOnce, ExecutedWasGranted
<1>2. ASSUME NEW q \in Requests, NEW r \in Runs, pc[q] \in Entitled, owner[call[q].appr] = {r}
      PROVE  Open(call[q].appr, r)
  <2> DEFINE a == call[q].appr
  <2>1. a \in Approvals /\ Now(q) \in granted[a] /\ Now(q) \notin executed[a]
    BY <1>2, <1>a
  <2> HIDE DEF a
  <2>2. executed[a] = {}
    BY <2>1 DEF ResolvedOnce, ExecutedWasGranted
  <2>3. center[a] = "approved"
    BY <2>1 DEF ResolvedOnce, NothingLost, Issued, TypeOK, CenterTypeOK, ApprovalStatus
  <2> QED  BY <1>2, <2>2, <2>3 DEF Open, a
<1>3. ASSUME NEW q \in Requests, NEW x \in Requests, pc[q] \in Entitled, pc[x] \in Entitled,
             call[q].appr = call[x].appr
      PROVE  q = x
  <2>1. Now(q) = Now(x)
    BY <1>3, <1>a DEF ResolvedOnce
  <2> QED  BY <2>1 DEF Now
<1>4. Winning \cup {"direct_execute"} \subseteq Entitled
  BY DEF Winning, Entitled
<1> QED  BY <1>a, <1>1, <1>2, <1>3, <1>4

\* Every step until the process restarts keeps the one thread of a run.
LEMMA OneThreadStep ==
    ASSUME RuntimeInv, Ownership, KnownRuns, NotYetPaused, OneThread, crashes = 0,
           NEW q \in Requests, Move(q)
    PROVE  OneThread'
<1> USE DEF RuntimeInv
<1>a. Alone(q)
  BY Kept
<1>l. \A x \in Requests \ {q}, r \in Runs : Looping(x, r)' <=> Looping(x, r)
  BY <1>a DEF Looping, Alone
<1>w. \A x \in Requests \ {q}, a \in Approvals : Awaits(x, a)' <=> Awaits(x, a)
  BY <1>a DEF Awaits, Alone
<1>q. ProposalFits(q) /\ ResumptionFits(q)
  BY DEF Ownership
\* The approval that q has resolved when it enters the loop with it.
<1>v. ASSUME ResolveMove(q), pc[q] = "resolve", pc'[q] = "rec_approved", NEW r \in Runs,
             call'[q].run = r
      PROVE  /\ Open(call[q].appr, r) /\ call[q].appr \in Approvals
             /\ \A x \in Requests : ~Awaits(x, call[q].appr)
             /\ call'[q] = call[q]
  <2> DEFINE a == call[q].appr
  <2>1. /\ center[a] = "pending" /\ a \in Approvals /\ owner[a] = {r}
        /\ st[q].appr = a /\ st[q].status = "paused_for_approval" /\ call'[q] = call[q]
    BY <1>q, <1>v DEF ResolveMove, ResumptionFits, Decided, Looking
  <2> HIDE DEF a
  <2>2. executed[a] = {} /\ \A x \in Requests : pc[x] \in Winning => call[x].appr # a
    BY <2>1, Entitlement
  <2>3. \A x \in Requests : ~(pc[x] \in Parking /\ call[x].outcome = "approval" /\ call[x].new = a)
    BY <2>1 DEF NotYetPaused, ParkedAlone
  <2> QED  BY <2>1, <2>2, <2>3 DEF Open, Awaits, a
<1>1. ASSUME NEW r \in Runs, NEW x \in Requests, x # q, Looping(q, r)', Looping(x, r)
      PROVE  FALSE
  <2>1. ~Looping(q, r)
    BY <1>1 DEF OneThread
  <2>2. pc'[q] \in LoopStages /\ call'[q].run = r
    BY <1>1 DEF Looping
  <2>3. CASE Goes(q) \/ Plans(q)
    BY <2>1, <2>2, <2>3 DEF Goes, Plans, Looping, LoopStages, Unowing
  <2>4. CASE ProposeMove(q)
    BY <2>1, <2>2, <2>4 DEF ProposeMove, Looping, LoopStages, Proposing
  <2>5. CASE ResolveMove(q) /\ pc[q] = "resolve" /\ pc'[q] = "rec_approved"
    BY <1>1, <1>v, <2>2, <2>5 DEF OneThread
  <2>6. CASE RunMove(q) /\ pc[q] = "execute"
    BY <2>1, <2>2, <2>6 DEF RunMove, Looping, LoopStages, Winning
  <2>7. CASE ArriveMove(q) /\ pc'[q] = "message"
    BY <1>1, <2>2, <2>7 DEF ArriveMove, KnownRuns, Looping
  <2> QED  BY <2>2, <2>3, <2>4, <2>5, <2>6, <2>7, LoopFlow
<1>2. ASSUME NEW r \in Runs, NEW a \in Approvals, NEW y \in Requests, Open(a, r)', Looping(y, r)'
      PROVE  Awaits(y, a)'
  <2>1. CASE Asks(q, a) /\ call[q].run = r
    <3>1. pc'[q] \in Parking /\ call'[q].new = a /\ call'[q].outcome = "approval" /\ call'[q].run = r
      BY <2>1 DEF Asks, ProposeMove, Parking, Asking
    <3>2. Looping(q, r)' /\ Awaits(q, a)'
      BY <3>1 DEF Looping, LoopStages, Awaits
    <3> QED  BY <1>1, <1>2, <1>l, <3>2
  <2>2. CASE Open(a, r) /\ y # q
    BY <1>2, <1>l, <1>w, <2>2 DEF OneThread
  <2>3. CASE Open(a, r) /\ y = q
    <3>1. pc'[q] \in LoopStages /\ call'[q].run = r
      BY <1>2, <2>3 DEF Looping
    <3>2. CASE Goes(q)
      <4>1. Awaits(q, a)
        BY <2>3, <3>1, <3>2 DEF Goes, Looping, OneThread
      <4> QED  BY <2>3, <3>1, <3>2, <4>1 DEF Goes, Awaits
    <3>3. CASE Plans(q) \/ ProposeMove(q)
      <4>1. Looping(q, r) /\ pc[q] \in {"loop", "propose"}
        BY <3>1, <3>3 DEF Plans, ProposeMove, Looping, LoopStages, Unowing, Proposing
      <4>2. Awaits(q, a)
        BY <2>3, <4>1 DEF OneThread
      <4> QED  BY <4>1, <4>2 DEF Awaits, Parking, Asking, Winning
    <3>4. CASE ResolveMove(q) /\ pc[q] = "resolve" /\ pc'[q] = "rec_approved"
      <4>1. Open(call[q].appr, r) /\ call[q].appr \in Approvals /\ call'[q] = call[q]
        BY <1>v, <3>1, <3>4
      <4>2. call[q].appr = a
        BY <2>3, <4>1 DEF OneThread
      <4> QED  BY <2>3, <3>4, <4>1, <4>2 DEF Awaits, Winning
    <3>5. CASE RunMove(q) /\ pc[q] = "execute"
      <4>1. Looping(q, r)
        BY <3>1, <3>5 DEF RunMove, Looping, LoopStages, Winning
      <4>2. Awaits(q, a)
        BY <2>3, <4>1 DEF OneThread
      <4>3. call[q].appr = a
        BY <3>5, <4>2 DEF Awaits, Parking, Asking
      <4> QED  BY <1>2, <3>5, <4>3 DEF RunMove, Open
    <3>6. CASE ArriveMove(q) /\ pc'[q] = "message"
      BY <2>3, <3>1, <3>6 DEF ArriveMove, KnownRuns, Open
    <3> QED  BY <3>1, <3>2, <3>3, <3>4, <3>5, <3>6, LoopFlow
  <2> QED  BY <1>2, <2>1, <2>2, <2>3, OpenFlow
<1>3. ASSUME NEW r \in Runs, NEW a \in Approvals, NEW b \in Approvals, Open(a, r)', Open(b, r)'
      PROVE  a = b
  <2>1. ASSUME NEW c \in Approvals, NEW d \in Approvals, Asks(q, c), call[q].run = r, Open(d, r)
        PROVE  FALSE
    <3>1. pc[q] = "propose" /\ Looping(q, r)
      BY <2>1 DEF Asks, ProposeMove, Looping, LoopStages, Proposing
    <3>2. Awaits(q, d)
      BY <2>1, <3>1 DEF OneThread
    <3> QED  BY <3>1, <3>2 DEF Awaits, Parking, Asking, Winning
  <2>2. CASE Open(a, r) /\ Open(b, r)
    BY <2>2 DEF OneThread
  <2>3. CASE Asks(q, a) /\ Asks(q, b)
    BY <2>3 DEF Asks
  <2> QED  BY <1>3, <2>1, <2>2, <2>3, OpenFlow
<1> QED  BY <1>1, <1>2, <1>3, <1>l DEF OneThread

-----------------------------------------------------------------------------
(* What a run may still execute is covered by the steps it has counted *)

\* Request q may still execute a tool within the step it has counted last.
Owing(q, r) ==
    \/ pc[q] \in Proposing \cup Winning
    \/ pc[q] \in Parking /\ call[q].outcome = "approval" /\ Open(call[q].new, r)

\* The tools executed for a run, with the one that may still be, are no more
\* than the steps counted: by the request in the loop, by the saved state that
\* waits for the approval, and by every copy of it.
Budget ==
    \A r \in Runs :
        /\ calls[r] <= MaxSteps
        /\ \A q \in Requests : Looping(q, r) =>
              /\ calls[r] <= st[q].count
              /\ Owing(q, r) => calls[r] + 1 <= st[q].count
        /\ \A a \in Approvals : Open(a, r) =>
              /\ calls[r] + 1 <= MaxSteps
              /\ \A x \in Requests : st[x].appr = a /\ st[x].status = "paused_for_approval" =>
                    calls[r] + 1 <= st[x].count
              /\ \A p \in Runs : Paused(p, a) => calls[r] + 1 <= store[p].count

\* A tool is executed by a proposal that needs no approval or with an approval.
LEMMA CallsFlow ==
    ASSUME TypeOK, CallOK, Ownership, NEW q \in Requests, Move(q), NEW r \in Runs
    PROVE  \/ calls'[r] = calls[r]
           \/ /\ calls'[r] = calls[r] + 1 /\ ProposeMove(q) /\ call[q].run = r
              /\ \A a \in Approvals : ~Asks(q, a)
           \/ calls'[r] = calls[r] + 1 /\ RunMove(q) /\ owner[call[q].appr] = {r}
<1>t. calls[r] \in Nat
  BY DEF TypeOK
<1>1. CASE ProposeMove(q)
  <2>1. \A a \in Approvals : Asks(q, a) => calls'[r] = calls[r]
    BY DEF Asks
  <2>2. calls'[r] = calls[r] \/ (calls'[r] = calls[r] + 1 /\ call[q].run = r)
    BY <1>1 DEF ProposeMove
  <2>3. calls[r] + 1 # calls[r]
    BY <1>t
  <2> QED  BY <1>1, <2>1, <2>2, <2>3
<1>2. CASE RunMove(q)
  <2>1. pc[q] = "execute" => owner[call[q].appr] = {call[q].run}
    BY DEF Ownership, ResumptionFits, Decided
  <2>2. CASE pc[q] = "execute"
    BY <1>2, <2>1, <2>2 DEF RunMove
  <2>3. CASE pc[q] = "direct_execute"
    BY <1>2, <2>3 DEF RunMove
  <2> QED  BY <1>2, <2>2, <2>3 DEF RunMove
<1> QED
  BY <1>1, <1>2 DEF Move, RecordMove, TransitionMove, PlanMove, OutcomeMove, ClearMove, LoadMove,
     CancelMove, LookupMove, StageMove, ReadMove, PutMove, ResolveMove, RejectMove, ArriveMove,
     ToolMove

\* The count of a state that stays paused for its approval does not fall.
LEMMA CountFlow ==
    ASSUME TypeOK, CallOK, NEW q \in Requests, Move(q)
    PROVE  \/ st'[q].count >= st[q].count
           \/ st'[q].appr = NoApproval
           \/ \E r \in Runs : st'[q] = store[r]
<1>t. st[q].count \in Nat
  BY DEF TypeOK, RunState
<1>1. CASE st'[q].count = st[q].count
  BY <1>t, <1>1
<1>2. CASE PlanMove(q)
  BY <1>t, <1>2 DEF PlanMove
<1>3. CASE LoadMove(q) \/ CancelMove(q) \/ ArriveMove(q)
  BY <1>t, <1>3 DEF LoadMove, CancelMove, ArriveMove, CallOK, CallFits, Unattached
<1> QED
  BY <1>1, <1>2, <1>3 DEF Move, RecordMove, TransitionMove, OutcomeMove, ClearMove, LookupMove,
     ProposeMove, StageMove, ReadMove, PutMove, ResolveMove, RejectMove, RunMove, ToolMove

\* Every step until the process restarts stays within the budget.
LEMMA BudgetStep ==
    ASSUME RuntimeInv, Ownership, KnownRuns, CountBound, NotYetPaused, OneThread, Budget,
           crashes = 0, NEW q \in Requests, Move(q)
    PROVE  Budget'
<1> USE DEF RuntimeInv
<1>a. Alone(q)
  BY Kept
<1>t. /\ MaxSteps \in Nat /\ \A r \in Runs : calls[r] \in Nat /\ store[r].count \in Nat
      /\ \A x \in Requests : st[x].count \in Nat
  BY RuntimeAssumption DEF TypeOK, RunState
<1>t2. st'[q].count \in Nat
  <2>1. CASE st'[q].count = st[q].count
    BY <1>t, <2>1
  <2>2. CASE PlanMove(q) \/ LoadMove(q) \/ CancelMove(q) \/ ArriveMove(q)
    BY <1>t, <2>2 DEF PlanMove, LoadMove, CancelMove, ArriveMove, CallOK, CallFits, Unattached
  <2> QED
    BY <2>1, <2>2 DEF Move, RecordMove, TransitionMove, OutcomeMove, ClearMove, LookupMove,
       ProposeMove, StageMove, ReadMove, PutMove, ResolveMove, RejectMove, RunMove, ToolMove
<1>l. \A x \in Requests \ {q}, r \in Runs : Looping(x, r)' <=> Looping(x, r)
  BY <1>a DEF Looping, Alone
<1>q. ProposalFits(q) /\ ResumptionFits(q)
  BY DEF Ownership
\* What may be executed after the step could be before it, or is asked for by q.
<1>o. \A r \in Runs, a \in Approvals : Open(a, r)' => Open(a, r) \/ (Asks(q, a) /\ call[q].run = r)
  BY OpenFlow
<1>e. \A a \in Approvals : Asks(q, a) =>
         /\ Fresh(a) /\ pc[q] = "propose" /\ pc'[q] = "rec_infer" /\ UNCHANGED <<store, st>>
         /\ UNCHANGED calls
  BY DEF Asks, ProposeMove, Create
<1> SUFFICES ASSUME NEW r \in Runs
             PROVE  /\ calls'[r] <= MaxSteps
                    /\ \A x \in Requests : Looping(x, r)' =>
                          /\ calls'[r] <= st'[x].count
                          /\ Owing(x, r)' => calls'[r] + 1 <= st'[x].count
                    /\ \A a \in Approvals : Open(a, r)' =>
                          /\ calls'[r] + 1 <= MaxSteps
                          /\ \A x \in Requests :
                                st'[x].appr = a /\ st'[x].status = "paused_for_approval" =>
                                calls'[r] + 1 <= st'[x].count
                          /\ \A p \in Runs : Paused(p, a)' => calls'[r] + 1 <= store'[p].count
  BY DEF Budget
<1>b. /\ calls[r] <= MaxSteps
      /\ \A x \in Requests : Looping(x, r) =>
            /\ calls[r] <= st[x].count
            /\ Owing(x, r) => calls[r] + 1 <= st[x].count
      /\ \A a \in Approvals : Open(a, r) =>
            /\ calls[r] + 1 <= MaxSteps
            /\ \A x \in Requests : st[x].appr = a /\ st[x].status = "paused_for_approval" =>
                  calls[r] + 1 <= st[x].count
            /\ \A p \in Runs : Paused(p, a) => calls[r] + 1 <= store[p].count
  BY DEF Budget
\* While q proposes it owes one execution, and the run has no approval.
<1>p. pc[q] = "propose" /\ call[q].run = r =>
         /\ calls[r] + 1 <= st[q].count /\ st[q].count <= MaxSteps
         /\ \A a \in Approvals : ~Open(a, r)
         /\ \A x \in Requests \ {q} : ~Looping(x, r)
  BY <1>b DEF Looping, LoopStages, Owing, Proposing, CountBound, OneThread, Awaits, Parking, Asking,
     Winning
<1>1. CASE calls'[r] = calls[r]
  <2>1. ASSUME NEW a \in Approvals, Open(a, r), st'[q].appr = a, st'[q].status = "paused_for_approval"
        PROVE  calls[r] + 1 <= st'[q].count
    <3>1. \A p \in Runs : Paused(p, a) => calls[r] + 1 <= store[p].count
      BY <1>b, <2>1
    <3>2. a # NoApproval
      BY RuntimeAssumption
    <3>3. ~(pc[q] = "outcome" /\ st[q].status = "paused_for_approval")
      BY DEF NotYetPaused, Parking, Asking
    <3>4. CASE \E p \in Runs : st'[q] = store[p]
      BY <2>1, <3>1, <3>4 DEF Paused
    <3>5. CASE st[q].status = "paused_for_approval" /\ st'[q].appr = st[q].appr
      BY <1>b, <1>t, <1>t2, <2>1, <3>2, <3>4, <3>5, CountFlow
    <3>6. CASE pc[q] = "to_pause" /\ call[q].outcome = "approval" /\ st'[q].appr = call[q].new
      <4>1. call[q].new = a /\ call[q].run = r
        BY <1>q, <2>1, <3>6 DEF ProposalFits, Open
      <4>2. Looping(q, r) /\ Owing(q, r)
        BY <2>1, <3>6, <4>1 DEF Looping, LoopStages, Parking, Owing
      <4>3. calls[r] + 1 <= st[q].count
        BY <1>b, <4>2
      <4> QED  BY <1>t, <1>t2, <2>1, <3>2, <3>4, <4>3, CountFlow
    <3> QED  BY <2>1, <3>2, <3>3, <3>4, <3>5, <3>6, PausingFlow
  <2>2. ASSUME NEW a \in Approvals, Open(a, r)'
        PROVE  /\ calls'[r] + 1 <= MaxSteps
               /\ \A x \in Requests :
                     st'[x].appr = a /\ st'[x].status = "paused_for_approval" =>
                     calls'[r] + 1 <= st'[x].count
               /\ \A p \in Runs : Paused(p, a)' => calls'[r] + 1 <= store'[p].count
    <3>1. CASE Open(a, r)
      <4>1. calls[r] + 1 <= MaxSteps
        BY <1>b, <3>1
      <4>2. \A x \in Requests : st'[x].appr = a /\ st'[x].status = "paused_for_approval" =>
               calls[r] + 1 <= st'[x].count
        BY <1>a, <1>b, <2>1, <3>1 DEF Alone
      <4>3. \A p \in Runs : Paused(p, a)' => calls[r] + 1 <= store'[p].count
        <5>1. \A p \in Runs : UNCHANGED store[p] \/ store'[p] = st'[q]
          BY ProposalFlow
        <5> QED  BY <1>b, <3>1, <4>2, <5>1 DEF Paused
      <4> QED  BY <1>1, <4>1, <4>2, <4>3
    <3>2. CASE Asks(q, a) /\ call[q].run = r
      <4>1. Fresh(a) /\ UNCHANGED <<store, st>> /\ pc[q] = "propose"
        BY <1>e, <3>2
      <4>2. /\ \A x \in Requests : st[x].appr # a
            /\ \A p \in Runs : store[p].appr # a
        BY <4>1, RuntimeAssumption DEF RefsIssued, Ids, Issued
      <4> QED  BY <1>1, <1>p, <1>t, <3>2, <4>1, <4>2 DEF Paused
    <3> QED  BY <1>o, <2>2, <3>1, <3>2
  <2>3. ASSUME NEW x \in Requests, x # q, Looping(x, r)'
        PROVE  /\ calls'[r] <= st'[x].count
               /\ Owing(x, r)' => calls'[r] + 1 <= st'[x].count
    <3>1. Looping(x, r) /\ UNCHANGED <<pc[x], call[x], st[x]>>
      BY <1>a, <1>l, <2>3 DEF Alone
    <3>2. Owing(x, r)' => Owing(x, r)
      <4>1. pc[x] \in Parking /\ call[x].outcome = "approval" =>
               call[x].new \in Approvals /\ ~Fresh(call[x].new)
        BY DEF Ownership, ProposalFits, Fresh
      <4> QED  BY <1>o, <1>e, <3>1, <4>1 DEF Owing
    <3> QED  BY <1>1, <1>b, <3>1, <3>2
  <2>4. ASSUME Looping(q, r)'
        PROVE  /\ calls'[r] <= st'[q].count
               /\ Owing(q, r)' => calls'[r] + 1 <= st'[q].count
    <3>0. pc'[q] \in LoopStages /\ call'[q].run = r
      BY <2>4 DEF Looping
    <3>1. CASE Goes(q)
      <4>1. Looping(q, r)
        BY <3>0, <3>1 DEF Goes, Looping
      <4>2. Owing(q, r)' => Owing(q, r)
        BY <3>1 DEF Goes, Owing, Open, centerVars
      <4> QED  BY <1>1, <1>b, <3>1, <4>1, <4>2 DEF Goes
    <3>2. CASE Plans(q)
      <4>1. Looping(q, r)
        BY <3>0, <3>2 DEF Plans, Looping, LoopStages, Unowing
      <4> QED  BY <1>1, <1>b, <1>t, <3>2, <4>1 DEF Plans
    <3>3. CASE ProposeMove(q)
      <4>1. calls[r] + 1 <= st[q].count /\ st'[q] = st[q]
        BY <1>p, <3>0, <3>3 DEF ProposeMove
      <4> QED  BY <1>1, <1>t, <4>1
    <3>4. CASE ResolveMove(q) /\ pc[q] = "resolve" /\ pc'[q] = "rec_approved"
      <4> DEFINE a == call[q].appr
      <4>1. /\ center[a] = "pending" /\ a \in Approvals /\ owner[a] = {r}
            /\ st[q].appr = a /\ st[q].status = "paused_for_approval" /\ st'[q] = st[q]
        BY <1>q, <3>0, <3>4 DEF ResolveMove, ResumptionFits, Decided, Looking
      <4> HIDE DEF a
      <4>2. Open(a, r)
        BY <4>1, Entitlement DEF Open
      <4>3. calls[r] + 1 <= st[q].count
        BY <1>b, <4>1, <4>2
      <4> QED  BY <1>1, <1>t, <4>1, <4>3
    <3>5. CASE RunMove(q) /\ pc[q] = "execute"
      BY <1>1, <1>t, <3>0, <3>5 DEF RunMove
    <3>6. CASE ArriveMove(q) /\ pc'[q] = "message"
      <4>1. calls[r] = 0 /\ st'[q].count = 0
        BY <3>0, <3>6 DEF ArriveMove, KnownRuns
      <4>2. ~Owing(q, r)'
        BY <3>6 DEF Owing, Proposing, Winning, Parking, Asking
      <4> QED  BY <1>1, <4>1, <4>2
    <3> QED  BY <3>0, <3>1, <3>2, <3>3, <3>4, <3>5, <3>6, LoopFlow
  <2> QED  BY <1>1, <1>b, <2>2, <2>3, <2>4
<1>2. CASE /\ calls'[r] = calls[r] + 1 /\ ProposeMove(q) /\ call[q].run = r
           /\ \A a \in Approvals : ~Asks(q, a)
  <2>1. /\ calls[r] + 1 <= st[q].count /\ st[q].count <= MaxSteps /\ st'[q] = st[q]
        /\ \A a \in Approvals : ~Open(a, r)
        /\ \A x \in Requests \ {q} : ~Looping(x, r)
    BY <1>2, <1>p DEF ProposeMove
  <2>2. \A a \in Approvals : ~Open(a, r)'
    BY <1>2, <1>o, <2>1
  <2>3. Looping(q, r)' => ~Owing(q, r)'
    <3>1. pc'[q] \in {"rec_infer", "rec_fail"}
      BY <1>2 DEF ProposeMove
    <3>2. call'[q].outcome = "approval" /\ pc'[q] = "rec_infer" => call'[q].new \in Approvals
      BY <1>2 DEF ProposeMove
    <3>3. pc'[q] \notin Proposing \cup Winning
      BY <3>1 DEF Proposing, Winning
    <3>4. pc'[q] \in Parking => pc'[q] = "rec_infer"
      BY <3>1 DEF Parking, Asking
    <3> QED  BY <2>2, <3>2, <3>3, <3>4 DEF Owing
  <2> QED  BY <1>2, <1>l, <1>t, <2>1, <2>2, <2>3
<1>3. CASE calls'[r] = calls[r] + 1 /\ RunMove(q) /\ owner[call[q].appr] = {r}
  <2> DEFINE a == call[q].appr
  <2>1. /\ a \in Approvals /\ executed'[a] # {} /\ pc[q] \in Entitled
        /\ UNCHANGED call /\ st' = st /\ UNCHANGED call[q]
    BY <1>3 DEF RunMove, Entitled
  <2>2. Open(a, r)
    BY <1>3, <2>1, Entitlement
  <2>c. call[q].appr = a
    OBVIOUS
  <2> HIDE DEF a
  <2>3. \A b \in Approvals : ~Open(b, r)'
    <3>1. \A b \in Approvals : ~Asks(q, b)
      BY <1>3 DEF RunMove, Asks, ProposeMove
    <3>2. \A b \in Approvals : Open(b, r) => b = a
      BY <2>1, <2>2 DEF OneThread
    <3>3. \A b \in Approvals : b = a => ~Open(b, r)'
      BY <2>1 DEF Open
    <3> QED  BY <1>o, <3>1, <3>2, <3>3
  <2>4. ASSUME NEW x \in Requests, x # q, Looping(x, r)
        PROVE  calls[r] + 1 <= st[x].count /\ pc[x] \in Parking
               /\ (call[x].outcome = "approval" => call[x].new \in Approvals)
    <3>1. Awaits(x, a)
      BY <2>1, <2>2, <2>4 DEF OneThread
    <3>2. pc[x] \notin Winning
      BY <2>1, <2>4, <2>c, <3>1, Entitlement, LoopTable DEF Awaits
    <3>3. Owing(x, r) /\ pc[x] \in Parking
      BY <2>2, <3>1, <3>2 DEF Awaits, Owing
    <3> QED  BY <1>b, <2>4, <3>3 DEF Ownership, ProposalFits
  <2>5. ASSUME NEW x \in Requests, x # q, Looping(x, r)'
        PROVE  calls'[r] <= st'[x].count /\ ~Owing(x, r)'
    <3>1. Looping(x, r) /\ UNCHANGED <<pc[x], call[x], st[x]>>
      BY <1>a, <1>l, <2>5 DEF Alone
    <3> QED  BY <1>3, <2>3, <2>4, <2>5, <3>1, LoopTable DEF Owing
  <2>6. ASSUME Looping(q, r)' PROVE calls'[r] <= st'[q].count /\ ~Owing(q, r)'
    <3>1. pc[q] = "execute" /\ pc'[q] = "rec_executed"
      BY <1>3, <2>6, LoopTable DEF RunMove, Looping
    <3>2. Looping(q, r) /\ Owing(q, r)
      BY <2>1, <2>6, <3>1 DEF Looping, LoopStages, Winning, Owing
    <3>3. ~Owing(q, r)'
      BY <3>1 DEF Owing, Proposing, Winning, Parking, Asking
    <3> QED  BY <1>3, <1>b, <2>1, <3>2, <3>3
  <2>7. calls'[r] <= MaxSteps
    BY <1>3, <1>b, <2>1, <2>2
  <2> QED  BY <2>3, <2>5, <2>6, <2>7
<1> QED  BY <1>1, <1>2, <1>3, CallsFlow

\* The inductive invariant of the step limit, on top of the others.
LimitInv ==
    /\ KnownRuns /\ CountBound /\ NotYetPaused
    /\ crashes = 0 => OneThread /\ Budget

\* It holds when no run has been started yet.
LEMMA LimitInit == Init => LimitInv
<1> SUFFICES ASSUME Init PROVE LimitInv
  OBVIOUS
<1> USE DEF Init, CenterInit
<1>1. KnownRuns
  <2>1. \A q \in Requests : call[q].run = NoRun /\ pc[q] \in Stateless
    BY DEF NoCall, Stateless
  <2> QED  BY <2>1, NoRunAssumption DEF KnownRuns
<1>2. CountBound
  BY RuntimeAssumption DEF CountBound, NoState
<1>3. \A q \in Requests : pc[q] \notin LoopStages /\ pc[q] \notin Parking \cup {"propose"}
  BY DEF LoopStages, Proposing, Unowing, Parking, Asking, Winning
<1>4. NotYetPaused
  BY <1>3 DEF NotYetPaused, ParkedAlone
<1>5. OneThread /\ Budget
  BY <1>3, RuntimeAssumption DEF OneThread, Budget, Looping, Open
<1> QED  BY <1>1, <1>2, <1>4, <1>5 DEF LimitInv

\* Every step keeps it, on top of the other invariants.
LEMMA LimitStep == RuntimeInv /\ HistoryInv /\ LimitInv /\ [Next]_vars => LimitInv'
<1> SUFFICES ASSUME RuntimeInv, HistoryInv, LimitInv, [Next]_vars PROVE LimitInv'
  OBVIOUS
<1> USE DEF LimitInv
<1>o. TypeOK /\ CallOK /\ RefsIssued /\ Ownership
  BY DEF RuntimeInv, HistoryInv
<1>1. KnownRuns' /\ CountBound' /\ NotYetPaused'
  BY <1>o, KnownStep, CountStep, NotYetPausedStep
<1>2. CASE UNCHANGED vars
  <2>1. UNCHANGED <<center, owner, store, pc, call, st, crashes, executed, calls>>
    BY <1>2 DEF vars, runVars, centerVars
  <2>2. OneThread => OneThread'
    BY <2>1 DEF OneThread, Looping, Open, Awaits
  <2>3. Budget => Budget'
    BY <2>1 DEF Budget, Looping, Owing, Open, Paused
  <2> QED  BY <1>1, <2>1, <2>2, <2>3
<1>3. CASE Crash
  <2>1. crashes' # 0
    BY <1>o, <1>3, RuntimeAssumption DEF Crash, TypeOK
  <2> QED  BY <1>1, <2>1
<1>4. ASSUME NEW q \in Requests, Move(q) PROVE LimitInv'
  <2>1. UNCHANGED crashes
    BY <1>4 DEF Move, RecordMove, TransitionMove, PlanMove, OutcomeMove, ClearMove, LoadMove,
       CancelMove, LookupMove, ProposeMove, StageMove, ReadMove, PutMove, ResolveMove, RejectMove,
       RunMove, ArriveMove, ToolMove
  <2> QED  BY <1>o, <1>1, <1>4, <2>1, OneThreadStep, BudgetStep
<1> QED  BY <1>o, <1>2, <1>3, <1>4, MoveStep

\* LimitInv is an invariant of the runtime.
THEOREM LimitInvariant == Spec => []LimitInv
BY LimitInit, LimitStep, RuntimeInvariant, HistoryInvariant, PTL DEF Spec

\* Until the process restarts a run executes at most MaxSteps tools, however
\* its loop is interrupted by approvals and by requests that race for them.
THEOREM LimitHolds == Spec => []CallsWithinLimit
<1>1. LimitInv => CallsWithinLimit
  BY DEF LimitInv, Budget, CallsWithinLimit
<1> QED  BY <1>1, LimitInvariant, PTL

-----------------------------------------------------------------------------
(* A paused run can be resumed *)

\* The stages of a request that holds no state of its run yet.
Unloaded == {"idle", "lookup", "load", "cancel"}

\* A state names an approval of its own run.
StoreOwned ==
    /\ \A r \in Runs : store[r].appr # NoApproval => owner[store[r].appr] = {r}
    /\ \A q \in Requests :
          /\ pc[q] \in Unloaded => st[q].appr = NoApproval
          /\ pc[q] \notin Unloaded \cup Direct \cup {"done"} /\ st[q].appr # NoApproval =>
                owner[st[q].appr] = {call[q].run}
          /\ pc[q] \in {"cancel", "cancel_reject"} => call[q].entry = "cancel"

\* A state is given an approval of its run, and keeps it or lets go of it.
LEMMA StoreOwnedStep ==
    TypeOK /\ CallOK /\ Ownership /\ StoreOwned /\ [Next]_vars => StoreOwned'
<1> SUFFICES ASSUME TypeOK, CallOK, Ownership, StoreOwned, [Next]_vars PROVE StoreOwned'
  OBVIOUS
<1>1. CASE UNCHANGED vars
  BY <1>1 DEF vars, runVars, centerVars, StoreOwned
<1>2. CASE Crash
  <2>1. UNCHANGED <<owner, store, st, call>> /\ \A q \in Requests : pc'[q] \in {pc[q], "done"}
    BY <1>2 DEF Crash, CenterCrash
  <2> QED  BY <2>1 DEF StoreOwned, Unloaded
<1>3. ASSUME NEW q \in Requests, Move(q) PROVE StoreOwned'
  <2>a. /\ Alone(q)
        /\ pc[q] # "idle" => call'[q].entry = call[q].entry
    BY <1>3, Kept
  <2>o. \A a \in Approvals : owner[a] # {} => UNCHANGED owner[a]
    BY <1>3, OwnerKept
  <2>t. /\ \A r \in Runs : store[r].appr \in Approvals \cup {NoApproval}
        /\ \A x \in Requests : st[x].appr \in Approvals \cup {NoApproval}
    BY DEF TypeOK, RunState
  <2>s. /\ \A r \in Runs : store[r].appr # NoApproval =>
              owner[store[r].appr] = {r} /\ owner'[store[r].appr] = {r}
        /\ \A x \in Requests :
              pc[x] \notin Unloaded \cup Direct \cup {"done"} /\ st[x].appr # NoApproval =>
                 owner[st[x].appr] = {call[x].run} /\ owner'[st[x].appr] = {call[x].run}
        /\ pc[q] \in Unloaded => st[q].appr = NoApproval
    BY <2>o, <2>t DEF StoreOwned
  <2>p. ProposalFits(q) /\ (pc[q] \in Direct \cup {"done", "idle"} => pc[q] \notin Looking)
    BY DEF Ownership, Direct, Looking
  <2>1. /\ pc'[q] \in Unloaded => st'[q].appr = NoApproval
        /\ pc'[q] \notin Unloaded \cup Direct \cup {"done"} /\ st'[q].appr # NoApproval =>
              owner'[st'[q].appr] = {call'[q].run}
        /\ pc'[q] \in {"cancel", "cancel_reject"} => call'[q].entry = "cancel"
    <3>1. CASE RecordMove(q)
      <4>1. /\ pc'[q] \notin Unloaded \cup {"cancel_reject"}
            /\ pc[q] \notin Unloaded \cup Direct \cup {"done"}
        BY <3>1, RecordTable, StageTables, StatefulTable
           DEF RecordMove, OnError, Unloaded, Stateless, Entered, Direct
      <4> QED  BY <2>s, <3>1, <4>1 DEF RecordMove, Unloaded
    <3>2. CASE TransitionMove(q)
      <4>1. /\ pc'[q] \notin Unloaded \cup {"cancel_reject"}
            /\ pc[q] \notin Unloaded \cup Direct \cup {"done"}
        BY <3>2, StatefulTable
           DEF TransitionMove, OnError, Unloaded, Stateless, Entered, AfterEntered, Direct
      <4> QED  BY <2>s, <3>2, <4>1 DEF TransitionMove, Unloaded
    <3>3. CASE PlanMove(q) \/ ClearMove(q)
      BY <2>s, <3>3 DEF PlanMove, ClearMove, OnError, Unloaded, Direct
    <3>4. CASE OutcomeMove(q)
      BY <2>s, <2>o, <2>p, <3>4 DEF OutcomeMove, ProposalFits, Unloaded, Direct
    <3>5. CASE LoadMove(q) \/ CancelMove(q) \/ LookupMove(q)
      BY <2>a, <2>s, <3>5 DEF LoadMove, CancelMove, LookupMove, OnError, Unloaded, Direct, StoreOwned,
         CallOK, CallFits, Unattached
    <3>6. CASE StageMove(q)
      BY <2>s, <3>6, ReplyTable, StatefulTable DEF StageMove, OnError, Unloaded, Direct, Stateless
    <3>7. CASE ProposeMove(q) \/ ReadMove(q) \/ PutMove(q) \/ ResolveMove(q) \/ RejectMove(q) \/ RunMove(q)
      BY <2>s, <3>7 DEF ProposeMove, ReadMove, PutMove, ResolveMove, RejectMove, RunMove, OnError, Unloaded, Direct
    <3>8. CASE ArriveMove(q) \/ ToolMove(q)
      BY <2>s, <3>8 DEF ArriveMove, ToolMove, Unloaded, Direct
    <3> QED  BY <1>3, <3>1, <3>2, <3>3, <3>4, <3>5, <3>6, <3>7, <3>8 DEF Move
  <2>2. \A r \in Runs : store'[r].appr # NoApproval => owner'[store'[r].appr] = {r}
    <3>1. CASE UNCHANGED store
      BY <2>s, <3>1
    <3>2. CASE RecordMove(q) \/ TransitionMove(q) \/ ClearMove(q)
      <4>1. pc[q] \notin Unloaded \cup Direct \cup {"done"}
        BY <3>2, StatefulTable DEF RecordMove, TransitionMove, ClearMove, Unloaded, Direct, Stateless
      <4>2. st'[q].appr # NoApproval => owner'[st'[q].appr] = {call[q].run}
        BY <2>s, <3>2, <4>1 DEF RecordMove, TransitionMove, ClearMove
      <4> QED  BY <2>s, <3>2, <4>2 DEF RecordMove, TransitionMove, ClearMove, Saves
    <3>3. CASE ArriveMove(q)
      BY <2>s, <3>1, <3>3 DEF ArriveMove
    <3> QED
      BY <1>3, <3>1, <3>2, <3>3 DEF Move, PlanMove, OutcomeMove, LoadMove, CancelMove,
         LookupMove, ProposeMove, StageMove, ReadMove, PutMove, ResolveMove, RejectMove, RunMove,
         ToolMove
  <2>3. ASSUME NEW x \in Requests, x # q
        PROVE  /\ pc'[x] \in Unloaded => st'[x].appr = NoApproval
               /\ pc'[x] \notin Unloaded \cup Direct \cup {"done"} /\ st'[x].appr # NoApproval =>
                     owner'[st'[x].appr] = {call'[x].run}
               /\ pc'[x] \in {"cancel", "cancel_reject"} => call'[x].entry = "cancel"
    BY <2>a, <2>s, <2>3 DEF Alone, StoreOwned
  <2> QED  BY <2>1, <2>2, <2>3 DEF StoreOwned
<1> QED  BY <1>1, <1>2, <1>3, MoveStep

\* Nothing fails, nobody cancels, and the socket handler is not in use.
Calm == MaxCrashes = 0 /\ MaxFaults = 0 /\ "ws" \notin Entries /\ "cancel" \notin Entries

\* The stages of a request that has the run's state in hand and will save it.
Writing == Stages \ ({"idle", "done", "lookup", "load", "resolve", "reply_pause", "cancel"}
                     \cup Looking \cup Direct)

\* Until a run is paused for it an approval is undecided.
ParkedPending ==
    \A q \in Requests :
        pc[q] \in Parking /\ call[q].outcome = "approval" => center[call[q].new] = "pending"

\* While the run it is saved with is paused for it, an approval is undecided or
\* the request that decided it is about to save the run again.
PausedHeld ==
    \A r \in Runs, a \in Approvals :
        Paused(r, a) =>
            \/ center[a] = "pending"
            \/ \E q \in Requests : call[q].run = r /\ pc[q] \in Writing

\* In a calm life of the process an approval is only decided by a request that
\* resumes the run it belongs to, or belongs to none.
LEMMA DecisionFlow ==
    ASSUME Calm, TypeOK, CallOK, NothingLost, Ownership, StoreOwned, EntriesUsed,
           NEW q \in Requests, Move(q),
           NEW a \in Approvals, center[a] = "pending", center'[a] # "pending"
    PROVE  \/ /\ pc[q] = "resolve" /\ pc'[q] \in {"rec_approved", "rec_rejected"}
              /\ call[q].entry # "pending" /\ call[q].appr = a /\ UNCHANGED <<call, store>>
           \/ pc[q] = "direct" /\ owner[a] = {NoRun} /\ UNCHANGED store
<1>1. ResolveMove(q) \/ PutMove(q) \/ RejectMove(q) \/ ProposeMove(q) \/ ToolMove(q)
  BY DEF Move, RecordMove, TransitionMove, PlanMove, OutcomeMove, ClearMove, LoadMove, CancelMove,
     LookupMove, StageMove, ReadMove, RunMove, ArriveMove, centerVars
<1>2. CASE ResolveMove(q)
  <2>1. call[q].appr = a /\ pc[q] \in {"resolve", "direct"} /\ UNCHANGED <<call, store>>
        /\ (pc[q] = "resolve" => pc'[q] \in {"rec_approved", "rec_rejected"})
    BY <1>2 DEF ResolveMove
  <2>2. pc[q] = "direct" => owner[a] = {NoRun}
    BY <2>1 DEF Ownership, DirectFits, Direct, EntriesUsed, Calm
  <2>3. pc[q] = "resolve" => call[q].entry # "pending"
    BY DEF Ownership, ResumptionFits, Looking
  <2> QED  BY <2>1, <2>2, <2>3
<1>3. CASE PutMove(q)
  BY <1>3 DEF PutMove, NothingLost, TypeOK, Calm
<1>4. CASE RejectMove(q)
  BY <1>4 DEF RejectMove, StoreOwned, EntriesUsed, Calm
<1>5. CASE ProposeMove(q) \/ ToolMove(q)
  BY <1>5 DEF ProposeMove, ToolMove, Create, TypeOK, CenterTypeOK, centerVars
<1> QED  BY <1>1, <1>2, <1>3, <1>4, <1>5

\* Nobody decides an approval that is still being asked for.
LEMMA ParkedPendingStep ==
    ASSUME Calm, TypeOK, CallOK, NothingLost, Ownership, NotYetPaused, StoreOwned, EntriesUsed,
           ParkedPending, [Next]_vars
    PROVE  ParkedPending'
<1>1. CASE UNCHANGED vars
  BY <1>1 DEF vars, runVars, centerVars, ParkedPending
<1>2. CASE Crash
  BY <1>2 DEF Crash, Calm, TypeOK
<1>3. ASSUME NEW q \in Requests, Move(q) PROVE ParkedPending'
  <2>a. Alone(q)
    BY <1>3, Kept
  <2>1. ASSUME NEW x \in Requests, pc[x] \in Parking, call[x].outcome = "approval"
        PROVE  center'[call[x].new] = "pending"
    <3> DEFINE a == call[x].new
    <3>1. a \in Approvals /\ owner[a] = {call[x].run} /\ call[x].run \in Runs
      BY <2>1 DEF Ownership, ProposalFits, CallOK, CallFits, Unattached, Parking, Asking
    <3>2. center[a] = "pending" /\ owner[a] # {NoRun}
      BY <2>1, <3>1, NoRunAssumption DEF ParkedPending
    <3>3. ~(pc[q] = "resolve" /\ call[q].entry # "pending" /\ call[q].appr = a)
      BY <2>1 DEF Ownership, ResumptionFits, Decided, NotYetPaused, ParkedAlone
    <3> QED  BY <1>3, <3>1, <3>2, <3>3, DecisionFlow
  <2>2. pc'[q] \in Parking /\ call'[q].outcome = "approval" => center'[call'[q].new] = "pending"
    <3> SUFFICES ASSUME pc'[q] \in Parking, call'[q].outcome = "approval"
                 PROVE  center'[call'[q].new] = "pending"
      OBVIOUS
    <3>1. CASE pc[q] \in Parking /\ UNCHANGED call[q]
      BY <2>1, <3>1
    <3>2. CASE pc[q] = "propose"
      <4>1. ProposeMove(q)
        BY <1>3, <3>2, StatefulTable DEF Move, RecordMove, TransitionMove, PlanMove, OutcomeMove,
           ClearMove, LoadMove, CancelMove, LookupMove, StageMove, ReadMove, PutMove, ResolveMove,
           RejectMove, RunMove, ArriveMove, ToolMove, AfterRecord, Entered, AfterReply
      <4> QED  BY <4>1 DEF ProposeMove, Create, TypeOK, CenterTypeOK, Parking, Asking
    <3> QED  BY <1>3, <3>1, <3>2, ParkingFlow DEF Parking, Asking
  <2> QED  BY <2>a, <2>1, <2>2 DEF ParkedPending, Alone
<1> QED  BY <1>1, <1>2, <1>3, MoveStep

\* A request that has the state of its run in hand lets go of it by saving it
\* in a status that nobody resumes, or paused for what it asks for.
LEMMA LeavingFlow ==
    ASSUME Calm, TypeOK, TypeOK', CallOK, Ownership, StoreOwned, EntriesUsed,
           NEW q \in Requests, Move(q), pc[q] \in Writing, pc'[q] \notin Writing
    PROVE  /\ TransitionMove(q) /\ store'[call[q].run] = st'[q] /\ UNCHANGED call
           /\ st'[q].status = "paused_for_approval" =>
                 /\ pc[q] \in Parking /\ call[q].outcome = "approval"
                 /\ st'[q].appr = call[q].new /\ UNCHANGED center
<1>f. UNCHANGED faults /\ OnError(q) = "done"
  BY DEF Calm, TypeOK, OnError, EntriesUsed
<1>w. pc[q] \notin {"idle", "done", "lookup", "load", "resolve", "reply_pause", "cancel"}
                   \cup Looking \cup Direct
  BY DEF Writing
<1>1. CASE RecordMove(q)
  <2>1. pc'[q] = AfterRecord[pc[q]]
    BY <1>1, <1>f DEF RecordMove
  <2> QED  BY <1>1, <2>1 DEF RecordMove, AfterRecord, Writing, Stages, Entered, Looking, Direct
<1>2. CASE TransitionMove(q)
  <2>1. Entered[pc[q]] = "paused_for_approval" => pc[q] = "to_pause"
    BY <1>2 DEF TransitionMove, Entered
  <2>2. pc[q] = "to_pause" => call[q].outcome = "approval" /\ st[q].appr = call[q].new
    BY DEF Ownership, ProposalFits, Asked
  <2>3. store'[call[q].run] = st'[q] /\ st'[q].status = Entered[pc[q]] /\ st'[q].appr = st[q].appr
        /\ UNCHANGED call /\ UNCHANGED center
    BY <1>2, <1>f DEF TransitionMove, centerVars
  <2> QED  BY <1>2, <2>1, <2>2, <2>3 DEF Parking
<1>3. CASE StageMove(q)
  BY <1>3, <1>f, <1>w, ReplyTable DEF StageMove, Writing, Stages, AfterRecord, AfterReply, Looking, Direct
<1>4. CASE PlanMove(q) \/ OutcomeMove(q) \/ ClearMove(q) \/ ProposeMove(q) \/ RejectMove(q) \/ RunMove(q)
  BY <1>4, <1>f, <1>w DEF PlanMove, OutcomeMove, ClearMove, ProposeMove, RejectMove, RunMove,
     Writing, Stages, AfterRecord, Looking, Direct
<1>5. CASE LoadMove(q) \/ CancelMove(q) \/ LookupMove(q) \/ ReadMove(q) \/ PutMove(q)
           \/ ResolveMove(q) \/ ArriveMove(q) \/ ToolMove(q)
  BY <1>5, <1>w DEF LoadMove, CancelMove, LookupMove, ReadMove, PutMove, ResolveMove,
     ArriveMove, ToolMove, Looking, Direct
<1> QED  BY <1>1, <1>2, <1>3, <1>4, <1>5 DEF Move

\* A request only saves a paused state of the run it has in hand.
LEMMA SavingFlow ==
    ASSUME Calm, TypeOK, CallOK, NEW q \in Requests, Move(q),
           NEW r \in Runs, NEW a \in Approvals, Paused(r, a)', ~Paused(r, a)
    PROVE  call[q].run = r /\ pc[q] \in Writing /\ UNCHANGED call
<1>1. CASE RecordMove(q) \/ TransitionMove(q) \/ ClearMove(q)
  <2>1. pc[q] \in Writing
    BY <1>1, StatefulTable DEF RecordMove, TransitionMove, ClearMove, Writing, Stateless, Stages,
       AfterRecord, Entered, Looking, Direct
  <2> QED  BY <1>1, <2>1 DEF RecordMove, TransitionMove, ClearMove, Saves, Paused
<1>2. CASE ArriveMove(q)
  BY <1>2 DEF ArriveMove, Paused
<1> QED
  BY <1>1, <1>2 DEF Move, PlanMove, OutcomeMove, LoadMove, CancelMove, LookupMove, ProposeMove,
     StageMove, ReadMove, PutMove, ResolveMove, RejectMove, RunMove, ToolMove, Paused

\* A paused run stays resumable.
LEMMA PausedHeldStep ==
    ASSUME Calm, TypeOK, CallOK, NothingLost, Ownership, NotYetPaused, StoreOwned, EntriesUsed,
           ParkedPending, PausedHeld, [Next]_vars, TypeOK'
    PROVE  PausedHeld'
<1>1. CASE UNCHANGED vars
  BY <1>1 DEF vars, runVars, centerVars, PausedHeld, Paused
<1>2. CASE Crash
  BY <1>2 DEF Crash, Calm, TypeOK
<1>3. ASSUME NEW q \in Requests, Move(q) PROVE PausedHeld'
  <2> SUFFICES ASSUME NEW r \in Runs, NEW a \in Approvals, Paused(r, a)'
               PROVE  \/ center'[a] = "pending"
                      \/ \E x \in Requests : call'[x].run = r /\ pc'[x] \in Writing
    BY DEF PausedHeld
  <2>a. Alone(q)
    BY <1>3, Kept
\* Whoever has the run in hand keeps it, or saves the run when it lets go.
  <2>1. ASSUME NEW x \in Requests, call[x].run = r, pc[x] \in Writing
        PROVE  \/ center'[a] = "pending"
               \/ \E y \in Requests : call'[y].run = r /\ pc'[y] \in Writing
    <3>1. CASE x # q
      BY <2>a, <2>1, <3>1 DEF Alone
    <3>2. CASE x = q /\ pc'[q] \in Writing
      <4>1. pc[q] \notin {"idle", "lookup"}
        BY <2>1, <3>2 DEF Writing
      <4>2. call'[q].run = call[q].run
        BY <1>3, <4>1 DEF Move, RecordMove, TransitionMove, PlanMove, OutcomeMove, ClearMove, LoadMove,
           CancelMove, LookupMove, ProposeMove, StageMove, ReadMove, PutMove, ResolveMove, RejectMove,
           RunMove, ArriveMove, ToolMove
      <4> QED  BY <2>1, <3>2, <4>2
    <3>3. CASE x = q /\ pc'[q] \notin Writing
      <4>1. store'[r] = st'[q] /\ st'[q].status = "paused_for_approval" /\ st'[q].appr = a
        BY <1>3, <2>1, <3>3, LeavingFlow DEF Paused
      <4>2. center[a] = "pending" /\ UNCHANGED center
        BY <1>3, <2>1, <3>3, <4>1, LeavingFlow DEF ParkedPending
      <4> QED  BY <4>2
    <3> QED  BY <3>1, <3>2, <3>3
  <2>2. CASE ~Paused(r, a)
    BY <1>3, <2>1, <2>2, SavingFlow
  <2>3. CASE Paused(r, a) /\ center[a] = "pending"
    <3>1. SUFFICES ASSUME center'[a] # "pending"
                   PROVE  \E x \in Requests : call'[x].run = r /\ pc'[x] \in Writing
      OBVIOUS
    <3>2. owner[a] = {r}
      BY <2>3, RuntimeAssumption DEF Paused, StoreOwned
    <3>3. /\ pc[q] = "resolve" /\ pc'[q] \in {"rec_approved", "rec_rejected"}
          /\ call[q].appr = a /\ UNCHANGED call
      BY <1>3, <2>3, <3>1, <3>2, DecisionFlow, NoRunAssumption
    <3>4. owner[a] = {call[q].run}
      BY <3>3 DEF Ownership, ResumptionFits, Decided
    <3>5. pc'[q] \in Writing
      BY <3>3 DEF Writing, Stages, AfterRecord, Looking, Direct
    <3> QED  BY <3>2, <3>3, <3>4, <3>5
  <2>4. CASE Paused(r, a) /\ center[a] # "pending"
    BY <2>1, <2>4 DEF PausedHeld
  <2> QED  BY <2>2, <2>3, <2>4
<1> QED  BY <1>1, <1>2, <1>3, MoveStep

\* The inductive invariant of a calm life.
CalmInv == StoreOwned /\ ParkedPending /\ PausedHeld

\* Where nothing fails, nobody cancels and the socket handler is not in use, a
\* run that is left paused waits for an approval that is still undecided.
THEOREM PausedResumable ==
    ASSUME MaxCrashes = 0, MaxFaults = 0, "ws" \notin Entries, "cancel" \notin Entries
    PROVE  Spec => []PausedIsResumable
<1>1. Init => CalmInv
  <2> SUFFICES ASSUME Init PROVE CalmInv
    OBVIOUS
  <2>1. \A q \in Requests : pc[q] = "idle" /\ st[q].appr = NoApproval
    BY DEF Init, NoState
  <2>2. \A r \in Runs : store[r].appr = NoApproval /\ store[r].status = "absent"
    BY DEF Init, NoState
  <2>3. ParkedPending
    BY <2>1 DEF ParkedPending, Parking, Asking
  <2> QED  BY <2>1, <2>2, <2>3 DEF CalmInv, StoreOwned, PausedHeld, Paused
<1>2. /\ RuntimeInv /\ RuntimeInv' /\ HistoryInv /\ LimitInv /\ EntriesUsed /\ CalmInv
      /\ [Next]_vars
      => CalmInv'
  <2> SUFFICES ASSUME RuntimeInv, RuntimeInv', HistoryInv, LimitInv, EntriesUsed, CalmInv, [Next]_vars
               PROVE  CalmInv'
    OBVIOUS
  <2>1. /\ TypeOK /\ TypeOK' /\ CallOK /\ NothingLost /\ Ownership /\ NotYetPaused
        /\ StoreOwned /\ ParkedPending /\ PausedHeld /\ Calm
    BY DEF RuntimeInv, HistoryInv, LimitInv, CalmInv, Calm
  <2> QED  BY <2>1, StoreOwnedStep, ParkedPendingStep, PausedHeldStep DEF CalmInv
<1>3. RuntimeInv /\ CalmInv => PausedIsResumable
  <2> SUFFICES ASSUME CalmInv, NEW r \in Runs, NEW a \in Approvals, Paused(r, a), Quiet(r)
               PROVE  center[a] = "pending"
    BY DEF PausedIsResumable
  <2>1. \A q \in Requests : call[q].run = r => pc[q] \notin Writing
    BY DEF Quiet, Writing
  <2> QED  BY <2>1 DEF CalmInv, PausedHeld
<1> QED
  BY <1>1, <1>2, <1>3, RuntimeInvariant, HistoryInvariant, LimitInvariant, EntriesInvariant, PTL DEF Spec
=============================================================================
