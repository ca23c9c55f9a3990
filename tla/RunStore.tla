------------------------------- MODULE RunStore -------------------------------
(***************************************************************************)
(* internal/agent/workflow_state.go and internal/db/repo: the store of     *)
(* runs, steps, messages and usage the runtime writes to, in memory or in  *)
(* Postgres.  What the runtime decides is module AgentRuntime; here a run  *)
(* is the order of the calls it makes, each a step that may fail, that     *)
(* another request's may follow, and that a restart may come after.        *)
(*                                                                         *)
(* Of a text matters whether it holds a secret.  The time of a state is    *)
(* the order in which states are saved.                                    *)
(***************************************************************************)
EXTENDS Naturals, FiniteSets, SequencesExt

CONSTANTS
    StoreRequests,  \* the requests at work at a time
    StoreRuns,      \* the runs there may be
    Created,        \* the conversations that have been created
    Conversations,  \* the ones that requests name
    StoreTexts,     \* the texts they come with
    PausedLimit,    \* how many paused runs are listed
    MaxIndex,       \* bound: the index of a step
    MaxStoreFaults  \* bound: statements that fail, and restarts

ASSUME StoreAssumption ==
    /\ IsFiniteSet(StoreRequests)
    /\ Created \subseteq Conversations /\ StoreTexts \subseteq {"plain", "secret"}
    /\ PausedLimit \in Nat \ {0}
    /\ MaxIndex \in Nat /\ MaxStoreFaults \in Nat

Terminal == {"completed", "failed", "cancelled"}
RunStatuses == {"received", "working", "paused"} \cup Terminal
Texts == {"plain", "secret", "redacted"}
StoreStages == {"idle", "message", "usage", "rollup", "step", "save", "transition"}

\* A RunState; result stands for all it keeps in no column of its own.
States == [conv : Conversations, status : RunStatuses, index : Nat,
           approval : BOOLEAN, text : Texts, result : Texts]
NoState == [status |-> "none"]

VARIABLES
    backend,        \* the repositories behind the store
    runRows,        \* agent_runs
    savedOrder,     \* the runs, the one saved last at the end
    stepRows,       \* agent_run_steps, as they are listed
    msgRows,        \* messages: for a conversation and a role, those kept
    usageRows,      \* message_usage
    rollups,        \* conversation_usage_rollups
    doing, turn,    \* what a request is about to do, with its copy of the state
    storeFaults,
    lastSaved,      \* history: the state saved last
    recorded,       \* history: the steps saved
    lostRollups     \* history: increments that failed

storeRows == <<runRows, savedOrder, stepRows, msgRows, usageRows, rollups>>
storeLocal == <<doing, turn>>
storeHistory == <<lastSaved, recorded, lostRollups>>
storeVars == <<backend, storeRows, storeLocal, storeFaults, storeHistory>>

NoTurn == [run |-> "none"]
NoApproval == [there |-> FALSE]
NoSteps == [r \in StoreRuns |-> <<>>]
None == [c \in Conversations |-> 0]

NoStates == [r \in StoreRuns |-> NoState]
NoMessages == [c \in Conversations |-> [role \in {"user", "assistant"} |-> <<>>]]

StoreInit ==
    /\ backend \in {"memory", "postgres"} 
    /\ runRows = NoStates /\ savedOrder = <<>> /\ stepRows = NoSteps
    /\ msgRows = NoMessages /\ usageRows = None /\ rollups = None
    /\ doing = [q \in StoreRequests |-> "idle"] /\ turn = [q \in StoreRequests |-> NoTurn]
    /\ storeFaults = 0
    /\ lastSaved = NoStates /\ recorded = NoSteps /\ lostRollups = None

-----------------------------------------------------------------------------
(* What is written, and what is read back *)

RedactString(text) == IF text = "secret" THEN "redacted" ELSE text

sanitizeRunState(s) == [s EXCEPT !.text = RedactString(@), !.result = RedactString(@)]

\* The approval keeps what it says; its summary is redacted.
sanitizeRunStep(p) ==
    LET asked == p.approval
        told  == IF asked.there THEN [asked EXCEPT !.summary = RedactString(@)] ELSE asked
    IN  [p EXCEPT !.text = RedactString(@), !.result = RedactString(@), !.approval = told]

\* The columns, and the whole state as JSON next to them.
toRunRecord(s) ==
    [conv |-> s.conv, status |-> s.status, index |-> s.index, approval |-> s.approval,
     text |-> RedactString(s.text), state |-> sanitizeRunState(s)]

\* The columns win over the JSON.
runStateFromRecord(row) ==
    [row.state EXCEPT !.conv = row.conv, !.status = row.status, !.index = row.index,
                      !.approval = row.approval, !.text = row.text]

\* The route is not kept; the approval is kept as it is.
toRunStepRecord(p) ==
    LET s == sanitizeRunStep(p)
    IN  [index |-> p.index, text |-> s.text, result |-> s.result,
         approval |-> IF p.approval.there THEN p.approval ELSE NoApproval]

runStepFromRecord(row) ==
    [route |-> "", index |-> row.index, text |-> row.text, result |-> row.result,
     approval |-> row.approval]

\* GetRun, and ListRunsByStatus: of those there are, the ones saved last.
GetRun(r) == runStateFromRecord(runRows[r])
ListRunsByStatus(statuses, limit) ==
    LET listed(k) == runRows[savedOrder[k]].status \in statuses
    IN  {r \in StoreRuns : runRows[r].status \in statuses /\ \E k \in DOMAIN savedOrder :
            savedOrder[k] = r /\ Cardinality({j \in k..Len(savedOrder) : listed(j)}) <= limit}

ListSteps(r) == [k \in DOMAIN stepRows[r] |-> runStepFromRecord(stepRows[r][k])]

UpsertRun(r, s) ==
    /\ runRows' = [runRows EXCEPT ![r] = toRunRecord(s)]
    /\ savedOrder' = Append(Remove(savedOrder, r), r)
    /\ lastSaved' = [lastSaved EXCEPT ![r] = s]

\* A mutant: a run has one step of an index.
UpsertStepByIndex(r, row) ==
    LET rows == stepRows[r]
        less == Cardinality({j \in DOMAIN rows : rows[j].index < row.index})
        more == Cardinality({j \in DOMAIN rows : rows[j].index > row.index})
    IN  stepRows' = [stepRows EXCEPT ![r] =
            SubSeq(rows, 1, less) \o <<row>> \o SubSeq(rows, Len(rows) - more + 1, Len(rows))]

\* A step comes after those of smaller indexes, and in Postgres, which sorts by
\* the time as well, after those of its own; ids.New never names one twice.
UpsertStep(r, row) ==
    LET rows == stepRows[r] IN
    \E at \in 0..Len(rows) :
        /\ \A j \in 1..at : rows[j].index <= row.index
        /\ \A j \in (at + 1)..Len(rows) :
              row.index < rows[j].index \/ (backend = "memory" /\ row.index = rows[j].index)
        /\ stepRows' = [stepRows EXCEPT ![r] = InsertAt(rows, at + 1, row)]

-----------------------------------------------------------------------------
(* The runtime's calls *)

Turn(q) == turn[q]
Works(q, at) == doing[q] = at
GoesOn(q, at, t) == /\ doing' = [doing EXCEPT ![q] = at]
                    /\ turn' = [turn EXCEPT ![q] = t]
Leaves(q) == GoesOn(q, "idle", NoTurn)
StoreFault == backend = "postgres" /\ storeFaults < MaxStoreFaults /\ storeFaults' = storeFaults + 1
Same == UNCHANGED <<backend, storeFaults>>

\* Runtime.fail: the error is a step of its own.
FailsRun(q) == GoesOn(q, "step", [Turn(q) EXCEPT !.fresh = "failed"])

\* Runtime.Run: the state is saved before anything else.
StartRun(q, r, c, text) ==
    /\ Works(q, "idle") /\ lastSaved[r] = NoState
    /\ LET s == [conv |-> c, status |-> "received", index |-> 0, approval |-> FALSE,
                 text |-> text, result |-> "plain"]
       IN  /\ UpsertRun(r, s)
           /\ GoesOn(q, "message", [run |-> r, state |-> s, role |-> "user", fresh |-> "working"])
    /\ UNCHANGED <<stepRows, msgRows, usageRows, rollups, recorded, lostRollups>> /\ Same

\* ResumeApproval after a restart: the run is looked for among the paused.
ResumePaused(q, r) ==
    /\ Works(q, "idle") /\ r \in ListRunsByStatus({"paused"}, PausedLimit)
    /\ GetRun(r).approval
    /\ GoesOn(q, "step", [run |-> r, state |-> GetRun(r), role |-> "assistant", fresh |-> "working"])
    /\ UNCHANGED <<storeRows, storeHistory>> /\ Same

CancelStored(q, r) ==
    /\ Works(q, "idle") /\ runRows[r] # NoState /\ GetRun(r).status \notin Terminal
    /\ GoesOn(q, "step", [run |-> r, state |-> GetRun(r), role |-> "none", fresh |-> "cancelled"])
    /\ UNCHANGED <<storeRows, storeHistory>> /\ Same

\* Postgres refuses a message of a conversation it does not know.
CreateMessage(q) ==
    LET t == Turn(q) IN
    /\ Works(q, "message")
    /\ backend = "postgres" => t.state.conv \in Created
    /\ msgRows' = [msgRows EXCEPT ![t.state.conv][t.role] = Append(@, RedactString(t.state.text))]
    /\ IF t.role = "user" THEN GoesOn(q, "step", [t EXCEPT !.role = "assistant"])
       ELSE GoesOn(q, "usage", t)
    /\ UNCHANGED <<runRows, savedOrder, stepRows, usageRows, rollups, storeHistory>> /\ Same

\* Without the user's message the run stays as it was saved; without the
\* assistant's, or its usage, it fails.
MessageFails(q) ==
    /\ doing[q] \in {"message", "usage"} /\ backend = "postgres"
    /\ IF Turn(q).state.conv \in Created THEN StoreFault ELSE UNCHANGED storeFaults
    /\ IF Turn(q).role = "user" THEN Leaves(q) ELSE FailsRun(q)
    /\ UNCHANGED <<backend, storeRows, storeHistory>>

CreateUsage(q) ==
    /\ Works(q, "usage")
    /\ usageRows' = [usageRows EXCEPT ![Turn(q).state.conv] = @ + 1]
    /\ GoesOn(q, "rollup", Turn(q))
    /\ UNCHANGED <<runRows, savedOrder, stepRows, msgRows, rollups, storeHistory>> /\ Same

\* The increment is one statement, and its error is ignored.
IncrementRollup(q) ==
    LET t == Turn(q) IN
    /\ Works(q, "rollup")
    /\ \/ /\ rollups' = [rollups EXCEPT ![t.state.conv] = @ + 1]
          /\ UNCHANGED <<storeFaults, lostRollups>>
       \/ /\ StoreFault /\ UNCHANGED rollups
          /\ lostRollups' = [lostRollups EXCEPT ![t.state.conv] = @ + 1]
    /\ IF t.fresh = "paused" THEN Leaves(q) ELSE GoesOn(q, "step", t)
    /\ UNCHANGED <<backend, runRows, savedOrder, stepRows, msgRows, usageRows, lastSaved, recorded>>

\* The state a step is recorded with, whether or not it can be saved.
Stepped(q) == [Turn(q) EXCEPT !.state.index = @ + 1,
                              !.state.approval = @ \/ Turn(q).fresh = "paused"]

\* recordStep: the step, then the state, and transition the state once more
\* in its new status; only that last error is ignored.
SaveStep(q, text, approval) ==
    LET t == Stepped(q)
        step == [route |-> "tool", index |-> t.state.index,
                 text |-> text, result |-> t.state.result,
                 approval |-> IF t.fresh = "paused" THEN approval ELSE NoApproval]
    IN  /\ Works(q, "step") /\ t.state.index <= MaxIndex
        /\ UpsertStep(t.run, toRunStepRecord(step))
        /\ recorded' = [recorded EXCEPT ![t.run] = Append(@, step)]
        /\ GoesOn(q, "save", t)
        /\ UNCHANGED <<runRows, savedOrder, msgRows, usageRows, rollups, lastSaved, lostRollups>>
        /\ Same

SaveState(q) ==
    /\ Works(q, "save")
    /\ UpsertRun(Turn(q).run, Turn(q).state)
    /\ GoesOn(q, "transition", Turn(q))
    /\ UNCHANGED <<stepRows, msgRows, usageRows, rollups, recorded, lostRollups>> /\ Same

RecordStepFails(q) ==
    /\ doing[q] \in {"step", "save"} /\ StoreFault
    /\ IF Turn(q).fresh \in {"failed", "cancelled"} THEN Leaves(q)
       ELSE GoesOn(q, "step", [(IF doing[q] = "step" THEN Stepped(q) ELSE Turn(q))
                                EXCEPT !.fresh = "failed"])
    /\ UNCHANGED <<backend, storeRows, storeHistory>>

\* The run goes on with its result, to an approval, a failure or its answer;
\* or it waits for the approval; or it has ended.
Transition(q, next, result) ==
    LET t == Turn(q)
        s == [t.state EXCEPT !.status = t.fresh,
                             !.result = IF t.fresh = "working" THEN result ELSE @,
                             !.approval = @ /\ t.fresh # "working"]
    IN  /\ Works(q, "transition")
        /\ \/ UpsertRun(t.run, s) /\ UNCHANGED storeFaults
           \/ StoreFault /\ UNCHANGED <<runRows, savedOrder, lastSaved>>
        /\ CASE t.fresh = "working" ->
                   GoesOn(q, IF next = "completed" THEN "message" ELSE "step",
                          [t EXCEPT !.state = s, !.fresh = next])
             [] t.fresh = "paused" -> GoesOn(q, "message", [t EXCEPT !.state = s])
             [] OTHER -> Leaves(q)
        /\ UNCHANGED <<backend, stepRows, msgRows, usageRows, rollups, recorded, lostRollups>>

\* A restart: the requests are gone, and what was in memory only.
StoreRestarts ==
    /\ storeFaults < MaxStoreFaults /\ storeFaults' = storeFaults + 1
    /\ doing' = [q \in StoreRequests |-> "idle"]
    /\ turn' = [q \in StoreRequests |-> NoTurn]
    /\ IF backend = "postgres"
       THEN /\ lostRollups' = [c \in Conversations |-> usageRows[c] - rollups[c]]
            /\ UNCHANGED <<backend, storeRows, lastSaved, recorded>>
       ELSE /\ runRows' = NoStates /\ savedOrder' = <<>> /\ stepRows' = NoSteps
            /\ msgRows' = NoMessages /\ usageRows' = None /\ rollups' = None
            /\ lastSaved' = NoStates /\ recorded' = NoSteps /\ lostRollups' = None
            /\ UNCHANGED backend

StoreNext ==
    \/ \E q \in StoreRequests :
          \/ \E r \in StoreRuns, c \in Conversations, text \in StoreTexts :
                StartRun(q, r, c, text)
          \/ \E r \in StoreRuns : ResumePaused(q, r) \/ CancelStored(q, r)
          \/ CreateMessage(q) \/ MessageFails(q)
          \/ CreateUsage(q) \/ IncrementRollup(q)
          \/ SaveState(q) \/ RecordStepFails(q)
          \/ \E summary \in StoreTexts :
                SaveStep(q, "plain", [there |-> TRUE, summary |-> summary])
          \/ \E next \in {"working", "paused", "completed"}, result \in StoreTexts :
                Transition(q, next, result)
    \/ StoreRestarts

StoreSpec == StoreInit /\ [][StoreNext]_storeVars

-----------------------------------------------------------------------------
(* Properties *)

StoreTypeOK ==
    /\ backend \in {"memory", "postgres"} /\ storeFaults \in 0..MaxStoreFaults
    /\ \A r \in StoreRuns :
         /\ lastSaved[r] = NoState \/ lastSaved[r] \in States
         /\ runRows[r] = NoState \/ GetRun(r) \in States
    /\ doing \in [StoreRequests -> StoreStages]
    /\ \A q \in StoreRequests : (doing[q] = "idle") = (turn[q] = NoTurn)

\* A run is read back as it was saved last, redacted: the columns and the
\* JSON next to them agree.
RunsAsSaved ==
    \A r \in StoreRuns :
        /\ (runRows[r] = NoState) = (lastSaved[r] = NoState)
        /\ runRows[r] # NoState => GetRun(r) = sanitizeRunState(lastSaved[r])

\* A step as it is to be listed: without its secrets, its approval as asked.
RedactedStep(p) ==
    [route |-> "", index |-> p.index, text |-> RedactString(p.text),
     result |-> RedactString(p.result), approval |-> p.approval]

\* Every step recorded is listed once and in the order of the indexes, also
\* when a run and its cancellation record one under the same index; and the
\* approval of a paused run is among them, as it was recorded.
HistoryInOrder ==
    \A r \in StoreRuns :
        LET steps == ListSteps(r) IN
        /\ \A j, k \in DOMAIN steps : j < k => steps[j].index <= steps[k].index
        /\ Len(steps) = Len(recorded[r])
        /\ \A j \in DOMAIN recorded[r] : \E k \in DOMAIN steps :
             steps[k] = RedactedStep(recorded[r][j])
        /\ runRows[r] # NoState /\ GetRun(r).status = "paused"
             => \E k \in DOMAIN steps : steps[k].approval.there

\* Usage is counted for messages that are there, once, unless the increment
\* has failed or not happened yet.
RollupCountsUsage ==
    \A c \in Conversations :
        LET due == {q \in StoreRequests : doing[q] = "rollup" /\ turn[q].state.conv = c} IN
        /\ rollups[c] + lostRollups[c] + Cardinality(due) = usageRows[c]
        /\ usageRows[c] <= Len(msgRows[c]["assistant"])

\* No message, state or step is kept with a secret in it.
NoSecretKept ==
    /\ \A c \in Conversations, role \in {"user", "assistant"} :
         "secret" \notin Range(msgRows[c][role])
    /\ \A r \in StoreRuns :
         /\ runRows[r] # NoState => "secret" \notin {GetRun(r).text, GetRun(r).result}
         /\ \A k \in DOMAIN stepRows[r] : "secret" \notin {stepRows[r][k].text, stepRows[r][k].result}

\* What the store promises: runs as they were saved, histories that are
\* complete and in order, usage counted once, and no secret in any of it.
RecordsAreKept == RunsAsSaved /\ HistoryInOrder /\ RollupCountsUsage /\ NoSecretKept
=============================================================================
