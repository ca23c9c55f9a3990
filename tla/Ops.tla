--------------------------------- MODULE Ops ---------------------------------
(***************************************************************************)
(* internal/tools/ops: the host profiles, which live in memory; an         *)
(* operation that is proposed, may have to be agreed to, and is executed   *)
(* on the host its profile then stands for; and the runbooks, whose steps  *)
(* are routed one by one as proposals of their own.                        *)
(*                                                                         *)
(* What is run on a host is fixed per operation and left out; what matters *)
(* is where.  Whether a proposal needs approval is ToolGate's: here what   *)
(* changes a host asks, or is denied by the profile.                       *)
(***************************************************************************)
EXTENDS Naturals, SequencesExt

CONSTANTS
    HostIds,        \* the ids that hosts are given
    Targets,        \* machines and clusters a profile can stand for
    Runbooks,       \* the runbooks, sequences of steps
    StepLimits,     \* what may be asked for as max_steps
    MaxHostEdits    \* bound: changes of the profiles

ASSUME OpsAssumption ==
    /\ Runbooks \subseteq Seq({"read", "restart", "none"})
    /\ StepLimits \subseteq Nat \ {0} /\ MaxHostEdits \in Nat

NoTarget == "none"
\* This machine, and the cluster kubectl uses if it is told nothing.
Here == "here"
Current == "current"

\* A stored profile; configurations are kept when the type changes.
HostProfile == [type : {"local", "ssh", "docker", "k8s"},
                ssh : Targets \cup {NoTarget}, k8s : Targets \cup {NoTarget}]

\* validateHostInput and validateStoredHost.
validHost(h) == h.type = "ssh" => h.ssh # NoTarget
NoHost == [type |-> "gone", ssh |-> NoTarget, k8s |-> NoTarget]

\* A proposed operation: the host it names, if any, and for kubectl whether its
\* input names the cluster.
Operations == [provider : {"local", "docker"}, host : {"local"}, write : BOOLEAN, named : {NoTarget}]
    \cup [provider : {"ssh"}, host : HostIds, write : BOOLEAN, named : {NoTarget}]
    \cup [provider : {"k8s"}, host : HostIds \cup {"local"}, write : BOOLEAN,
          named : Targets \cup {NoTarget}]

VARIABLES
    hosts, issued,  \* the profiles by id, and the ids given out
    hostEdits,
    oppc, operation,
    ranAt,          \* where the operation was executed
    runbook,        \* the execution of a runbook
    agreedAt,       \* history: where the operation would have run when proposed
    hostMoved,      \* history: the profile it names was changed since
    stepsRun        \* history: the steps of the runbook that have run

opsVars == <<hosts, issued, hostEdits, oppc, operation, ranAt, runbook,
             agreedAt, hostMoved, stepsRun>>

NoOperation == [provider |-> "none"]
NoRunbook == [status |-> "none", plan |-> <<>>, limit |-> 1, results |-> <<>>]

OpsInit ==
    /\ hosts = [h \in HostIds \cup {"local"} |->
                    IF h = "local" THEN [type |-> "local", ssh |-> NoTarget, k8s |-> NoTarget]
                    ELSE NoHost]
    /\ issued = {"local"} /\ hostEdits = 0
    /\ oppc = "idle" /\ operation = NoOperation /\ ranAt = NoTarget
    /\ runbook = NoRunbook
    /\ agreedAt = NoTarget /\ hostMoved = FALSE /\ stepsRun = {}

-----------------------------------------------------------------------------
(* The host profiles *)

Edited(h) ==
    /\ hostEdits < MaxHostEdits /\ hostEdits' = hostEdits + 1
    /\ hostMoved' = (hostMoved \/ (operation # NoOperation /\ operation.host = h))
    /\ UNCHANGED <<oppc, operation, ranAt, runbook, agreedAt, stepsRun>>

CreateHost(h, p) ==
    /\ h \notin issued /\ validHost(p)
    /\ Edited(h)
    /\ hosts' = [hosts EXCEPT ![h] = p]
    /\ issued' = issued \cup {h}

\* Only what is given is replaced: a type, and the configurations.  An ssh type
\* is to come with its configuration, even if there is one already.
UpdateHost(h, type, ssh, k8s) ==
    LET old == hosts[h]
        new == [type |-> IF type = "" THEN old.type ELSE type,
                ssh |-> IF ssh = NoTarget THEN old.ssh ELSE ssh,
                k8s |-> IF k8s = NoTarget THEN old.k8s ELSE k8s]
    IN  /\ old # NoHost
        /\ type = "ssh" => ssh # NoTarget
        /\ validHost(new) /\ new # old
        /\ Edited(h)
        /\ hosts' = [hosts EXCEPT ![h] = new]
        /\ UNCHANGED issued

DeleteHost(h) ==
    /\ hosts[h] # NoHost
    /\ Edited(h)
    /\ hosts' = [hosts EXCEPT ![h] = NoHost]
    /\ UNCHANGED issued

-----------------------------------------------------------------------------
(* Operations *)

\* A mutant: without an ssh profile the command is run on this machine.
sshTargetOrHere(h) == IF hosts[h].type = "ssh" THEN hosts[h].ssh ELSE Here

\* SSHExecutor: no profile, or another one, is an error.
sshTarget(h) == IF hosts[h].type = "ssh" THEN hosts[h].ssh ELSE NoTarget

\* kubeSelectionArgs: the input, then the profile, then whatever kubectl uses.
kubeSelectionArgs(o) ==
    IF o.named # NoTarget THEN o.named
    ELSE IF hosts[o.host].k8s # NoTarget THEN hosts[o.host].k8s
    ELSE Current

\* Where an operation runs if it is executed now.  Local and Docker operations
\* look at no profile.
Where(o) ==
    CASE o.provider \in {"local", "docker"} -> Here
      [] o.provider = "ssh" -> sshTarget(o.host)
      [] o.provider = "k8s" -> kubeSelectionArgs(o)

\* The router: a write waits for a person or is denied.
ProposeOperation(o) ==
    /\ oppc = "idle"
    /\ operation' = o /\ agreedAt' = Where(o) /\ hostMoved' = FALSE
    /\ oppc' \in IF o.write THEN {"approval", "over"} ELSE {"execute"}
    /\ UNCHANGED <<hosts, issued, hostEdits, ranAt, runbook, stepsRun>>

DecideOperation ==
    /\ oppc = "approval"
    /\ oppc' \in {"execute", "over"}
    /\ UNCHANGED <<hosts, issued, hostEdits, operation, ranAt, runbook, agreedAt, hostMoved, stepsRun>>

\* The snapshot holds the id of the host, and the profile is looked up again.
ExecuteOperation ==
    /\ oppc = "execute"
    /\ ranAt' = Where(operation)
    /\ oppc' = "over"
    /\ UNCHANGED <<hosts, issued, hostEdits, operation, runbook, agreedAt, hostMoved, stepsRun>>

-----------------------------------------------------------------------------
(* Runbooks *)

\* RunbookExecuteExecutor: the runbook is read and planned anew; a dry run ends there.
ExecuteRunbook(plan, limit, dryRun) ==
    /\ runbook.status = "none"
    /\ runbook' = [status |-> IF dryRun THEN "dry_run" ELSE "routing", plan |-> plan,
                   limit |-> limit, results |-> <<>>]
    /\ UNCHANGED <<hosts, issued, hostEdits, oppc, operation, ranAt, agreedAt, hostMoved, stepsRun>>

RoutedSteps(r) == Len(r.results)
Recorded(result) == [runbook EXCEPT !.results = Append(@, result)]

\* A mutant: the steps after one that asks are routed too.
PauseAtGoesOn(r) == [r EXCEPT !.status = "routing"]

\* A step that asks ends the execution; nothing resumes it.
PauseAt(r) == [r EXCEPT !.status = "paused_for_approval"]

\* ExecuteRunbookStep: a step without a tool is skipped, one that is denied
\* counts as routed, and one that fails ends the execution with an error.  The
\* tools are the local ones, whichever host the runbook is for.
RouteStep ==
    /\ runbook.status = "routing"
    /\ RoutedSteps(runbook) < Len(runbook.plan) /\ RoutedSteps(runbook) < runbook.limit
    /\ LET n == RoutedSteps(runbook) + 1
       IN  CASE runbook.plan[n] = "none" -> runbook' = Recorded("skipped") /\ UNCHANGED stepsRun
             [] runbook.plan[n] = "read" ->
                  \/ runbook' = Recorded("ran") /\ stepsRun' = stepsRun \cup {n}
                  \/ runbook' = [runbook EXCEPT !.status = "failed"] /\ UNCHANGED stepsRun
             [] runbook.plan[n] = "restart" ->
                  \/ runbook' = PauseAt(Recorded("asked")) /\ UNCHANGED stepsRun
                  \/ runbook' = Recorded("denied") /\ UNCHANGED stepsRun
    /\ UNCHANGED <<hosts, issued, hostEdits, oppc, operation, ranAt, agreedAt, hostMoved>>

CompleteRunbook ==
    /\ runbook.status = "routing"
    /\ RoutedSteps(runbook) = Len(runbook.plan) \/ RoutedSteps(runbook) = runbook.limit
    /\ runbook' = [runbook EXCEPT !.status = "completed"]
    /\ UNCHANGED <<hosts, issued, hostEdits, oppc, operation, ranAt, agreedAt, hostMoved, stepsRun>>

\* A step that asked is decided on by itself, at any time after.
DecideStep(n) ==
    /\ n \in DOMAIN runbook.results /\ runbook.results[n] = "asked"
    /\ \/ runbook' = [runbook EXCEPT !.results[n] = "ran"] /\ stepsRun' = stepsRun \cup {n}
       \/ runbook' = [runbook EXCEPT !.results[n] = "rejected"] /\ UNCHANGED stepsRun
    /\ UNCHANGED <<hosts, issued, hostEdits, oppc, operation, ranAt, agreedAt, hostMoved>>

\* The runbooks touch none of what the operations do.
HostNext ==
    \/ \E h \in HostIds, p \in HostProfile : CreateHost(h, p)
    \/ \E h \in issued, type \in {"", "local", "ssh", "docker", "k8s"},
          s \in Targets \cup {NoTarget}, k \in Targets \cup {NoTarget} : UpdateHost(h, type, s, k)
    \/ \E h \in issued : DeleteHost(h)
    \/ \E o \in Operations : ProposeOperation(o)
    \/ DecideOperation \/ ExecuteOperation

RunbookNext ==
    \/ \E plan \in Runbooks, limit \in StepLimits, dryRun \in BOOLEAN :
          ExecuteRunbook(plan, limit, dryRun)
    \/ RouteStep \/ CompleteRunbook
    \/ \E n \in DOMAIN runbook.results : DecideStep(n)

OpsNext == HostNext \/ RunbookNext

OpsSpec == OpsInit /\ [][OpsNext]_opsVars

-----------------------------------------------------------------------------
(* Properties *)

OpsTypeOK ==
    /\ hosts \in [HostIds \cup {"local"} -> HostProfile \cup {NoHost}]
    /\ issued \subseteq HostIds \cup {"local"} /\ hostEdits \in 0..MaxHostEdits
    /\ oppc \in {"idle", "approval", "execute", "over"}
    /\ operation \in Operations \cup {NoOperation}
    /\ {ranAt, agreedAt} \subseteq Targets \cup {NoTarget, Here, Current}
    /\ runbook.status \in {"none", "dry_run", "routing", "paused_for_approval",
                           "completed", "failed"}
    /\ runbook.plan \in Runbooks \cup {<<>>}
    /\ hostMoved \in BOOLEAN /\ stepsRun \subseteq 1..Len(runbook.plan)

\* An operation runs where it would have run when it was proposed, unless the
\* profile it names was changed while it waited; and one for a remote machine
\* never runs on this one, changed or not.
RunsWhereAgreed ==
    ranAt # NoTarget =>
        /\ ranAt = agreedAt \/ hostMoved
        /\ operation.provider = "ssh" => ranAt \in Targets
        /\ operation.provider = "k8s" => ranAt \in Targets \cup {Current}

\* The steps of a runbook are carried out in order and within the limit: when
\* one runs, those before it have run, been skipped, denied or rejected, and
\* not one of them still waits for a person.
StepsInOrder ==
    \A n \in stepsRun :
        /\ n <= runbook.limit
        /\ \A i \in 1..(n - 1) :
              /\ runbook.results[i] \in {"ran", "skipped", "denied", "rejected"}
              /\ runbook.results[i] = "ran" => i \in stepsRun

\* Both: an operation and a runbook do what was agreed to, and no more.
OpsAsAgreed == RunsWhereAgreed /\ StepsInOrder

=============================================================================
