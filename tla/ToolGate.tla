------------------------------ MODULE ToolGate -------------------------------
(***************************************************************************)
(* The way of one tool proposal through internal/agent/effect_inference.go,*)
(* internal/agent/policy.go and internal/tools/router.go, next to updates  *)
(* of what the inference reads: the local policies and the cached schema   *)
(* of an MCP tool and the manifest of a skill.                             *)
(*                                                                         *)
(* An effect name stands for all the names the code treats alike:          *)
(*   read       read, code.read, log.read, ... and names no rule knows     *)
(*   write      any name with write, modify, delete or install in it       *)
(*   post       network.post, network.put, network.patch, network.delete   *)
(*   send       webhook.call, email.send                                   *)
(*   restart    any name with restart, stop, kill or escalate in it        *)
(*   danger     names with danger in it and no word of the above           *)
(*   sensitive  any name with sensitive or env_file in it                  *)
(*   unknown    unknown.effect                                             *)
(* Effects are judged in order, so an inference holds a sequence of them.  *)
(* Confidences are percentages.                                            *)
(***************************************************************************)
EXTENDS Integers, Sequences, FiniteSets

CONSTANTS
    Declared,       \* the sequences of effects a manifest or a schema may declare
    GateProfiles,   \* the policy profiles that may be active or named
    GateTools,      \* the proposals that may be made
    SkillWants,     \* what skills may ask of the sandbox
    MaxUpdates      \* bound: updates of policies, schema and manifest

Effects == {"read", "write", "post", "send", "restart", "danger", "sensitive", "unknown"}

\* What a command line does as its first word and the arguments of it tell:
\* a file, git, package or network command is read-only or not, sudo is like a
\* restart.  Empty: no words.
ShellCommands == {"read", "write", "post", "restart", "unknown", "empty"}

\* The command that tests are to be run with: not given, but to be detected;
\* on the list; not given; no words; with shell control; one that installs.
TestCommands == {"detected", "recognized", "none", "empty", "control", "install", "foreign"}

\* A tool with what of its input the inference looks at: whether a path in it
\* is sensitive, and the command.
Tools ==
    [name : {"search", "analysis", "file", "patch", "memory", "queue", "clean", "other",
             "ops_read", "ops_restart", "ops_write", "ops_delete", "ops_other",
             "runbook", "runbook_other"},
     path : BOOLEAN]
    \cup [name : {"shell"}, redirect : BOOLEAN, path : BOOLEAN, command : ShellCommands]
    \cup [name : {"test"}, command : TestCommands]
    \cup [name : {"mcp", "skill"}]

\* What the manifest of a skill, its command and the host tell the sandbox: the
\* profile asked for; the network; a path outside the skill's root that it may
\* read or write; an interpreter outside of it; user namespaces on the host.
Wants == [profile : {"restricted", "linux_isolated", "best_effort_local", "trusted_local"},
          network : {"off", "on", "hosts"},
          outside : BOOLEAN, interpreter : BOOLEAN, namespaces : BOOLEAN]

ASSUME GateAssumption ==
    /\ GateTools \subseteq Tools
    /\ SkillWants \subseteq Wants
    /\ Declared \subseteq Seq(Effects)
    /\ GateProfiles \subseteq {"default", "strict", "developer", "ops", "offline"}
    /\ MaxUpdates \in Nat

VARIABLES
    profile,        \* the profile the proposal is judged by
    override,       \* the local policy of the MCP tool, if any
    schema,         \* its cached schema, if any
    skill,          \* the registered skill, if any
    gpc,            \* where the proposal is
    tool,           \* its tool, with what of its input matters
    inference,
    decision,
    ran,            \* how it was executed, if it was
    updates,
    moved           \* history: an update since its effects were inferred

registry == <<override, schema, skill>>
gateVars == <<profile, registry, gpc, tool, inference, decision, ran, updates, moved>>

In(s) == {s[i] : i \in DOMAIN s}
Least(a, b) == IF a < b THEN a ELSE b
Nothing == [known |-> FALSE]

-----------------------------------------------------------------------------
(* Policy profiles: config.DefaultPolicyProfiles *)

Profile ==
    [default   |-> [auto |-> TRUE,  require |-> {"sensitive", "write", "restart", "post", "unknown"},
                    deny |-> {}, threshold |-> 75],
     strict    |-> [auto |-> FALSE, require |-> Effects, deny |-> {}, threshold |-> 95],
     developer |-> [auto |-> TRUE,  require |-> {"sensitive", "write", "unknown"},
                    deny |-> {}, threshold |-> 75],
     ops       |-> [auto |-> TRUE,  require |-> {"restart", "write", "post", "send", "unknown"},
                    deny |-> {}, threshold |-> 80],
     offline   |-> [auto |-> TRUE,  require |-> {"sensitive", "write", "unknown"},
                    deny |-> {"post", "send"}, threshold |-> 80]]

effectNeedsApproval(e) == e \in {"sensitive", "write", "post", "restart"}

\* The first effect that is denied or unknown ends the loop over the effects.
Deciding(s, p) == {i \in DOMAIN s : s[i] \in p.deny \cup {"unknown"}}
Upto(s, p) == IF Deciding(s, p) = {} THEN DOMAIN s
              ELSE 1..(CHOOSE i \in Deciding(s, p) : \A j \in Deciding(s, p) : i <= j)

\* A mutant: an effect that needs approval is asked about even if it is denied.
DecideAsksFirst(inf, p) ==
    LET judged == {inf.effects[i] : i \in Upto(inf.effects, p)}
        denied == judged \cap p.deny # {}
        asks == \/ inf.confidence < p.threshold
                \/ inf.sensitive \/ inf.required
                \/ \E e \in judged : e \in p.require \cup {"unknown"} \/ effectNeedsApproval(e)
    IN  [allowed |-> ~denied, approval |-> asks \/ (~denied /\ ~p.auto)]

\* A mutant: what the profile requires approval for is not looked at.
DecideNoRequire(inf, p) ==
    LET judged == {inf.effects[i] : i \in Upto(inf.effects, p)}
        denied == judged \cap p.deny # {}
        asks == \/ inf.confidence < p.threshold
                \/ inf.sensitive \/ inf.required
                \/ \E e \in judged : e = "unknown" \/ effectNeedsApproval(e)
    IN  [allowed |-> ~denied, approval |-> ~denied /\ (asks \/ ~p.auto)]

\* PolicyEngine.Decide.  A denial leaves nothing to approve; an unknown effect
\* in front of a denied one is asked about instead.
Decide(inf, p) ==
    LET judged == {inf.effects[i] : i \in Upto(inf.effects, p)}
        denied == judged \cap p.deny # {}
        asks == \/ inf.confidence < p.threshold
                \/ inf.sensitive \/ inf.required
                \/ \E e \in judged : e \in p.require \cup {"unknown"} \/ effectNeedsApproval(e)
    IN  [allowed |-> ~denied, approval |-> ~denied /\ (asks \/ ~p.auto)]

-----------------------------------------------------------------------------
(* What MCP tools and skills declare *)

\* normalizePolicy: what a local policy can be.
Overrides == [known : {TRUE}, effects : Declared, require : BOOLEAN]

\* What a server can say of its tool.
Schemas == [known : {TRUE}, effects : Declared, approval : {"", "auto", "require"},
            readOnly : BOOLEAN]

Sandbox(ok, filesystem, network, approval, fallback) ==
    [ok |-> ok, filesystem |-> filesystem, network |-> network,
     approval |-> approval, fallback |-> fallback]

\* A mutant: hosts are allowed without anybody being asked.
selectSandboxHosts(w) ==
    LET confined == w.namespaces /\ ~w.outside
    IN  CASE w.profile \in {"best_effort_local", "trusted_local"} ->
               Sandbox(TRUE, FALSE, FALSE, FALSE, FALSE)
          [] w.profile = "restricted" /\ ~confined -> Sandbox(TRUE, FALSE, FALSE, TRUE, TRUE)
          [] w.profile = "restricted" /\ confined ->
               Sandbox(TRUE, ~w.interpreter, w.network = "off", w.interpreter, w.interpreter)
          [] w.profile = "linux_isolated" ->
               Sandbox(confined /\ ~w.interpreter /\ w.network # "hosts",
                       TRUE, w.network = "off", FALSE, FALSE)

\* selectSandbox and buildExecutionProfile: whether there is a runner for what
\* is asked, what of it the system enforces, and whether a person is to agree
\* to what it does not.
selectSandbox(w) ==
    LET confined == w.namespaces /\ ~w.outside
    IN  CASE w.profile \in {"best_effort_local", "trusted_local"} ->
               Sandbox(TRUE, FALSE, FALSE, FALSE, FALSE)
          [] w.profile = "restricted" /\ ~confined -> Sandbox(TRUE, FALSE, FALSE, TRUE, TRUE)
          [] w.profile = "restricted" /\ confined ->
               Sandbox(TRUE, ~w.interpreter, w.network = "off",
                       w.network = "hosts" \/ w.interpreter, w.interpreter)
          [] w.profile = "linux_isolated" ->
               Sandbox(confined /\ ~w.interpreter /\ w.network # "hosts",
                       TRUE, w.network = "off", FALSE, FALSE)

\* The skills that loadEntry registers: effects, approval by default, sandbox.
Skills == [known : {TRUE}, effects : Declared, require : BOOLEAN,
           wants : {w \in SkillWants : selectSandbox(w).ok}]

Named(s) == IF s = <<>> THEN <<"unknown">> ELSE s

Found(effects, require, confidence) ==
    [effects |-> effects, require |-> require, confidence |-> confidence]

profileFromPolicy(o) == Found(Named(o.effects), o.require, 98)

profileFromSchema(s) ==
    LET effects == IF s.effects # <<>> THEN s.effects
                   ELSE IF s.readOnly THEN <<"read">> ELSE <<"unknown">>
    IN  Found(effects, s.approval = "require" \/ "unknown" \in In(effects),
              IF s.effects = <<>> /\ ~s.readOnly THEN 45 ELSE 80)

\* PolicyProfile: a local policy comes before what the server says.
PolicyProfile ==
    IF override.known THEN profileFromPolicy(override)
    ELSE IF schema.known THEN profileFromSchema(schema)
    ELSE Found(<<"unknown">>, TRUE, 40)

-----------------------------------------------------------------------------
(* EffectInferrer.Infer *)

Inference(effects, sensitive, required, confidence) ==
    [effects |-> effects, sensitive |-> sensitive,
     required |-> required, confidence |-> confidence]

Unknown(confidence) == Inference(<<"unknown">>, FALSE, TRUE, confidence)
ReadOnly(confidence) == Inference(<<"read">>, FALSE, FALSE, confidence)

SensitiveRead == Inference(<<"sensitive", "read">>, TRUE, TRUE, 95)

\* Infer itself: the tools whose effects follow from the name.
inferNamed(name, sensitivePath) ==
    CASE name = "search" -> ReadOnly(95)
      [] name = "analysis" -> ReadOnly(90)
      [] name = "patch" ->
             IF sensitivePath THEN Inference(<<"write", "write", "sensitive">>, TRUE, TRUE, 99)
             ELSE Inference(<<"write", "write">>, FALSE, TRUE, 99)
      [] name = "queue" -> Inference(<<"write">>, FALSE, TRUE, 90)
      [] name = "memory" -> Inference(<<"write", "write">>, FALSE, TRUE, 95)
      [] name = "clean" -> Inference(<<"write", "danger">>, FALSE, TRUE, 99)
      [] name = "other" -> Unknown(20)

inferCodeRead(sensitivePath) == IF sensitivePath THEN SensitiveRead ELSE ReadOnly(95)

\* An ops tool with a sensitive path is taken for a read of that path,
\* whatever else it does.
inferOps(name, sensitivePath) ==
    IF sensitivePath THEN SensitiveRead
    ELSE CASE name = "ops_read" -> ReadOnly(95)
           [] name = "ops_restart" -> Inference(<<"restart", "write">>, FALSE, TRUE, 99)
           [] name = "ops_write" -> Inference(<<"write", "read">>, FALSE, TRUE, 99)
           [] name = "ops_delete" -> Inference(<<"write", "danger">>, FALSE, TRUE, 99)
           [] name = "ops_other" -> Unknown(30)

\* Executing a runbook counts as reading: each of its steps is proposed anew.
inferRunbook(name) ==
    IF name = "runbook" THEN Inference(<<"read", "read">>, FALSE, FALSE, 90) ELSE Unknown(30)

\* Every shell command asks; its effects are for the policy to deny.
inferShell(redirect, sensitivePath, command) ==
    IF command = "empty" THEN Unknown(10)
    ELSE LET effects == (IF redirect THEN <<"write">> ELSE <<>>)
                     \o (IF sensitivePath THEN <<"sensitive">> ELSE <<>>) \o <<command>>
         IN  Inference(effects, sensitivePath, TRUE,
                       IF command = "restart" THEN 98 ELSE IF command = "unknown" THEN 40 ELSE 90)

inferCodeTest(command) ==
    CASE command \in {"detected", "recognized"} -> Inference(<<"read", "read", "read">>, FALSE, FALSE, 90)
      [] command \in {"none", "empty"} -> Unknown(30)
      [] command = "control" -> Inference(<<"unknown", "write">>, FALSE, TRUE, 50)
      [] command = "install" -> Inference(<<"read", "write", "write", "unknown">>, FALSE, TRUE, 80)
      [] command = "foreign" -> Inference(<<"unknown", "read">>, FALSE, TRUE, 45)

inferMCP ==
    LET p == PolicyProfile
        e == In(p.effects)
    IN  Inference(p.effects, "sensitive" \in e,
                  p.require \/ e \cap {"unknown", "sensitive", "restart", "danger", "write", "post"} # {},
                  IF "unknown" \in e THEN Least(p.confidence, 40) ELSE p.confidence)

\* A mutant: the default of the manifest is not looked at.
inferSkillNoDefault ==
    IF ~skill.known THEN Unknown(30)
    ELSE LET effects == Named(skill.effects)
             e == In(effects)
             sandbox == selectSandbox(skill.wants)
             sure == IF "unknown" \in e THEN 40 ELSE 95
         IN  Inference(effects, "sensitive" \in e,
                       \/ e \cap {"unknown", "sensitive", "restart", "write", "post"} # {}
                       \/ sandbox.approval,
                       IF sandbox.approval THEN Least(sure, 60)
                       ELSE IF sandbox.fallback THEN Least(sure, 70) ELSE sure)

inferSkill ==
    IF ~skill.known THEN Unknown(30)
    ELSE LET effects == Named(skill.effects)
             e == In(effects)
             sandbox == selectSandbox(skill.wants)
             sure == IF "unknown" \in e THEN 40 ELSE 95
         IN  Inference(effects, "sensitive" \in e,
                       \/ e \cap {"unknown", "sensitive", "restart", "write", "post"} # {}
                       \/ skill.require \/ sandbox.approval,
                       IF sandbox.approval THEN Least(sure, 60)
                       ELSE IF sandbox.fallback THEN Least(sure, 70) ELSE sure)

Infer(t) ==
    CASE t.name = "shell" -> inferShell(t.redirect, t.path, t.command)
      [] t.name = "test" -> inferCodeTest(t.command)
      [] t.name = "mcp" -> inferMCP
      [] t.name = "skill" -> inferSkill
      [] t.name = "file" -> inferCodeRead(t.path)
      [] t.name \in {"ops_read", "ops_restart", "ops_write", "ops_delete", "ops_other"} ->
             inferOps(t.name, t.path)
      [] t.name \in {"runbook", "runbook_other"} -> inferRunbook(t.name)
      [] OTHER -> inferNamed(t.name, t.path)

-----------------------------------------------------------------------------
(* The router *)

NoTool == [name |-> "none"]
NoInference == Inference(<<>>, FALSE, FALSE, 0)
NoDecision == [allowed |-> FALSE, approval |-> FALSE]

GateInit ==
    /\ profile = "default"
    /\ override = Nothing /\ schema = Nothing /\ skill = Nothing
    /\ gpc = "idle" /\ tool = NoTool
    /\ inference = NoInference /\ decision = NoDecision
    /\ ran = "no"
    /\ updates = 0 /\ moved = FALSE

\* resolveProfile: the active profile, or the one the input of the proposal names.
resolveProfile == profile' \in GateProfiles

\* Effects are inferred and decided on; nothing else can happen in between that
\* either would notice.
Judge(t) ==
    /\ gpc = "idle"
    /\ tool' = t
    /\ resolveProfile
    /\ inference' = Infer(t)
    /\ decision' = Decide(inference', Profile[profile'])
    /\ ran' = "no" /\ moved' = FALSE
    /\ UNCHANGED <<registry, updates>>

\* Propose: what needs approval waits, what is not allowed is answered as
\* denied, and the rest is executed.
Propose(t) ==
    /\ Judge(t)
    /\ gpc' = IF decision'.approval THEN "approval"
              ELSE IF decision'.allowed THEN "execute" ELSE "answered"

\* ExecuteReadOnly refuses what needs approval, and that only.
ExecuteReadOnly(t) ==
    /\ Judge(t)
    /\ gpc' = IF decision'.approval THEN "answered" ELSE "executeReadOnly"

\* A person decides; ExecuteApproved runs the approved snapshot.
Review ==
    /\ gpc = "approval"
    /\ gpc' \in {"approved", "answered"}
    /\ UNCHANGED <<profile, registry, tool, inference, decision, ran, updates, moved>>

\* The executor of the tool runs, with the MCP tool or the skill of that name
\* as it is by then.
Execute ==
    /\ gpc \in {"execute", "approved", "executeReadOnly"}
    /\ ran' = CASE gpc = "execute" -> "auto"
                [] gpc = "approved" -> "approved"
                [] gpc = "executeReadOnly" -> "readonly"
    /\ gpc' = "answered"
    /\ UNCHANGED <<profile, registry, tool, inference, decision, updates, moved>>

\* UpdateToolPolicyInput, ListTools or UpdateServer, and the skill manager.
Update ==
    /\ updates < MaxUpdates /\ updates' = updates + 1
    /\ gpc # "answered"
    /\ \/ \E o \in Overrides : override' = o /\ UNCHANGED <<schema, skill>>
       \/ \E s \in Schemas \cup {Nothing} : schema' = s /\ UNCHANGED <<override, skill>>
       \/ \E k \in Skills \cup {Nothing} : skill' = k /\ UNCHANGED <<override, schema>>
    /\ moved' = (gpc # "idle")
    /\ UNCHANGED <<profile, gpc, tool, inference, decision, ran>>

\* The proposal is over, and another one may come.
Answer ==
    /\ gpc = "answered"
    /\ gpc' = "idle" /\ profile' = "default"
    /\ tool' = NoTool /\ inference' = NoInference /\ decision' = NoDecision
    /\ ran' = "no" /\ moved' = FALSE
    /\ UNCHANGED <<registry, updates>>

GateNext ==
    \/ \E t \in GateTools : Propose(t) \/ ExecuteReadOnly(t)
    \/ Review \/ Execute \/ Update \/ Answer

GateSpec == GateInit /\ [][GateNext]_gateVars

-----------------------------------------------------------------------------
(* Properties *)

GateTypeOK ==
    /\ profile \in GateProfiles \cup {"default"}
    /\ override \in Overrides \cup {Nothing}
    /\ schema \in Schemas \cup {Nothing}
    /\ skill \in Skills \cup {Nothing}
    /\ gpc \in {"idle", "approval", "approved", "execute", "executeReadOnly", "answered"}
    /\ tool \in Tools \cup {NoTool}
    /\ inference.effects \in Seq(Effects)
    /\ inference.sensitive \in BOOLEAN /\ inference.required \in BOOLEAN
    /\ inference.confidence \in 0..100
    /\ decision \in [allowed : BOOLEAN, approval : BOOLEAN]
    /\ ran \in {"no", "auto", "approved", "readonly"}
    /\ updates \in 0..MaxUpdates /\ moved \in BOOLEAN

\* The effects that the tool has been seen to have.
Known == In(inference.effects)

\* A tool runs without a person only if nothing that is known of it speaks for
\* asking: no effect that is unknown, denied, mutating or sensitive, whichever
\* of the inference, the profile and the threshold is to notice.
OnlyHarmlessRunsAlone ==
    ran = "auto" =>
        /\ Known \cap ({"unknown", "write", "post", "restart", "sensitive"}
                       \cup Profile[profile].require \cup Profile[profile].deny) = {}
        /\ inference.confidence >= Profile[profile].threshold
        /\ Profile[profile].auto

\* What the user has said of a tool holds, whatever the server or the manifest
\* declares next to it: an MCP tool whose local policy requires approval, and a
\* skill that asks by default, never run alone - unless that was said while the
\* proposal was on its way.
SaidIsHeeded ==
    ran = "auto" /\ ~moved =>
        /\ tool.name = "mcp" /\ override.known => ~override.require
        /\ tool.name = "mcp" /\ ~override.known =>
               schema.known /\ schema.approval # "require"
        /\ tool.name = "skill" => skill.known /\ ~skill.require

\* A skill that asks to be isolated and runs without a person is: it sees no
\* files but its own, and the network only if its manifest opens all of it.
IsolatedOrAsked ==
    ran = "auto" /\ ~moved /\ tool.name = "skill"
        /\ skill.wants.profile \in {"restricted", "linux_isolated"} =>
            /\ selectSandbox(skill.wants).filesystem
            /\ skill.wants.network = "on" \/ selectSandbox(skill.wants).network

\* An effect the profile denies is never executed, approved or not, unless an
\* unknown effect is listed before it.
DeniedStaysDenied ==
    ran \in {"auto", "approved"} =>
        \A i \in DOMAIN inference.effects :
            inference.effects[i] \in Profile[profile].deny =>
                \E j \in 1..(i - 1) : inference.effects[j] = "unknown"

\* ExecuteReadOnly executes only when policy already allows the proposal.
ReadOnlyMeansAllowed == ran = "readonly" => decision.allowed

=============================================================================
