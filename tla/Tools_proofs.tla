----------------------------- MODULE Tools_proofs -----------------------------
(***************************************************************************)
(* What is proved of the gate a call passes, of the tools a step executes  *)
(* and of the planner that picks them: ToolGate, GitTool, CodePatch,       *)
(* SkillRunner, Planner and Ops, each for any number of requests,          *)
(* declarations, files, tools and processes.  The modules share nothing;   *)
(* each has an inductive invariant, a lemma per action or conjunct, and    *)
(* the theorems that follow from it.                                       *)
(***************************************************************************)
EXTENDS ToolGate, GitTool, CodePatch, SkillRunner, Planner, Ops,
        FiniteSetTheorems, WellFoundedInduction, TLAPS

\* A set of naturals that is not empty has a least element.  Its initial
\* segments are finite, and of those one has none of the others within it.
LEMMA LeastElement ==
    ASSUME NEW S \in SUBSET Nat, S # {}
    PROVE  \E i \in S : \A j \in S : i <= j
<1> DEFINE Initials == {0..i : i \in S}
<1>1. Initials \subseteq FiniteSubsetsOf(Nat) /\ Initials # {}
  <2>1. \A i \in S : 0..i \in SUBSET Nat /\ IsFiniteSet(0..i)
    BY FS_Interval
  <2> QED  BY <2>1 DEF FiniteSubsetsOf
<1>2. PICK T \in Initials : \A U \in Initials : <<U, T>> \notin StrictSubsetOrdering(Nat)
  <2> HIDE DEF Initials
  <2> QED  BY <1>1, FS_StrictSubsetOrderingWellFounded, WFMin
<1>3. PICK i \in S : T = 0..i
  OBVIOUS
<1>4. ASSUME NEW j \in S, j < i PROVE FALSE
  <2>1. 0..j \subseteq 0..i /\ 0..j # 0..i
    BY <1>4
  <2>2. <<0..j, 0..i>> \in StrictSubsetOrdering(Nat)
    BY <2>1 DEF StrictSubsetOrdering
  <2> QED  BY <1>2, <1>3, <2>2
<1> QED  BY <1>4

-----------------------------------------------------------------------------
(* The decision *)

\* The loop over the effects ends at the first that is denied or unknown, and
\* at the last if there is none.
LEMMA WhereJudgingEnds ==
    ASSUME NEW s \in Seq(Effects), NEW p
    PROVE  \/ /\ Deciding(s, p) = {}
              /\ Upto(s, p) = DOMAIN s
           \/ \E i \in Deciding(s, p) :
                 /\ Upto(s, p) = 1..i
                 /\ \A j \in Deciding(s, p) : i <= j
<1>1. Deciding(s, p) \in SUBSET Nat
  BY DEF Deciding
<1>2. CASE Deciding(s, p) = {}
  BY <1>2 DEF Upto
<1>3. CASE Deciding(s, p) # {}
  <2> DEFINE i == CHOOSE i \in Deciding(s, p) : \A j \in Deciding(s, p) : i <= j
  <2>1. i \in Deciding(s, p) /\ \A j \in Deciding(s, p) : i <= j
    BY <1>1, <1>3, LeastElement
  <2>2. Upto(s, p) = 1..i
    BY <1>3 DEF Upto
  <2> QED  BY <2>1, <2>2
<1> QED  BY <1>2, <1>3

\* What is neither denied nor asked about has been judged to the last of its
\* effects, and none of these speaks for asking.
LEMMA RunsUnasked ==
    ASSUME NEW inf, NEW p, inf.effects \in Seq(Effects),
           Decide(inf, p).allowed, ~Decide(inf, p).approval
    PROVE  /\ In(inf.effects) \cap ({"unknown", "write", "post", "restart", "sensitive"}
                                    \cup p.require \cup p.deny) = {}
           /\ ~(inf.confidence < p.threshold) /\ ~inf.sensitive /\ ~inf.required
           /\ p.auto
<1> DEFINE s == inf.effects
           judged == {s[i] : i \in Upto(s, p)}
<1>1. judged \cap p.deny = {}
  BY DEF Decide
<1>2. /\ ~(inf.confidence < p.threshold) /\ ~inf.sensitive /\ ~inf.required /\ p.auto
      /\ \A e \in judged : e \notin p.require \cup {"unknown"} /\ ~effectNeedsApproval(e)
  BY <1>1 DEF Decide
<1>3. Upto(s, p) = DOMAIN s
  <2>1. ASSUME NEW i \in Deciding(s, p), Upto(s, p) = 1..i PROVE FALSE
    <3>1. i \in 1..i
      BY DEF Deciding
    <3>2. s[i] \in judged /\ s[i] \in p.deny \cup {"unknown"}
      BY <2>1, <3>1 DEF Deciding
    <3> QED  BY <1>1, <1>2, <3>2
  <2> QED  BY <2>1, WhereJudgingEnds
<1>4. judged = In(s)
  BY <1>3 DEF In
<1> QED  BY <1>1, <1>2, <1>4 DEF effectNeedsApproval

\* What is allowed, or asked about, has no denied effect but behind an unknown
\* one.
LEMMA DeniedIsNotAllowed ==
    ASSUME NEW inf, NEW p, inf.effects \in Seq(Effects),
           Decide(inf, p).allowed \/ Decide(inf, p).approval,
           NEW k \in DOMAIN inf.effects, inf.effects[k] \in p.deny
    PROVE  \E j \in 1..(k - 1) : inf.effects[j] = "unknown"
<1> DEFINE s == inf.effects
           judged == {s[i] : i \in Upto(s, p)}
<1>1. judged \cap p.deny = {}
  BY DEF Decide
<1>2. k \in Deciding(s, p) /\ DOMAIN s \subseteq Nat \ {0}
  BY DEF Deciding
<1>3. PICK i \in Deciding(s, p) : Upto(s, p) = 1..i /\ \A j \in Deciding(s, p) : i <= j
  BY <1>2, WhereJudgingEnds
<1>4. i \in DOMAIN s /\ i \in 1..i /\ i <= k
  BY <1>2, <1>3 DEF Deciding
<1>5. s[i] \in judged
  BY <1>3, <1>4
<1>6. s[i] = "unknown" /\ i # k
  BY <1>1, <1>5 DEF Deciding
<1> QED  BY <1>2, <1>4, <1>6

-----------------------------------------------------------------------------
(* The inference *)

\* Lists of up to four effects are sequences of effects.
LEMMA Lists ==
    ASSUME NEW a \in Effects, NEW b \in Effects, NEW c \in Effects, NEW d \in Effects
    PROVE  /\ <<>> \in Seq(Effects) /\ <<a>> \in Seq(Effects) /\ <<a, b>> \in Seq(Effects)
           /\ <<a, b, c>> \in Seq(Effects) /\ <<a, b, c, d>> \in Seq(Effects)
OBVIOUS

\* The effects that the rules for known tools name.
LEMMA Names ==
    /\ "read" \in Effects /\ "write" \in Effects /\ "post" \in Effects /\ "restart" \in Effects
    /\ "danger" \in Effects /\ "sensitive" \in Effects /\ "unknown" \in Effects
BY DEF Effects

\* The fields of an inference and of a profile of an MCP tool.
LEMMA Fields ==
    /\ \A e, s, r, c : /\ Inference(e, s, r, c).effects = e /\ Inference(e, s, r, c).sensitive = s
                       /\ Inference(e, s, r, c).required = r /\ Inference(e, s, r, c).confidence = c
    /\ \A e, r, c : /\ Found(e, r, c).effects = e /\ Found(e, r, c).require = r
                    /\ Found(e, r, c).confidence = c
BY DEF Inference, Found

\* Effects in order, with a confidence that can be compared to a threshold.
Proper(inf) == inf.effects \in Seq(Effects) /\ inf.confidence \in Int

\* What is put together of a list of effects and a number is proper.
LEMMA ProperInference ==
    ASSUME NEW e \in Seq(Effects), NEW s, NEW r, NEW c \in Int
    PROVE  Proper(Inference(e, s, r, c))
BY Fields DEF Proper

\* Whatever a manifest or a server declares, at least one effect is judged.
LEMMA NamedEffects ==
    ASSUME NEW s \in Declared
    PROVE  Named(s) \in Seq(Effects)
<1>1. s \in Seq(Effects) /\ <<"unknown">> \in Seq(Effects)
  BY GateAssumption, Lists, Names
<1> QED  BY <1>1 DEF Named

\* What is known is not nothing.
LEMMA KnownIs ==
    /\ override \in Overrides \cup {Nothing} /\ override.known => override \in Overrides
    /\ schema \in Schemas \cup {Nothing} /\ schema.known => schema \in Schemas
    /\ skill \in Skills \cup {Nothing} /\ skill.known => skill \in Skills
<1>1. ~Nothing.known
  BY DEF Nothing
<1> QED  BY <1>1

\* The profile of an MCP tool is proper, whoever it is from.
LEMMA ProperProfile ==
    ASSUME override \in Overrides \cup {Nothing}, schema \in Schemas \cup {Nothing}
    PROVE  PolicyProfile.effects \in Seq(Effects) /\ PolicyProfile.confidence \in Int
<1>1. <<"unknown">> \in Seq(Effects) /\ <<"read">> \in Seq(Effects)
  BY Lists, Names
<1>2. CASE override.known
  <2>1. override.effects \in Declared
    BY <1>2, KnownIs DEF Overrides
  <2>2. PolicyProfile.effects = Named(override.effects) /\ PolicyProfile.confidence = 98
    BY <1>2 DEF PolicyProfile, profileFromPolicy, Found
  <2> QED  BY <2>1, <2>2, NamedEffects
<1>3. CASE ~override.known /\ schema.known
  <2>1. schema.effects \in Declared
    BY <1>3, KnownIs DEF Schemas
  <2>2. schema.effects \in Seq(Effects)
    BY <2>1, GateAssumption
  <2>3. PolicyProfile.effects \in {schema.effects, <<"read">>, <<"unknown">>}
    BY <1>3, Fields DEF PolicyProfile, profileFromSchema
  <2>4. PolicyProfile.confidence \in {45, 80}
    BY <1>3, Fields DEF PolicyProfile, profileFromSchema
  <2>5. PolicyProfile.effects \in Seq(Effects)
    BY <1>1, <2>2, <2>3
  <2> QED  BY <2>4, <2>5
<1>4. CASE ~override.known /\ ~schema.known
  BY <1>1, <1>4 DEF PolicyProfile, Found
<1> QED  BY <1>2, <1>3, <1>4

\* An inference is proper, whatever tool it is of.
LEMMA ProperInfer ==
    ASSUME NEW t \in Tools, override \in Overrides \cup {Nothing},
           schema \in Schemas \cup {Nothing}, skill \in Skills \cup {Nothing}
    PROVE  Proper(Infer(t))
<1>a. /\ <<"unknown">> \in Seq(Effects) /\ <<"read">> \in Seq(Effects) /\ <<"write">> \in Seq(Effects)
      /\ <<"sensitive">> \in Seq(Effects)
      /\ <<"sensitive", "read">> \in Seq(Effects) /\ <<"write", "write">> \in Seq(Effects)
      /\ <<"write", "danger">> \in Seq(Effects) /\ <<"restart", "write">> \in Seq(Effects)
      /\ <<"write", "read">> \in Seq(Effects) /\ <<"read", "read">> \in Seq(Effects)
      /\ <<"unknown", "write">> \in Seq(Effects) /\ <<"unknown", "read">> \in Seq(Effects)
      /\ <<"write", "write", "sensitive">> \in Seq(Effects)
      /\ <<"read", "read", "read">> \in Seq(Effects)
      /\ <<"read", "write", "write", "unknown">> \in Seq(Effects)
  BY Lists, Names
<1>b. /\ Proper(Unknown(10)) /\ Proper(Unknown(20)) /\ Proper(Unknown(30))
      /\ Proper(ReadOnly(90)) /\ Proper(ReadOnly(95))
      /\ Proper(SensitiveRead)
  BY <1>a DEF Proper, Inference, Unknown, ReadOnly, SensitiveRead
<1>c. /\ Proper(Inference(<<"read", "read", "read">>, FALSE, FALSE, 90))
      /\ Proper(Inference(<<"read", "read">>, FALSE, FALSE, 90))
      /\ Proper(Inference(<<"read", "write", "write", "unknown">>, FALSE, TRUE, 80))
      /\ Proper(Inference(<<"restart", "write">>, FALSE, TRUE, 99))
      /\ Proper(Inference(<<"unknown", "read">>, FALSE, TRUE, 45))
      /\ Proper(Inference(<<"unknown", "write">>, FALSE, TRUE, 50))
      /\ Proper(Inference(<<"write", "danger">>, FALSE, TRUE, 99))
      /\ Proper(Inference(<<"write", "read">>, FALSE, TRUE, 99))
      /\ Proper(Inference(<<"write", "write", "sensitive">>, TRUE, TRUE, 99))
      /\ Proper(Inference(<<"write", "write">>, FALSE, TRUE, 95))
      /\ Proper(Inference(<<"write", "write">>, FALSE, TRUE, 99))
      /\ Proper(Inference(<<"write">>, FALSE, TRUE, 90))
  BY <1>a DEF Proper, Inference
<1>1. CASE t.name = "shell"
  <2>1. t.command \in Effects \cup {"empty"} /\ (t.command = "empty" => t.command \notin Effects)
    BY <1>1 DEF Tools, ShellCommands, Effects
  <2>2. CASE t.command = "empty"
    <3>1. Infer(t) = Unknown(10)
      BY <1>1, <2>2 DEF Infer, inferShell
    <3> QED  BY <1>b, <3>1
  <2>3. CASE t.command \in Effects
    <3> DEFINE a == IF t.redirect THEN <<"write">> ELSE <<>>
               b == IF t.path THEN <<"sensitive">> ELSE <<>>
               c == IF t.command = "restart" THEN 98 ELSE IF t.command = "unknown" THEN 40 ELSE 90
    <3>1. a \in Seq(Effects) /\ b \in Seq(Effects) /\ <<t.command>> \in Seq(Effects)
      BY <1>a, <2>3, Lists, Names
    <3>2. a \o b \o <<t.command>> \in Seq(Effects) /\ c \in Int
      BY <3>1
    <3>3. Infer(t) = Inference(a \o b \o <<t.command>>, t.path, TRUE, c)
      BY <1>1, <2>1, <2>3 DEF Infer, inferShell
    <3> HIDE DEF a, b, c
    <3> QED  BY <3>2, <3>3, ProperInference
  <2> QED  BY <2>1, <2>2, <2>3
<1>2. CASE t.name = "mcp"
  <2> DEFINE p == PolicyProfile
             c == IF "unknown" \in In(p.effects) THEN Least(p.confidence, 40) ELSE p.confidence
  <2>1. p.effects \in Seq(Effects) /\ p.confidence \in Int
    BY ProperProfile
  <2>2. c \in Int
    BY <2>1 DEF Least
  <2>3. Infer(t).effects = p.effects /\ Infer(t).confidence = c
    BY <1>2, Fields DEF Infer, inferMCP
  <2> QED  BY <2>1, <2>2, <2>3 DEF Proper
<1>3. CASE t.name = "skill"
  <2>1. CASE ~skill.known
    <3>1. Infer(t) = Unknown(30)
      BY <1>3, <2>1 DEF Infer, inferSkill
    <3> QED  BY <1>b, <3>1
  <2>2. CASE skill.known
    <3>1. skill.effects \in Declared
      BY <2>2, KnownIs DEF Skills
    <3>2. Named(skill.effects) \in Seq(Effects)
      BY <3>1, NamedEffects
    <3>3. Infer(t).effects = Named(skill.effects)
      BY <1>3, <2>2 DEF Infer, inferSkill, Inference
    <3>4. Infer(t).confidence \in {40, 60, 70, 95}
      BY <1>3, <2>2 DEF Infer, inferSkill, Least, Inference
    <3> QED  BY <3>2, <3>3, <3>4 DEF Proper
  <2> QED  BY <2>1, <2>2
<1>4. CASE t.name = "test"
  <2>1. t.command \in TestCommands
    BY <1>4 DEF Tools
  <2>2. Infer(t) = inferCodeTest(t.command)
    BY <1>4 DEF Infer
  <2>3. \/ inferCodeTest(t.command) = Inference(<<"read", "read", "read">>, FALSE, FALSE, 90)
        \/ inferCodeTest(t.command) = Unknown(30)
        \/ inferCodeTest(t.command) = Inference(<<"unknown", "write">>, FALSE, TRUE, 50)
        \/ inferCodeTest(t.command) =
               Inference(<<"read", "write", "write", "unknown">>, FALSE, TRUE, 80)
        \/ inferCodeTest(t.command) = Inference(<<"unknown", "read">>, FALSE, TRUE, 45)
    BY <2>1, ZenonT(60) DEF TestCommands, inferCodeTest
  <2> QED  BY <1>b, <1>c, <2>2, <2>3, ZenonT(60)
<1>5. CASE t.name \in {"ops_read", "ops_restart", "ops_write", "ops_delete", "ops_other"}
  <2>1. Infer(t) = inferOps(t.name, t.path)
    BY <1>5 DEF Infer
  <2>2. \/ inferOps(t.name, t.path) = SensitiveRead
        \/ inferOps(t.name, t.path) = ReadOnly(95)
        \/ inferOps(t.name, t.path) = Inference(<<"restart", "write">>, FALSE, TRUE, 99)
        \/ inferOps(t.name, t.path) = Inference(<<"write", "read">>, FALSE, TRUE, 99)
        \/ inferOps(t.name, t.path) = Inference(<<"write", "danger">>, FALSE, TRUE, 99)
        \/ inferOps(t.name, t.path) = Unknown(30)
    BY <1>5, ZenonT(60) DEF inferOps
  <2> QED  BY <1>b, <1>c, <2>1, <2>2, ZenonT(60)
<1>6. CASE t.name \in {"file", "runbook", "runbook_other"}
  <2>1. \/ Infer(t) = SensitiveRead \/ Infer(t) = ReadOnly(95) \/ Infer(t) = Unknown(30)
        \/ Infer(t) = Inference(<<"read", "read">>, FALSE, FALSE, 90)
    BY <1>6, ZenonT(60) DEF Infer, inferCodeRead, inferRunbook
  <2> QED  BY <1>b, <1>c, <2>1, ZenonT(60)
<1>7. CASE t.name \in {"search", "analysis", "patch", "memory", "queue", "clean", "other"}
  <2>1. Infer(t) = inferNamed(t.name, t.path)
    BY <1>7 DEF Infer
  <2>2. \/ inferNamed(t.name, t.path) = ReadOnly(95)
        \/ inferNamed(t.name, t.path) = ReadOnly(90)
        \/ inferNamed(t.name, t.path) =
               Inference(<<"write", "write", "sensitive">>, TRUE, TRUE, 99)
        \/ inferNamed(t.name, t.path) = Inference(<<"write", "write">>, FALSE, TRUE, 99)
        \/ inferNamed(t.name, t.path) = Inference(<<"write">>, FALSE, TRUE, 90)
        \/ inferNamed(t.name, t.path) = Inference(<<"write", "write">>, FALSE, TRUE, 95)
        \/ inferNamed(t.name, t.path) = Inference(<<"write", "danger">>, FALSE, TRUE, 99)
        \/ inferNamed(t.name, t.path) = Unknown(20)
    BY <1>7, ZenonT(60) DEF inferNamed
  <2> QED  BY <1>b, <1>c, <2>1, <2>2, ZenonT(60)
<1> QED
  <2>1. \/ t.name \in {"shell", "mcp", "skill", "test"}
        \/ t.name \in {"ops_read", "ops_restart", "ops_write", "ops_delete", "ops_other"}
        \/ t.name \in {"file", "runbook", "runbook_other"}
        \/ t.name \in {"search", "analysis", "patch", "memory", "queue", "clean", "other"}
    BY DEF Tools
  <2> QED  BY <1>1, <1>2, <1>3, <1>4, <1>5, <1>6, <1>7, <2>1

-----------------------------------------------------------------------------
(* The invariant *)

\* What is registered and inferred is of its type.
Registered ==
    /\ override \in Overrides \cup {Nothing}
    /\ schema \in Schemas \cup {Nothing}
    /\ skill \in Skills \cup {Nothing}
    /\ profile \in GateProfiles \cup {"default"}
    /\ Proper(inference)

\* The decision of a proposal on its way is the one that was taken on what was
\* inferred; what was inferred still follows from what is registered, unless
\* that has been changed.
Judged ==
    gpc # "idle" =>
        /\ decision = Decide(inference, Profile[profile])
        /\ ~moved => inference = Infer(tool)

\* How far a proposal has come is what the decision allows, and nothing has run
\* before it is answered.
StageFits ==
    /\ gpc \in {"idle", "approval", "approved", "execute", "executeReadOnly", "answered"}
    /\ gpc = "execute" => decision.allowed /\ ~decision.approval
    /\ gpc \in {"approval", "approved"} => decision.approval
    /\ ran # "no" => gpc = "answered"
    /\ ran = "auto" => decision.allowed /\ ~decision.approval
    /\ ran = "approved" => decision.approval

GateInv == Registered /\ Judged /\ StageFits

\* The gate begins with nothing registered and no proposal.
LEMMA GateInitInv == GateInit => GateInv
<1>1. Proper(NoInference)
  <2>1. <<>> \in Seq(Effects)
    OBVIOUS
  <2> QED  BY <2>1 DEF NoInference, Inference, Proper
<1> QED  BY <1>1 DEF GateInit, GateInv, Registered, Judged, StageFits

\* What is inferred of a tool depends on nothing but what is registered.
LEMMA InferStays ==
    ASSUME UNCHANGED registry, NEW t
    PROVE  Infer(t)' = Infer(t)
BY DEF registry, Infer, inferMCP, inferSkill, PolicyProfile, profileFromPolicy,
   profileFromSchema, inferShell, inferCodeTest, inferOps, inferRunbook, inferCodeRead, inferNamed

\* A new proposal is judged by what is registered.
LEMMA JudgeStep ==
    ASSUME GateInv, NEW t \in GateTools, Propose(t) \/ ExecuteReadOnly(t)
    PROVE  GateInv'
<1>1. Judge(t)
  BY DEF Propose, ExecuteReadOnly
<1>2. Registered'
  <2>1. t \in Tools
    BY GateAssumption
  <2>2. Proper(Infer(t))
    BY <2>1, ProperInfer DEF GateInv, Registered
  <2>3. Proper(inference)'
    BY <1>1, <2>2 DEF Judge, Proper
  <2> QED  BY <1>1, <2>3 DEF GateInv, Registered, Judge, registry, resolveProfile
<1>3. Judged'
  <2>1. UNCHANGED registry /\ tool' = t
    BY <1>1 DEF Judge
  <2>2. Infer(t)' = Infer(t)
    BY <2>1, InferStays
  <2>3. Infer(tool)' = Infer(t)'
    BY <2>1 DEF Infer
  <2>4. /\ inference' = Infer(t)
        /\ decision' = Decide(inference', Profile[profile'])
    BY <1>1 DEF Judge
  <2> QED  BY <2>2, <2>3, <2>4 DEF Judged
<1>4. StageFits'
  BY <1>1 DEF Propose, ExecuteReadOnly, Judge, StageFits
<1> QED  BY <1>2, <1>3, <1>4 DEF GateInv

\* A person's answer and the execution change neither what is registered nor
\* what was decided.
LEMMA FollowStep ==
    ASSUME GateInv, Review \/ Execute \/ UNCHANGED gateVars
    PROVE  GateInv'
<1>1. /\ UNCHANGED registry
      /\ UNCHANGED <<profile, tool, inference, decision, moved>>
      /\ gpc = "idle" => gpc' = "idle"
  BY DEF Review, Execute, gateVars
<1>2. Registered'
  BY <1>1 DEF GateInv, Registered, registry, Proper
<1>3. Judged'
  <2>1. Infer(tool)' = Infer(tool)
    <3>1. Infer(tool') = Infer(tool)
      BY <1>1
    <3> QED  BY <1>1 DEF registry, Infer, inferMCP, inferSkill, PolicyProfile,
             profileFromPolicy, profileFromSchema, inferShell, inferCodeTest, inferOps,
             inferRunbook, inferCodeRead, inferNamed
  <2>2. gpc' # "idle" => gpc # "idle"
    BY <1>1
  <2>3. decision' = decision /\ inference' = inference /\ profile' = profile /\ moved' = moved
    BY <1>1
  <2> QED  BY <2>1, <2>2, <2>3 DEF GateInv, Judged
<1>4. StageFits'
  BY DEF GateInv, Review, Execute, StageFits, gateVars
<1> QED  BY <1>2, <1>3, <1>4 DEF GateInv

\* After the end of a proposal there is none.
LEMMA AnswerStep ==
    ASSUME GateInv, Answer
    PROVE  GateInv'
<1>1. Proper(NoInference)
  <2>1. <<>> \in Seq(Effects)
    OBVIOUS
  <2> QED  BY <2>1 DEF NoInference, Inference, Proper
<1>2. Registered'
  <2>1. Proper(inference)'
    BY <1>1 DEF Answer, Proper
  <2> QED  BY <2>1 DEF GateInv, Registered, Answer, registry
<1> QED  BY <1>2 DEF GateInv, Answer, Judged, StageFits

\* An update finds no proposal, or marks the one it finds.
LEMMA UpdateStep ==
    ASSUME GateInv, Update
    PROVE  GateInv'
<1>1. /\ UNCHANGED <<profile, gpc, tool, inference, decision, ran>>
      /\ moved' = (gpc # "idle")
  BY DEF Update
<1>2. Registered'
  <2>1. override' \in Overrides \cup {Nothing} /\ schema' \in Schemas \cup {Nothing}
        /\ skill' \in Skills \cup {Nothing}
    BY DEF GateInv, Registered, Update
  <2> QED  BY <1>1, <2>1 DEF GateInv, Registered, Proper
<1>3. Judged'
  <2>1. gpc' # "idle" => gpc # "idle" /\ moved'
    BY <1>1
  <2>2. decision' = decision /\ inference' = inference /\ profile' = profile
    BY <1>1
  <2> QED  BY <2>1, <2>2 DEF GateInv, Judged
<1>4. StageFits'
  BY <1>1 DEF GateInv, StageFits
<1> QED  BY <1>2, <1>3, <1>4 DEF GateInv

\* Whatever updates come next to a proposal, it is judged as a whole, and goes
\* no further than it was judged to.
THEOREM GateInvariant == GateSpec => []GateInv
<1>1. ASSUME GateInv, [GateNext]_gateVars PROVE GateInv'
  BY <1>1, JudgeStep, FollowStep, AnswerStep, UpdateStep DEF GateNext
<1> QED  BY <1>1, GateInitInv, PTL DEF GateSpec

-----------------------------------------------------------------------------
(* The properties *)

\* What an automatic execution says of the inference.
LEMMA RanAlone ==
    ASSUME GateInv, ran = "auto"
    PROVE  /\ Known \cap ({"unknown", "write", "post", "restart", "sensitive"}
                          \cup Profile[profile].require \cup Profile[profile].deny) = {}
           /\ ~(inference.confidence < Profile[profile].threshold)
           /\ ~inference.sensitive /\ ~inference.required
           /\ Profile[profile].auto
           /\ ~moved => inference = Infer(tool)
<1>1. /\ decision = Decide(inference, Profile[profile]) /\ decision.allowed /\ ~decision.approval
      /\ inference.effects \in Seq(Effects)
      /\ ~moved => inference = Infer(tool)
  BY DEF GateInv, Registered, Judged, StageFits, Proper
<1>2. Decide(inference, Profile[profile]).allowed /\ ~Decide(inference, Profile[profile]).approval
  BY <1>1
<1>3. /\ In(inference.effects) \cap ({"unknown", "write", "post", "restart", "sensitive"}
                          \cup Profile[profile].require \cup Profile[profile].deny) = {}
      /\ ~(inference.confidence < Profile[profile].threshold)
      /\ ~inference.sensitive /\ ~inference.required
      /\ Profile[profile].auto
  BY <1>1, <1>2, RunsUnasked
<1> QED  BY <1>1, <1>3 DEF Known

\* A tool runs without a person only if nothing known of it speaks for asking.
THEOREM HarmlessAlone == GateSpec => []OnlyHarmlessRunsAlone
<1>1. ASSUME GateInv PROVE OnlyHarmlessRunsAlone
  <2> SUFFICES ASSUME ran = "auto" PROVE OnlyHarmlessRunsAlone
    BY DEF OnlyHarmlessRunsAlone
  <2>1. inference.confidence \in Int
    BY <1>1 DEF GateInv, Registered, Proper
  <2>2. Profile[profile].threshold \in Int
    <3>1. profile \in {"default", "strict", "developer", "ops", "offline"}
      BY <1>1, GateAssumption DEF GateInv, Registered
    <3> QED  BY <3>1 DEF Profile
  <2>3. inference.confidence >= Profile[profile].threshold
    <3> DEFINE c == inference.confidence
               h == Profile[profile].threshold
    <3>1. c \in Int /\ h \in Int /\ ~(c < h)
      BY <1>1, <2>1, <2>2, RanAlone
    <3> HIDE DEF c, h
    <3>2. c >= h
      BY <3>1
    <3> QED  BY <3>2 DEF c, h
  <2> QED  BY <1>1, <2>3, RanAlone DEF OnlyHarmlessRunsAlone
<1> QED  BY <1>1, GateInvariant, PTL

\* What a profile denies is not executed, approved or not, unless the loop over
\* the effects ended at an unknown one before.
THEOREM DeniedForGood == GateSpec => []DeniedStaysDenied
<1>1. ASSUME GateInv PROVE DeniedStaysDenied
  <2> SUFFICES ASSUME ran \in {"auto", "approved"}, NEW k \in DOMAIN inference.effects,
                      inference.effects[k] \in Profile[profile].deny
               PROVE  \E j \in 1..(k - 1) : inference.effects[j] = "unknown"
    BY DEF DeniedStaysDenied
  <2>1. /\ decision = Decide(inference, Profile[profile])
        /\ decision.allowed \/ decision.approval
        /\ inference.effects \in Seq(Effects)
    BY <1>1 DEF GateInv, Registered, Judged, StageFits, Proper
  <2>2. Decide(inference, Profile[profile]).allowed \/ Decide(inference, Profile[profile]).approval
    BY <2>1
  <2> QED  BY <2>1, <2>2, DeniedIsNotAllowed
<1> QED  BY <1>1, GateInvariant, PTL

\* What the user requires of an MCP tool or a skill is asked for, unless it was
\* said while the proposal was on its way.
THEOREM Heeded == GateSpec => []SaidIsHeeded
<1>1. ASSUME GateInv PROVE SaidIsHeeded
  <2> SUFFICES ASSUME ran = "auto", ~moved PROVE SaidIsHeeded
    BY DEF SaidIsHeeded
  <2>1. inference = Infer(tool) /\ ~inference.required
    BY <1>1, RanAlone
  <2>2. ASSUME tool.name = "mcp"
        PROVE  ~PolicyProfile.require
    BY <2>1, <2>2 DEF Infer, inferMCP, Inference
  <2>3. ASSUME tool.name = "mcp", override.known PROVE ~override.require
    BY <2>2, <2>3 DEF PolicyProfile, profileFromPolicy, Found
  <2>4. ASSUME tool.name = "mcp", ~override.known
        PROVE  schema.known /\ schema.approval # "require"
    BY <2>2, <2>4 DEF PolicyProfile, profileFromSchema, Found
  <2>5. ASSUME tool.name = "skill" PROVE skill.known /\ ~skill.require
    BY <2>1, <2>5 DEF Infer, inferSkill, Unknown, Inference
  <2> QED  BY <2>3, <2>4, <2>5 DEF SaidIsHeeded
<1> QED  BY <1>1, GateInvariant, PTL

\* A skill that asks for isolation and runs without a person has it.
THEOREM Isolated == GateSpec => []IsolatedOrAsked
<1>1. ASSUME GateInv PROVE IsolatedOrAsked
  <2> SUFFICES ASSUME ran = "auto", ~moved, tool.name = "skill",
                      skill.wants.profile \in {"restricted", "linux_isolated"}
               PROVE  /\ selectSandbox(skill.wants).filesystem
                      /\ skill.wants.network = "on" \/ selectSandbox(skill.wants).network
    BY DEF IsolatedOrAsked
  <2>1. inference = Infer(tool) /\ ~inference.required
    BY <1>1, RanAlone
  <2>2. skill.known /\ ~selectSandbox(skill.wants).approval
    BY <2>1 DEF Infer, inferSkill, Unknown, Inference
  <2>3. skill.wants \in Wants /\ selectSandbox(skill.wants).ok
    BY <1>1, <2>2, KnownIs, GateAssumption DEF GateInv, Registered, Skills
  <2>4. skill.wants.network \in {"off", "on", "hosts"} /\ skill.wants.interpreter \in BOOLEAN
        /\ skill.wants.namespaces \in BOOLEAN /\ skill.wants.outside \in BOOLEAN
    BY <2>3 DEF Wants
  <2> QED  BY <2>2, <2>3, <2>4 DEF selectSandbox, Sandbox
<1> QED  BY <1>1, GateInvariant, PTL

\* What a policy, a schema or a manifest says is a number of percents and a
\* requirement.
LEMMA ProfileInBounds ==
    ASSUME override \in Overrides \cup {Nothing}, schema \in Schemas \cup {Nothing}
    PROVE  PolicyProfile.confidence \in 0..100
<1>1. CASE override.known
  BY <1>1 DEF PolicyProfile, profileFromPolicy, Found
<1>2. CASE ~override.known /\ schema.known
  BY <1>2 DEF PolicyProfile, profileFromSchema, Found
<1>3. CASE ~override.known /\ ~schema.known
  BY <1>3 DEF PolicyProfile, Found
<1> QED  BY <1>1, <1>2, <1>3

\* An inference with flags that are flags and percents that are percents.
InBounds(inf) == inf.sensitive \in BOOLEAN /\ inf.required \in BOOLEAN /\ inf.confidence \in 0..100

\* What is put together of flags and percents.
LEMMA InBoundsInference ==
    ASSUME NEW e, NEW s \in BOOLEAN, NEW r \in BOOLEAN, NEW c \in 0..100
    PROVE  InBounds(Inference(e, s, r, c))
  BY DEF InBounds, Inference

\* Whatever tool it is of, and whatever is declared.
LEMMA InferInBounds ==
    ASSUME NEW t \in Tools, override \in Overrides \cup {Nothing},
           schema \in Schemas \cup {Nothing}, skill \in Skills \cup {Nothing}
    PROVE  InBounds(Infer(t))
<1>a. \A e, s, r, c : s \in BOOLEAN /\ r \in BOOLEAN /\ c \in 0..100 => InBounds(Inference(e, s, r, c))
  BY InBoundsInference
<1>b. /\ \A c \in 0..100 : InBounds(Unknown(c)) /\ InBounds(ReadOnly(c))
      /\ InBounds(SensitiveRead)
  BY DEF InBounds, Inference, Unknown, ReadOnly, SensitiveRead
<1>c. \A e, c : c \in 0..100 => /\ InBounds(Inference(e, FALSE, FALSE, c))
                               /\ InBounds(Inference(e, FALSE, TRUE, c))
                               /\ InBounds(Inference(e, TRUE, TRUE, c))
  BY <1>a
<1>d. {30, 45, 50, 80, 90, 95, 99} \subseteq 0..100
  OBVIOUS
<1>e. /\ InBounds(Inference(<<"read", "read", "read">>, FALSE, FALSE, 90))
      /\ InBounds(Inference(<<"read", "read">>, FALSE, FALSE, 90))
      /\ InBounds(Inference(<<"read", "write", "write", "unknown">>, FALSE, TRUE, 80))
      /\ InBounds(Inference(<<"restart", "write">>, FALSE, TRUE, 99))
      /\ InBounds(Inference(<<"unknown", "read">>, FALSE, TRUE, 45))
      /\ InBounds(Inference(<<"unknown", "write">>, FALSE, TRUE, 50))
      /\ InBounds(Inference(<<"write", "danger">>, FALSE, TRUE, 99))
      /\ InBounds(Inference(<<"write", "read">>, FALSE, TRUE, 99))
      /\ InBounds(Inference(<<"write", "write", "sensitive">>, TRUE, TRUE, 99))
      /\ InBounds(Inference(<<"write", "write">>, FALSE, TRUE, 95))
      /\ InBounds(Inference(<<"write", "write">>, FALSE, TRUE, 99))
      /\ InBounds(Inference(<<"write">>, FALSE, TRUE, 90))
  BY <1>c, <1>d, Zenon
<1>f. /\ InBounds(Unknown(20)) /\ InBounds(Unknown(30))
      /\ InBounds(ReadOnly(90)) /\ InBounds(ReadOnly(95))
  BY <1>b
<1>1. CASE t.name = "shell"
  <2>1. t.path \in BOOLEAN
    BY <1>1 DEF Tools
  <2>2. CASE t.command = "empty"
    BY <1>1, <1>b, <2>2 DEF Infer, inferShell
  <2>3. CASE t.command # "empty"
    <3> DEFINE c == IF t.command = "restart" THEN 98 ELSE IF t.command = "unknown" THEN 40 ELSE 90
               e == (IF t.redirect THEN <<"write">> ELSE <<>>)
                     \o (IF t.path THEN <<"sensitive">> ELSE <<>>) \o <<t.command>>
    <3>1. Infer(t) = Inference(e, t.path, TRUE, c)
      BY <1>1, <2>3 DEF Infer, inferShell
    <3>2. c \in 0..100
      OBVIOUS
    <3> HIDE DEF c, e
    <3> QED  BY <2>1, <3>1, <3>2, InBoundsInference
  <2> QED  BY <2>2, <2>3
<1>2. CASE t.name = "mcp"
  <2> DEFINE p == PolicyProfile  e == In(p.effects)
             s == "sensitive" \in e
             r == p.require \/ e \cap {"unknown", "sensitive", "restart", "danger", "write", "post"} # {}
             c == IF "unknown" \in e THEN Least(p.confidence, 40) ELSE p.confidence
  <2>1. Infer(t) = Inference(p.effects, s, r, c)
    BY <1>2 DEF Infer, inferMCP
  <2>2. c \in 0..100
    <3>1. p.confidence \in 0..100
      BY ProfileInBounds
    <3> HIDE DEF p
    <3> QED  BY <3>1 DEF Least
  <2>3. s \in BOOLEAN /\ r \in BOOLEAN
    OBVIOUS
  <2> HIDE DEF p, e, s, r, c
  <2> QED  BY <2>1, <2>2, <2>3, InBoundsInference
<1>3. CASE t.name = "skill"
  <2>1. CASE ~skill.known
    BY <1>3, <1>b, <2>1 DEF Infer, inferSkill
  <2>2. CASE skill.known
    <3> DEFINE f == Named(skill.effects)  e == In(f)  s == "sensitive" \in e
               sandbox == selectSandbox(skill.wants)
               r == \/ e \cap {"unknown", "sensitive", "restart", "write", "post"} # {}
                    \/ skill.require \/ sandbox.approval
               sure == IF "unknown" \in e THEN 40 ELSE 95
               c == IF sandbox.approval THEN Least(sure, 60)
                    ELSE IF sandbox.fallback THEN Least(sure, 70) ELSE sure
    <3>1. Infer(t) = Inference(f, s, r, c)
      BY <1>3, <2>2 DEF Infer, inferSkill
    <3>2. c \in 0..100
      <4>1. sure \in {40, 95}
        OBVIOUS
      <4> HIDE DEF sure, sandbox
      <4> QED  BY <4>1 DEF Least
    <3>3. s \in BOOLEAN /\ r \in BOOLEAN
      OBVIOUS
    <3> HIDE DEF f, e, s, r, c
    <3> QED  BY <3>1, <3>2, <3>3, InBoundsInference
  <2> QED  BY <2>1, <2>2
<1>4. CASE t.name = "test"
  <2>1. t.command \in TestCommands
    BY <1>4 DEF Tools
  <2>2. Infer(t) = inferCodeTest(t.command)
    BY <1>4 DEF Infer
  <2> QED  BY <1>e, <1>f, <2>1, <2>2 DEF inferCodeTest, TestCommands
<1>5. CASE t.name \in {"file", "ops_read", "ops_restart", "ops_write", "ops_delete", "ops_other",
                       "runbook", "runbook_other"}
  BY <1>5, <1>b, <1>e, <1>f DEF Infer, inferCodeRead, inferOps, inferRunbook
<1>6. CASE t.name \in {"search", "analysis", "patch", "memory", "queue", "clean", "other"}
  <2>1. Infer(t) = inferNamed(t.name, t.path)
    BY <1>6 DEF Infer
  <2> QED  BY <1>6, <1>e, <1>f, <2>1 DEF inferNamed
<1>7. t.name \in {"shell", "mcp", "skill", "test"}
         \cup {"file", "ops_read", "ops_restart", "ops_write", "ops_delete", "ops_other",
               "runbook", "runbook_other"}
         \cup {"search", "analysis", "patch", "memory", "queue", "clean", "other"}
  BY DEF Tools
<1> QED  BY <1>1, <1>2, <1>3, <1>4, <1>5, <1>6, <1>7

\* Before anything is proposed, nothing has been inferred.
LEMMA NoInferenceInBounds == InBounds(NoInference)
<1> DEFINE e == <<>>
<1>1. NoInference = Inference(e, FALSE, FALSE, 0)
  BY DEF NoInference
<1>2. FALSE \in BOOLEAN /\ 0 \in 0..100
  OBVIOUS
<1> HIDE DEF e
<1> QED  BY <1>1, <1>2, InBoundsInference, Zenon

\* What of the types GateInv does not say.
GateRest ==
    /\ tool \in Tools \cup {NoTool}
    /\ InBounds(inference)
    /\ decision \in [allowed : BOOLEAN, approval : BOOLEAN]
    /\ ran \in {"no", "auto", "approved", "readonly"}
    /\ updates \in 0..MaxUpdates /\ moved \in BOOLEAN

\* A decision is two flags.
LEMMA DecideTyped ==
    ASSUME NEW inf, NEW p
    PROVE  Decide(inf, p) \in [allowed : BOOLEAN, approval : BOOLEAN]
  BY DEF Decide

\* The variables of the gate have their types.
THEOREM GateTyped == GateSpec => []GateTypeOK
<1>1. GateInit => GateRest
  <2>1. GateInit => InBounds(inference)
    BY NoInferenceInBounds DEF GateInit
  <2>2. GateInit => tool = NoTool /\ decision = NoDecision /\ ran = "no" /\ updates = 0 /\ moved = FALSE
    BY DEF GateInit
  <2>3. NoDecision \in [allowed : BOOLEAN, approval : BOOLEAN]
    BY DEF NoDecision
  <2>4. 0 \in 0..MaxUpdates
    BY GateAssumption
  <2> QED  BY <2>1, <2>2, <2>3, <2>4 DEF GateRest
<1>2. ASSUME GateInv, GateRest, [GateNext]_gateVars PROVE GateRest'
  <2>1. ASSUME NEW t \in GateTools, Judge(t) PROVE GateRest'
    <3>1. t \in Tools
      BY GateAssumption
    <3>2. InBounds(Infer(t))
      BY <1>2, <3>1, InferInBounds DEF GateInv, Registered
    <3>3. InBounds(inference)'
      BY <2>1, <3>2 DEF Judge, InBounds
    <3>4. decision' \in [allowed : BOOLEAN, approval : BOOLEAN]
      BY <2>1, DecideTyped DEF Judge
    <3> QED  BY <1>2, <2>1, <3>1, <3>3, <3>4 DEF GateRest, Judge
  <2>2. CASE Review
    BY <1>2, <2>2 DEF GateRest, InBounds, Review
  <2>3. CASE Execute
    BY <1>2, <2>3 DEF GateRest, InBounds, Execute
  <2>4. CASE Update
    BY <1>2, <2>4, GateAssumption DEF GateRest, InBounds, Update
  <2>5. CASE Answer
    <3>2. InBounds(inference)'
      BY <2>5, NoInferenceInBounds DEF Answer, InBounds
    <3> QED  BY <1>2, <2>5, <3>2 DEF GateRest, Answer, NoDecision
  <2>6. CASE UNCHANGED gateVars
    BY <1>2, <2>6 DEF GateRest, InBounds, gateVars
  <2> QED  BY <1>2, <2>1, <2>2, <2>3, <2>4, <2>5, <2>6 DEF GateNext, Propose, ExecuteReadOnly
<1>3. GateInv /\ GateRest => GateTypeOK
  BY DEF GateInv, Registered, StageFits, GateRest, GateTypeOK, Proper, InBounds
<1>4. GateSpec => []GateRest
  <2>1. GateInv /\ GateRest /\ [GateNext]_gateVars => GateRest'
    BY <1>2
  <2> QED  BY <1>1, <2>1, GateInvariant, PTL DEF GateSpec
<1> QED  BY <1>3, <1>4, GateInvariant, PTL

-----------------------------------------------------------------------------
(* The git tools *)

GitJobs == [op : GitOperations, paths : GitPaths, cached : BOOLEAN, alone : BOOLEAN,
            seen : SUBSET Int, whole : BOOLEAN,
            at : {"run", "numstat", "names", "staged", "all", "check", "commit"}]

\* What a request has read so far, if it was all it had to read and nobody has
\* touched the repository since.
ReadingHolds ==
    \A q \in GitCallers :
        LET job_ == gitJob[q]
        IN  job_.at # "idle" =>
              /\ job_ \in GitJobs
              /\ job_.at = "run" => job_.op \in {"add", "restore", "clean"}
              /\ job_.alone /\ job_.whole =>
                    /\ job_.at = "names" => job_.seen = DiffOf(job_)
                    /\ job_.at = "all" => job_.seen = Changed(head, staging, job_.paths)
                    /\ job_.at \in {"check", "commit"} =>
                          /\ job_.seen = Changed(head, staging, {})
                          /\ job_.seen \subseteq Pathspec(job_.paths)
              /\ job_.at = "commit" => job_.seen # {}

GitInv == GitTypeOK /\ ReadingHolds /\ GitIsScoped

\* What is not cut is all there is.
LEMMA NamesWhole ==
    ASSUME NEW changed \in SUBSET GitFiles, NEW out \in GitNames(changed)
    PROVE  /\ out.whole \in BOOLEAN /\ out.names \in SUBSET Int
           /\ out.whole => out.names = changed
<1> DEFINE before(f) == Cardinality({g \in changed : g < f})
           kept == {f \in changed : before(f) < NamesLimit}
           piece == {-f : f \in {g \in changed : before(g) = NamesLimit}}
           whole == Cardinality(changed) <= NamesLimit
<1>1. \/ out = [names |-> kept, whole |-> whole]
      \/ ~whole /\ out = [names |-> kept \cup piece, whole |-> FALSE]
  <2>1. GitNames(changed) = {[names |-> kept, whole |-> whole]} \cup
            (IF whole THEN {} ELSE {[names |-> kept \cup piece, whole |-> FALSE]})
    BY Zenon DEF GitNames
  <2>2. out \in GitNames(changed)
    OBVIOUS
  <2> HIDE DEF kept, piece, whole
  <2>3. CASE whole
    BY <2>1, <2>2, <2>3
  <2>4. CASE ~whole
    BY <2>1, <2>2, <2>4
  <2> QED  BY <2>3, <2>4
<1>2. GitFiles \subseteq Nat /\ NamesLimit \in Nat
  BY GitAssumption
<1>3. kept \subseteq Int /\ piece \subseteq Int
  <2>1. \A f \in changed : f \in Int /\ -f \in Int
    BY <1>2
  <2> QED  BY <2>1
<1>4. ASSUME whole, NEW f \in changed PROVE before(f) < NamesLimit
  <2> DEFINE below == {g \in changed : g < f}
  <2>1. IsFiniteSet(changed)
    BY GitAssumption, FS_Subset
  <2>2. below \in SUBSET changed /\ f \notin below
    BY <1>2
  <2>3. /\ Cardinality(below) <= Cardinality(changed) /\ Cardinality(below) # Cardinality(changed)
        /\ Cardinality(below) \in Nat /\ Cardinality(changed) \in Nat
    BY <2>1, <2>2, FS_Subset, FS_CardinalityType
  <2> HIDE DEF below
  <2> QED  BY <1>2, <1>4, <2>3 DEF below
<1>5. whole => kept = changed
  BY <1>4
<1> HIDE DEF kept, piece, whole
<1>6. whole \in BOOLEAN
  BY DEF whole
<1>7. CASE out = [names |-> kept, whole |-> whole]
  BY <1>3, <1>5, <1>6, <1>7
<1>8. CASE out = [names |-> kept \cup piece, whole |-> FALSE]
  <2>1. kept \cup piece \in SUBSET Int
    BY <1>3
  <2> QED  BY <1>8, <2>1
<1> QED  BY <1>1, <1>7, <1>8

\* What is changed under paths is changed, and under them.
LEMMA ChangedUnder ==
    ASSUME NEW paths \in GitPaths
    PROVE  /\ Changed(head, staging, {}) \subseteq GitFiles
           /\ Changed(head, staging, paths) \subseteq Changed(head, staging, {})
           /\ Changed(head, staging, paths) \subseteq Pathspec(paths)
           /\ Changed(head, staging, paths) \subseteq GitFiles
           /\ Changed(staging, work, paths) \subseteq GitFiles
  BY GitAssumption DEF Changed, Pathspec

\* The variables of the git tools keep their types.
LEMMA GitTypes == ASSUME GitTypeOK, ReadingHolds, GitNext PROVE GitTypeOK'
<1> USE DEF GitTypeOK, gitTrees
<1>1. ASSUME NEW q \in GitCallers, NEW op \in GitOperations, NEW paths \in GitPaths,
             NEW cached \in BOOLEAN, GitExecute(q, op, paths, cached) PROVE GitTypeOK'
  <2>1. gitCalls' \in 0..MaxGitCalls
    BY <1>1, GitAssumption DEF GitExecute
  <2> QED  BY <1>1, <2>1 DEF GitExecute, Proceeds, Answers, NoGitAnswer
<1>t. ASSUME NEW q, Touches(q, NoGitJob)
      PROVE  \A p \in GitCallers : gitJob'[p].at \in {"idle", gitJob[p].at}
  <2> SUFFICES ASSUME NEW p \in GitCallers, p # q, gitJob[p].at # "idle"
               PROVE  gitJob'[p].at = gitJob[p].at
    BY <1>t DEF Touches, NoGitJob
  <2>1. gitJob[p] \in GitJobs
    BY DEF ReadingHolds
  <2> QED  BY <1>t, <2>1 DEF Touches, GitJobs
<1>p. ASSUME NEW q \in GitCallers, NEW j, Proceeds(q, j)
      PROVE  \A p \in GitCallers : gitJob'[p] \in {j, gitJob[p]}
  BY <1>p DEF Proceeds
<1>2. ASSUME NEW q \in GitCallers, RunOnce(q) PROVE GitTypeOK'
  <2>1. gitJob[q] \in GitJobs
    BY <1>2 DEF RunOnce, ReadingHolds
  <2>2. work' \in [GitFiles -> Nat]
    BY <1>2 DEF RunOnce
  <2>3. staging' \in [GitFiles -> Nat]
    BY <1>2 DEF RunOnce
  <2>4. gitDone'.op \in GitOperations
    BY <1>2, <2>1 DEF RunOnce, Answers, GitJobs
  <2>5. Touches(q, NoGitJob) /\ UNCHANGED <<head, gitCalls, gitEdits>>
    BY <1>2 DEF RunOnce
  <2> QED  BY <1>t, <2>2, <2>3, <2>4, <2>5
<1>3. ASSUME NEW q \in GitCallers, Numstat(q) \/ ReadStaged(q) PROVE GitTypeOK'
  <2>1. gitJob[q] \in GitJobs
    BY <1>3 DEF Numstat, ReadStaged, ReadingHolds
  <2>2. PICK j : Proceeds(q, j) /\ j.at \in {"names", "all", "check"}
    <3>1. CASE Numstat(q)
      <4>1. PICK out : Proceeds(q, [gitJob[q] EXCEPT !.at = "names", !.seen = out.names, !.whole = out.whole])
        BY <3>1 DEF Numstat
      <4>2. [gitJob[q] EXCEPT !.at = "names", !.seen = out.names, !.whole = out.whole].at = "names"
        BY <2>1 DEF GitJobs
      <4> QED  BY <4>1, <4>2
    <3>2. CASE ReadStaged(q)
      <4>1. PICK out : Proceeds(q, [gitJob[q] EXCEPT !.seen = out.names, !.whole = out.whole,
                                        !.at = IF @ = "staged" /\ gitJob[q].paths # {}
                                               THEN "all" ELSE "check"])
        BY <3>2 DEF ReadStaged
      <4>2. [gitJob[q] EXCEPT !.seen = out.names, !.whole = out.whole,
                              !.at = IF @ = "staged" /\ gitJob[q].paths # {}
                                     THEN "all" ELSE "check"].at \in {"all", "check"}
        BY <2>1 DEF GitJobs
      <4> QED  BY <4>1, <4>2
    <3> QED  BY <1>3, <3>1, <3>2
  <2>3. \A p \in GitCallers : gitJob'[p] \in {j, gitJob[p]}
    BY <1>p, <2>2
  <2> QED  BY <1>3, <2>2, <2>3 DEF Numstat, ReadStaged, GitReads
<1>4. ASSUME NEW q \in GitCallers, NameStatus(q) \/ ReadAllStaged(q) \/ CheckStaged(q) PROVE GitTypeOK'
  <2>1. gitJob[q] \in GitJobs
    BY <1>4 DEF NameStatus, ReadAllStaged, CheckStaged, ReadingHolds
  <2>2. PICK j : Proceeds(q, j) /\ j.at \in {"idle", "check", "commit"}
    <3>1. CASE Proceeds(q, NoGitJob)
      BY <3>1 DEF NoGitJob
    <3>2. CASE CheckStaged(q) /\ Proceeds(q, [gitJob[q] EXCEPT !.at = "commit"])
      BY <2>1, <3>2 DEF GitJobs
    <3>3. ASSUME NEW b, Proceeds(q, [gitJob[q] EXCEPT !.whole = b, !.at = "check"])
          PROVE  \E j : Proceeds(q, j) /\ j.at \in {"idle", "check", "commit"}
      <4>1. [gitJob[q] EXCEPT !.whole = b, !.at = "check"].at = "check"
        BY <2>1 DEF GitJobs
      <4> QED  BY <3>3, <4>1
    <3> QED  BY <1>4, <3>1, <3>2, <3>3 DEF NameStatus, ReadAllStaged, CheckStaged
  <2>3. \A p \in GitCallers : gitJob'[p] \in {j, gitJob[p]}
    BY <1>p, <2>2
  <2>4. gitDone'.op \in GitOperations \cup {"none", "error"}
    <3>1. CASE NameStatus(q)
      <4>1. gitDone'.op = "diff_summary"
        BY <3>1 DEF NameStatus, Answers
      <4> QED  BY <4>1 DEF GitOperations
    <3>2. UNCHANGED gitDone \/ gitDone' = [op |-> "commit", exit |-> 1] \/ NameStatus(q)
      BY <1>4 DEF ReadAllStaged, CheckStaged, Answers
    <3> QED  BY <3>1, <3>2 DEF GitOperations
  <2> QED  BY <1>4, <2>2, <2>3, <2>4 DEF NameStatus, ReadAllStaged, CheckStaged, GitReads
<1>5. ASSUME NEW q \in GitCallers, GitCommit(q) \/ GitFails(q) PROVE GitTypeOK'
  <2>1. Touches(q, NoGitJob) /\ head' \in {head, staging} /\ UNCHANGED <<work, staging, gitCalls, gitEdits>>
    BY <1>5 DEF GitCommit, GitFails
  <2>2. gitDone'.op \in {"commit", "error"}
    BY <1>5 DEF GitCommit, GitFails, Answers
  <2> QED  BY <1>t, <2>1, <2>2 DEF GitOperations
<1>6. ASSUME NEW f \in GitFiles, NEW version \in {0, gitEdits + 3}, NEW adds \in BOOLEAN,
             UserEdits(f, version, adds) PROVE GitTypeOK'
  <2>1. Touches("user", NoGitJob) /\ gitEdits' \in 0..MaxGitEdits /\ version \in Nat
    BY <1>6, GitAssumption DEF UserEdits
  <2>2. work' \in [GitFiles -> Nat] /\ staging' \in [GitFiles -> Nat]
    BY <1>6, <2>1 DEF UserEdits
  <2> QED  BY <1>t, <1>6, <2>1, <2>2 DEF UserEdits
<1> QED  BY <1>1, <1>2, <1>3, <1>4, <1>5, <1>6 DEF GitNext

\* What one request has read holds on as long as nobody touches the repository.
LEMMA ReadingStep == ASSUME GitInv, GitNext PROVE ReadingHolds'
<1> DEFINE Holds(j) ==
        j.at # "idle" =>
              /\ j \in GitJobs
              /\ j.at = "run" => j.op \in {"add", "restore", "clean"}
              /\ j.alone /\ j.whole =>
                    /\ j.at = "names" => j.seen = DiffOf(j)
                    /\ j.at = "all" => j.seen = Changed(head, staging, j.paths)
                    /\ j.at \in {"check", "commit"} =>
                          /\ j.seen = Changed(head, staging, {})
                          /\ j.seen \subseteq Pathspec(j.paths)
              /\ j.at = "commit" => j.seen # {}
<1>0. \A q \in GitCallers : Holds(gitJob[q])
  BY DEF GitInv, ReadingHolds
<1> SUFFICES ASSUME NEW p \in GitCallers PROVE Holds(gitJob[p])'
  BY DEF ReadingHolds
<1> USE DEF GitInv, GitTypeOK, gitTrees
<1>t. ASSUME NEW q, Touches(q, NoGitJob) PROVE Holds(gitJob[p])'
  <2>1. CASE p = q \/ gitJob[p].at = "idle"
    BY <1>t, <2>1 DEF Touches, NoGitJob
  <2>2. CASE p # q /\ gitJob[p].at # "idle"
    <3>1. gitJob[p] \in GitJobs
      BY <1>0, <2>2
    <3>2. gitJob'[p] = [gitJob[p] EXCEPT !.alone = FALSE]
      BY <1>t, <2>2 DEF Touches
    <3>3. gitJob'[p] \in GitJobs /\ ~gitJob'[p].alone /\ gitJob'[p].at = gitJob[p].at
          /\ gitJob'[p].op = gitJob[p].op /\ gitJob'[p].seen = gitJob[p].seen
      BY <3>1, <3>2 DEF GitJobs
    <3> QED  BY <1>0, <2>2, <3>3
  <2> QED  BY <2>1, <2>2
<1>p. ASSUME NEW q \in GitCallers, NEW j, Proceeds(q, j), UNCHANGED gitTrees, Holds(j)
      PROVE  Holds(gitJob[p])'
  <2>1. gitJob'[p] \in {j, gitJob[p]} /\ UNCHANGED <<work, staging, head>>
    BY <1>p DEF Proceeds
  <2>2. Holds(gitJob'[p])
    BY <1>0, <1>p, <2>1
  <2> QED  BY <2>1, <2>2 DEF DiffOf, Changed
<1>1. ASSUME NEW q \in GitCallers, NEW op \in GitOperations, NEW paths \in GitPaths,
             NEW cached \in BOOLEAN, GitExecute(q, op, paths, cached) PROVE Holds(gitJob[p])'
  <2> DEFINE j == [op |-> op, paths |-> paths, cached |-> cached, alone |-> TRUE,
                    seen |-> {}, whole |-> TRUE,
                    at |-> CASE op = "commit" -> "staged" [] op = "diff_summary" -> "numstat"
                             [] OTHER -> "run"]
  <2>1. Proceeds(q, j) /\ UNCHANGED gitTrees
    BY <1>1 DEF GitExecute
  <2>2. j \in GitJobs /\ j.at \in {"staged", "numstat", "run"} /\ (j.at = "run" => op \in {"add", "restore", "clean"})
    BY DEF GitJobs, GitOperations
  <2>3. Holds(j)
    BY <2>2
  <2> HIDE DEF j
  <2> QED  BY <1>p, <2>1, <2>3
<1>2. ASSUME NEW q \in GitCallers, RunOnce(q) \/ GitCommit(q) \/ GitFails(q) PROVE Holds(gitJob[p])'
  BY <1>t, <1>2 DEF RunOnce, GitCommit, GitFails
<1>3. ASSUME NEW q \in GitCallers, Numstat(q) PROVE Holds(gitJob[p])'
  <2>1. gitJob[q] \in GitJobs
    BY <1>0, <1>3 DEF Numstat
  <2>2. DiffOf(gitJob[q]) \subseteq GitFiles
    BY <2>1, ChangedUnder DEF GitJobs, DiffOf
  <2>3. PICK out \in GitNames(DiffOf(gitJob[q])) :
          Proceeds(q, [gitJob[q] EXCEPT !.at = "names", !.seen = out.names, !.whole = out.whole])
    BY <1>3 DEF Numstat
  <2> DEFINE j == [gitJob[q] EXCEPT !.at = "names", !.seen = out.names, !.whole = out.whole]
  <2>4. out.whole \in BOOLEAN /\ out.names \in SUBSET Int /\ (out.whole => out.names = DiffOf(gitJob[q]))
    BY <2>2, NamesWhole
  <2>5. j \in GitJobs /\ j.at = "names" /\ j.seen = out.names /\ j.whole = out.whole
        /\ j.cached = gitJob[q].cached /\ j.paths = gitJob[q].paths
    BY <2>1, <2>4 DEF GitJobs
  <2>6. Holds(j)
    BY <2>4, <2>5 DEF DiffOf
  <2> HIDE DEF j
  <2> QED  BY <1>p, <1>3, <2>3, <2>6 DEF Numstat, GitReads, j
<1>4. ASSUME NEW q \in GitCallers, ReadStaged(q) PROVE Holds(gitJob[p])'
  <2> DEFINE staged_ == Changed(head, staging, gitJob[q].paths)
  <2>1. gitJob[q] \in GitJobs /\ gitJob[q].at = "staged"
    BY <1>0, <1>4 DEF ReadStaged
  <2>2. /\ staged_ \subseteq GitFiles /\ staged_ \subseteq Pathspec(gitJob[q].paths)
        /\ gitJob[q].paths = {} => staged_ = Changed(head, staging, {})
    BY <2>1, ChangedUnder DEF GitJobs
  <2>3. PICK out \in GitNames(staged_) :
          Proceeds(q, [gitJob[q] EXCEPT !.seen = out.names, !.whole = out.whole,
                                        !.at = IF @ = "staged" /\ gitJob[q].paths # {}
                                               THEN "all" ELSE "check"])
    BY <1>4 DEF ReadStaged
  <2> DEFINE j == [gitJob[q] EXCEPT !.seen = out.names, !.whole = out.whole,
                                        !.at = IF @ = "staged" /\ gitJob[q].paths # {}
                                               THEN "all" ELSE "check"]
  <2>4. out.whole \in BOOLEAN /\ out.names \in SUBSET Int /\ (out.whole => out.names = staged_)
    BY <2>2, NamesWhole
  <2>5. /\ j \in GitJobs /\ j.seen = out.names /\ j.whole = out.whole /\ j.paths = gitJob[q].paths
        /\ j.at = IF j.paths # {} THEN "all" ELSE "check"
    BY <2>1, <2>4 DEF GitJobs
  <2> HIDE DEF j
  <2>6. Holds(j)
    BY <2>2, <2>4, <2>5
  <2> QED  BY <1>p, <1>4, <2>3, <2>6 DEF ReadStaged, GitReads, j
<1>5. ASSUME NEW q \in GitCallers, ReadAllStaged(q) PROVE Holds(gitJob[p])'
  <2> DEFINE all_ == Changed(head, staging, {})
  <2>1. gitJob[q] \in GitJobs /\ gitJob[q].at = "all"
    BY <1>0, <1>5 DEF ReadAllStaged
  <2>2. /\ all_ \subseteq GitFiles /\ Changed(head, staging, gitJob[q].paths) \subseteq all_
        /\ Changed(head, staging, gitJob[q].paths) \subseteq Pathspec(gitJob[q].paths)
    BY <2>1, ChangedUnder DEF GitJobs
  <2>3. PICK out \in GitNames(all_) :
          \/ Proceeds(q, NoGitJob)
          \/ /\ OutsideFiles(out.names, gitJob[q].seen) = {}
             /\ Proceeds(q, [gitJob[q] EXCEPT !.whole = @ /\ out.whole, !.at = "check"])
    BY <1>5 DEF ReadAllStaged
  <2>4. out.whole \in BOOLEAN /\ (out.whole => out.names = all_)
    BY <2>2, NamesWhole
  <2>5. CASE Proceeds(q, NoGitJob)
    <3>1. Holds(NoGitJob)
      BY DEF NoGitJob
    <3> QED  BY <1>p, <1>5, <2>5, <3>1 DEF ReadAllStaged, GitReads
  <2> DEFINE j == [gitJob[q] EXCEPT !.whole = @ /\ out.whole, !.at = "check"]
  <2>6. CASE OutsideFiles(out.names, gitJob[q].seen) = {} /\ Proceeds(q, j)
    <3>1. /\ j \in GitJobs /\ j.seen = gitJob[q].seen /\ (j.whole => gitJob[q].whole /\ out.whole)
          /\ j.paths = gitJob[q].paths /\ j.at = "check" /\ j.alone = gitJob[q].alone
      BY <2>1, <2>4 DEF GitJobs
    <3> HIDE DEF j
    <3>2. ASSUME j.alone, j.whole
          PROVE  j.seen = all_ /\ j.seen \subseteq Pathspec(j.paths)
      <4>1. j.seen = Changed(head, staging, gitJob[q].paths)
        BY <1>0, <2>1, <3>1, <3>2
      <4>2. all_ \subseteq j.seen
        BY <2>4, <2>6, <3>1, <3>2 DEF OutsideFiles
      <4> QED  BY <2>2, <3>1, <4>1, <4>2
    <3>3. Holds(j)
      BY <3>1, <3>2
    <3> QED  BY <1>p, <1>5, <2>6, <3>3 DEF ReadAllStaged, GitReads
  <2> QED  BY <2>3, <2>5, <2>6
<1>6. ASSUME NEW q \in GitCallers, NameStatus(q) \/ CheckStaged(q) PROVE Holds(gitJob[p])'
  <2>1. CASE Proceeds(q, NoGitJob)
    <3>1. Holds(NoGitJob)
      BY DEF NoGitJob
    <3> QED  BY <1>p, <1>6, <2>1, <3>1 DEF NameStatus, CheckStaged, GitReads
  <2> DEFINE j == [gitJob[q] EXCEPT !.at = "commit"]
  <2>2. CASE CheckStaged(q) /\ gitJob[q].seen # {} /\ Proceeds(q, j)
    <3>1. gitJob[q].at = "check" /\ gitJob[q] \in GitJobs
      BY <1>0, <2>2 DEF CheckStaged
    <3>2. /\ j \in GitJobs /\ j.seen = gitJob[q].seen /\ j.whole = gitJob[q].whole
          /\ j.paths = gitJob[q].paths /\ j.at = "commit" /\ j.alone = gitJob[q].alone
      BY <3>1 DEF GitJobs
    <3> HIDE DEF j
    <3>3. Holds(j)
      BY <1>0, <2>2, <3>1, <3>2
    <3> QED  BY <1>p, <2>2, <3>3 DEF CheckStaged, GitReads
  <2> QED  BY <1>6, <2>1, <2>2 DEF NameStatus, CheckStaged
<1>7. ASSUME NEW f \in GitFiles, NEW version \in {0, gitEdits + 3}, NEW adds \in BOOLEAN,
             UserEdits(f, version, adds) PROVE Holds(gitJob[p])'
  BY <1>t, <1>7 DEF UserEdits
<1> QED  BY <1>1, <1>2, <1>3, <1>4, <1>5, <1>6, <1>7 DEF GitNext

\* An answer is right when it is given.
LEMMA AnswersStep == ASSUME GitInv, GitNext PROVE GitIsScoped'
<1> USE DEF GitInv, GitIsScoped, CommitIsScoped, SummaryAgrees, Answers
<1>1. ASSUME NEW q \in GitCallers, GitCommit(q) PROVE GitIsScoped'
  <2> DEFINE staged_ == Changed(head, staging, {})
  <2>1. /\ gitJob[q] \in GitJobs /\ gitJob[q].seen # {}
        /\ gitJob[q].alone /\ gitJob[q].whole =>
              gitJob[q].seen = staged_ /\ gitJob[q].seen \subseteq Pathspec(gitJob[q].paths)
    BY <1>1 DEF GitCommit, ReadingHolds
  <2>2. gitDone' = [op |-> "commit", exit |-> IF staged_ = {} THEN 1 ELSE 0,
                    files |-> gitJob[q].seen, whole |-> gitJob[q].whole,
                    committed |-> staged_, alone |-> gitJob[q].alone, paths |-> gitJob[q].paths]
    BY <1>1 DEF GitCommit
  <2> HIDE DEF staged_
  <2> QED  BY <2>1, <2>2
<1>2. ASSUME NEW q \in GitCallers, NameStatus(q) PROVE GitIsScoped'
  <2>1. /\ gitJob[q] \in GitJobs
        /\ gitJob[q].alone /\ gitJob[q].whole => gitJob[q].seen = DiffOf(gitJob[q])
    BY <1>2 DEF NameStatus, ReadingHolds
  <2>2. DiffOf(gitJob[q]) \subseteq GitFiles
    BY <2>1, ChangedUnder DEF GitJobs, DiffOf
  <2>3. PICK out \in GitNames(DiffOf(gitJob[q])) :
          gitDone' = [op |-> "diff_summary", files |-> gitJob[q].seen, statuses |-> out.names,
                      whole |-> gitJob[q].whole /\ out.whole, alone |-> gitJob[q].alone]
    BY <1>2 DEF NameStatus
  <2>4. out.whole \in BOOLEAN /\ (out.whole => out.names = DiffOf(gitJob[q]))
    BY <2>2, NamesWhole
  <2> QED  BY <2>1, <2>3, <2>4
<1>3. ASSUME NEW q \in GitCallers, RunOnce(q) PROVE GitIsScoped'
  <2>1. gitDone'.op \in {"add", "restore", "clean"}
    BY <1>3 DEF RunOnce, ReadingHolds
  <2> QED  BY <2>1
<1>4. ASSUME NEW q \in GitCallers, ReadAllStaged(q) \/ CheckStaged(q) \/ GitFails(q) PROVE GitIsScoped'
  <2>1. \/ UNCHANGED gitDone \/ gitDone' = [op |-> "commit", exit |-> 1] \/ gitDone' = [op |-> "error"]
    BY <1>4 DEF ReadAllStaged, CheckStaged, GitFails
  <2> QED  BY <2>1 DEF Pathspec
<1>5. ASSUME NEW q \in GitCallers, Numstat(q) \/ ReadStaged(q) PROVE GitIsScoped'
  <2>1. UNCHANGED gitDone
    BY <1>5 DEF Numstat, ReadStaged
  <2> QED  BY <2>1 DEF Pathspec
<1>6. ASSUME NEW q \in GitCallers, NEW op \in GitOperations, NEW paths \in GitPaths,
             NEW cached \in BOOLEAN, GitExecute(q, op, paths, cached) PROVE GitIsScoped'
  BY <1>6 DEF GitExecute, NoGitAnswer
<1>7. ASSUME NEW f \in GitFiles, NEW version \in {0, gitEdits + 3}, NEW adds \in BOOLEAN,
             UserEdits(f, version, adds) PROVE GitIsScoped'
  <2>1. UNCHANGED gitDone
    BY <1>7 DEF UserEdits
  <2> QED  BY <2>1 DEF Pathspec
<1> QED  BY <1>1, <1>2, <1>3, <1>4, <1>5, <1>6, <1>7 DEF GitNext

\* Nothing has been done to the repository to begin with.
LEMMA GitInitially == GitInit => GitInv
<1> SUFFICES ASSUME GitInit PROVE GitInv
  OBVIOUS
<1>1. head \in [GitFiles -> Nat] /\ work \in [GitFiles -> Nat]
  BY DEF GitInit
<1>2. staging \in [GitFiles -> Nat]
  BY <1>1 DEF GitInit
<1>3. 0 \in 0..MaxGitCalls /\ 0 \in 0..MaxGitEdits
  BY GitAssumption
<1>4. \A q \in GitCallers : gitJob[q].at = "idle"
  BY DEF GitInit, NoGitJob
<1>5. gitDone.op = "none"
  BY DEF GitInit, NoGitAnswer
<1>6. gitCalls = 0 /\ gitEdits = 0
  BY DEF GitInit
<1> QED  BY <1>1, <1>2, <1>3, <1>4, <1>5, <1>6
         DEF GitInv, GitTypeOK, ReadingHolds, GitIsScoped, CommitIsScoped, SummaryAgrees

\* The inductive invariant of the git tools, for any files and callers.
THEOREM GitInvariant == GitSpec => []GitInv
<1>1. GitInv /\ [GitNext]_gitVars => GitInv'
  <2>1. CASE GitNext
    BY <2>1, GitTypes, ReadingStep, AnswersStep DEF GitInv
  <2>2. CASE UNCHANGED gitVars
    BY <2>2 DEF gitVars, gitTrees, GitInv, GitTypeOK, ReadingHolds, GitIsScoped, CommitIsScoped,
       SummaryAgrees, DiffOf, Changed, Pathspec
  <2> QED  BY <2>1, <2>2
<1> QED  BY <1>1, GitInitially, PTL DEF GitSpec

\* A commit that was alone with the repository holds the files the answer gives,
\* of the paths it was asked for; a summary gives the status of what it counts.
THEOREM GitScoped == GitSpec => []GitIsScoped
<1>1. GitInv => GitIsScoped
  BY DEF GitInv
<1> QED  BY <1>1, GitInvariant, PTL

-----------------------------------------------------------------------------
(* Patches of several files *)

\* How far a request is with its files.
PatchShape ==
    \A p \in Patchers :
        /\ ppc[p] = "idle" => ask[p] = <<>>
        /\ Len(ask[p]) \in 0..2
        /\ ~Busy(p) => prepared[p] = <<>>
        /\ ppc[p] \in {"asked", "prepare"} =>
              at[p] \in 1..Len(ask[p]) /\ Len(prepared[p]) = at[p] - 1
        /\ ppc[p] \in {"write", "restore", "refill"} =>
              at[p] \in 1..Len(ask[p]) /\ Len(prepared[p]) = Len(ask[p])

Clean(f) == f \notin racing \cup spoiled

\* A request at work has read the file.
Has(p, f) == \E i \in DOMAIN prepared[p] : ask[p][i].path = f

\* It has written it and not put it back.
HasWritten(p, f) ==
    \/ ppc[p] = "write" /\ \E i \in 1..at[p] - 1 : ask[p][i].path = f
    \/ ppc[p] \in {"restore", "refill"} /\ \E i \in 1..at[p] : ask[p][i].path = f

\* One request at a time has a file that they have not raced for.
OneAtATime ==
    \A f \in PatchPaths \ racing : \A p, o \in Patchers : Has(p, f) /\ Has(o, f) => p = o

\* An edit is in a file because its request is applied, or is at it.
EditsAreOwned ==
    \A f \in PatchPaths, p \in Patchers :
        Clean(f) /\ p \in disk[f].edits =>
            ppc[p] = "applied" \/ HasWritten(p, f) \/ Copied(p, f)

\* What a request has read, and what it is to write, holds the edits that have
\* been reported applied and no others but its own.
PreparedIsRight ==
    \A o \in Patchers : \A i \in DOMAIN prepared[o] :
        LET f == ask[o][i].path
            old == prepared[o][i].old
            new == prepared[o][i].new
        IN  Clean(f) =>
              /\ \A p \in Patchers :
                   /\ p \in old.edits => ppc[p] = "applied" \/ Copied(p, f)
                   /\ p \in new.edits => p = o \/ ppc[p] = "applied" \/ Copied(p, f)
                   /\ ppc[p] = "applied" /\ f \in PathsOf(p) /\ ~Unchecked(f) =>
                         p \in old.edits /\ p \in new.edits
              /\ ~Unchecked(f) => o \in new.edits

\* What a request has written so far holds its edit.
WrittenIsThere ==
    \A p \in Patchers :
        ppc[p] = "write" =>
            \A i \in 1..at[p] - 1 :
                LET f == ask[p][i].path
                IN  Clean(f) /\ ~Unchecked(f) => p \in disk[f].edits

PatchInv ==
    /\ PatchTypeOK /\ PatchShape
    /\ OneAtATime /\ EditsAreOwned /\ PreparedIsRight /\ WrittenIsThere /\ ReportedIsThere

\* The fields of a file of a request.
LEMMA FileParts ==
    ASSUME PatchTypeOK, NEW p \in Patchers, NEW i \in DOMAIN ask[p]
    PROVE  /\ ask[p][i] \in PatchFiles /\ ask[p][i].path \in PatchPaths
           /\ ask[p][i].base \in Contents /\ ask[p][i].path \in PathsOf(p)
           /\ disk[ask[p][i].path] \in Contents
<1>1. ask[p] \in Seq(PatchFiles)
  BY DEF PatchTypeOK
<1>2. ask[p][i] \in PatchFiles
  BY <1>1
<1>3. ask[p][i].path \in PatchPaths /\ ask[p][i].base \in Contents
  BY <1>2 DEF PatchFiles
<1> QED  BY <1>2, <1>3 DEF PatchTypeOK, PathsOf

\* The fields of what a request has read of a file.
LEMMA PreparedParts ==
    ASSUME PatchTypeOK, NEW p \in Patchers, NEW i \in DOMAIN prepared[p]
    PROVE  /\ prepared[p][i] \in PreparedFiles
           /\ prepared[p][i].old \in Contents /\ prepared[p][i].new \in Contents
<1>1. prepared[p] \in Seq(PreparedFiles)
  BY DEF PatchTypeOK
<1>2. prepared[p][i] \in PreparedFiles
  BY <1>1
<1> QED  BY <1>2 DEF PreparedFiles

\* Where a request is: at one of its files, and one it has prepared if it is
\* beyond preparing.
LEMMA AtFile ==
    ASSUME PatchTypeOK, PatchShape, NEW p \in Patchers
    PROVE  /\ ppc[p] \in {"asked", "prepare", "write", "restore", "refill"} => at[p] \in DOMAIN ask[p]
           /\ ppc[p] \in {"write", "restore", "refill"} =>
                 at[p] \in DOMAIN prepared[p] /\ DOMAIN prepared[p] = DOMAIN ask[p]
           /\ DOMAIN prepared[p] \subseteq DOMAIN ask[p]
           /\ at[p] \in Nat
           /\ DOMAIN prepared[p] = 1..Len(prepared[p]) /\ Len(prepared[p]) \in Nat
           /\ DOMAIN ask[p] = 1..Len(ask[p]) /\ Len(ask[p]) \in Nat
           /\ ~Busy(p) => DOMAIN prepared[p] = {}
<1>1. ask[p] \in Seq(PatchFiles) /\ prepared[p] \in Seq(PreparedFiles) /\ at[p] \in 0..2
  BY DEF PatchTypeOK
<1>2. /\ DOMAIN ask[p] = 1..Len(ask[p]) /\ Len(ask[p]) \in Nat
      /\ DOMAIN prepared[p] = 1..Len(prepared[p]) /\ Len(prepared[p]) \in Nat
  BY <1>1
<1>3. ~Busy(p) => Len(prepared[p]) = 0
  BY DEF PatchShape
<1>4. Busy(p) => ppc[p] \in {"prepare", "write", "restore", "refill"}
  BY DEF Busy
<1>5. at[p] \in 0..2 /\ ppc[p] \in {"asked", "prepare", "write", "restore", "refill"} =>
         at[p] \in 1..Len(ask[p])
  BY DEF PatchShape
<1>6. ppc[p] \in {"write", "restore", "refill"} => Len(prepared[p]) = Len(ask[p])
  BY DEF PatchShape
<1>7. ppc[p] = "prepare" => Len(prepared[p]) = at[p] - 1
  BY DEF PatchShape
<1>8. Len(prepared[p]) <= Len(ask[p])
  BY <1>1, <1>2, <1>3, <1>4, <1>5, <1>6, <1>7
<1>9. ~Busy(p) => DOMAIN prepared[p] = {}
  BY <1>2, <1>3
<1> QED  BY <1>1, <1>2, <1>5, <1>6, <1>8, <1>9

\* An absent and an empty file hold no edit.
LEMMA NoContents == NoFile \in Contents /\ Emptied \in Contents /\ NoFile.edits = {} /\ Emptied.edits = {}
  BY DEF NoFile, Emptied, Contents

\* What a request is to write is the content of a file.
LEMMA NewContents ==
    ASSUME NEW p \in Patchers, NEW file \in PatchFiles, NEW current \in Contents
    PROVE  NewContent(p, file, current) \in Contents
<1>1. file.base.edits \in SUBSET Patchers /\ current.edits \in SUBSET Patchers
  BY DEF PatchFiles, Contents
<1> QED  BY <1>1, NoContents DEF NewContent, Contents

PatchStages == {"idle", "asked", "prepare", "write", "restore", "refill", "applied", "failed", "gone"}


\* The steps that move a request on without reading or writing anything.
LEMMA PatchMoves ==
    ASSUME PatchTypeOK, PatchShape, NEW p \in Patchers
    PROVE  /\ \A how \in {"applied", "failed", "gone"} : PatchEnds(p, how) =>
                /\ ppc' \in [Patchers -> PatchStages] /\ at' \in [Patchers -> 0..2]
                /\ prepared' \in [Patchers -> Seq(PreparedFiles)]
                /\ UNCHANGED ask => PatchShape'
           /\ ppc[p] \in {"write", "restore", "refill"} /\ RestoreBefore(p) =>
                /\ ppc' \in [Patchers -> PatchStages] /\ at' \in [Patchers -> 0..2]
                /\ prepared' \in [Patchers -> Seq(PreparedFiles)]
                /\ UNCHANGED ask => PatchShape'
<1>0. /\ ppc \in [Patchers -> PatchStages] /\ at \in [Patchers -> 0..2]
      /\ prepared \in [Patchers -> Seq(PreparedFiles)]
  BY DEF PatchTypeOK, PatchStages
<1>1. ASSUME NEW how \in {"applied", "failed", "gone"}, PatchEnds(p, how)
      PROVE  /\ ppc' \in [Patchers -> PatchStages] /\ at' \in [Patchers -> 0..2]
             /\ prepared' \in [Patchers -> Seq(PreparedFiles)]
             /\ UNCHANGED ask => PatchShape'
  BY <1>0, <1>1 DEF PatchEnds, PatchShape, PatchStages, Busy
<1>2. ASSUME ppc[p] \in {"write", "restore", "refill"}, RestoreBefore(p)
      PROVE  /\ ppc' \in [Patchers -> PatchStages] /\ at' \in [Patchers -> 0..2]
             /\ prepared' \in [Patchers -> Seq(PreparedFiles)]
             /\ UNCHANGED ask => PatchShape'
  <2>1. CASE at[p] <= 1
    BY <1>1, <1>2, <2>1 DEF RestoreBefore
  <2>2. CASE ~(at[p] <= 1)
    <3>1. at[p] \in 1..Len(ask[p]) /\ at[p] - 1 \in 1..Len(ask[p]) /\ at[p] - 1 \in 0..2
      BY <1>0, <1>2, <2>2 DEF PatchShape
    <3>2. ppc' = [ppc EXCEPT ![p] = "restore"] /\ at' = [at EXCEPT ![p] = @ - 1] /\ prepared' = prepared
      BY <1>2, <2>2 DEF RestoreBefore
    <3> QED  BY <1>0, <1>2, <3>1, <3>2 DEF PatchShape, PatchStages, Busy
  <2> QED  BY <2>1, <2>2
<1> QED  BY <1>1, <1>2

\* A request has two files at most.
LEMMA NextIndex ==
    ASSUME NEW n \in 0..2, NEW k \in 1..n
    PROVE  k \in 0..2 /\ (k # n => k + 1 \in 1..n /\ k + 1 \in 0..2)
  OBVIOUS

\* The variables of the patches keep their types, and each request its place
\* among its files.
LEMMA PatchTypes == ASSUME PatchTypeOK, PatchShape, PatchNext PROVE PatchTypeOK' /\ PatchShape'
<1>0. /\ disk \in [PatchPaths -> Contents] /\ ppc \in [Patchers -> PatchStages]
      /\ at \in [Patchers -> 0..2] /\ diskFaults \in 0..MaxPatchFaults
      /\ racing \subseteq PatchPaths /\ spoiled \subseteq PatchPaths
      /\ ask \in [Patchers -> Seq(PatchFiles)] /\ prepared \in [Patchers -> Seq(PreparedFiles)]
  BY DEF PatchTypeOK, PatchStages
<1>1. ASSUME NEW p \in Patchers, AskPatch(p) PROVE PatchTypeOK' /\ PatchShape'
  <2>1. PICK n \in {1, 2}, how \in {"diff", "content"}, hashed \in BOOLEAN, delete \in BOOLEAN :
          \E paths \in [1..n -> PatchPaths] :
            /\ delete => how = "diff" /\ disk[paths[n]] # NoFile
            /\ ask' = [ask EXCEPT ![p] = [i \in 1..n |->
                [path |-> paths[i], how |-> IF delete /\ i = n THEN "delete" ELSE how,
                 base |-> disk[paths[i]], hashed |-> hashed]]]
    BY <1>1, Zenon DEF AskPatch
  <2>a. PICK paths \in [1..n -> PatchPaths] :
            ask' = [ask EXCEPT ![p] = [i \in 1..n |->
                [path |-> paths[i], how |-> IF delete /\ i = n THEN "delete" ELSE how,
                 base |-> disk[paths[i]], hashed |-> hashed]]]
    BY <2>1, Zenon
  <2> DEFINE files == [i \in 1..n |->
                [path |-> paths[i], how |-> IF delete /\ i = n THEN "delete" ELSE how,
                 base |-> disk[paths[i]], hashed |-> hashed]]
  <2>2. \A i \in 1..n : files[i] \in PatchFiles
    BY <1>0 DEF PatchFiles
  <2>3. files \in Seq(PatchFiles) /\ Len(files) = n
    BY <2>2
  <2>4. /\ ppc[p] = "idle" /\ ppc' = [ppc EXCEPT ![p] = "asked"] /\ at' = [at EXCEPT ![p] = 1]
        /\ UNCHANGED <<disk, prepared, diskFaults, racing, spoiled>>
    BY <1>1 DEF AskPatch
  <2> HIDE DEF files
  <2>6. ask' = [ask EXCEPT ![p] = files]
    BY <2>a DEF files
  <2>5. PatchTypeOK'
    BY <1>0, <2>3, <2>4, <2>6 DEF PatchTypeOK, PatchStages
  <2>7. Len(prepared[p]) = 0
    BY <2>4 DEF PatchShape, Busy
  <2>8. PatchShape'
    BY <1>0, <2>3, <2>4, <2>6, <2>7 DEF PatchShape, PatchStages, Busy
  <2> QED  BY <2>5, <2>8
<1>2. ASSUME NEW p \in Patchers, Prepare(p) PROVE PatchTypeOK' /\ PatchShape'
  <2> DEFINE file == ask[p][at[p]]
             next == [old |-> disk[file.path], new |-> NewContent(p, file, disk[file.path])]
  <2>1. at[p] \in 1..Len(ask[p]) /\ Len(prepared[p]) = at[p] - 1 /\ Len(ask[p]) \in 0..2
        /\ at[p] \in DOMAIN ask[p]
    BY <1>2, AtFile DEF Prepare, PatchShape
  <2>2. file \in PatchFiles /\ disk[file.path] \in Contents /\ file.path \in PatchPaths
    BY <2>1, FileParts
  <2>3. next \in PreparedFiles
    BY <2>2, NewContents DEF PreparedFiles
  <2>4. UNCHANGED <<disk, ask, diskFaults, spoiled>>
    BY <1>2 DEF Prepare
  <2>5. CASE PatchEnds(p, "failed") /\ UNCHANGED racing
    BY <1>0, <2>4, <2>5, PatchMoves DEF PatchTypeOK, PatchStages
  <2>6. CASE Prepares(p, file)
    <3> HIDE DEF next
    <3>1. prepared' = [prepared EXCEPT ![p] = Append(@, next)]
      BY <2>6 DEF Prepares, next
    <3>2. Append(prepared[p], next) \in Seq(PreparedFiles) /\ Len(Append(prepared[p], next)) = at[p]
      BY <1>0, <2>1, <2>3
    <3>3. \/ at[p] = Len(ask[p]) /\ ppc' = [ppc EXCEPT ![p] = "write"] /\ at' = [at EXCEPT ![p] = 1]
          \/ /\ at[p] # Len(ask[p]) /\ ppc' = [ppc EXCEPT ![p] = "prepare"]
             /\ at' = [at EXCEPT ![p] = @ + 1]
      BY <2>6 DEF Prepares
    <3>4. racing' \subseteq PatchPaths
      BY <1>0, <2>2, <2>6 DEF Prepares
    <3>a. at[p] # Len(ask[p]) => at[p] + 1 \in 1..Len(ask[p]) /\ at[p] + 1 \in 0..2
      BY <2>1, NextIndex
    <3>b. Len(ask[p]) > 0 => 1 \in 1..Len(ask[p])
      BY <2>1
    <3>5. at' \in [Patchers -> 0..2] /\ ppc' \in [Patchers -> PatchStages]
      <4>1. 1 \in 0..2 /\ {"write", "prepare"} \subseteq PatchStages
        BY DEF PatchStages
      <4>2. CASE at[p] = Len(ask[p])
        BY <1>0, <3>3, <4>1, <4>2
      <4>3. CASE at[p] # Len(ask[p])
        BY <1>0, <3>3, <3>a, <4>1, <4>3
      <4> QED  BY <4>2, <4>3
    <3>6. PatchTypeOK'
      BY <1>0, <2>4, <3>1, <3>2, <3>4, <3>5 DEF PatchTypeOK, PatchStages
    <3>7. PatchShape'
      <4> SUFFICES ASSUME NEW o \in Patchers PROVE
             /\ ppc'[o] = "idle" => ask'[o] = <<>>
             /\ Len(ask'[o]) \in 0..2
             /\ ~Busy(o)' => prepared'[o] = <<>>
             /\ ppc'[o] \in {"asked", "prepare"} =>
                   at'[o] \in 1..Len(ask'[o]) /\ Len(prepared'[o]) = at'[o] - 1
             /\ ppc'[o] \in {"write", "restore", "refill"} =>
                   at'[o] \in 1..Len(ask'[o]) /\ Len(prepared'[o]) = Len(ask'[o])
        BY DEF PatchShape
      <4>1. CASE o # p
        BY <1>0, <2>4, <3>1, <3>3, <4>1 DEF PatchShape, Busy
      <4>2. CASE o = p
        <5>1. Len(prepared'[p]) = at[p] /\ ask'[p] = ask[p]
          BY <1>0, <2>4, <3>1, <3>2
        <5>2. CASE at[p] = Len(ask[p])
          BY <1>0, <2>1, <3>3, <3>b, <4>2, <5>1, <5>2 DEF Busy
        <5>3. CASE at[p] # Len(ask[p])
          BY <1>0, <2>1, <3>3, <3>a, <4>2, <5>1, <5>3 DEF Busy
        <5> QED  BY <5>2, <5>3
      <4> QED  BY <4>1, <4>2
    <3> QED  BY <3>6, <3>7
  <2> QED  BY <1>2, <2>5, <2>6 DEF Prepare, Refused
<1>3. ASSUME NEW p \in Patchers, WriteFile(p) PROVE PatchTypeOK' /\ PatchShape'
  <2>1. /\ at[p] \in DOMAIN prepared[p] /\ at[p] \in 1..Len(ask[p]) /\ Len(ask[p]) \in 0..2
        /\ ppc[p] = "write" /\ Len(prepared[p]) = Len(ask[p])
    BY <1>3, AtFile DEF WriteFile, PatchShape
  <2>2. disk' \in [PatchPaths -> Contents] /\ UNCHANGED <<ask, diskFaults, racing, spoiled>>
    BY <1>0, <1>3, <2>1, PreparedParts DEF WriteFile
  <2>3. CASE at[p] = Len(ask[p])
    <3>1. PatchEnds(p, "applied")
      BY <1>3, <2>3 DEF WriteFile
    <3> QED  BY <1>0, <2>2, <3>1, PatchMoves DEF PatchTypeOK, PatchStages
  <2>4. CASE at[p] # Len(ask[p])
    <3>1. at' = [at EXCEPT ![p] = @ + 1] /\ UNCHANGED <<ppc, prepared>>
      BY <1>3, <2>4 DEF WriteFile
    <3>2. at' \in [Patchers -> 0..2]
      <4>1. at[p] + 1 \in 0..2
        BY <2>1, <2>4, NextIndex
      <4> QED  BY <1>0, <3>1, <4>1
    <3>3. PatchShape'
      BY <1>0, <2>1, <2>2, <2>4, <3>1 DEF PatchShape, Busy
    <3> QED  BY <1>0, <2>2, <3>1, <3>2, <3>3 DEF PatchTypeOK, PatchStages
  <2> QED  BY <2>3, <2>4
<1>4. ASSUME NEW p \in Patchers, WriteFails(p) PROVE PatchTypeOK' /\ PatchShape'
  <2>1. diskFaults' \in 0..MaxPatchFaults
    BY <1>0, <1>4, CodePatchAssumption DEF WriteFails, DiskFails
  <2> QED  BY <1>0, <1>4, <2>1, PatchMoves DEF WriteFails, PatchTypeOK, PatchStages
<1>5. ASSUME NEW p \in Patchers, Restore(p) PROVE PatchTypeOK' /\ PatchShape'
  <2>1. disk' \in [PatchPaths -> Contents] /\ UNCHANGED <<ask, diskFaults, racing, spoiled>>
    BY <1>0, <1>5, NoContents DEF Restore
  <2>2. CASE RestoreBefore(p)
    BY <1>0, <1>5, <2>1, <2>2, PatchMoves DEF Restore, PatchTypeOK, PatchStages
  <2>3. CASE ppc' = [ppc EXCEPT ![p] = "refill"] /\ UNCHANGED <<at, prepared>>
    BY <1>0, <1>5, <2>1, <2>3 DEF Restore, PatchTypeOK, PatchStages, PatchShape, Busy
  <2> QED  BY <1>5, <2>2, <2>3 DEF Restore
<1>6. ASSUME NEW p \in Patchers, Refill(p) PROVE PatchTypeOK' /\ PatchShape'
  <2>1. at[p] \in DOMAIN prepared[p]
    BY <1>6, AtFile DEF Refill
  <2>2. disk' \in [PatchPaths -> Contents] /\ UNCHANGED <<ask, diskFaults, racing, spoiled>>
    BY <1>0, <1>6, <2>1, PreparedParts DEF Refill
  <2> QED  BY <1>0, <1>6, <2>2, PatchMoves DEF Refill, PatchTypeOK, PatchStages
<1>7. ASSUME NEW p \in Patchers, RestoreFails(p) PROVE PatchTypeOK' /\ PatchShape'
  <2>1. diskFaults' \in 0..MaxPatchFaults
    BY <1>0, <1>7, CodePatchAssumption DEF RestoreFails, DiskFails
  <2>2. spoiled' \subseteq PatchPaths
    <3>1. ask[p][at[p]].path \in PatchPaths
      BY <1>7, AtFile, FileParts DEF RestoreFails
    <3> QED  BY <1>0, <1>7, <3>1 DEF RestoreFails
  <2> QED  BY <1>0, <1>7, <2>1, <2>2, PatchMoves DEF RestoreFails, PatchTypeOK, PatchStages
<1>8. CASE PatchCrash
  <2>1. diskFaults' \in 0..MaxPatchFaults
    BY <1>0, <1>8, CodePatchAssumption DEF PatchCrash, DiskFails
  <2>2. \A p \in Patchers : PathsOf(p) \subseteq PatchPaths
    BY FileParts DEF PathsOf
  <2>3. spoiled' \subseteq PatchPaths
    BY <1>0, <1>8, <2>2 DEF PatchCrash
  <2>4. /\ ppc' = [p \in Patchers |-> IF Busy(p) THEN "gone" ELSE ppc[p]]
        /\ at' = [p \in Patchers |-> IF Busy(p) THEN 0 ELSE at[p]]
        /\ prepared' = [p \in Patchers |-> <<>>]
        /\ UNCHANGED <<disk, ask, racing>>
    BY <1>8 DEF PatchCrash
  <2>5. PatchTypeOK'
    BY <1>0, <2>1, <2>3, <2>4 DEF PatchTypeOK, PatchStages
  <2>6. PatchShape'
    BY <1>0, <2>4 DEF PatchShape, Busy
  <2> QED  BY <2>5, <2>6
<1> QED  BY <1>1, <1>2, <1>3, <1>4, <1>5, <1>6, <1>7, <1>8 DEF PatchNext

-----------------------------------------------------------------------------

\* What a request's step does not touch.
LEMMA PatchLocal ==
    ASSUME PatchTypeOK, NEW q \in Patchers,
           \/ AskPatch(q) \/ Prepare(q) \/ WriteFile(q) \/ WriteFails(q)
           \/ Restore(q) \/ Refill(q) \/ RestoreFails(q)
    PROVE  /\ \A p \in Patchers \ {q} :
                /\ ppc'[p] = ppc[p] /\ at'[p] = at[p] /\ prepared'[p] = prepared[p]
                /\ ask'[p] = ask[p]
           /\ ~AskPatch(q) => UNCHANGED ask
           /\ racing \subseteq racing' /\ spoiled \subseteq spoiled'
  BY DEF PatchTypeOK, AskPatch, Prepare, Prepares, Refused, WriteFile, WriteFails, Restore, Refill,
         RestoreFails, RestoreBefore, PatchEnds

\* History only grows: what is clean was clean, and what has been copied or is
\* unchecked stays so.
LEMMA PatchHistory ==
    ASSUME PatchTypeOK, PatchShape, PatchNext
    PROVE  /\ \A f : Clean(f)' => Clean(f)
           /\ racing \subseteq racing'
           /\ \A p, f : Copied(p, f) => Copied(p, f)'
           /\ \A f : Unchecked(f) => Unchecked(f)'
           /\ \A p \in Patchers : ppc[p] # "idle" => ask'[p] = ask[p]
<1>1. racing \subseteq racing' /\ spoiled \subseteq spoiled'
  <2>1. CASE PatchCrash
    BY <2>1 DEF PatchCrash
  <2> QED  BY <2>1, PatchLocal DEF PatchNext
<1>2. \A o \in Patchers : ask'[o] = ask[o] \/ ask[o] = <<>>
  <2>1. CASE PatchCrash
    BY <2>1 DEF PatchCrash
  <2>2. ASSUME NEW q \in Patchers, AskPatch(q) PROVE \A o \in Patchers : ask'[o] = ask[o] \/ ask[o] = <<>>
    <3>1. ask[q] = <<>>
      BY <2>2 DEF AskPatch, PatchShape
    <3> QED  BY <2>2, <3>1, PatchLocal
  <2> QED  BY <2>1, <2>2, PatchLocal DEF PatchNext
<1>3. \A p \in Patchers : ppc[p] # "idle" => ask'[p] = ask[p]
  <2>1. CASE PatchCrash
    BY <2>1 DEF PatchCrash
  <2>2. ASSUME NEW q \in Patchers, AskPatch(q) PROVE \A p \in Patchers : ppc[p] # "idle" => ask'[p] = ask[p]
    BY <2>2, PatchLocal DEF AskPatch
  <2> QED  BY <2>1, <2>2, PatchLocal DEF PatchNext
<1>4. \A o \in Patchers : \A i \in DOMAIN ask[o] : i \in DOMAIN ask'[o] /\ ask'[o][i] = ask[o][i]
  BY <1>2
<1>5. ASSUME NEW p, NEW f, Copied(p, f) PROVE Copied(p, f)'
  BY <1>4, <1>5 DEF Copied
<1>6. ASSUME NEW f, Unchecked(f) PROVE Unchecked(f)'
  <2>1. PICK p \in Patchers : \E i \in DOMAIN ask[p] :
          /\ ask[p][i].path = f
          /\ \/ ask[p][i].how = "delete" \/ Twice(p)
             \/ ask[p][i].how = "content" /\ ~ask[p][i].hashed
    BY <1>6 DEF Unchecked
  <2>2. ask'[p] = ask[p]
    BY <1>2, <2>1
  <2> QED  BY <2>1, <2>2 DEF Unchecked, Twice, PathsOf
<1> QED  BY <1>1, <1>3, <1>5, <1>6 DEF Clean

\* A request has no more files than before, but for the one it prepares, and
\* if another request at work has that it is a race.
LEMMA HasGrows ==
    ASSUME PatchTypeOK, PatchShape, PatchNext, NEW p \in Patchers, NEW f \in PatchPaths, Has(p, f)'
    PROVE  \/ Has(p, f)
           \/ /\ Prepare(p) /\ Prepares(p, ask[p][at[p]]) /\ ask[p][at[p]].path = f
              /\ f \in racing' \/ \A o \in Patchers \ {p} : ~(Busy(o) /\ f \in PathsOf(o))
<1>1. CASE PatchCrash
  BY <1>1 DEF PatchCrash, Has
<1>2. ASSUME NEW q \in Patchers, q # p,
             \/ AskPatch(q) \/ Prepare(q) \/ WriteFile(q) \/ WriteFails(q)
             \/ Restore(q) \/ Refill(q) \/ RestoreFails(q)
      PROVE  Has(p, f)
  BY <1>2, PatchLocal DEF Has
<1>3. CASE Prepare(p)
  <2>1. CASE PatchEnds(p, "failed")
    BY <2>1 DEF PatchEnds, Has, PatchTypeOK
  <2>2. CASE Prepares(p, ask[p][at[p]])
    <3> DEFINE file == ask[p][at[p]]
               next == [old |-> disk[file.path], new |-> NewContent(p, file, disk[file.path])]
    <3>1. prepared'[p] = Append(prepared[p], next)
      BY <2>2 DEF Prepares, PatchTypeOK
    <3>2. prepared[p] \in Seq(PreparedFiles) /\ Len(prepared[p]) = at[p] - 1 /\ at[p] \in Nat
      BY <1>3, AtFile DEF PatchTypeOK, PatchShape, Prepare
    <3> HIDE DEF next
    <3>3. DOMAIN prepared'[p] = DOMAIN prepared[p] \cup {at[p]}
      BY <3>1, <3>2
    <3>4. ask' = ask
      BY <1>3 DEF Prepare
    <3>5. Has(p, f) \/ file.path = f
      BY <3>3, <3>4 DEF Has
    <3>6. file.path = f => f \in racing' \/ \A o \in Patchers \ {p} : ~(Busy(o) /\ f \in PathsOf(o))
      BY <2>2 DEF Prepares
    <3> QED  BY <1>3, <2>2, <3>5, <3>6
  <2> QED  BY <1>3, <2>1, <2>2 DEF Prepare, Refused
<1>4. CASE AskPatch(p)
  <2>1. prepared'[p] = <<>>
    BY <1>4 DEF AskPatch, PatchShape, Busy
  <2> QED  BY <2>1 DEF Has
<1>5. CASE WriteFile(p) \/ WriteFails(p) \/ Restore(p) \/ Refill(p) \/ RestoreFails(p)
  <2>1. prepared'[p] = prepared[p] \/ prepared'[p] = <<>>
    BY <1>5 DEF WriteFile, WriteFails, Restore, Refill, RestoreFails, RestoreBefore, PatchEnds, PatchTypeOK
  <2>2. ask' = ask
    BY <1>5 DEF WriteFile, WriteFails, Restore, Refill, RestoreFails
  <2> QED  BY <2>1, <2>2 DEF Has
<1> QED  BY <1>1, <1>2, <1>3, <1>4, <1>5 DEF PatchNext

\* A request has a file only while it is at work, and the file is one of its own.
LEMMA HasIsBusy ==
    ASSUME PatchTypeOK, PatchShape, NEW p \in Patchers, NEW f, Has(p, f)
    PROVE  Busy(p) /\ f \in PathsOf(p)
  BY AtFile DEF Has, PathsOf

\* Two requests that have a file at the same time have raced for it.
LEMMA OneStep == ASSUME PatchTypeOK, PatchShape, OneAtATime, PatchNext PROVE OneAtATime'
<1> SUFFICES ASSUME NEW f \in PatchPaths, f \notin racing', NEW p \in Patchers, NEW o \in Patchers,
                    Has(p, f)', Has(o, f)', p # o
             PROVE  FALSE
  BY DEF OneAtATime
<1>1. f \notin racing
  BY PatchHistory
<1>2. ~(Has(p, f) /\ Has(o, f))
  BY <1>1 DEF OneAtATime
<1>3. ASSUME NEW x \in Patchers, NEW y \in Patchers, x # y, Has(x, f)', Has(y, f)', ~Has(x, f) PROVE FALSE
  <2>1. Prepare(x) /\ \A z \in Patchers \ {x} : ~(Busy(z) /\ f \in PathsOf(z))
    BY <1>3, HasGrows
  <2>2. Has(y, f)
    BY <1>3, <2>1, PatchLocal DEF Has
  <2> QED  BY <1>3, <2>1, <2>2, HasIsBusy
<1> QED  BY <1>2, <1>3

\* The file a request writes or puts back is one it has.
LEMMA AtHas ==
    ASSUME PatchTypeOK, PatchShape, NEW p \in Patchers, ppc[p] \in {"write", "restore", "refill"}
    PROVE  Has(p, ask[p][at[p]].path) /\ ask[p][at[p]].path \in PatchPaths
  BY AtFile, FileParts DEF Has

\* What a request has written it has.
LEMMA WrittenHas ==
    ASSUME PatchTypeOK, PatchShape, NEW p \in Patchers, NEW f, HasWritten(p, f)
    PROVE  Has(p, f)
<1>1. at[p] \in 1..Len(ask[p]) /\ DOMAIN prepared[p] = 1..Len(ask[p]) /\ Len(ask[p]) \in Nat
  BY AtFile DEF HasWritten
<1> QED  BY <1>1 DEF HasWritten, Has

\* A restoration that goes on leaves what is before the file at hand, and one
\* that is over nothing.
LEMMA RestoreLeaves ==
    ASSUME PatchTypeOK, PatchShape, NEW p \in Patchers, ppc[p] \in {"write", "restore", "refill"},
           RestoreBefore(p), UNCHANGED ask, NEW f, NEW i \in 1..at[p] - 1, ask[p][i].path = f
    PROVE  HasWritten(p, f)'
<1>1. at[p] \in Nat /\ i \in 1..at[p] - 1
  BY AtFile
<1>2. ppc'[p] = "restore" /\ at'[p] = at[p] - 1
  BY <1>1 DEF RestoreBefore, PatchTypeOK
<1> QED  BY <1>1, <1>2 DEF HasWritten

\* Every edit that a step leaves in a file is one of a request that is applied
\* or still has to put it back.
LEMMA OwnedStep ==
    ASSUME PatchInv, PatchNext PROVE EditsAreOwned'
<1> USE DEF PatchInv
<1> SUFFICES ASSUME NEW f \in PatchPaths, NEW p \in Patchers, Clean(f)', p \in disk'[f].edits,
                    ~Copied(p, f)'
             PROVE  ppc'[p] = "applied" \/ HasWritten(p, f)'
  BY DEF EditsAreOwned
<1>0. Clean(f) /\ ~Copied(p, f)
  BY PatchHistory
<1>1. p \in disk[f].edits => ppc[p] = "applied" \/ HasWritten(p, f)
  BY <1>0 DEF EditsAreOwned
<1>2. ASSUME NEW q \in Patchers, p # q,
             \/ AskPatch(q) \/ Prepare(q) \/ WriteFile(q) \/ WriteFails(q)
             \/ Restore(q) \/ Refill(q) \/ RestoreFails(q)
      PROVE  ppc'[p] = "applied" \/ HasWritten(p, f)'
  <2>1. /\ ppc'[p] = ppc[p] /\ at'[p] = at[p] /\ ask'[p] = ask[p]
    BY <1>2, PatchLocal
  <2>2. CASE p \in disk[f].edits
    BY <1>1, <2>1, <2>2 DEF HasWritten
  <2>3. CASE p \notin disk[f].edits
    <3> DEFINE g == ask[q][at[q]].path
               file == prepared[q][at[q]]
    <3>1. /\ WriteFile(q) \/ Refill(q)
          /\ f = g /\ p \in file.old.edits \cup file.new.edits
      BY <1>2, <2>3, NoContents DEF AskPatch, Prepare, WriteFile, WriteFails, Restore, Refill,
             RestoreFails, PatchTypeOK
    <3>2. at[q] \in DOMAIN prepared[q]
      BY <3>1, AtFile DEF WriteFile, Refill
    <3>3. ppc[p] = "applied"
      BY <1>0, <1>2, <3>1, <3>2 DEF PreparedIsRight
    <3> QED  BY <2>1, <3>3
  <2> QED  BY <2>2, <2>3
<1>3. CASE AskPatch(p) \/ Prepare(p)
  BY <1>1, <1>3 DEF AskPatch, Prepare, HasWritten
<1>4. CASE WriteFile(p)
  <2>1. ppc[p] = "write" /\ at[p] \in Nat /\ UNCHANGED ask
    BY <1>4, AtFile DEF WriteFile
  <2>2. ppc'[p] = "applied" \/ (ppc'[p] = "write" /\ at'[p] = at[p] + 1)
    BY <1>4, <2>1 DEF WriteFile, PatchEnds, PatchTypeOK
  <2>3. p \in disk[f].edits \/ ask[p][at[p]].path = f
    BY <1>4 DEF WriteFile, PatchTypeOK
  <2>4. \E i \in 1..at[p] : ask[p][i].path = f
    <3>1. at[p] \in 1..at[p]
      BY <1>4, AtFile DEF WriteFile, PatchShape
    <3> QED  BY <1>1, <2>1, <2>3, <3>1 DEF HasWritten
  <2> QED  BY <2>1, <2>2, <2>4 DEF HasWritten
<1>5. CASE WriteFails(p)
  <2>1. ppc[p] = "write" /\ RestoreBefore(p) /\ UNCHANGED <<ask, disk>>
    BY <1>5 DEF WriteFails
  <2> QED  BY <1>1, <2>1, RestoreLeaves DEF HasWritten
<1>6. CASE Restore(p)
  <2>1. ppc[p] = "restore" /\ UNCHANGED ask /\ at[p] \in Nat
    BY <1>6, AtFile DEF Restore
  <2>2. f # ask[p][at[p]].path /\ p \in disk[f].edits
    BY <1>6, NoContents DEF Restore, PatchTypeOK
  <2>3. PICK i \in 1..at[p] : ask[p][i].path = f
    BY <1>1, <2>1, <2>2 DEF HasWritten
  <2>4. i \in 1..at[p] - 1
    BY <2>1, <2>2, <2>3
  <2>5. \/ RestoreBefore(p)
        \/ ppc'[p] = "refill" /\ at'[p] = at[p]
    <3>1. \/ RestoreBefore(p)
          \/ ppc' = [ppc EXCEPT ![p] = "refill"] /\ UNCHANGED at
      BY <1>6 DEF Restore
    <3>2. CASE /\ ppc' = [ppc EXCEPT ![p] = "refill"] /\ UNCHANGED at
      BY <3>2 DEF PatchTypeOK
    <3> QED  BY <3>1, <3>2
  <2>6. CASE RestoreBefore(p)
    BY <2>1, <2>3, <2>4, <2>6, RestoreLeaves
  <2>7. CASE ppc'[p] = "refill" /\ at'[p] = at[p]
    BY <2>1, <2>3, <2>7 DEF HasWritten
  <2> QED  BY <2>5, <2>6, <2>7
<1>7. CASE Refill(p)
  <2>1. ppc[p] = "refill" /\ UNCHANGED ask /\ at[p] \in Nat /\ RestoreBefore(p) /\ at[p] \in DOMAIN prepared[p]
    BY <1>7, AtFile DEF Refill
  <2>2. f # ask[p][at[p]].path
    <3> SUFFICES ASSUME f = ask[p][at[p]].path PROVE FALSE
      OBVIOUS
    <3>1. p \in prepared[p][at[p]].old.edits
      BY <1>7 DEF Refill, PatchTypeOK
    <3> QED  BY <1>0, <2>1, <3>1 DEF PreparedIsRight
  <2>3. p \in disk[f].edits
    BY <1>7, <2>2 DEF Refill, PatchTypeOK
  <2>4. PICK i \in 1..at[p] : ask[p][i].path = f
    BY <1>1, <2>1, <2>3 DEF HasWritten
  <2>5. i \in 1..at[p] - 1
    BY <2>1, <2>2, <2>4
  <2> QED  BY <2>1, <2>4, <2>5, RestoreLeaves
<1>8. CASE RestoreFails(p)
  <2>1. /\ ppc[p] \in {"restore", "refill"} /\ UNCHANGED <<ask, disk>> /\ at[p] \in Nat /\ RestoreBefore(p)
        /\ f # ask[p][at[p]].path
    BY <1>8, AtFile DEF RestoreFails, Clean
  <2>2. PICK i \in 1..at[p] : ask[p][i].path = f
    BY <1>1, <2>1 DEF HasWritten
  <2>3. i \in 1..at[p] - 1
    BY <2>1, <2>2
  <2> QED  BY <2>1, <2>2, <2>3, RestoreLeaves
<1>9. CASE PatchCrash
  <2>1. CASE HasWritten(p, f)
    <3>1. Busy(p) /\ f \in PathsOf(p)
      BY <2>1, WrittenHas, HasIsBusy
    <3>2. f \in spoiled'
      BY <1>9, <3>1 DEF PatchCrash
    <3> QED  BY <3>2 DEF Clean
  <2>2. CASE ppc[p] = "applied"
    BY <1>9, <2>2 DEF PatchCrash, Busy
  <2> QED  BY <1>1, <1>9, <2>1, <2>2 DEF PatchCrash
<1> QED  BY <1>2, <1>3, <1>4, <1>5, <1>6, <1>7, <1>8, <1>9 DEF PatchNext

\* What a request is to write into a clean file holds its own edit, unless it
\* deletes the file.
LEMMA NewHolds ==
    ASSUME PatchTypeOK, NEW o \in Patchers, NEW i \in DOMAIN ask[o], NEW current \in Contents
    PROVE  LET file == ask[o][i]
               new == NewContent(o, file, current)
           IN  /\ ~Unchecked(file.path) => o \in new.edits
               /\ \A p \in Patchers : p \in new.edits =>
                     p = o \/ p \in current.edits \/ Copied(p, file.path)
               /\ \A p \in Patchers :
                     /\ p \in current.edits /\ ~Unchecked(file.path)
                     /\ file.hashed => Hash(current) = Hash(file.base)
                     => p \in new.edits
<1> DEFINE file == ask[o][i]
           new == NewContent(o, file, current)
<1>1. file \in PatchFiles /\ file.how \in {"diff", "content", "delete"}
  BY FileParts DEF PatchFiles
<1>2. CASE file.how = "delete"
  <2>1. Unchecked(file.path)
    BY <1>2 DEF Unchecked
  <2>2. new.edits = {}
    BY <1>2, NoContents DEF NewContent
  <2> QED  BY <2>1, <2>2
<1>3. CASE file.how = "diff"
  BY <1>3 DEF NewContent
<1>4. CASE file.how = "content"
  <2>1. new.edits = file.base.edits \cup {o}
    BY <1>4 DEF NewContent
  <2>2. \A p \in Patchers : p \in file.base.edits => Copied(p, file.path)
    BY DEF Copied
  <2>3. ~Unchecked(file.path) => file.hashed
    BY <1>4 DEF Unchecked
  <2>4. ASSUME NEW p \in Patchers, p \in current.edits, Hash(current) = Hash(file.base)
        PROVE  p \in file.base.edits
    BY <2>4, NoContents DEF Hash
  <2> QED  BY <2>1, <2>2, <2>3, <2>4
<1> QED  BY <1>1, <1>2, <1>3, <1>4

\* When a request reads a file that is not raced for, nobody is restoring it,
\* and the edits in it are those of requests that are done.
LEMMA ReadsSettled ==
    ASSUME PatchInv, NEW q \in Patchers, Prepare(q), Prepares(q, ask[q][at[q]]),
           NEW f, f = ask[q][at[q]].path, Clean(f)', NEW p \in Patchers
    PROVE  /\ p \in disk[f].edits => ppc[p] = "applied" \/ Copied(p, f)
           /\ ppc[p] = "applied" /\ f \in PathsOf(p) /\ ~Unchecked(f) => p \in disk[f].edits
<1> USE DEF PatchInv
<1>1. f \in PatchPaths /\ ppc[q] \in {"asked", "prepare"}
  BY AtFile, FileParts DEF Prepare
<1>2. Clean(f)
  BY PatchLocal DEF Clean
<1>3. \A o \in Patchers \ {q} : ~(Busy(o) /\ f \in PathsOf(o))
  BY DEF Clean, Prepares
<1>4. ASSUME p \in disk[f].edits PROVE ppc[p] = "applied" \/ Copied(p, f)
  <2>1. HasWritten(p, f) => Busy(p) /\ f \in PathsOf(p)
    BY WrittenHas, HasIsBusy
  <2>2. p # q \/ ~HasWritten(p, f)
    BY <1>1 DEF HasWritten
  <2> QED  BY <1>1, <1>2, <1>3, <1>4, <2>1, <2>2 DEF EditsAreOwned
<1>5. ASSUME ppc[p] = "applied", f \in PathsOf(p), ~Unchecked(f) PROVE p \in disk[f].edits
  <2>1. f \notin BeingRestored
    <3> SUFFICES ASSUME NEW o \in Patchers, ppc[o] = "refill", ask[o][at[o]].path = f PROVE FALSE
      BY DEF BeingRestored
    <3>1. Busy(o) /\ f \in PathsOf(o)
      BY AtHas, HasIsBusy
    <3> QED  BY <1>1, <1>3, <3>1
  <2> QED  BY <1>1, <1>2, <1>5, <2>1 DEF ReportedIsThere, Clean
<1> QED  BY <1>4, <1>5


\* What the content o has read of the file f, and the one it is to write there,
\* are to hold.
Right(o, f, old, new) ==
    /\ \A p \in Patchers :
         /\ p \in old.edits => ppc[p] = "applied" \/ Copied(p, f)
         /\ p \in new.edits => p = o \/ ppc[p] = "applied" \/ Copied(p, f)
         /\ ppc[p] = "applied" /\ f \in PathsOf(p) /\ ~Unchecked(f) =>
               p \in old.edits /\ p \in new.edits
    /\ ~Unchecked(f) => o \in new.edits

\* A request is reported applied by its last write, and that stays so.
LEMMA AppliedBy ==
    ASSUME PatchTypeOK, PatchNext, NEW p \in Patchers
    PROVE  /\ ppc[p] = "applied" => ppc'[p] = "applied"
           /\ ppc'[p] = "applied" /\ ppc[p] # "applied" =>
                 /\ WriteFile(p) /\ at[p] = Len(ask[p])
                 /\ prepared'[p] = <<>> /\ ask' = ask
<1>1. CASE PatchCrash
  BY <1>1 DEF PatchCrash, Busy
<1>2. ASSUME NEW q \in Patchers, q # p,
             \/ AskPatch(q) \/ Prepare(q) \/ WriteFile(q) \/ WriteFails(q)
             \/ Restore(q) \/ Refill(q) \/ RestoreFails(q)
      PROVE  ppc'[p] = ppc[p]
  BY <1>2, PatchLocal
<1>3. CASE AskPatch(p) \/ Prepare(p) \/ WriteFails(p) \/ Restore(p) \/ Refill(p) \/ RestoreFails(p)
  BY <1>3 DEF PatchTypeOK, AskPatch, Prepare, Prepares, Refused, WriteFails, Restore, Refill,
         RestoreFails, RestoreBefore, PatchEnds
<1>4. CASE WriteFile(p)
  BY <1>4 DEF PatchTypeOK, WriteFile, PatchEnds
<1> QED  BY <1>1, <1>2, <1>3, <1>4 DEF PatchNext

\* What is prepared was prepared before, or is read now.
LEMMA PreparedBy ==
    ASSUME PatchTypeOK, PatchShape, PatchNext, NEW o \in Patchers, NEW i \in DOMAIN prepared'[o]
    PROVE  /\ ask'[o] = ask[o]
           /\ \/ i \in DOMAIN prepared[o] /\ prepared'[o][i] = prepared[o][i]
              \/ LET file == ask[o][i]
                 IN  /\ i = at[o] /\ i \in DOMAIN ask[o] /\ Prepare(o) /\ Prepares(o, file)
                     /\ file.hashed => Hash(disk[file.path]) = Hash(file.base)
                     /\ prepared'[o][i] = [old |-> disk[file.path],
                                           new |-> NewContent(o, file, disk[file.path])]
<1>1. CASE PatchCrash
  BY <1>1 DEF PatchCrash
<1>2. ASSUME NEW q \in Patchers, q # o,
             \/ AskPatch(q) \/ Prepare(q) \/ WriteFile(q) \/ WriteFails(q)
             \/ Restore(q) \/ Refill(q) \/ RestoreFails(q)
      PROVE  ask'[o] = ask[o] /\ prepared'[o] = prepared[o]
  BY <1>2, PatchLocal
<1>3. CASE AskPatch(o)
  <2>1. prepared'[o] = <<>>
    BY <1>3 DEF AskPatch, PatchShape, Busy
  <2> QED  BY <2>1
<1>4. CASE Prepare(o)
  <2> DEFINE file == ask[o][at[o]]
             next == [old |-> disk[file.path], new |-> NewContent(o, file, disk[file.path])]
  <2>1. \/ /\ file.hashed => Hash(disk[file.path]) = Hash(file.base)
           /\ Prepares(o, file)
        \/ PatchEnds(o, "failed")
    BY <1>4 DEF Prepare, Refused
  <2>2. CASE PatchEnds(o, "failed")
    <3>1. prepared'[o] = <<>>
      BY <2>2 DEF PatchEnds, PatchTypeOK
    <3> QED  BY <3>1
  <2>3. CASE /\ file.hashed => Hash(disk[file.path]) = Hash(file.base)
             /\ Prepares(o, file)
    <3>1. prepared'[o] = Append(prepared[o], next)
      BY <2>3 DEF Prepares, PatchTypeOK
    <3>2. /\ prepared[o] \in Seq(PreparedFiles) /\ Len(prepared[o]) = at[o] - 1 /\ at[o] \in Nat
          /\ at[o] \in DOMAIN ask[o]
      BY <1>4, AtFile DEF PatchTypeOK, PatchShape, Prepare
    <3> HIDE DEF next
    <3>3. \/ i \in DOMAIN prepared[o] /\ prepared'[o][i] = prepared[o][i]
          \/ i = at[o] /\ prepared'[o][i] = next
      BY <3>1, <3>2
    <3>4. ask' = ask
      BY <1>4 DEF Prepare
    <3> QED  BY <1>4, <2>3, <3>2, <3>3, <3>4 DEF next
  <2> QED  BY <2>1, <2>2, <2>3
<1>5. CASE WriteFile(o) \/ WriteFails(o) \/ Restore(o) \/ Refill(o) \/ RestoreFails(o)
  <2>1. prepared'[o] = prepared[o] \/ prepared'[o] = <<>>
    BY <1>5 DEF WriteFile, WriteFails, Restore, Refill, RestoreFails, RestoreBefore, PatchEnds, PatchTypeOK
  <2>2. ask' = ask
    BY <1>5 DEF WriteFile, WriteFails, Restore, Refill, RestoreFails
  <2> QED  BY <2>1, <2>2
<1> QED  BY <1>1, <1>2, <1>3, <1>4, <1>5 DEF PatchNext

\* A file is right for as long as its request has it: nobody who has it too is
\* reported applied, but in a race.
LEMMA RightStays ==
    ASSUME PatchInv, PatchNext, NEW o \in Patchers, NEW f \in PatchPaths, NEW old, NEW new,
           Clean(f)', Has(o, f), Has(o, f)', Right(o, f, old, new)
    PROVE  Right(o, f, old, new)'
<1> USE DEF PatchInv
<1>1. /\ Clean(f) /\ \A p : Copied(p, f) => Copied(p, f)'
      /\ Unchecked(f) => Unchecked(f)'
  BY PatchHistory
<1>2. ASSUME NEW p \in Patchers
      PROVE  /\ ppc[p] = "applied" => ppc'[p] = "applied"
             /\ ppc'[p] = "applied" /\ f \in PathsOf(p)' =>
                   ppc[p] = "applied" /\ f \in PathsOf(p)
  <2>1. CASE ppc[p] = "applied"
    <3>1. ask'[p] = ask[p]
      BY <2>1, PatchHistory
    <3> QED  BY <2>1, <3>1, AppliedBy DEF PathsOf
  <2>2. CASE ppc[p] # "applied" /\ ppc'[p] = "applied" /\ f \in PathsOf(p)'
    <3>1. WriteFile(p) /\ prepared'[p] = <<>> /\ ask' = ask
      BY <2>2, AppliedBy
    <3>2. DOMAIN prepared[p] = DOMAIN ask[p] /\ f \in PathsOf(p)
      BY <2>2, <3>1, AtFile DEF WriteFile, PathsOf
    <3>3. Has(p, f)
      BY <3>2 DEF Has, PathsOf
    <3>4. p = o
      BY <1>1, <3>3 DEF OneAtATime, Clean
    <3> QED  BY <3>1, <3>4 DEF Has
  <2> QED  BY <2>1, <2>2
<1> QED  BY <1>1, <1>2 DEF Right

\* What requests have read and are to write stays right, whatever the others do.
LEMMA PreparedStep ==
    ASSUME PatchInv, PatchNext PROVE PreparedIsRight'
<1> USE DEF PatchInv
<1> SUFFICES ASSUME NEW o \in Patchers, NEW i \in DOMAIN prepared'[o],
                    NEW f, f = ask'[o][i].path, Clean(f)',
                    NEW old, old = prepared'[o][i].old, NEW new, new = prepared'[o][i].new
             PROVE  Right(o, f, old, new)'
  BY DEF PreparedIsRight, Right
<1>1. ask'[o] = ask[o] /\ f = ask[o][i].path
  BY PreparedBy
<1>2. Clean(f) /\ (\A p : Copied(p, f) => Copied(p, f)') /\ (Unchecked(f) => Unchecked(f)')
  BY PatchHistory
<1>3. CASE i \in DOMAIN prepared[o] /\ prepared'[o][i] = prepared[o][i]
  <2>1. i \in DOMAIN ask[o] /\ f \in PatchPaths /\ Has(o, f)
    BY <1>1, <1>3, AtFile, FileParts DEF Has
  <2>2. Has(o, f)'
    BY <1>1 DEF Has
  <2>3. Right(o, f, old, new)
    BY <1>1, <1>2, <1>3 DEF PreparedIsRight, Right
  <2> QED  BY <2>1, <2>2, <2>3, RightStays
<1>4. CASE LET file == ask[o][i]
           IN  /\ i = at[o] /\ i \in DOMAIN ask[o] /\ Prepare(o) /\ Prepares(o, file)
               /\ file.hashed => Hash(disk[file.path]) = Hash(file.base)
               /\ prepared'[o][i] = [old |-> disk[file.path],
                                     new |-> NewContent(o, file, disk[file.path])]
  <2> DEFINE file == ask[o][i]
  <2>1. /\ i = at[o] /\ i \in DOMAIN ask[o] /\ Prepare(o) /\ Prepares(o, file)
        /\ file.hashed => Hash(disk[f]) = Hash(file.base)
        /\ old = disk[f] /\ new = NewContent(o, file, disk[f])
    BY <1>1, <1>4
  <2>2. f \in PatchPaths /\ disk[f] \in Contents
    BY <1>1, <2>1, FileParts
  <2>3. ASSUME NEW p \in Patchers
        PROVE  /\ p \in old.edits => ppc[p] = "applied" \/ Copied(p, f)
               /\ ppc[p] = "applied" /\ f \in PathsOf(p) /\ ~Unchecked(f) => p \in old.edits
    BY <1>1, <2>1, ReadsSettled
  <2>4. /\ ~Unchecked(f) => o \in new.edits
        /\ \A p \in Patchers : p \in new.edits => p = o \/ p \in old.edits \/ Copied(p, f)
        /\ \A p \in Patchers : p \in old.edits /\ ~Unchecked(f) => p \in new.edits
    BY <1>1, <2>1, <2>2, NewHolds
  <2>5. Right(o, f, old, new)
    BY <2>3, <2>4 DEF Right
  <2>6. \A p \in Patchers : ppc'[p] = "applied" <=> ppc[p] = "applied"
    BY <2>1, AppliedBy DEF Prepare, WriteFile, Prepares, PatchTypeOK
  <2>7. \A p \in Patchers : f \in PathsOf(p)' <=> f \in PathsOf(p)
    BY <2>1 DEF Prepare, PathsOf
  <2> QED  BY <1>2, <2>5, <2>6, <2>7 DEF Right
<1> QED  BY <1>3, <1>4, PreparedBy

\* A request writes what it has read, with its edit in it, and nobody else
\* touches the file before it is done.
LEMMA WrittenStep ==
    ASSUME PatchInv, PatchNext PROVE WrittenIsThere'
<1> USE DEF PatchInv
<1> SUFFICES ASSUME NEW p \in Patchers, ppc'[p] = "write", NEW i \in 1..at'[p] - 1,
                    NEW f, f = ask'[p][i].path, Clean(f)', ~Unchecked(f)'
             PROVE  p \in disk'[f].edits
  BY DEF WrittenIsThere
<1>1. Clean(f) /\ ~Unchecked(f)
  BY PatchHistory
<1>2. CASE PatchCrash
  BY <1>2 DEF PatchCrash, Busy
<1>3. ASSUME NEW q \in Patchers, q # p,
             \/ AskPatch(q) \/ Prepare(q) \/ WriteFile(q) \/ WriteFails(q)
             \/ Restore(q) \/ Refill(q) \/ RestoreFails(q)
      PROVE  p \in disk'[f].edits
  <2>1. ppc[p] = "write" /\ at'[p] = at[p] /\ ask'[p] = ask[p]
    BY <1>3, PatchLocal
  <2>2. p \in disk[f].edits
    BY <1>1, <2>1 DEF WrittenIsThere
  <2>3. HasWritten(p, f)
    BY <2>1 DEF HasWritten
  <2>4. Has(p, f)
    BY <2>3, WrittenHas
  <2>5. CASE disk'[f] = disk[f]
    BY <2>2, <2>5
  <2>6. CASE disk'[f] # disk[f]
    <3>1. ppc[q] \in {"write", "restore", "refill"} /\ ask[q][at[q]].path = f
      <4>1. CASE WriteFile(q) \/ Restore(q) \/ Refill(q)
        <5>1. f \in PatchPaths
          BY <2>4, HasIsBusy, FileParts DEF PathsOf
        <5> QED  BY <2>6, <4>1, <5>1 DEF WriteFile, Restore, Refill, PatchTypeOK
      <4>2. CASE AskPatch(q) \/ Prepare(q) \/ WriteFails(q) \/ RestoreFails(q)
        BY <2>6, <4>2 DEF AskPatch, Prepare, WriteFails, RestoreFails
      <4> QED  BY <1>3, <4>1, <4>2
    <3>2. Has(q, f) /\ f \in PatchPaths
      BY <3>1, AtHas
    <3> QED  BY <1>1, <1>3, <2>4, <3>2 DEF OneAtATime, Clean
  <2> QED  BY <2>5, <2>6
<1>4. CASE WriteFile(p)
  <2>1. at'[p] = at[p] + 1 /\ at[p] \in Nat /\ UNCHANGED ask /\ ppc[p] = "write"
    BY <1>4, AtFile DEF WriteFile, PatchEnds, PatchTypeOK
  <2>2. at[p] \in DOMAIN prepared[p] /\ at[p] \in DOMAIN ask[p]
    BY <2>1, AtFile
  <2>3. CASE ask[p][at[p]].path = f
    <3>1. f \in PatchPaths
      BY <2>2, <2>3, FileParts
    <3>2. disk'[f] = prepared[p][at[p]].new
      BY <1>4, <2>3, <3>1 DEF WriteFile, PatchTypeOK
    <3> QED  BY <1>1, <2>2, <2>3, <3>2 DEF PreparedIsRight
  <2>4. CASE ask[p][at[p]].path # f
    <3>1. disk'[f] = disk[f]
      BY <1>4, <2>4 DEF WriteFile, PatchTypeOK
    <3>2. i \in 1..at[p] - 1
      BY <2>1, <2>4
    <3> QED  BY <1>1, <2>1, <3>1, <3>2 DEF WrittenIsThere
  <2> QED  BY <2>3, <2>4
<1>5. CASE Prepare(p)
  <2>1. at'[p] = 1
    BY <1>5 DEF Prepare, Prepares, Refused, PatchEnds, PatchTypeOK
  <2> QED  BY <2>1
<1>6. CASE AskPatch(p) \/ WriteFails(p) \/ Restore(p) \/ Refill(p) \/ RestoreFails(p)
  BY <1>6 DEF AskPatch, WriteFails, Restore, Refill, RestoreFails, RestoreBefore, PatchEnds, PatchTypeOK
<1> QED  BY <1>2, <1>3, <1>4, <1>5, <1>6 DEF PatchNext

\* A request that has just been reported applied has written all its files.
LEMMA AppliedIsThere ==
    ASSUME PatchInv, PatchNext, NEW p \in Patchers, ppc'[p] = "applied", ppc[p] # "applied",
           NEW f \in PatchPaths, f \in PathsOf(p)', Clean(f)', ~Unchecked(f)'
    PROVE  p \in disk'[f].edits
<1> USE DEF PatchInv
<1>1. Clean(f) /\ ~Unchecked(f)
  BY PatchHistory
<1>2. WriteFile(p) /\ at[p] = Len(ask[p]) /\ ask' = ask
  BY AppliedBy
<1>3. /\ ppc[p] = "write" /\ at[p] \in DOMAIN prepared[p] /\ at[p] \in Nat
      /\ DOMAIN ask[p] = 1..at[p]
  BY <1>2, AtFile DEF WriteFile
<1>4. PICK i \in 1..at[p] : ask[p][i].path = f
  BY <1>2, <1>3 DEF PathsOf
<1>5. CASE ask[p][at[p]].path = f
  <2>1. disk'[f] = prepared[p][at[p]].new
    BY <1>2, <1>5 DEF WriteFile, PatchTypeOK
  <2> QED  BY <1>1, <1>3, <1>5, <2>1 DEF PreparedIsRight
<1>6. CASE ask[p][at[p]].path # f
  <2>1. disk'[f] = disk[f]
    BY <1>2, <1>6 DEF WriteFile, PatchTypeOK
  <2>2. i \in 1..at[p] - 1
    BY <1>3, <1>4, <1>6
  <2> QED  BY <1>1, <1>3, <1>4, <2>1, <2>2 DEF WrittenIsThere
<1> QED  BY <1>5, <1>6

\* What has been reported applied is in the contents that others write after it,
\* or put back.
LEMMA ReportedStep ==
    ASSUME PatchInv, PatchNext PROVE ReportedIsThere'
<1> USE DEF PatchInv
<1> SUFFICES ASSUME NEW p \in Patchers, NEW f \in PatchPaths, ppc'[p] = "applied", f \in PathsOf(p)',
                    Clean(f)', ~Unchecked(f)', f \notin BeingRestored'
             PROVE  p \in disk'[f].edits
  BY DEF ReportedIsThere, Clean
<1>1. Clean(f) /\ ~Unchecked(f)
  BY PatchHistory
<1>2. CASE ppc[p] # "applied"
  BY <1>2, AppliedIsThere
<1>3. CASE ppc[p] = "applied"
  <2>1. f \in PathsOf(p)
    BY <1>3, PatchHistory DEF PathsOf
  <2>2. f \in BeingRestored \/ p \in disk[f].edits
    BY <1>1, <1>3, <2>1 DEF ReportedIsThere, Clean
  <2>3. ASSUME NEW q \in Patchers, ppc[q] \in {"write", "restore", "refill"}, ask[q][at[q]].path = f
        PROVE  p \in prepared[q][at[q]].old.edits /\ p \in prepared[q][at[q]].new.edits
    <3>1. at[q] \in DOMAIN prepared[q]
      BY <2>3, AtFile
    <3> QED  BY <1>1, <1>3, <2>1, <2>3, <3>1 DEF PreparedIsRight
  <2>4. CASE PatchCrash
    <3>1. f \notin BeingRestored
      <4> SUFFICES ASSUME NEW q \in Patchers, ppc[q] = "refill", ask[q][at[q]].path = f PROVE FALSE
        BY DEF BeingRestored
      <4>1. Busy(q) /\ f \in PathsOf(q)
        BY AtHas, HasIsBusy
      <4> QED  BY <2>4, <4>1 DEF PatchCrash, Clean
    <3> QED  BY <2>2, <2>4, <3>1 DEF PatchCrash
  <2>5. ASSUME NEW q \in Patchers,
               \/ AskPatch(q) \/ Prepare(q) \/ WriteFile(q) \/ WriteFails(q)
               \/ Restore(q) \/ Refill(q) \/ RestoreFails(q)
        PROVE  p \in disk'[f].edits
    <3>1. CASE ppc[q] = "refill" /\ ask[q][at[q]].path = f
      <4>1. Refill(q)
        BY <2>5, <3>1 DEF AskPatch, Prepare, WriteFile, WriteFails, Restore, RestoreFails, Clean
      <4>2. disk'[f] = prepared[q][at[q]].old
        BY <3>1, <4>1 DEF Refill, PatchTypeOK
      <4> QED  BY <2>3, <3>1, <4>2
    <3>2. CASE ~(ppc[q] = "refill" /\ ask[q][at[q]].path = f)
      <4>1. f \notin BeingRestored
        <5> SUFFICES ASSUME NEW o \in Patchers, ppc[o] = "refill", ask[o][at[o]].path = f PROVE FALSE
          BY DEF BeingRestored
        <5>1. o # q /\ ppc'[o] = "refill" /\ ask'[o][at'[o]].path = f
          BY <2>5, <3>2, PatchLocal
        <5> QED  BY <5>1 DEF BeingRestored
      <4>2. p \in disk[f].edits
        BY <2>2, <4>1
      <4>3. CASE AskPatch(q) \/ Prepare(q) \/ WriteFails(q) \/ RestoreFails(q)
        BY <4>2, <4>3 DEF AskPatch, Prepare, WriteFails, RestoreFails
      <4>4. CASE WriteFile(q)
        BY <2>3, <4>2, <4>4 DEF WriteFile, PatchTypeOK
      <4>5. CASE Refill(q)
        BY <2>3, <4>2, <4>5 DEF Refill, PatchTypeOK
      <4>6. CASE Restore(q)
        <5>1. CASE ask[q][at[q]].path # f
          BY <4>2, <4>6, <5>1 DEF Restore, PatchTypeOK
        <5>2. CASE ask[q][at[q]].path = f
          <6>1. p \in prepared[q][at[q]].old.edits
            BY <2>3, <4>6, <5>2 DEF Restore
          <6>2. prepared[q][at[q]].old # NoFile
            BY <6>1, NoContents
          <6>3. ppc'[q] = "refill" /\ ask'[q][at'[q]].path = f
            BY <4>6, <5>2, <6>2 DEF Restore, PatchTypeOK
          <6> QED  BY <6>3 DEF BeingRestored
        <5> QED  BY <5>1, <5>2
      <4> QED  BY <2>5, <4>3, <4>4, <4>5, <4>6
    <3> QED  BY <3>1, <3>2
  <2> QED  BY <2>4, <2>5 DEF PatchNext
<1> QED  BY <1>2, <1>3

\* No request has been made to begin with.
LEMMA PatchStart == ASSUME PatchInit PROVE PatchInv
<1>1. PatchTypeOK
  <2>1. <<>> \in Seq(PatchFiles) /\ <<>> \in Seq(PreparedFiles) /\ 0 \in 0..2 /\ 0 \in 0..MaxPatchFaults
    BY CodePatchAssumption
  <2>2. disk \in [PatchPaths -> Contents]
    BY DEF PatchInit, Contents
  <2> QED  BY <2>1, <2>2 DEF PatchInit, PatchTypeOK
<1>2. /\ \A p \in Patchers : ppc[p] = "idle" /\ ask[p] = <<>> /\ prepared[p] = <<>>
      /\ \A f \in PatchPaths : disk[f].edits = {}
  BY DEF PatchInit
<1>3. PatchShape
  BY <1>2 DEF PatchShape, Busy
<1>4. OneAtATime
  BY <1>2 DEF OneAtATime, Has
<1>5. EditsAreOwned /\ WrittenIsThere /\ ReportedIsThere
  BY <1>2 DEF EditsAreOwned, WrittenIsThere, ReportedIsThere
<1>6. PreparedIsRight
  BY <1>2 DEF PreparedIsRight
<1> QED  BY <1>1, <1>3, <1>4, <1>5, <1>6 DEF PatchInv

\* The inductive invariant of the patches, for any requests and files.
THEOREM PatchInvariant == PatchSpec => []PatchInv
<1>1. PatchInit => PatchInv
  BY PatchStart
<1>2. PatchInv /\ [PatchNext]_patchVars => PatchInv'
  <2>1. CASE PatchNext
    <3>1. PatchInv /\ PatchNext => PatchTypeOK' /\ PatchShape' /\ OneAtATime'
      BY PatchTypes, OneStep DEF PatchInv
    <3> QED  BY <2>1, <3>1, OwnedStep, PreparedStep, WrittenStep, ReportedStep DEF PatchInv
  <2>2. CASE UNCHANGED patchVars
    <3>1. UNCHANGED <<disk, ppc, ask, prepared, at, diskFaults, racing, spoiled>>
      BY <2>2 DEF patchVars
    <3>2. PatchTypeOK => PatchTypeOK'
      BY <3>1 DEF PatchTypeOK
    <3>3. PatchShape => PatchShape'
      BY <3>1 DEF PatchShape, Busy
    <3>4. OneAtATime => OneAtATime'
      BY <3>1 DEF OneAtATime, Has
    <3>5. EditsAreOwned => EditsAreOwned'
      BY <3>1 DEF EditsAreOwned, Clean, HasWritten, Copied
    <3>a. \A p : PathsOf(p)' = PathsOf(p)
      BY <3>1 DEF PathsOf
    <3>b. \A f : /\ Clean(f)' <=> Clean(f)
                 /\ Unchecked(f)' <=> Unchecked(f)
                 /\ \A p : Copied(p, f)' <=> Copied(p, f)
      BY <3>1, <3>a DEF Clean, Copied, Unchecked, Twice
    <3>c. BeingRestored' = BeingRestored
      BY <3>1 DEF BeingRestored
    <3>6. PreparedIsRight => PreparedIsRight'
      BY <3>1, <3>a, <3>b DEF PreparedIsRight
    <3>7. WrittenIsThere => WrittenIsThere'
      BY <3>1, <3>b DEF WrittenIsThere
    <3>8. ReportedIsThere => ReportedIsThere'
      BY <3>1, <3>a, <3>b, <3>c DEF ReportedIsThere
    <3> QED  BY <3>2, <3>3, <3>4, <3>5, <3>6, <3>7, <3>8 DEF PatchInv
  <2> QED  BY <2>1, <2>2
<1> QED  BY <1>1, <1>2, PTL DEF PatchSpec

\* A patch that failed leaves no edit behind, and one that was reported applied
\* stays in its files, but for the exceptions that PatchOutcome names.
THEOREM PatchesAsReported == PatchSpec => []PatchOutcome
<1>1. PatchInv => PatchOutcome
  <2> SUFFICES ASSUME PatchInv, NEW p \in Patchers, NEW f \in PatchPaths,
                      ppc[p] = "failed", p \in disk[f].edits, Clean(f)
               PROVE  Copied(p, f)
    BY DEF PatchInv, PatchOutcome, AllOrNothing, Clean
  <2> QED  BY DEF PatchInv, EditsAreOwned, HasWritten
<1> QED  BY <1>1, PatchInvariant, PTL

-----------------------------------------------------------------------------
(* The skill runner *)

\* Who is alive when: there is a process from the start of the run on, a
\* process in isolation takes its own with it, and the watcher that has left
\* a run that goes on has killed the group, to which nobody can be added any more.
ProcessesAlive ==
    /\ runAt # "idle" => skillCall \in RunCalls
    /\ runAt \in {"idle", "start"} => process = "none"
    /\ process = "none" => descendants = {}
    /\ skillCall.isolated /\ process # "running" => descendants = {}
    /\ runAt = "wait" /\ watcher = "left" =>
          process # "running" /\ \A d \in descendants : ~d.group
    /\ runAt = "returned" /\ skillCall.isolated => process # "running"

RunnerInv == RunnerTypeOK /\ ProcessesAlive /\ RunResultIsTrue

\* What is kept of the output is within the limit, which is never zero.
LEMMA LimitOfOutput ==
    ASSUME NEW c \in RunCalls PROVE maxOutput(c) \in Nat \ {0}
  BY RunnerAssumption DEF maxOutput

\* No process runs to begin with.
LEMMA RunnerInitially == RunnerInit => RunnerInv
  BY RunnerAssumption DEF RunnerInit, RunnerInv, RunnerTypeOK, ProcessesAlive, RunResultIsTrue, NoCall

\* The variables of a run keep their types.
LEMMA RunnerTypes == ASSUME RunnerInv, RunnerNext PROVE RunnerTypeOK'
<1> USE DEF RunnerInv, RunnerTypeOK
<1>1. ASSUME NEW c \in RunCalls, prepareExecution(c) PROVE RunnerTypeOK'
  BY <1>1 DEF prepareExecution, ReturnsWith
<1>2. CASE StartSkill
  BY <1>2 DEF StartSkill
<1>3. CASE StartFails
  BY <1>3 DEF StartFails, ReturnsWith
<1>4. CASE ApplyRlimits
  BY <1>4 DEF ApplyRlimits, ReturnsWith, killProcessGroup
<1>5. CASE WaitReturns
  BY <1>5 DEF WaitReturns, ReturnsWith
<1>6. ASSUME NEW how \in {"deadline", "cancelled"}, ContextEnds(how) PROVE RunnerTypeOK'
  BY <1>6 DEF ContextEnds
<1>7. CASE CommandKills \/ WatcherKills \/ WatcherLeaves
  BY <1>7 DEF CommandKills, WatcherKills, WatcherLeaves, Dies, killProcessGroup
<1>8. ASSUME NEW d \in Descendants, NEW group \in BOOLEAN, NEW holds \in BOOLEAN, Forks(d, group, holds)
      PROVE  RunnerTypeOK'
  BY <1>8 DEF Forks
<1>9. ASSUME NEW d \in Descendants, DescendantExits(d) PROVE RunnerTypeOK'
  BY <1>9 DEF DescendantExits
<1>10. ASSUME NEW how \in {"exited", "failed"}, ProcessExits(how) PROVE RunnerTypeOK'
  BY <1>10 DEF ProcessExits, Dies
<1>11. CASE Writes
  BY <1>11, RunnerAssumption DEF Writes
<1> QED  BY <1>1, <1>2, <1>3, <1>4, <1>5, <1>6, <1>7, <1>8, <1>9, <1>10, <1>11 DEF RunnerNext

\* Every step of a run, of its process and of its watcher leaves alive only
\* those that may be.
LEMMA ProcessesStep == ASSUME RunnerInv, RunnerNext PROVE ProcessesAlive'
<1> USE DEF RunnerInv, RunnerTypeOK, ProcessesAlive
<1>1. ASSUME NEW c \in RunCalls, prepareExecution(c) PROVE ProcessesAlive'
  BY <1>1 DEF prepareExecution, ReturnsWith
<1>2. CASE StartSkill
  BY <1>2 DEF StartSkill
<1>3. CASE StartFails
  BY <1>3 DEF StartFails, ReturnsWith
<1>4. CASE ApplyRlimits
  BY <1>4 DEF ApplyRlimits, ReturnsWith, killProcessGroup
<1>5. CASE WaitReturns
  BY <1>5 DEF WaitReturns, ReturnsWith
<1>6. ASSUME NEW how \in {"deadline", "cancelled"}, ContextEnds(how) PROVE ProcessesAlive'
  BY <1>6 DEF ContextEnds
<1>7. CASE CommandKills \/ WatcherKills \/ WatcherLeaves
  BY <1>7 DEF CommandKills, WatcherKills, WatcherLeaves, Dies, killProcessGroup
<1>8. ASSUME NEW d \in Descendants, NEW group \in BOOLEAN, NEW holds \in BOOLEAN, Forks(d, group, holds)
      PROVE  ProcessesAlive'
  BY <1>8 DEF Forks
<1>9. ASSUME NEW d \in Descendants, DescendantExits(d) PROVE ProcessesAlive'
  BY <1>9 DEF DescendantExits
<1>10. ASSUME NEW how \in {"exited", "failed"}, ProcessExits(how) PROVE ProcessesAlive'
  BY <1>10 DEF ProcessExits, Dies
<1>11. CASE Writes
  BY <1>11, RunnerAssumption DEF Writes
<1> QED  BY <1>1, <1>2, <1>3, <1>4, <1>5, <1>6, <1>7, <1>8, <1>9, <1>10, <1>11 DEF RunnerNext

\* A result is made once and agrees with what it was made from, and that no
\* longer changes.
LEMMA ResultStep == ASSUME RunnerInv, RunnerNext PROVE RunResultIsTrue'
<1> USE DEF RunnerInv, ProcessesAlive
<1>1. ASSUME NEW c \in RunCalls, prepareExecution(c) PROVE RunResultIsTrue'
  BY <1>1, LimitOfOutput DEF prepareExecution, ReturnsWith, FailedRun, RunResultIsTrue
<1>2. CASE StartFails
  BY <1>2, LimitOfOutput DEF StartFails, ReturnsWith, FailedRun, RunResultIsTrue
<1>3. CASE ApplyRlimits
  BY <1>3, LimitOfOutput DEF ApplyRlimits, ReturnsWith, FailedRun, RunResultIsTrue
<1>4. CASE WaitReturns
  <2> DEFINE limit == maxOutput(skillCall)
             cut == written > limit
             kept == IF cut THEN limit ELSE written
  <2>1. limit \in Nat \ {0} /\ written \in Nat /\ skillCall \in RunCalls
    BY <1>4, LimitOfOutput, RunnerAssumption DEF WaitReturns, RunnerTypeOK
  <2>2. /\ runResult' = [status |-> IF ~Parses(kept, cut) THEN "error"
                                    ELSE IF runCtx = "deadline" THEN "timeout"
                                    ELSE IF process # "exited" THEN "error" ELSE "ok",
                         kept |-> kept, cut |-> cut, late |-> runCtx = "deadline"]
        /\ UNCHANGED <<skillCall, process, written>>
    BY <1>4 DEF WaitReturns, ReturnsWith
  <2>3. kept <= limit
    BY <2>1
  <2>4. Parses(kept, cut) /\ skillCall.mode = "json" => ~cut /\ written \in {0, skillCall.document}
    BY <2>1 DEF Parses
  <2> HIDE DEF limit, cut, kept
  <2>5. runResult'.kept <= maxOutput(skillCall)'
    BY <2>2, <2>3 DEF limit, maxOutput
  <2> QED  BY <2>2, <2>4, <2>5 DEF RunResultIsTrue
<1>5. CASE \/ StartSkill \/ \E how \in {"deadline", "cancelled"} : ContextEnds(how)
           \/ Writes
  BY <1>5 DEF StartSkill, ContextEnds, Writes, RunResultIsTrue
<1>6. CASE \/ CommandKills \/ WatcherKills \/ WatcherLeaves
           \/ \E d \in Descendants, group, holds \in BOOLEAN : Forks(d, group, holds)
           \/ \E d \in Descendants : DescendantExits(d)
           \/ \E how \in {"exited", "failed"} : ProcessExits(how)
  <2>1. /\ UNCHANGED <<skillCall, runAt, written, runResult>>
        /\ process = "exited" => process' = "exited"
    BY <1>6 DEF CommandKills, WatcherKills, WatcherLeaves, Forks, DescendantExits, ProcessExits,
                killProcessGroup, Dies
  <2> QED  BY <2>1 DEF RunResultIsTrue, maxOutput
<1> QED  BY <1>1, <1>2, <1>3, <1>4, <1>5, <1>6 DEF RunnerNext

\* The inductive invariant of a skill run.
THEOREM RunnerInvariant == RunnerSpec => []RunnerInv
<1>1. RunnerInv /\ [RunnerNext]_runnerVars => RunnerInv'
  <2>1. CASE RunnerNext
    BY <2>1, RunnerTypes, ProcessesStep, ResultStep DEF RunnerInv
  <2>2. CASE UNCHANGED runnerVars
    BY <2>2 DEF runnerVars, RunnerInv, RunnerTypeOK, ProcessesAlive, RunResultIsTrue, maxOutput
  <2> QED  BY <2>1, <2>2
<1> QED  BY <1>1, RunnerInitially, PTL DEF RunnerSpec

\* The result of a run is what has happened, it waits only for processes that
\* have left its group, and an isolated one leaves no process.
THEOREM RunsEndClean == RunnerSpec => []RunEndsClean
<1>1. RunnerInv => RunEndsClean
  BY DEF RunnerInv, ProcessesAlive, RunEndsClean, WaitsOnlyForEscaped, IsolatedLeavesNone
<1> QED  BY <1>1, RunnerInvariant, PTL

-----------------------------------------------------------------------------
(* Planning *)

\* Where planning is, what has been decided by then, and how often the model has
\* been asked for it.
PlanningStages ==
    /\ plan.decision = "tool" <=> plpc = "tool"
    /\ plan.decision = "tool" => plan.tool \in PlanTools
    /\ plpc \in {"idle", "route", "select", "choose", "plan"} => chain = <<>>
    /\ plpc \in {"select", "choose", "plan"} => route = "tool_needed"
    /\ plpc \in {"idle", "select", "choose", "tool", "end"} => attempts = 0
    /\ plpc = "idle" => modelCalls = 0
    /\ plpc = "route" => modelCalls = attempts /\ attempts <= RouterRetries
    /\ plpc \in {"select", "choose"} => modelCalls <= RouterRetries + 1
    /\ plpc = "plan" => modelCalls <= RouterRetries + 1 + attempts /\ attempts <= PlanRetries
    /\ modelCalls <= RouterRetries + PlanRetries + 2

\* How late in a chain a tool comes: what follows a tool is later than it.
Rank(t) ==
    CASE t \in {"code.inspect_project", "code.read_file", "runbook.plan"} -> 0
      [] t = "code.apply_patch" -> 1
      [] t = "code.run_tests" -> 2
      [] OTHER -> 3

\* The tools of a chain come later and later.
ChainRises ==
    /\ \A i \in DOMAIN chain : Rank(chain[i]) >= i - 1
    /\ \A i, j \in DOMAIN chain : i < j => Rank(chain[i]) < Rank(chain[j])
    /\ plpc = "tool" =>
          /\ Len(chain) <= Rank(plan.tool)
          /\ \A i \in DOMAIN chain : Rank(chain[i]) < Rank(plan.tool)
    /\ Len(chain) <= 4

PlannerInv == PlannerTypeOK /\ PlanningStages /\ ChainRises /\ FirstToolIsFair

\* A tool has one of four ranks.
LEMMA Ranks == \A t : Rank(t) \in 0..3
  BY DEF Rank

\* What follows a tool has a higher rank, and is one of the tools there are.
LEMMA FollowsLater ==
    ASSUME NEW t, NEW passed, NEW asked, NEW next \in planAfterTool(t, passed, asked)
    PROVE  next \in PlanTools \cup {NoName} /\ (next # NoName => Rank(t) < Rank(next))
<1>1. CASE next = NoName
  BY <1>1
<1>2. CASE next # NoName
  BY <1>2 DEF planAfterTool, Rank, PlanTools, NoName
<1> QED  BY <1>1, <1>2

\* A compiled plan proposes a valid tool or ends planning.
LEMMA Compiled ==
    ASSUME NEW p, NEW source, compileValid(p, source)
    PROVE  /\ attempts' = 0
           /\ \/ /\ plan' \in {Decided("clarify"), Decided("runner"), Decided("capability_limitation")}
                 /\ plpc' = "end"
              \/ /\ p.decision = "tool" /\ validateStep(p.step)
                 /\ RequireLLM(config) => source \in {"semantic_llm", "explicit_tool"}
                 /\ plan' = Proposed(p.step.tool, p.step.quoted) /\ plpc' = "tool"
<1>1. attempts' = 0 /\ plpc' = IF plan'.decision = "tool" THEN "tool" ELSE "end"
  BY DEF compileValid
<1>2. CASE plan' \in {Decided("clarify"), Decided("runner"), Decided("capability_limitation")}
  BY <1>1, <1>2 DEF Decided
<1>3. CASE plan' \notin {Decided("clarify"), Decided("runner"), Decided("capability_limitation")}
  <2>1. /\ p.decision = "tool" /\ validateStep(p.step)
        /\ RequireLLM(config) => source \in {"semantic_llm", "explicit_tool"}
        /\ plan' = Proposed(p.step.tool, p.step.quoted)
    BY <1>3 DEF compileValid
  <2> QED  BY <1>1, <2>1 DEF Proposed
<1> QED  BY <1>2, <1>3

\* The same, of a plan made from the candidates: it is the first of them.
LEMMA FirstCandidate ==
    ASSUME NEW tools \in Seq(CatalogTools), NEW source, PlanFromCandidates(tools, source)
    PROVE  /\ attempts' = 0
           /\ \/ /\ plan' \in {Decided("clarify"), Decided("runner"), Decided("capability_limitation")}
                 /\ plpc' = "end"
              \/ \E step \in PlanStep :
                    /\ validateStep(step) /\ tools # <<>> /\ step.tool = Head(tools)
                    /\ RequireLLM(config) => source \in {"semantic_llm", "explicit_tool"}
                    /\ plan' = Proposed(step.tool, step.quoted) /\ plpc' = "tool"
<1>1. CASE tools = <<>>
  BY <1>1, Compiled DEF PlanFromCandidates, Clarify
<1>2. CASE tools # <<>>
  <2>1. PICK sound \in BOOLEAN, quoted \in BOOLEAN :
           compileValid([decision |-> "tool", rest |-> TRUE,
                         step |-> [tool |-> Head(tools), sound |-> sound, quoted |-> quoted]],
                        source)
    BY <1>2 DEF PlanFromCandidates
  <2> DEFINE step == [tool |-> Head(tools), sound |-> sound, quoted |-> quoted]
             p == [decision |-> "tool", rest |-> TRUE, step |-> step]
  <2>2. step \in PlanStep /\ p.step = step /\ p.decision = "tool" /\ step.tool = Head(tools)
    BY <1>2 DEF PlanStep
  <2>3. compileValid(p, source)
    BY <2>1
  <2> HIDE DEF step, p
  <2> QED  BY <1>2, <2>2, <2>3, Compiled
<1> QED  BY <1>1, <1>2

\* What is proposed or answered has the type of a plan.
LEMMA PlanShapes ==
    /\ \A d \in Decisions : Decided(d) \in [decision : Decisions, tool : PlanTools \cup {NoName}, quoted : BOOLEAN]
    /\ \A t \in PlanTools, b \in BOOLEAN :
          Proposed(t, b) \in [decision : Decisions, tool : PlanTools \cup {NoName}, quoted : BOOLEAN]
    /\ \A d : Decided(d).decision = d
    /\ \A t, b : Proposed(t, b).decision = "tool" /\ Proposed(t, b).tool = t /\ Proposed(t, b).quoted = b
  BY DEF Decided, Proposed, Decisions

\* Where a route leads, and with what plan.
LEMMA RouteLeads ==
    ASSUME PlannerTypeOK, NEW r \in {"direct_answer", "tool_needed", "clarify"}, Routed(r)
    PROVE  /\ route' = r /\ attempts' = 0
           /\ \/ plpc' = "select" /\ r = "tool_needed" /\ plan' = plan
              \/ plpc' = "end" /\ plan' \in {Decided("runner"), Decided("clarify")}
  BY DEF Routed


\* The bounds are natural numbers, and there is a configuration.
LEMMA PlannerConstants ==
    /\ RouterRetries \in Nat /\ PlanRetries \in Nat /\ TopK \in Nat
    /\ \E c \in PlannerConfigs : TRUE
    /\ Catalog \in Seq(CatalogTools)
  BY PlannerAssumption DEF CatalogTools


\* What comes of a choice: an answer, a tool that is valid and in strict mode
\* the user's or the model's, or another call of the model.
LEMMA Chosen ==
    ASSUME PlannerTypeOK, Choose \/ PlanReply
    PROVE  /\ UNCHANGED <<config, message, route, candidates, wants, chain>>
           /\ named' \in CatalogTools \cup {Foreign, NoName}
           /\ \/ /\ \E d \in {"clarify", "runner", "capability_limitation", "failed"} : plan' = Decided(d)
                 /\ plpc' = "end" /\ attempts' = 0
              \/ \E step \in PlanStep :
                    /\ validateStep(step)
                    /\ Strict(config) => step.tool \in {message.explicit, named'}
                    /\ plan' = Proposed(step.tool, step.quoted) /\ plpc' = "tool" /\ attempts' = 0
              \/ /\ plpc' = "plan" /\ plan' = plan
                 /\ \/ Choose /\ attempts' = attempts
                    \/ PlanReply /\ attempts < PlanRetries /\ attempts' = attempts + 1
<1> DEFINE Answered == /\ \E d \in {"clarify", "runner", "capability_limitation", "failed"} : plan' = Decided(d)
                       /\ plpc' = "end" /\ attempts' = 0
           Picked == \E step \in PlanStep :
                    /\ validateStep(step)
                    /\ Strict(config) => step.tool \in {message.explicit, named'}
                    /\ plan' = Proposed(step.tool, step.quoted) /\ plpc' = "tool" /\ attempts' = 0
           AskAgain == /\ plpc' = "plan" /\ plan' = plan
                       /\ \/ Choose /\ attempts' = attempts
                          \/ PlanReply /\ attempts < PlanRetries /\ attempts' = attempts + 1
<1>0. named \in CatalogTools \cup {Foreign, NoName} /\ candidates \in Seq(CatalogTools)
  BY DEF PlannerTypeOK
<1>a. ASSUME NEW p, NEW source, compileValid(p, source), p.decision # "tool" PROVE Answered
  BY <1>a, Compiled
<1>b. ASSUME NEW source, PlanFromCandidates(candidates, source), ~Strict(config) PROVE Answered \/ Picked
  BY <1>0, <1>b, FirstCandidate
<1>1. CASE Choose
  <2>1. UNCHANGED <<config, message, route, candidates, wants, chain, named>> /\ plpc = "choose"
    BY <1>1 DEF Choose, plannerHistory
  <2>2. CASE message.explicit # NoName
    <3>1. PlanFromCandidates(explicitCandidates(candidates), "explicit_tool")
      BY <1>1, <2>2 DEF Choose
    <3>2. /\ explicitCandidates(candidates) \in Seq(CatalogTools)
          /\ explicitCandidates(candidates) # <<>> => Head(explicitCandidates(candidates)) = message.explicit
      BY <1>0 DEF explicitCandidates, ToSet
    <3>3. Answered \/ Picked
      BY <3>1, <3>2, FirstCandidate
    <3> QED  BY <1>0, <2>1, <3>3
  <2>3. CASE message.explicit = NoName
    <3>1. \/ plpc' = "plan" /\ UNCHANGED <<attempts, plan>>
          \/ AllowFallback(config) /\ PlanFromCandidates(candidates, "candidate_fallback")
          \/ compileValid(Clarify, "clarify")
      BY <1>1, <2>3 DEF Choose
    <3>2. Answered \/ Picked \/ AskAgain
      BY <1>1, <1>a, <1>b, <3>1 DEF AllowFallback, Strict, Clarify
    <3> QED  BY <1>0, <2>1, <3>2
  <2> QED  BY <2>2, <2>3
<1>2. CASE PlanReply
  <2>1. UNCHANGED <<config, message, route, candidates, wants, chain>> /\ plpc = "plan"
    BY <1>2 DEF PlanReply
  <2>2. \/ \E p \in ToolPlans : named' = p.step.tool /\ compileValid(p, "semantic_llm")
        \/ \E p \in OtherPlans : compileValid(p, "semantic_llm") /\ UNCHANGED named
        \/ /\ attempts < PlanRetries /\ attempts' = attempts + 1
           /\ UNCHANGED <<plpc, plan, named>>
        \/ /\ UNCHANGED named
           /\ \/ AllowFallback(config) /\ PlanFromCandidates(candidates, "candidate_fallback")
              \/ compileValid(Clarify, "tool_planner_unavailable")
        \/ PlanFails /\ UNCHANGED named
    BY <1>2 DEF PlanReply
  <2>3. CASE \E p \in ToolPlans : named' = p.step.tool /\ compileValid(p, "semantic_llm")
    <3>1. PICK p \in ToolPlans : named' = p.step.tool /\ compileValid(p, "semantic_llm")
      BY <2>3
    <3>2. p.step \in PlanStep
      BY DEF ToolPlans
    <3>3. named' \in CatalogTools \cup {Foreign, NoName}
      BY <3>1, <3>2 DEF PlanStep
    <3>4. Answered \/ Picked
      BY <3>1, <3>2, Compiled
    <3> QED  BY <2>1, <3>3, <3>4
  <2>4. CASE \E p \in OtherPlans : compileValid(p, "semantic_llm") /\ UNCHANGED named
    <3>1. PICK p \in OtherPlans : compileValid(p, "semantic_llm") /\ UNCHANGED named
      BY <2>4
    <3>2. p.decision # "tool"
      BY DEF OtherPlans
    <3> QED  BY <1>0, <1>a, <2>1, <3>1, <3>2
  <2>5. CASE /\ attempts < PlanRetries /\ attempts' = attempts + 1
             /\ UNCHANGED <<plpc, plan, named>>
    BY <1>0, <1>2, <2>1, <2>5
  <2>6. CASE /\ UNCHANGED named
             /\ \/ AllowFallback(config) /\ PlanFromCandidates(candidates, "candidate_fallback")
                \/ compileValid(Clarify, "tool_planner_unavailable")
    <3>1. Answered \/ Picked
      BY <1>a, <1>b, <2>6 DEF AllowFallback, Strict, Clarify
    <3> QED  BY <1>0, <2>1, <2>6, <3>1
  <2>7. CASE PlanFails /\ UNCHANGED named
    BY <1>0, <2>1, <2>7 DEF PlanFails
  <2> QED  BY <2>2, <2>3, <2>4, <2>5, <2>6, <2>7
<1> QED  BY <1>1, <1>2

\* The candidates are tools of the catalog.
LEMMA CandidatesAreTools == Selection \subseteq Seq(CatalogTools)
<1>1. Catalog \in Seq(CatalogTools) /\ <<>> \in Seq(CatalogTools)
  BY PlannerConstants
<1>2. {IF message.explicit \in CatalogTools THEN <<message.explicit>> ELSE <<>>} \subseteq Seq(CatalogTools)
  OBVIOUS
<1>3. \A n \in 1..TopK : [1..n -> CatalogTools] \subseteq Seq(CatalogTools)
  BY PlannerConstants
<1>4. UNION {[1..n -> CatalogTools] : n \in 1..TopK} \subseteq Seq(CatalogTools)
  BY <1>3
<1> QED  BY <1>1, <1>2, <1>4 DEF Selection

\* What comes after a tool: a later one, or the end.
LEMMA NextTool ==
    ASSUME AfterTool
    PROVE  \/ plan' = Decided("stop") /\ plpc' = "end"
           \/ \E next \in PlanTools :
                 /\ plan' \in [decision : {"tool"}, tool : PlanTools, quoted : BOOLEAN]
                 /\ plan'.decision = "tool" /\ plan'.tool = next /\ plpc' = "tool"
                 /\ Rank(plan.tool) < Rank(next)
<1>1. PICK passed \in BOOLEAN : \E next \in planAfterTool(plan.tool, passed, wants') :
         IF next = NoName THEN plan' = Decided("stop") /\ plpc' = "end"
         ELSE plan' = Proposed(next, FALSE) /\ UNCHANGED plpc
  BY DEF AfterTool
<1> DEFINE asked == wants'
<1>2. PICK next \in planAfterTool(plan.tool, passed, asked) :
         IF next = NoName THEN plan' = Decided("stop") /\ plpc' = "end"
         ELSE plan' = Proposed(next, FALSE) /\ UNCHANGED plpc
  BY <1>1
<1> HIDE DEF asked
<1>3. next \in PlanTools \cup {NoName} /\ (next # NoName => Rank(plan.tool) < Rank(next))
  BY FollowsLater
<1>4. \A t \in PlanTools : /\ Proposed(t, FALSE) \in [decision : {"tool"}, tool : PlanTools, quoted : BOOLEAN]
                           /\ Proposed(t, FALSE).decision = "tool" /\ Proposed(t, FALSE).tool = t
  BY DEF Proposed
<1> QED  BY <1>2, <1>3, <1>4 DEF AfterTool

\* The variables of the planner keep their types.
LEMMA PlannerTypes == ASSUME PlannerInv, PlannerNext PROVE PlannerTypeOK'
<1> USE PlannerConstants
<1> DEFINE Plans == [decision : Decisions, tool : PlanTools \cup {NoName}, quoted : BOOLEAN]
<1>0. /\ PlannerTypeOK /\ PlanningStages /\ attempts \in Nat /\ modelCalls \in Nat /\ plan \in Plans
  BY DEF PlannerInv, PlannerTypeOK
<1> HIDE DEF Plans
<1>1. CASE AskPlanner
  <2>1. Lightweight(message') \in {"direct_answer", "tool_needed", "clarify"}
    BY DEF Lightweight
  <2>2. /\ attempts' \in 0..(RouterRetries + PlanRetries) /\ plan' \in Plans
        /\ route' \in {"none", "direct_answer", "tool_needed", "clarify"}
        /\ plpc' \in {"route", "select", "end"}
    BY <1>0, <1>1, <2>1, PlanShapes, RouteLeads DEF AskPlanner, PlannerTypeOK, Plans, Decisions
  <2> QED  BY <1>0, <1>1, <2>2 DEF AskPlanner, PlannerTypeOK, plannerHistory, Plans
<1>2. CASE RouteReply
  <2>1. Lightweight(message) \in {"direct_answer", "tool_needed", "clarify"}
    BY DEF Lightweight
  <2>2. /\ attempts' \in 0..(RouterRetries + PlanRetries) /\ plan' \in Plans
        /\ route' \in {"none", "direct_answer", "tool_needed", "clarify"}
        /\ plpc' \in {"route", "select", "end"}
    BY <1>0, <1>2, <2>1, PlanShapes, RouteLeads DEF RouteReply, PlannerTypeOK, Plans, Decisions
  <2> QED  BY <1>0, <1>2, <2>2 DEF RouteReply, PlannerTypeOK, Plans
<1>3. CASE selectCandidates
  BY <1>0, <1>3, CandidatesAreTools DEF selectCandidates, PlannerTypeOK, plannerHistory
<1>4. CASE Choose \/ PlanReply
  <2>1. modelCalls' \in Nat
    BY <1>0, <1>4 DEF Choose, PlanReply, plannerHistory
  <2>2. plan' \in Plans
    <3>1. \A step \in PlanStep : validateStep(step) => step.tool \in PlanTools /\ step.quoted \in BOOLEAN
      BY DEF validateStep, PlanStep, PlanTools
    <3> QED  BY <1>0, <1>4, <3>1, Chosen, PlanShapes DEF Plans, Decisions
  <2>3. attempts' \in 0..(RouterRetries + PlanRetries)
    BY <1>0, <1>4, Chosen DEF PlannerTypeOK
  <2>4. plpc' \in {"tool", "plan", "end"}
    BY <1>0, <1>4, Chosen
  <2> QED  BY <1>0, <1>4, <2>1, <2>2, <2>3, <2>4, Chosen DEF PlannerTypeOK, Plans
<1>5. CASE AfterTool
  <2>1. plan.decision = "tool" /\ plpc = "tool"
    BY <1>0, <1>5 DEF AfterTool, PlanningStages
  <2>2. plan.tool \in PlanTools
    BY <1>0, <2>1 DEF PlanningStages
  <2>3. chain' \in Seq(PlanTools)
    BY <1>0, <1>5, <2>2 DEF AfterTool, PlannerTypeOK
  <2>4. plan' \in Plans /\ plpc' \in {"tool", "end"}
    BY <1>0, <1>5, NextTool, PlanShapes DEF Plans, Decisions, PlanningStages
  <2>5. wants' \subseteq {"tests", "apply", "validate", "execute"}
    BY <1>0, <1>5 DEF AfterTool, PlannerTypeOK
  <2> QED  BY <1>0, <1>5, <2>3, <2>4, <2>5 DEF AfterTool, PlannerTypeOK, Plans
<1> QED  BY <1>1, <1>2, <1>3, <1>4, <1>5 DEF PlannerNext

\* Planning goes from stage to stage, and asks the model a bounded number of
\* times at each.
LEMMA StagesStep == ASSUME PlannerInv, PlannerNext PROVE PlanningStages'
<1> USE PlannerConstants
<1>0. /\ PlannerTypeOK /\ PlanningStages /\ attempts \in Nat /\ modelCalls \in Nat
  BY DEF PlannerInv, PlannerTypeOK
<1>1. CASE AskPlanner
  <2>1. Lightweight(message') \in {"direct_answer", "tool_needed", "clarify"}
    BY DEF Lightweight
  <2> QED  BY <1>0, <1>1, <2>1, PlanShapes, RouteLeads DEF AskPlanner, PlanningStages, plannerHistory
<1>2. CASE RouteReply
  <2>1. Lightweight(message) \in {"direct_answer", "tool_needed", "clarify"}
    BY DEF Lightweight
  <2> QED  BY <1>0, <1>2, <2>1, PlanShapes, RouteLeads DEF RouteReply, PlanningStages
<1>3. CASE selectCandidates
  BY <1>0, <1>3 DEF selectCandidates, PlanningStages, plannerHistory
<1>4. CASE Choose \/ PlanReply
  <2>1. \A step \in PlanStep : validateStep(step) => step.tool \in PlanTools
    BY DEF validateStep, PlanTools
  <2>2. \/ Choose /\ plpc = "choose" /\ modelCalls' = modelCalls
        \/ PlanReply /\ plpc = "plan" /\ modelCalls' = modelCalls + 1
    BY <1>4 DEF Choose, PlanReply, plannerHistory
  <2>3. /\ UNCHANGED <<route, chain>> /\ chain = <<>> /\ route = "tool_needed"
        /\ plan.decision # "tool" /\ (attempts = 0 \/ plpc = "plan")
    BY <1>0, <1>4, <2>2, Chosen DEF PlanningStages
  <2>4. \/ plan'.decision # "tool" /\ plpc' = "end" /\ attempts' = 0
        \/ plan'.decision = "tool" /\ plan'.tool \in PlanTools /\ plpc' = "tool" /\ attempts' = 0
        \/ /\ plan' = plan /\ plpc' = "plan"
           /\ \/ Choose /\ attempts' = attempts
              \/ PlanReply /\ attempts < PlanRetries /\ attempts' = attempts + 1
    BY <1>0, <1>4, <2>1, Chosen DEF Decided, Proposed
  <2>5. (Choose => plpc = "choose") /\ (PlanReply => plpc = "plan")
    BY DEF Choose, PlanReply
  <2> QED  BY <1>0, <2>2, <2>3, <2>4, <2>5 DEF PlanningStages
<1>5. CASE AfterTool
  <2>1. \/ plan'.decision # "tool" /\ plpc' = "end"
        \/ plan'.decision = "tool" /\ plan'.tool \in PlanTools /\ plpc' = "tool"
    BY <1>5, NextTool DEF Decided
  <2>2. UNCHANGED <<attempts, modelCalls>> /\ plpc = "tool"
    BY <1>5 DEF AfterTool
  <2> QED  BY <1>0, <2>1, <2>2 DEF PlanningStages
<1> QED  BY <1>1, <1>2, <1>3, <1>4, <1>5 DEF PlannerNext

\* A chain grows by a tool that is later than the ones in it.
LEMMA ChainStep == ASSUME PlannerInv, PlannerNext PROVE ChainRises'
<1>0. /\ PlannerTypeOK /\ PlanningStages /\ ChainRises /\ chain \in Seq(PlanTools)
  BY DEF PlannerInv, PlannerTypeOK
<1>1. CASE AskPlanner \/ RouteReply \/ selectCandidates \/ Choose \/ PlanReply
  <2>1. chain = <<>> /\ chain' = <<>>
    BY <1>0, <1>1 DEF AskPlanner, RouteReply, selectCandidates, Choose, PlanReply, plannerHistory, PlanningStages
  <2> DEFINE t == plan'.tool
  <2>2. Rank(t) \in 0..3
    BY Ranks
  <2> QED  BY <2>1, <2>2 DEF ChainRises
<1>2. CASE AfterTool
  <2>1. /\ plpc = "tool" /\ Len(chain) \in Nat /\ DOMAIN chain = 1..Len(chain)
        /\ chain' = Append(chain, plan.tool) /\ plan.tool \in PlanTools
    BY <1>0, <1>2 DEF AfterTool, PlanningStages
  <2>2. /\ Len(chain') = Len(chain) + 1 /\ DOMAIN chain' = 1..(Len(chain) + 1)
        /\ \A i \in 1..Len(chain) : chain'[i] = chain[i]
        /\ chain'[Len(chain) + 1] = plan.tool
    BY <1>0, <2>1
  <2>3. /\ Len(chain) <= Rank(plan.tool) /\ Rank(plan.tool) \in 0..3
        /\ \A i \in 1..Len(chain) : Rank(chain[i]) < Rank(plan.tool) /\ Rank(chain[i]) \in 0..3
    BY <1>0, <2>1, Ranks DEF ChainRises
  <2>4. /\ \A i \in DOMAIN chain' : Rank(chain'[i]) >= i - 1 /\ Rank(chain'[i]) <= Rank(plan.tool)
                                    /\ Rank(chain'[i]) \in 0..3
        /\ \A i, j \in DOMAIN chain' : i < j => Rank(chain'[i]) < Rank(chain'[j])
        /\ Len(chain') <= 4
    BY <1>0, <2>1, <2>2, <2>3 DEF ChainRises
  <2>5. CASE plpc' # "tool"
    BY <2>4, <2>5 DEF ChainRises
  <2>6. CASE plpc' = "tool"
    <3>1. PICK next \in PlanTools : plan'.tool = next /\ Rank(plan.tool) < Rank(next)
      BY <1>2, <2>6, NextTool, PlanShapes
    <3>2. plan'.tool = next /\ Rank(next) \in 0..3
      BY <3>1, PlanShapes, Ranks
    <3>3. /\ Len(chain') <= Rank(plan'.tool)
          /\ \A i \in DOMAIN chain' : Rank(chain'[i]) < Rank(plan'.tool)
      <4>1. Rank(plan'.tool) = Rank(next)
        BY <3>2
      <4>2. Len(chain') <= Rank(next) /\ \A i \in DOMAIN chain' : Rank(chain'[i]) < Rank(next)
        BY <2>1, <2>2, <2>3, <2>4, <3>1, <3>2
      <4> QED  BY <4>1, <4>2
    <3> QED  BY <2>4, <3>3 DEF ChainRises
  <2> QED  BY <2>5, <2>6
<1> QED  BY <1>1, <1>2 DEF PlannerNext

\* The first tool is one that was validated, and in strict mode one that the
\* user or the model has named.
LEMMA FairStep == ASSUME PlannerInv, PlannerNext PROVE FirstToolIsFair'
<1>0. PlannerTypeOK /\ PlanningStages
  BY DEF PlannerInv
<1>1. CASE AskPlanner \/ RouteReply \/ selectCandidates
  <2>1. plpc' # "tool"
    BY <1>1 DEF AskPlanner, RouteReply, selectCandidates, Routed
  <2> QED  BY <2>1, StagesStep DEF PlanningStages, FirstToolIsFair, StrictChoice, ProposalAllowed
<1>2. CASE Choose \/ PlanReply
  <2>1. CASE plan'.decision # "tool"
    BY <2>1 DEF FirstToolIsFair, StrictChoice, ProposalAllowed
  <2>2. CASE plan'.decision = "tool"
    <3>1. plan.decision # "tool" /\ route = "tool_needed"
      BY <1>0, <1>2 DEF PlanningStages, Choose, PlanReply
    <3>2. PICK step \in PlanStep :
             /\ validateStep(step)
             /\ Strict(config) => step.tool \in {message.explicit, named'}
             /\ plan' = Proposed(step.tool, step.quoted)
      BY <1>0, <1>2, <2>2, <3>1, Chosen, PlanShapes
    <3>3. UNCHANGED <<config, message, route, candidates>>
      BY <1>0, <1>2, Chosen
    <3>4. StrictChoice'
      BY <3>2, <3>3, PlanShapes DEF StrictChoice, validateStep, Strict, PlanStep
    <3>5. ProposalAllowed'
      BY <3>1, <3>2, <3>3, PlanShapes DEF ProposalAllowed, validateStep, PlanStep
    <3> QED  BY <3>4, <3>5 DEF FirstToolIsFair
  <2> QED  BY <2>1, <2>2
<1>3. CASE AfterTool
  <2>1. chain' # <<>>
    BY <1>0, <1>3 DEF AfterTool, PlannerTypeOK, PlanningStages
  <2> QED  BY <2>1 DEF FirstToolIsFair, StrictChoice, ProposalAllowed
<1> QED  BY <1>1, <1>2, <1>3 DEF PlannerNext

\* Nothing has been planned to begin with.
LEMMA PlannerStart == ASSUME PlannerInit PROVE PlannerInv
<1> USE PlannerConstants DEF PlannerInit
<1>1. PlannerTypeOK
  <2>1. config \in PlannerConfigs /\ message \in Messages
    BY DEF Messages, NoMessage, NoName
  <2>2. candidates \in Seq(CatalogTools) /\ chain \in Seq(PlanTools) /\ 0 \in 0..(RouterRetries + PlanRetries)
    OBVIOUS
  <2> QED  BY <2>1, <2>2, PlanShapes DEF PlannerTypeOK, Decisions
<1>2. plan.decision = "none"
  BY DEF Decided
<1>3. PlanningStages /\ ChainRises /\ FirstToolIsFair
  BY <1>2 DEF PlanningStages, ChainRises, FirstToolIsFair, StrictChoice, ProposalAllowed
<1> QED  BY <1>1, <1>3 DEF PlannerInv

\* The inductive invariant of the planner, for any configurations, catalog and
\* limits.
THEOREM PlannerInvariant == PlannerSpec => []PlannerInv
<1>1. PlannerInv /\ [PlannerNext]_plannerVars => PlannerInv'
  <2>1. CASE PlannerNext
    BY <2>1, PlannerTypes, StagesStep, ChainStep, FairStep DEF PlannerInv
  <2>2. CASE UNCHANGED plannerVars
    BY <2>2 DEF plannerVars, plannerHistory, PlannerInv, PlannerTypeOK, PlanningStages, ChainRises,
           FirstToolIsFair, StrictChoice, ProposalAllowed
  <2> QED  BY <2>1, <2>2
<1> QED  BY <1>1, PlannerStart, PTL DEF PlannerSpec

\* The planning of a message begins with a fair tool, whatever the model answers
\* and however the candidates are scored, asks the model no more often than the
\* retries say, and runs no tool twice.
THEOREM PlanningHolds == PlannerSpec => []PlanningIsSound
<1>1. PlannerInv => PlanningIsSound
  <2> SUFFICES ASSUME PlannerInv PROVE IsInjective(chain)
    BY DEF PlannerInv, PlanningStages, ChainRises, PlanningIsSound, PlanningEnds
  <2>1. chain \in Seq(PlanTools) /\ \A i, j \in DOMAIN chain : i < j => Rank(chain[i]) < Rank(chain[j])
    BY DEF PlannerInv, PlannerTypeOK, ChainRises
  <2>2. \A i \in DOMAIN chain : Rank(chain[i]) \in 0..3
    BY Ranks
  <2> QED  BY <2>1, <2>2 DEF IsInjective
<1> QED  BY <1>1, PlannerInvariant, PTL

-----------------------------------------------------------------------------
(* The ops tools *)

OpsTypes ==
    /\ hosts \in [HostIds \cup {"local"} -> HostProfile \cup {NoHost}]
    /\ issued \subseteq HostIds \cup {"local"} /\ hostEdits \in 0..MaxHostEdits
    /\ oppc \in {"idle", "approval", "execute", "over"}
    /\ operation \in Operations \cup {NoOperation}
    /\ {ranAt, agreedAt} \subseteq Targets \cup {NoTarget, Here, Current}
    /\ hostMoved \in BOOLEAN

\* An operation that waits would run where it would have run when it was
\* proposed, unless the profile it names was changed.
WaitsWhereAgreed ==
    /\ oppc = "idle" => operation = NoOperation
    /\ oppc \in {"approval", "execute"} =>
          operation \in Operations /\ (agreedAt = Where(operation) \/ hostMoved)
    /\ ranAt # NoTarget => oppc = "over"

RunbookTypes ==
    /\ runbook \in [status : {"none", "dry_run", "routing", "paused_for_approval",
                              "completed", "failed"},
                    plan : Seq({"read", "restart", "none"}), limit : Nat,
                    results : Seq({"ran", "skipped", "denied", "rejected", "asked"})]
    /\ runbook.plan \in Runbooks \cup {<<>>}

\* A result for each step that was routed; a step that ran has been routed, and
\* only the last one may still ask, after which no other is routed.
RoutedInOrder ==
    /\ runbook.status = "none" => runbook.results = <<>>
    /\ Len(runbook.results) <= Len(runbook.plan) /\ Len(runbook.results) <= runbook.limit
    /\ stepsRun \subseteq 1..Len(runbook.results)
    /\ \A i \in 1..Len(runbook.results) :
          /\ runbook.results[i] = "ran" => i \in stepsRun
          /\ runbook.results[i] = "asked" =>
                i = Len(runbook.results) /\ runbook.status = "paused_for_approval"

OpsInv == OpsTypes /\ WaitsWhereAgreed /\ RunsWhereAgreed /\ RunbookTypes /\ RoutedInOrder

\* An operation runs at a target of its kind, or where the process is.
LEMMA WhereRuns ==
    ASSUME OpsTypes, NEW o \in Operations
    PROVE  /\ Where(o) \in Targets \cup {NoTarget, Here, Current}
           /\ Where(o) # NoTarget /\ o.provider = "ssh" => Where(o) \in Targets
           /\ o.provider = "k8s" => Where(o) \in Targets \cup {Current}
<1>1. /\ o.provider \in {"local", "docker", "ssh", "k8s"}
      /\ o.host \in HostIds \cup {"local"} /\ o.named \in Targets \cup {NoTarget}
  BY DEF Operations
<1>2. /\ hosts[o.host].ssh \in Targets \cup {NoTarget}
      /\ hosts[o.host].k8s \in Targets \cup {NoTarget}
  <2>1. hosts[o.host] \in HostProfile \cup {NoHost}
    BY <1>1 DEF OpsTypes
  <2> QED  BY <2>1 DEF HostProfile, NoHost
<1> QED  BY <1>1, <1>2 DEF Where, sshTarget, kubeSelectionArgs

\* No operation is not one of them.
LEMMA NoOperationIsNone == NoOperation \notin Operations
  BY DEF NoOperation, Operations

-----------------------------------------------------------------------------
\* An edited profile is a profile.
LEMMA ProfilesTyped ==
    ASSUME OpsTypes, NEW type \in {"", "local", "ssh", "docker", "k8s"},
           NEW ssh \in Targets \cup {NoTarget}, NEW k8s \in Targets \cup {NoTarget},
           NEW h \in issued, hosts[h] # NoHost
    PROVE  [type |-> IF type = "" THEN hosts[h].type ELSE type,
            ssh |-> IF ssh = NoTarget THEN hosts[h].ssh ELSE ssh,
            k8s |-> IF k8s = NoTarget THEN hosts[h].k8s ELSE k8s] \in HostProfile
<1>1. hosts[h] \in HostProfile
  BY DEF OpsTypes
<1> QED  BY <1>1 DEF HostProfile

\* A change of one profile moves no operation that does not name it.
LEMMA EditedWaits ==
    ASSUME OpsInv, NEW h \in HostIds \cup {"local"}, NEW p \in HostProfile \cup {NoHost},
           Edited(h), hosts' = [hosts EXCEPT ![h] = p],
           issued' \subseteq HostIds \cup {"local"}
    PROVE  OpsInv'
<1> USE DEF OpsInv
<1>1. OpsTypes'
  <2>1. hosts' \in [HostIds \cup {"local"} -> HostProfile \cup {NoHost}]
    BY DEF OpsTypes
  <2>2. hostEdits' \in 0..MaxHostEdits
    BY OpsAssumption DEF OpsTypes, Edited
  <2>3. hostMoved' \in BOOLEAN
    BY Zenon DEF OpsTypes, Edited
  <2> QED  BY <2>1, <2>2, <2>3 DEF OpsTypes, Edited
<1>2. WaitsWhereAgreed'
  <2>1. UNCHANGED <<oppc, operation, ranAt, agreedAt>>
    BY DEF Edited
  <2>2. ASSUME oppc \in {"approval", "execute"} PROVE agreedAt = Where(operation)' \/ hostMoved'
    <3>1. operation \in Operations /\ (agreedAt = Where(operation) \/ hostMoved)
      BY <2>2 DEF WaitsWhereAgreed
    <3>2. CASE operation.host = h
      BY <3>1, <3>2, NoOperationIsNone DEF Edited
    <3>3. CASE operation.host # h
      <4>1. operation.host \in HostIds \cup {"local"}
        BY <3>1 DEF Operations
      <4>2. hosts'[operation.host] = hosts[operation.host]
        BY <3>3, <4>1 DEF OpsTypes
      <4>3. Where(operation)' = Where(operation)
        BY <2>1, <4>2 DEF Where, sshTarget, kubeSelectionArgs
      <4>4. hostMoved => hostMoved'
        BY DEF Edited
      <4> QED  BY <3>1, <4>3, <4>4
    <3> QED  BY <3>2, <3>3
  <2> QED  BY <2>1, <2>2 DEF WaitsWhereAgreed
<1>3. RunsWhereAgreed'
  BY DEF RunsWhereAgreed, Edited
<1>4. RunbookTypes' /\ RoutedInOrder'
  BY DEF RunbookTypes, RoutedInOrder, Edited
<1> QED  BY <1>1, <1>2, <1>3, <1>4

\* A proposed operation waits for a decision, or runs where it was told to.
LEMMA ProposalWaits ==
    ASSUME OpsInv, NEW o \in Operations, ProposeOperation(o) PROVE OpsInv'
<1> USE DEF OpsInv
<1>1. Where(o) \in Targets \cup {NoTarget, Here, Current}
  BY WhereRuns
<1>2. Where(o)' = Where(o)
  BY DEF Where, sshTarget, kubeSelectionArgs, ProposeOperation
<1>3. ranAt = NoTarget /\ oppc = "idle"
  BY DEF ProposeOperation, WaitsWhereAgreed
<1>4. oppc' \in {"approval", "over", "execute"}
  BY DEF ProposeOperation
<1>5. OpsTypes'
  BY <1>1, <1>4 DEF OpsTypes, ProposeOperation
<1>6. WaitsWhereAgreed'
  BY <1>2, <1>3, <1>4 DEF WaitsWhereAgreed, ProposeOperation
<1>7. RunsWhereAgreed'
  BY <1>3 DEF RunsWhereAgreed, ProposeOperation
<1>8. RunbookTypes' /\ RoutedInOrder'
  BY DEF RunbookTypes, RoutedInOrder, ProposeOperation
<1> QED  BY <1>5, <1>6, <1>7, <1>8

\* A decision changes nothing about where an operation will run.
LEMMA DecisionWaits == ASSUME OpsInv, DecideOperation PROVE OpsInv'
<1> USE DEF OpsInv
<1>1. ranAt = NoTarget
  BY DEF DecideOperation, WaitsWhereAgreed
<1>2. Where(operation)' = Where(operation)
  BY DEF Where, sshTarget, kubeSelectionArgs, DecideOperation
<1>3. OpsTypes'
  BY DEF OpsTypes, DecideOperation
<1>4. WaitsWhereAgreed'
  BY <1>1, <1>2 DEF WaitsWhereAgreed, DecideOperation
<1>5. RunsWhereAgreed'
  BY <1>1 DEF RunsWhereAgreed, DecideOperation
<1>6. RunbookTypes' /\ RoutedInOrder'
  BY DEF RunbookTypes, RoutedInOrder, DecideOperation
<1> QED  BY <1>3, <1>4, <1>5, <1>6

\* An operation runs where it was agreed to, unless its host was edited.
LEMMA ExecutionAgreed == ASSUME OpsInv, ExecuteOperation PROVE OpsInv'
<1> USE DEF OpsInv
<1>1. operation \in Operations /\ (agreedAt = Where(operation) \/ hostMoved)
  BY DEF ExecuteOperation, WaitsWhereAgreed
<1>2. /\ ranAt' = Where(operation) /\ oppc' = "over"
      /\ UNCHANGED <<hosts, issued, hostEdits, operation, runbook, agreedAt, hostMoved, stepsRun>>
  BY DEF ExecuteOperation
<1>3. OpsTypes'
  BY <1>1, <1>2, WhereRuns DEF OpsTypes
<1>4. WaitsWhereAgreed'
  BY <1>2 DEF WaitsWhereAgreed
<1>5. RunsWhereAgreed'
  BY <1>1, <1>2, WhereRuns DEF RunsWhereAgreed
<1>6. RunbookTypes' /\ RoutedInOrder'
  BY <1>2 DEF RunbookTypes, RoutedInOrder
<1> QED  BY <1>3, <1>4, <1>5, <1>6

-----------------------------------------------------------------------------
RunbookInv == RunbookTypes /\ RoutedInOrder

\* A runbook begins with none of its steps routed.
LEMMA RunbookBegins ==
    ASSUME RunbookInv, NEW steps \in Runbooks, NEW limit \in StepLimits, NEW dryRun \in BOOLEAN,
           ExecuteRunbook(steps, limit, dryRun)
    PROVE  RunbookInv'
<1> USE DEF RunbookInv
<1>1. steps \in Seq({"read", "restart", "none"}) /\ limit \in Nat \ {0}
  BY OpsAssumption
<1>2. stepsRun = {} /\ stepsRun' = stepsRun
  BY DEF ExecuteRunbook, RoutedInOrder
<1>3. runbook' = [status |-> IF dryRun THEN "dry_run" ELSE "routing", plan |-> steps,
                  limit |-> limit, results |-> <<>>]
  BY DEF ExecuteRunbook
<1>4. RunbookTypes'
  BY <1>1, <1>3 DEF RunbookTypes
<1>5. Len(runbook'.results) = 0 /\ runbook'.results = <<>> /\ runbook'.limit \in Nat
      /\ Len(runbook'.plan) \in Nat
  BY <1>1, <1>3
<1> QED  BY <1>2, <1>4, <1>5 DEF RoutedInOrder

\* What one more result means.
LEMMA OneMoreResult ==
    ASSUME RunbookInv, RoutedSteps(runbook) < Len(runbook.plan),
           RoutedSteps(runbook) < runbook.limit, runbook.status = "routing",
           NEW result \in {"ran", "skipped", "denied", "asked"},
           NEW status \in {"routing", "paused_for_approval"},
           result = "asked" => status = "paused_for_approval",
           runbook' = [Recorded(result) EXCEPT !.status = status],
           stepsRun' = stepsRun \cup (IF result = "ran" THEN {RoutedSteps(runbook) + 1} ELSE {})
    PROVE  RunbookInv'
<1> USE DEF RunbookInv
<1> DEFINE n == Len(runbook.results)
           results_ == Append(runbook.results, result)
<1>1. runbook.results \in Seq({"ran", "skipped", "denied", "rejected", "asked"})
      /\ runbook.plan \in Seq({"read", "restart", "none"}) /\ runbook.limit \in Nat
  BY DEF RunbookTypes
<1>2. /\ results_ \in Seq({"ran", "skipped", "denied", "rejected", "asked"})
      /\ Len(results_) = n + 1 /\ results_[n + 1] = result
      /\ \A i \in 1..n : results_[i] = runbook.results[i]
  BY <1>1
<1>3. runbook' = [runbook EXCEPT !.results = results_, !.status = status]
  BY DEF Recorded, RunbookTypes
<1>4. /\ runbook'.results = results_ /\ runbook'.status = status
      /\ runbook'.plan = runbook.plan /\ runbook'.limit = runbook.limit
  BY <1>3 DEF RunbookTypes
<1> HIDE DEF results_
<1>5. RunbookTypes'
  BY <1>2, <1>3, <1>4 DEF RunbookTypes
<1>6. n \in Nat /\ n + 1 <= Len(runbook.plan) /\ n + 1 <= runbook.limit
  BY <1>1 DEF RoutedSteps
<1>7. stepsRun' \subseteq 1..(n + 1)
  BY <1>6 DEF RoutedInOrder, RoutedSteps
<1>8. ASSUME NEW i \in 1..(n + 1)
      PROVE  /\ results_[i] = "ran" => i \in stepsRun'
             /\ results_[i] = "asked" => i = n + 1 /\ status = "paused_for_approval"
  <2>1. CASE i = n + 1
    BY <1>2, <2>1 DEF RoutedSteps
  <2>2. CASE i \in 1..n
    BY <1>2, <2>2 DEF RoutedInOrder
  <2> QED  BY <1>6, <2>1, <2>2
<1> QED  BY <1>2, <1>4, <1>5, <1>6, <1>7, <1>8 DEF RoutedInOrder

\* A runbook routes the next of its steps.
LEMMA RunbookRoutes == ASSUME RunbookInv, RouteStep PROVE RunbookInv'
<1> USE DEF RunbookInv
<1> DEFINE n == RoutedSteps(runbook) + 1
<1>1. /\ runbook.status = "routing"
      /\ RoutedSteps(runbook) < Len(runbook.plan) /\ RoutedSteps(runbook) < runbook.limit
  BY DEF RouteStep
<1>2. runbook.plan[n] \in {"read", "restart", "none"}
  <2>1. runbook.results \in Seq({"ran", "skipped", "denied", "rejected", "asked"})
        /\ runbook.plan \in Seq({"read", "restart", "none"})
    BY DEF RunbookTypes
  <2>2. n \in 1..Len(runbook.plan)
    BY <1>1, <2>1 DEF RoutedSteps
  <2> QED  BY <2>1, <2>2
<1>3. \A r \in {"ran", "skipped", "denied"} : Recorded(r) = [Recorded(r) EXCEPT !.status = "routing"]
  BY <1>1 DEF Recorded, RunbookTypes
<1> HIDE DEF n
<1>4. CASE runbook.plan[n] = "none"
  <2>1. runbook' = Recorded("skipped") /\ stepsRun' = stepsRun
    BY <1>4 DEF RouteStep, n
  <2> QED  BY <1>1, <1>3, <2>1, OneMoreResult
<1>5. CASE runbook.plan[n] = "read"
  <2>1. \/ runbook' = Recorded("ran") /\ stepsRun' = stepsRun \cup {n}
        \/ runbook' = [runbook EXCEPT !.status = "failed"] /\ stepsRun' = stepsRun
    BY <1>5 DEF RouteStep, n
  <2>2. CASE runbook' = Recorded("ran") /\ stepsRun' = stepsRun \cup {n}
    BY <1>1, <1>3, <2>2, OneMoreResult DEF n
  <2>3. CASE runbook' = [runbook EXCEPT !.status = "failed"] /\ stepsRun' = stepsRun
    BY <1>1, <2>3 DEF RunbookTypes, RoutedInOrder
  <2> QED  BY <2>1, <2>2, <2>3
<1>6. CASE runbook.plan[n] = "restart"
  <2>1. \/ runbook' = PauseAt(Recorded("asked")) /\ stepsRun' = stepsRun
        \/ runbook' = Recorded("denied") /\ stepsRun' = stepsRun
    BY <1>6 DEF RouteStep, n
  <2>2. CASE runbook' = PauseAt(Recorded("asked")) /\ stepsRun' = stepsRun
    BY <1>1, <2>2, OneMoreResult DEF PauseAt
  <2>3. CASE runbook' = Recorded("denied") /\ stepsRun' = stepsRun
    BY <1>1, <1>3, <2>3, OneMoreResult
  <2> QED  BY <2>1, <2>2, <2>3
<1> QED  BY <1>2, <1>4, <1>5, <1>6

\* A runbook is complete when there is nothing left to route.
LEMMA RunbookCompletes == ASSUME RunbookInv, CompleteRunbook PROVE RunbookInv'
<1>1. /\ runbook.status = "routing" /\ stepsRun' = stepsRun
      /\ runbook' = [runbook EXCEPT !.status = "completed"]
  BY DEF CompleteRunbook
<1> QED  BY <1>1 DEF RunbookInv, RunbookTypes, RoutedInOrder

\* A step that was asked about runs, or is rejected.
LEMMA StepDecided ==
    ASSUME RunbookInv, NEW n \in DOMAIN runbook.results, DecideStep(n) PROVE RunbookInv'
<1> USE DEF RunbookInv
<1> DEFINE old == runbook.results
<1>1. old \in Seq({"ran", "skipped", "denied", "rejected", "asked"}) /\ n \in 1..Len(old)
  BY DEF RunbookTypes
<1>2. PICK r \in {"ran", "rejected"} :
         /\ runbook' = [runbook EXCEPT !.results[n] = r]
         /\ stepsRun' = stepsRun \cup (IF r = "ran" THEN {n} ELSE {})
  <2>1. \/ runbook' = [runbook EXCEPT !.results[n] = "ran"] /\ stepsRun' = stepsRun \cup {n}
        \/ runbook' = [runbook EXCEPT !.results[n] = "rejected"] /\ stepsRun' = stepsRun
    BY DEF DecideStep
  <2> QED  BY <2>1
<1> DEFINE new == [old EXCEPT ![n] = r]
<1>3. /\ new \in Seq({"ran", "skipped", "denied", "rejected", "asked"})
      /\ Len(new) = Len(old) /\ new[n] = r
      /\ \A i \in 1..Len(old) : i # n => new[i] = old[i]
  BY <1>1
<1>4. /\ runbook' = [runbook EXCEPT !.results = new]
      /\ runbook'.results = new /\ runbook'.status = runbook.status
      /\ runbook'.plan = runbook.plan /\ runbook'.limit = runbook.limit
  BY <1>2 DEF RunbookTypes
<1> HIDE DEF new
<1>5. RunbookTypes'
  BY <1>3, <1>4 DEF RunbookTypes
<1>6. runbook.status # "none"
  BY <1>1 DEF RoutedInOrder
<1>7. stepsRun' \subseteq 1..Len(old)
  BY <1>1, <1>2 DEF RoutedInOrder
<1>8. ASSUME NEW i \in 1..Len(old)
      PROVE  /\ new[i] = "ran" => i \in stepsRun'
             /\ new[i] = "asked" => i = Len(old) /\ runbook.status = "paused_for_approval"
  <2>1. CASE i = n
    BY <1>2, <1>3, <2>1
  <2>2. CASE i # n
    BY <1>2, <1>3, <2>2 DEF RoutedInOrder
  <2> QED  BY <2>1, <2>2
<1>9. Len(old) <= Len(runbook.plan) /\ Len(old) <= runbook.limit
  BY DEF RoutedInOrder
<1> QED  BY <1>3, <1>4, <1>5, <1>6, <1>7, <1>8, <1>9 DEF RoutedInOrder

-----------------------------------------------------------------------------
\* Every step of the ops tools keeps the invariant.
LEMMA OpsStep == ASSUME OpsInv, [OpsNext]_opsVars PROVE OpsInv'
<1> USE DEF OpsInv
<1>1. ASSUME NEW h \in HostIds, NEW p \in HostProfile, CreateHost(h, p) PROVE OpsInv'
  <2>1. issued' \subseteq HostIds \cup {"local"}
    BY <1>1 DEF CreateHost, OpsTypes
  <2> QED  BY <1>1, <2>1, EditedWaits DEF CreateHost
<1>2. ASSUME NEW h \in issued, NEW type \in {"", "local", "ssh", "docker", "k8s"},
             NEW s \in Targets \cup {NoTarget}, NEW k \in Targets \cup {NoTarget},
             UpdateHost(h, type, s, k)
      PROVE  OpsInv'
  <2> DEFINE new == [type |-> IF type = "" THEN hosts[h].type ELSE type,
                     ssh |-> IF s = NoTarget THEN hosts[h].ssh ELSE s,
                     k8s |-> IF k = NoTarget THEN hosts[h].k8s ELSE k]
  <2>1. /\ hosts[h] # NoHost /\ Edited(h) /\ hosts' = [hosts EXCEPT ![h] = new]
        /\ issued' = issued
    BY <1>2 DEF UpdateHost
  <2>2. new \in HostProfile
    BY <2>1, ProfilesTyped
  <2> HIDE DEF new
  <2>3. h \in HostIds \cup {"local"} /\ issued' \subseteq HostIds \cup {"local"}
    BY <2>1 DEF OpsTypes
  <2> QED  BY <2>1, <2>2, <2>3, EditedWaits
<1>3. ASSUME NEW h \in issued, DeleteHost(h) PROVE OpsInv'
  <2>1. h \in HostIds \cup {"local"} /\ issued' \subseteq HostIds \cup {"local"}
    BY <1>3 DEF DeleteHost, OpsTypes
  <2> QED  BY <1>3, <2>1, EditedWaits DEF DeleteHost
<1>4. ASSUME RunbookNext PROVE OpsInv'
  <2>1. RunbookInv'
    BY <1>4, RunbookBegins, RunbookRoutes, RunbookCompletes, StepDecided DEF RunbookNext, RunbookInv
  <2>2. UNCHANGED <<hosts, issued, hostEdits, oppc, operation, ranAt, agreedAt, hostMoved>>
    BY <1>4 DEF RunbookNext, ExecuteRunbook, RouteStep, CompleteRunbook, DecideStep
  <2>3. Where(operation)' = Where(operation)
    BY <2>2 DEF Where, sshTarget, kubeSelectionArgs
  <2>4. OpsTypes' /\ WaitsWhereAgreed' /\ RunsWhereAgreed'
    BY <2>2, <2>3 DEF OpsTypes, WaitsWhereAgreed, RunsWhereAgreed
  <2> QED  BY <2>1, <2>4 DEF RunbookInv
<1>5. CASE UNCHANGED opsVars
  <2>1. Where(operation)' = Where(operation)
    BY <1>5 DEF Where, sshTarget, kubeSelectionArgs, opsVars
  <2> QED
    BY <1>5, <2>1 DEF opsVars, OpsTypes, WaitsWhereAgreed, RunsWhereAgreed, RunbookTypes, RoutedInOrder
<1> QED
  BY <1>1, <1>2, <1>3, <1>4, <1>5, ProposalWaits, DecisionWaits, ExecutionAgreed DEF OpsNext, HostNext

\* OpsInv holds of the ops tools.
THEOREM OpsInvariant == OpsSpec => []OpsInv
<1>1. OpsInit => OpsInv
  <2> SUFFICES ASSUME OpsInit PROVE OpsInv
    OBVIOUS
  <2>1. OpsTypes
    <3>1. hosts \in [HostIds \cup {"local"} -> HostProfile \cup {NoHost}]
      <4>1. [type |-> "local", ssh |-> NoTarget, k8s |-> NoTarget] \in HostProfile
        BY DEF HostProfile
      <4> QED  BY <4>1 DEF OpsInit
    <3>2. hostEdits \in 0..MaxHostEdits
      BY OpsAssumption DEF OpsInit
    <3> QED  BY <3>1, <3>2 DEF OpsInit, OpsTypes
  <2>2. WaitsWhereAgreed /\ RunsWhereAgreed
    BY DEF OpsInit, WaitsWhereAgreed, RunsWhereAgreed
  <2>3. RunbookTypes /\ RoutedInOrder
    BY DEF OpsInit, RunbookTypes, RoutedInOrder, NoRunbook
  <2> QED  BY <2>1, <2>2, <2>3 DEF OpsInv
<1> QED  BY <1>1, OpsStep, PTL DEF OpsSpec

\* What was agreed to is what is done, on the host it was agreed for and step
\* by step.
THEOREM OperationsAgreed == OpsSpec => []OpsAsAgreed
<1>1. OpsInv => OpsAsAgreed
  <2> SUFFICES ASSUME OpsInv PROVE StepsInOrder
    BY DEF OpsAsAgreed, OpsInv
  <2> SUFFICES ASSUME NEW n \in stepsRun
               PROVE  /\ n <= runbook.limit
                      /\ \A i \in 1..(n - 1) :
                            /\ runbook.results[i] \in {"ran", "skipped", "denied", "rejected"}
                            /\ runbook.results[i] = "ran" => i \in stepsRun
    BY DEF StepsInOrder
  <2>1. /\ runbook.results \in Seq({"ran", "skipped", "denied", "rejected", "asked"})
        /\ runbook.limit \in Nat
    BY DEF OpsInv, RunbookTypes
  <2>2. n \in 1..Len(runbook.results) /\ Len(runbook.results) <= runbook.limit
    BY DEF OpsInv, RoutedInOrder
  <2>3. ASSUME NEW i \in 1..(n - 1)
        PROVE  /\ runbook.results[i] \in {"ran", "skipped", "denied", "rejected"}
               /\ runbook.results[i] = "ran" => i \in stepsRun
    <3>1. i \in 1..Len(runbook.results) /\ i # Len(runbook.results)
      BY <2>1, <2>2
    <3>2. runbook.results[i] \in {"ran", "skipped", "denied", "rejected", "asked"}
      BY <2>1, <3>1
    <3> QED  BY <3>1, <3>2 DEF OpsInv, RoutedInOrder
  <2> QED  BY <2>1, <2>2, <2>3
<1> QED  BY <1>1, OpsInvariant, PTL

\* The variables of the ops tools have their types.
THEOREM OpsTyped == OpsSpec => []OpsTypeOK
<1>1. ASSUME OpsInv PROVE OpsTypeOK
  <2>1. Len(runbook.results) \in Nat /\ Len(runbook.plan) \in Nat
    BY <1>1 DEF OpsInv, RunbookTypes
  <2>2. 1..Len(runbook.results) \subseteq 1..Len(runbook.plan)
    BY <1>1, <2>1 DEF OpsInv, RoutedInOrder
  <2>3. runbook.status \in {"none", "dry_run", "routing", "paused_for_approval", "completed", "failed"}
    BY <1>1 DEF OpsInv, RunbookTypes
  <2> QED  BY <1>1, <2>2, <2>3 DEF OpsTypeOK, OpsInv, OpsTypes, RunbookTypes, RoutedInOrder
<1> QED  BY <1>1, OpsInvariant, PTL

=============================================================================
