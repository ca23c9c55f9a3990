--------------------------- MODULE Services_proofs ----------------------------
(***************************************************************************)
(* The composition of the services, MCServices: each behaviour of it is    *)
(* one of every service, so that what is proved of the services alone      *)
(* holds of them together, for every value of the constants.               *)
(***************************************************************************)
EXTENDS MCServices, Stores_proofs, Tools_proofs, Code_proofs

\* The gate: a step of the composition is one of its own, or none.
LEMMA GateAlone == ServicesSpec => GateSpec
<1>1. ServicesInit => GateInit
  BY DEF ServicesInit
<1>2. [ServicesNext]_<<ServicesVars, active>> => [GateNext]_gateVars
  BY DEF ServicesNext, ServicesVars, Others
<1> QED  BY <1>1, <1>2, PTL DEF ServicesSpec, GateSpec

\* The memory store: a step of the composition is one of its own, or none.
LEMMA MemAlone == ServicesSpec => MemSpec
<1>1. ServicesInit => MemInit
  BY DEF ServicesInit
<1>2. [ServicesNext]_<<ServicesVars, active>> => [MemNext]_memVars
  BY DEF ServicesNext, ServicesVars, Others
<1> QED  BY <1>1, <1>2, PTL DEF ServicesSpec, MemSpec

\* The memory documents: a step of the composition is one of their own, or none.
LEMMA DocAlone == ServicesSpec => DocSpec
<1>1. ServicesInit => DocInit
  BY DEF ServicesInit
<1>2. [ServicesNext]_<<ServicesVars, active>> => [DocNext]_docVars
  BY DEF ServicesNext, ServicesVars, Others
<1> QED  BY <1>1, <1>2, PTL DEF ServicesSpec, DocSpec

\* The skill manager: a step of the composition is one of its own, or none.
LEMMA SkillAlone == ServicesSpec => SkillSpec
<1>1. ServicesInit => SkillInit
  BY DEF ServicesInit
<1>2. [ServicesNext]_<<ServicesVars, active>> => [SkillNext]_skillVars
  BY DEF ServicesNext, ServicesVars, Others
<1> QED  BY <1>1, <1>2, PTL DEF ServicesSpec, SkillSpec

\* The diffs: a step of the composition is one of their own, or none.
LEMMA CodeDiffAlone == ServicesSpec => CodeDiffSpec
<1>1. ServicesInit => CodeDiffInit
  BY DEF ServicesInit
<1>2. [ServicesNext]_<<ServicesVars, active>> => [TakeDiff \/ ApplyHunk]_diffVars
  BY DEF ServicesNext, ServicesVars, Others
<1> QED  BY <1>1, <1>2, PTL DEF ServicesSpec, CodeDiffSpec

\* The patches: a step of the composition is one of their own, or none.
LEMMA PatchAlone == ServicesSpec => PatchSpec
<1>1. ServicesInit => PatchInit
  BY DEF ServicesInit
<1>2. [ServicesNext]_<<ServicesVars, active>> => [PatchNext]_patchVars
  BY DEF ServicesNext, ServicesVars, Others
<1> QED  BY <1>1, <1>2, PTL DEF ServicesSpec, PatchSpec

\* The planner: a step of the composition is one of its own, or none.
LEMMA PlannerAlone == ServicesSpec => PlannerSpec
<1>1. ServicesInit => PlannerInit
  BY DEF ServicesInit
<1>2. [ServicesNext]_<<ServicesVars, active>> => [PlannerNext]_plannerVars
  BY DEF ServicesNext, ServicesVars, Others
<1> QED  BY <1>1, <1>2, PTL DEF ServicesSpec, PlannerSpec

\* The evaluations: a step of the composition is one of their own, or none.
LEMMA EvalAlone == ServicesSpec => EvalSpec
<1>1. ServicesInit => EvalInit
  BY DEF ServicesInit
<1>2. [ServicesNext]_<<ServicesVars, active>> => [EvalNext]_evalVars
  BY DEF ServicesNext, ServicesVars, Others
<1> QED  BY <1>1, <1>2, PTL DEF ServicesSpec, EvalSpec

\* The hosts and the runbooks: a step of the composition is one of their own, or none.
LEMMA OpsAlone == ServicesSpec => OpsSpec
<1>1. ServicesInit => OpsInit
  BY DEF ServicesInit
<1>2. [ServicesNext]_<<ServicesVars, active>> => [OpsNext]_opsVars
  BY DEF ServicesNext, ServicesVars, Others, OpsNext
<1> QED  BY <1>1, <1>2, PTL DEF ServicesSpec, OpsSpec

\* The startup: a step of the composition is one of its own, or none.
LEMMA StartAlone == ServicesSpec => StartSpec
<1>1. ServicesInit => StartInit
  BY DEF ServicesInit
<1>2. [ServicesNext]_<<ServicesVars, active>> => [StartNext]_startVars
  BY DEF ServicesNext, ServicesVars, Others
<1> QED  BY <1>1, <1>2, PTL DEF ServicesSpec, StartSpec

\* The retrieval: a step of the composition is one of its own, or none.
LEMMA RetrievalAlone == ServicesSpec => RetrievalSpec
<1>1. ServicesInit => RetrievalInit
  BY DEF ServicesInit
<1>2. [ServicesNext]_<<ServicesVars, active>> => [RetrievalNext]_retrievalVars
  BY DEF ServicesNext, ServicesVars, Others
<1> QED  BY <1>1, <1>2, PTL DEF ServicesSpec, RetrievalSpec

\* The store of runs: a step of the composition is one of its own, or none.
LEMMA StoreAlone == ServicesSpec => StoreSpec
<1>1. ServicesInit => StoreInit
  BY DEF ServicesInit
<1>2. [ServicesNext]_<<ServicesVars, active>> => [StoreNext]_storeVars
  BY DEF ServicesNext, ServicesVars, Others
<1> QED  BY <1>1, <1>2, PTL DEF ServicesSpec, StoreSpec

\* The vector indexes: a step of the composition is one of their own, or none.
LEMMA VecAlone == ServicesSpec => VecSpec
<1>1. ServicesInit => VecInit
  BY DEF ServicesInit
<1>2. [ServicesNext]_<<ServicesVars, active>> => [VecNext]_vecVars
  BY DEF ServicesNext, ServicesVars, Others
<1> QED  BY <1>1, <1>2, PTL DEF ServicesSpec, VecSpec

\* The repair loop: a step of the composition is one of its own, or none.
LEMMA RepairAlone == ServicesSpec => RepairSpec
<1>1. ServicesInit => RepairInit
  BY DEF ServicesInit
<1>2. [ServicesNext]_<<ServicesVars, active>> => [RepairNext]_repairVars
  BY DEF ServicesNext, ServicesVars, Others
<1> QED  BY <1>1, <1>2, PTL DEF ServicesSpec, RepairSpec

\* The walks: a step of the composition is one of their own, or none.
LEMMA WorkspaceAlone == ServicesSpec => WorkspaceSpec
<1>1. ServicesInit => WorkspaceInit
  BY DEF ServicesInit
<1>2. [ServicesNext]_<<ServicesVars, active>> => [WorkspaceNext]_wsVars
  BY DEF ServicesNext, ServicesVars, Others
<1> QED  BY <1>1, <1>2, PTL DEF ServicesSpec, WorkspaceSpec

\* The git tools: a step of the composition is one of their own, or none.
LEMMA GitAlone == ServicesSpec => GitSpec
<1>1. ServicesInit => GitInit
  BY DEF ServicesInit
<1>2. [ServicesNext]_<<ServicesVars, active>> => [GitNext]_gitVars
  BY DEF ServicesNext, ServicesVars, Others
<1> QED  BY <1>1, <1>2, PTL DEF ServicesSpec, GitSpec

\* The skill runner: a step of the composition is one of its own, or none.
LEMMA RunnerAlone == ServicesSpec => RunnerSpec
<1>1. ServicesInit => RunnerInit
  BY DEF ServicesInit
<1>2. [ServicesNext]_<<ServicesVars, active>> => [RunnerNext]_runnerVars
  BY DEF ServicesNext, ServicesVars, Others
<1> QED  BY <1>1, <1>2, PTL DEF ServicesSpec, RunnerSpec

-----------------------------------------------------------------------------
\* The type invariant of the composition holds, whichever service is at work.
THEOREM ServicesTyped == ServicesSpec => []ServicesTypeOK
<1>1. ServicesSpec => []GateTypeOK
  BY GateAlone, GateTyped, PTL
<1>2. ServicesSpec => []MemTypeOK
  <2>1. MemInv => MemTypeOK
    BY DEF MemInv
  <2> QED  BY <2>1, MemAlone, MemInvariant, PTL
<1>3. ServicesSpec => []DocTypeOK
  BY DocAlone, DocumentTyped, PTL
<1>4. ServicesSpec => []SkillTypeOK
  <2>1. SkillInv => SkillTypeOK
    BY DEF SkillInv
  <2> QED  BY <2>1, SkillAlone, SkillInvariant, PTL
<1>5. ServicesSpec => []CodeDiffTypeOK
  BY CodeDiffAlone, DiffTyped, PTL
<1>6. ServicesSpec => []PatchTypeOK
  <2>1. PatchInv => PatchTypeOK
    BY DEF PatchInv
  <2> QED  BY <2>1, PatchAlone, PatchInvariant, PTL
<1>7. ServicesSpec => []PlannerTypeOK
  <2>1. PlannerInv => PlannerTypeOK
    BY DEF PlannerInv
  <2> QED  BY <2>1, PlannerAlone, PlannerInvariant, PTL
<1>8. ServicesSpec => []EvalTypeOK
  BY EvalAlone, EvalTyped, PTL
<1>9. ServicesSpec => []OpsTypeOK
  BY OpsAlone, OpsTyped, PTL
<1>10. ServicesSpec => []StartTypeOK
  <2>1. StartInv => StartTypeOK
    BY DEF StartInv
  <2> QED  BY <2>1, StartAlone, StartInvariant, PTL
<1>11. ServicesSpec => []RetrievalTypeOK
  BY RetrievalAlone, RetrievalTyped, PTL
<1>12. ServicesSpec => []StoreTypeOK
  BY StoreAlone, StoreTyped, PTL
<1>13. ServicesSpec => []VecTypeOK
  BY VecAlone, VecTyped, PTL
<1>14. ServicesSpec => []RepairTypeOK
  BY RepairAlone, RepairTyped, PTL
<1>15. ServicesSpec => []WorkspaceTypeOK
  BY WorkspaceAlone, WorkspaceTyped, PTL
<1>16. ServicesSpec => []GitTypeOK
  <2>1. GitInv => GitTypeOK
    BY DEF GitInv
  <2> QED  BY <2>1, GitAlone, GitInvariant, PTL
<1>17. ServicesSpec => []RunnerTypeOK
  <2>1. RunnerInv => RunnerTypeOK
    BY DEF RunnerInv
  <2> QED  BY <2>1, RunnerAlone, RunnerInvariant, PTL
<1>18. GateTypeOK /\ MemTypeOK /\ DocTypeOK /\ SkillTypeOK /\ CodeDiffTypeOK
         /\ PatchTypeOK /\ PlannerTypeOK /\ EvalTypeOK /\ OpsTypeOK /\ StartTypeOK
         /\ RetrievalTypeOK /\ StoreTypeOK /\ VecTypeOK /\ RepairTypeOK /\ WorkspaceTypeOK
         /\ GitTypeOK /\ RunnerTypeOK
     => ServicesTypeOK
  BY DEF ServicesTypeOK
<1> QED  BY <1>1, <1>2, <1>3, <1>4, <1>5, <1>6, <1>7, <1>8, <1>9, <1>10,
            <1>11, <1>12, <1>13, <1>14, <1>15, <1>16, <1>17, <1>18, PTL

\* What the services promise, together: the gate, the stores, the tools and the
\* checks of the code, as the run of MCServices checks them, in any number.
THEOREM ServicesKept ==
    ServicesSpec =>
        /\ []OnlyHarmlessRunsAlone /\ []SaidIsHeeded /\ []DeniedStaysDenied /\ []IsolatedOrAsked
        /\ []MemoryIsKept
        /\ []DocumentIsKept
        /\ []SkillsAreKept
        /\ []DiffLands
        /\ []PatchOutcome
        /\ []PlanningIsSound
        /\ []SuiteIsFaithful
        /\ []OpsAsAgreed
        /\ []StartIsSound
        /\ []AnswersAreGrounded
        /\ []RecordsAreKept
        /\ []IndexFollowsSources
        /\ []RepairIsSound
        /\ []WalksAreFaithful
        /\ []GitIsScoped
        /\ []RunEndsClean
<1>1. ServicesSpec => []OnlyHarmlessRunsAlone /\ []SaidIsHeeded /\ []DeniedStaysDenied /\ []IsolatedOrAsked
  BY GateAlone, HarmlessAlone, Heeded, DeniedForGood, Isolated
<1>2. ServicesSpec => []MemoryIsKept
  BY MemAlone, MemoryKept
<1>3. ServicesSpec => []DocumentIsKept
  BY DocAlone, DocumentsKept
<1>4. ServicesSpec => []SkillsAreKept
  BY SkillAlone, SkillsKept
<1>5. ServicesSpec => []DiffLands
  BY CodeDiffAlone, DiffsLand
<1>6. ServicesSpec => []PatchOutcome
  BY PatchAlone, PatchesAsReported
<1>7. ServicesSpec => []PlanningIsSound
  BY PlannerAlone, PlanningHolds
<1>8. ServicesSpec => []SuiteIsFaithful
  BY EvalAlone, SuitesAreFaithful
<1>9. ServicesSpec => []OpsAsAgreed
  BY OpsAlone, OperationsAgreed
<1>10. ServicesSpec => []StartIsSound
  BY StartAlone, StartsAreSound
<1>11. ServicesSpec => []AnswersAreGrounded
  BY RetrievalAlone, AnswersGrounded
<1>12. ServicesSpec => []RecordsAreKept
  BY StoreAlone, RecordsKept
<1>13. ServicesSpec => []IndexFollowsSources
  BY VecAlone, IndexFollows
<1>14. ServicesSpec => []RepairIsSound
  BY RepairAlone, RepairsSound
<1>15. ServicesSpec => []WalksAreFaithful
  BY WorkspaceAlone, WalksFaithful
<1>16. ServicesSpec => []GitIsScoped
  BY GitAlone, GitScoped
<1>17. ServicesSpec => []RunEndsClean
  BY RunnerAlone, RunsEndClean
<1> QED  BY <1>1, <1>2, <1>3, <1>4, <1>5, <1>6, <1>7, <1>8, <1>9, <1>10,
            <1>11, <1>12, <1>13, <1>14, <1>15, <1>16, <1>17

=============================================================================
