------------------------ MODULE KnowledgeBase_proofs ------------------------
(***************************************************************************)
(* The safety of KnowledgeBase for any number of requests, documents and   *)
(* contents: KnowledgeInv is inductive.                                    *)
(*                                                                         *)
(* A request changes only documents it works on, and puts what it changes  *)
(* in `disturbed' unless it has them to itself (Reach).  So what a request *)
(* knows of its documents survives the steps of the others (OthersKeep),   *)
(* and its own steps are looked at one by one (OwnStep, SearchStep,        *)
(* DeletedStep).                                                           *)
(***************************************************************************)
EXTENDS KnowledgeBase, TLAPS

\* The local state of request q stays as it is.
Keeps(q) ==
    /\ pc'[q] = pc[q] /\ src'[q] = src[q] /\ known'[q] = known[q]
    /\ found'[q] = found[q] /\ todo'[q] = todo[q] /\ cur'[q] = cur[q]
    /\ job'[q] = job[q]
    /\ alone'[q] => alone[q]

\* How far a step of request r reaches.
Reach(r) ==
    /\ \A q \in Requests \ {r} : Keeps(q)
    /\ \A d \in Docs \ Work(r) :
           /\ documents'[d] = documents[d] /\ index'[d] = index[d]
           /\ d \in disturbed' <=> d \in disturbed
    /\ ~alone[r] =>
           /\ disturbed \subseteq disturbed'
           /\ \A d \in Docs : documents'[d] # documents[d] \/ index'[d] # index[d]
                                  => d \in disturbed'
    /\ \A s \in Sources : source'[s] = "deleted" =>
           source[s] = "deleted" \/ (src[r] = s /\ Work(r) = DocsOf(s))

PC == {"idle", "collect", "file", "delete", "upsert", "store",
       "gone", "remove", "fail", "drop", "done"}

Fits(q) == WorkFits(q) /\ MidwayFits(q) /\ DeletionFits(q) /\ Overtaken(q) /\ SyncFits(q)

\* Every step of a request stays within its reach.
LEMMA ReachStep ==
    ASSUME TypeOK, NEW r \in Requests, WorkFits(r), Request(r) \/ Continue(r)
    PROVE  Reach(r)
<1> USE KnowledgeAssumption DEF TypeOK, Goto, local, history
<1>1. ASSUME NEW s \in Sources, startJob(r, s) PROVE Reach(r)
  BY <1>1 DEF startJob, Begin, Reach, Keeps
<1>2. ASSUME NEW s \in Sources, DeleteSource(r, s) PROVE Reach(r)
  BY <1>2 DEF DeleteSource, Begin, Reach, Keeps
<1>3. ASSUME NEW d \in Docs, NEW c \in Contents, UploadDocument(r, d, c) PROVE Reach(r)
  BY <1>3 DEF UploadDocument, Begin, Reach, Keeps
<1>4. CASE collectSourceDocuments(r)
  BY <1>4 DEF collectSourceDocuments, Reach, Keeps
<1>5. CASE SyncFile(r)
  BY <1>5 DEF SyncFile, Reach, Keeps
<1>6. CASE SyncGone(r)
  BY <1>6 DEF SyncGone, Reach, Keeps
<1>7. CASE DropGone(r)
  BY <1>7 DEF DropGone, IndexCall, Unsettle, Reach, Keeps, Work, WorkFits
<1>8. CASE removeDocument(r)
  BY <1>8 DEF removeDocument, Settle, Reach, Keeps, Work, WorkFits
<1>9. CASE finishJob(r)
  BY <1>9 DEF finishJob, Reach, Keeps
<1>10. CASE DeleteBySourceFile(r)
  BY <1>10 DEF DeleteBySourceFile, IndexCall, Unsettle, Failed, Reach, Keeps, Work, WorkFits
<1>11. CASE UpsertChunks(r)
  BY <1>11 DEF UpsertChunks, IndexCall, Unsettle, Failed, Reach, Keeps, Work, WorkFits
<1>12. CASE StoreDocument(r)
  BY <1>12 DEF StoreDocument, Settle, Reach, Keeps, Work, WorkFits
<1>13. CASE DropVectors(r)
  BY <1>13 DEF DropVectors, IndexCall, Unsettle, Reach, Keeps, Work, WorkFits
<1>14. CASE RemoveSource(r)
  BY <1>14 DEF RemoveSource, Settle, Reach, Keeps, Work, WorkFits
<1>15. CASE Respond(r)
  BY <1>15 DEF Respond, Reach, Keeps
<1> QED  BY <1>1, <1>2, <1>3, <1>4, <1>5, <1>6, <1>7, <1>8, <1>9, <1>10, <1>11,
            <1>12, <1>13, <1>14, <1>15 DEF Request, Continue

\* The types of what Begin and IndexCall change.
LEMMA BeginType ==
    ASSUME TypeOK, NEW q \in Requests, NEW D, Begin(q, D)
    PROVE  served' \in 0..MaxServed /\ alone' \in [Requests -> BOOLEAN]
<1> DEFINE others == {r \in Requests : Work(r) \cap D # {}}
<1>1. served' \in 0..MaxServed
  BY KnowledgeAssumption DEF Begin, TypeOK
<1>2. alone' = [r \in Requests |-> IF r = q THEN others = {} ELSE alone[r] /\ r \notin others]
  BY DEF Begin
<1>3. \A r \in Requests : (IF r = q THEN others = {} ELSE alone[r] /\ r \notin others) \in BOOLEAN
  OBVIOUS
<1> HIDE DEF others
<1> QED  BY <1>1, <1>2, <1>3

LEMMA IndexCallType ==
    ASSUME TypeOK, NEW q \in Requests, NEW d \in Docs, NEW vectors \in SUBSET Contents,
           NEW stage \in PC, NEW failed \in PC, NEW lost \in SUBSET Docs,
           IndexCall(q, d, vectors, stage, failed, lost)
    PROVE  /\ index' \in [Docs -> SUBSET Contents]
           /\ pc' \in [Requests -> PC]
           /\ faults' \in 0..MaxFaults
           /\ disturbed' \subseteq Docs
<1>1. \E v \in SUBSET Contents : index' = [index EXCEPT ![d] = v]
  BY DEF IndexCall, TypeOK
<1>2. \E p \in PC : pc' = [pc EXCEPT ![q] = p]
  BY DEF IndexCall, Goto
<1>3. index' \in [Docs -> SUBSET Contents]
  BY <1>1 DEF TypeOK
<1>4. pc' \in [Requests -> PC]
  BY <1>2 DEF TypeOK, PC
<1>5. faults' \in 0..MaxFaults
  BY KnowledgeAssumption DEF IndexCall, TypeOK
<1>6. disturbed' \subseteq Docs
  BY DEF IndexCall, Unsettle, TypeOK
<1> QED  BY <1>3, <1>4, <1>5, <1>6

LEMMA IndexStepType ==
    ASSUME TypeOK, NEW r \in Requests, WorkFits(r),
           DropGone(r) \/ DeleteBySourceFile(r) \/ UpsertChunks(r) \/ DropVectors(r)
    PROVE  /\ index' \in [Docs -> SUBSET Contents]
           /\ pc' \in [Requests -> PC]
           /\ faults' \in 0..MaxFaults
           /\ disturbed' \subseteq Docs
<1>1. cur[r] \subseteq Docs /\ todo[r] \subseteq Docs
  BY DEF TypeOK
<1>2. {} \in SUBSET Contents
  OBVIOUS
<1>3. Failed(r) \in PC /\ {"remove", "fail", "upsert", "store", "drop", "done"} \subseteq PC
  BY DEF Failed, PC
<1>4. CASE DropGone(r)
  <2>1. PICK d \in todo[r] : IndexCall(r, d, {}, "remove", "fail", {d})
    BY <1>4 DEF DropGone
  <2>2. d \in Docs /\ {d} \in SUBSET Docs
    BY <1>1
  <2> QED  BY <1>2, <1>3, <2>1, <2>2, IndexCallType
<1>5. CASE DeleteBySourceFile(r)
  <2>1. PICK d \in cur[r] : IndexCall(r, d, {}, "upsert", Failed(r), {d})
    BY <1>5 DEF DeleteBySourceFile
  <2>2. d \in Docs /\ {d} \in SUBSET Docs
    BY <1>1
  <2> QED  BY <1>2, <1>3, <2>1, <2>2, IndexCallType
<1>6. CASE UpsertChunks(r)
  <2>1. PICK d \in cur[r] : IndexCall(r, d, index[d] \cup {found[r][d]}, "store", Failed(r), {d})
    BY <1>6 DEF UpsertChunks
  <2>2. d \in Docs /\ {d} \in SUBSET Docs
    BY <1>1
  <2>3. cur[r] \subseteq Present(found[r])
    BY <1>6 DEF UpsertChunks, WorkFits
  <2>4. index[d] \cup {found[r][d]} \in SUBSET Contents
    BY <2>2, <2>3 DEF Present, Listed, TypeOK
  <2> QED  BY <1>3, <2>1, <2>2, <2>4, IndexCallType
<1>7. CASE DropVectors(r)
  <2>1. PICK d \in todo[r] :
            IndexCall(r, d, {}, "drop", "done", {d} \cup (Present(known[r]) \ todo[r]))
    BY <1>7 DEF DropVectors
  <2>2. d \in Docs /\ {d} \cup (Present(known[r]) \ todo[r]) \in SUBSET Docs
    BY <1>1 DEF Present
  <2> QED  BY <1>2, <1>3, <2>1, <2>2, IndexCallType
<1> QED  BY <1>4, <1>5, <1>6, <1>7

\* Every variable keeps its type.
LEMMA TypeStep ==
    ASSUME TypeOK, NEW r \in Requests, WorkFits(r), Request(r) \/ Continue(r)
    PROVE  TypeOK'
<1>c. DropGone(r) \/ DeleteBySourceFile(r) \/ UpsertChunks(r) \/ DropVectors(r) =>
          /\ index' \in [Docs -> SUBSET Contents] /\ pc' \in [Requests -> PC]
          /\ faults' \in 0..MaxFaults /\ disturbed' \subseteq Docs
  BY IndexStepType
<1> USE KnowledgeAssumption DEF TypeOK, Goto, local, history
<1>a. NoDocs \in [Docs -> Listed]
  BY DEF NoDocs, Listed
<1>b. ASSUME NEW s, NEW content \in [Docs -> Listed] PROVE Of(s, content) \in [Docs -> Listed]
  BY DEF Of, Listed
<1>1. ASSUME NEW s \in Sources, startJob(r, s) PROVE TypeOK'
  <2>1. served' \in 0..MaxServed /\ alone' \in [Requests -> BOOLEAN]
    BY <1>1, BeginType DEF startJob
  <2> QED  BY <1>1, <1>b, <2>1 DEF startJob
<1>2. ASSUME NEW s \in Sources, DeleteSource(r, s) PROVE TypeOK'
  <2>1. served' \in 0..MaxServed /\ alone' \in [Requests -> BOOLEAN]
    BY <1>2, BeginType DEF DeleteSource
  <2> QED  BY <1>2, <1>b, <2>1 DEF DeleteSource, Present
<1>3. ASSUME NEW d \in Docs, NEW c \in Contents, UploadDocument(r, d, c) PROVE TypeOK'
  <2>1. served' \in 0..MaxServed /\ alone' \in [Requests -> BOOLEAN]
    BY <1>3, BeginType DEF UploadDocument
  <2>2. [NoDocs EXCEPT ![d] = c] \in [Docs -> Listed]
    BY <1>a DEF Listed
  <2> QED  BY <1>3, <2>1, <2>2 DEF UploadDocument
<1>4. CASE collectSourceDocuments(r)
  <2>1. ASSUME NEW s, NEW files \in [DocsOf(s) -> Listed]
        PROVE  Of(s, files) \in [Docs -> Listed] /\ Present(Of(s, files)) \in SUBSET Docs
    BY <2>1 DEF Of, DocsOf, Listed, Present
  <2>2. CASE Goto(r, "fail") /\ UNCHANGED <<found, todo>>
    BY <1>4, <2>2 DEF collectSourceDocuments
  <2>3. ASSUME NEW files \in [DocsOf(src[r]) -> Listed],
               found' = [found EXCEPT ![r] = Of(src[r], files)],
               todo' = [todo EXCEPT ![r] = Present(Of(src[r], files))],
               Goto(r, "file")
        PROVE  TypeOK'
    <3>1. Of(src[r], files) \in [Docs -> Listed] /\ Present(Of(src[r], files)) \in SUBSET Docs
      BY <2>1
    <3> QED  BY <1>4, <2>3, <3>1 DEF collectSourceDocuments
  <2> QED  BY <1>4, <2>2, <2>3 DEF collectSourceDocuments
<1>5. CASE SyncFile(r)
  BY <1>5 DEF SyncFile
<1>6. CASE SyncGone(r)
  BY <1>6, <1>a DEF SyncGone, Present
<1>7. CASE DropGone(r)
  <2>1. todo' \in [Requests -> SUBSET Docs] /\ cur' \in [Requests -> SUBSET Docs]
    BY <1>7 DEF DropGone
  <2>2. UNCHANGED <<source, documents, src, known, found, job, alone, served>>
    BY <1>7 DEF DropGone
  <2> QED  BY <1>7, <1>c, <2>1, <2>2 DEF PC
<1>8. CASE removeDocument(r)
  BY <1>8 DEF removeDocument, Settle, Listed
<1>9. CASE finishJob(r)
  BY <1>9 DEF finishJob
<1>10. CASE DeleteBySourceFile(r)
  BY <1>10, <1>c DEF DeleteBySourceFile, PC
<1>11. CASE UpsertChunks(r)
  BY <1>11, <1>c DEF UpsertChunks, PC
<1>12. CASE StoreDocument(r)
  BY <1>12 DEF StoreDocument, Settle
<1>13. CASE DropVectors(r)
  <2>1. todo' \in [Requests -> SUBSET Docs]
    BY <1>13 DEF DropVectors
  <2>2. UNCHANGED <<source, documents, src, known, found, cur, job, alone, served>>
    BY <1>13 DEF DropVectors
  <2> QED  BY <1>13, <1>c, <2>1, <2>2 DEF PC
<1>14. CASE RemoveSource(r)
  <2>1. src[r] \in Sources
    BY <1>14 DEF RemoveSource, WorkFits
  <2>2. disturbed' \subseteq Docs
    BY <1>14 DEF RemoveSource, Settle, Present
  <2>3. documents' \in [Docs -> Listed]
    BY <1>14 DEF RemoveSource, Listed
  <2>4. source' \in [Sources -> {"absent", "enabled", "disabled", "deleted"}]
    <3>1. source' = source \/ source' = [source EXCEPT ![src[r]] = "deleted"]
      BY <1>14 DEF RemoveSource
    <3>2. [source EXCEPT ![src[r]] = "deleted"] \in [Sources -> {"absent", "enabled", "disabled", "deleted"}]
      OBVIOUS
    <3> QED  BY <3>1, <3>2
  <2>5. pc' \in [Requests -> PC]
    BY <1>14 DEF RemoveSource, PC
  <2>6. UNCHANGED <<index, local, job, faults, alone, served>>
    BY <1>14 DEF RemoveSource
  <2> QED  BY <2>2, <2>3, <2>4, <2>5, <2>6 DEF PC
<1>15. CASE Respond(r)
  BY <1>15, <1>a DEF Respond
<1> QED  BY <1>1, <1>2, <1>3, <1>4, <1>5, <1>6, <1>7, <1>8, <1>9, <1>10, <1>11,
            <1>12, <1>13, <1>14, <1>15 DEF Request, Continue

\* What another request knows of its documents survives the step.
LEMMA OthersKeep ==
    ASSUME TypeOK, Acquainted, NEW r \in Requests, Reach(r),
           NEW q \in Requests, q # r, Fits(q)
    PROVE  Fits(q)'
<1> USE DEF TypeOK
<1>1. Keeps(q)
  BY DEF Reach
<1>2. Work(q)' = Work(q) /\ Midway(q)' = Midway(q) /\ (Syncing(q)' <=> Syncing(q))
  BY <1>1 DEF Keeps, Work, DocsOf, Midway, Syncing, Present
<1>3. ASSUME NEW d \in Work(q), alone[q]
      PROVE  documents'[d] = documents[d] /\ index'[d] = index[d]
  <2>1. d \in Docs
    BY DEF Work, DocsOf
  <2>2. d \notin Work(r)
    BY <1>3 DEF Acquainted
  <2> QED  BY <2>1, <2>2 DEF Reach
<1>4. ASSUME NEW d \in Work(q), d \notin disturbed'
      PROVE  documents'[d] = documents[d] /\ index'[d] = index[d] /\ d \notin disturbed
  <2>1. d \in Docs
    BY DEF Work, DocsOf
  <2>2. CASE d \notin Work(r)
    BY <1>4, <2>1, <2>2 DEF Reach
  <2>3. CASE d \in Work(r)
    BY <1>4, <2>1, <2>3 DEF Reach, Acquainted
  <2> QED  BY <2>2, <2>3
<1>5. WorkFits(q)'
  BY <1>1, <1>2 DEF Fits, WorkFits, Keeps, DocsOf, Present, NoDocs
<1>6. MidwayFits(q)'
  <2>1. Midway(q) \subseteq Work(q)
    BY DEF Midway, Work, Fits, WorkFits
  <2> QED  BY <1>1, <1>2, <1>3, <1>4, <2>1 DEF Fits, MidwayFits, Keeps
<1>7. DeletionFits(q)'
  <2>1. pc[q] = "drop" => Work(q) = DocsOf(src[q])
    BY DEF Work, Fits, WorkFits
  <2> QED  BY <1>1, <1>3, <1>4, <2>1 DEF Fits, DeletionFits, Keeps, DocsOf
<1>8. Syncing(q) => Work(q) = DocsOf(src[q]) /\ src[q] \in Sources
  BY DEF Syncing, Work
<1>9. Overtaken(q)'
  <2> SUFFICES ASSUME Syncing(q), source'[src[q]] = "deleted", DocsOf(src[q]) # {}, alone[q]
               PROVE  FALSE
    BY <1>1, <1>2 DEF Overtaken, Keeps, DocsOf
  <2>1. source[src[q]] # "deleted"
    BY DEF Fits, Overtaken
  <2>2. Work(r) = Work(q)
    BY <1>8, <2>1 DEF Reach
  <2> QED  BY <1>8, <2>2 DEF Acquainted
<1>10. SyncFits(q)'
  BY <1>1, <1>2, <1>3, <1>8 DEF Fits, SyncFits, Keeps, DocsOf
<1> QED  BY <1>5, <1>6, <1>7, <1>9, <1>10 DEF Fits


\* What a request knows of its documents survives its own steps.
LEMMA OwnStep ==
    ASSUME TypeOK, NEW q \in Requests, Fits(q), Request(q) \/ Continue(q)
    PROVE  Fits(q)'
<1> USE KnowledgeAssumption DEF TypeOK, Fits, Goto, local, history, Present, DocsOf, Of, NoDocs
<1>1. ASSUME NEW s \in Sources, startJob(q, s) PROVE Fits(q)'
  <2>1. WorkFits(q)'
    BY <1>1 DEF startJob, Begin, WorkFits, Syncing, Listed
  <2>2. MidwayFits(q)'
    BY <1>1 DEF startJob, Begin, MidwayFits, Midway, WorkFits
  <2>3. DeletionFits(q)'
    BY <1>1 DEF startJob, Begin, DeletionFits, WorkFits
  <2>4. Overtaken(q)'
    BY <1>1 DEF startJob, Begin, Overtaken, Syncing, WorkFits
  <2>5. SyncFits(q)'
    BY <1>1 DEF startJob, Begin, SyncFits, Syncing, WorkFits
  <2> QED  BY <2>1, <2>2, <2>3, <2>4, <2>5
<1>2. ASSUME NEW s \in Sources, DeleteSource(q, s) PROVE Fits(q)'
  <2>1. WorkFits(q)'
    BY <1>2 DEF DeleteSource, Begin, WorkFits, Syncing, Listed
  <2>2. MidwayFits(q)'
    BY <1>2 DEF DeleteSource, Begin, MidwayFits, Midway, WorkFits
  <2>3. DeletionFits(q)'
    BY <1>2 DEF DeleteSource, Begin, DeletionFits, WorkFits
  <2>4. Overtaken(q)'
    BY <1>2 DEF DeleteSource, Begin, Overtaken, Syncing, WorkFits
  <2>5. SyncFits(q)'
    BY <1>2 DEF DeleteSource, Begin, SyncFits, Syncing, WorkFits
  <2> QED  BY <2>1, <2>2, <2>3, <2>4, <2>5
<1>3. ASSUME NEW d \in Docs, NEW c \in Contents, UploadDocument(q, d, c) PROVE Fits(q)'
  <2>1. WorkFits(q)'
    BY <1>3 DEF UploadDocument, Begin, WorkFits, Syncing, Listed
  <2>2. MidwayFits(q)'
    BY <1>3 DEF UploadDocument, Begin, MidwayFits, Midway, WorkFits
  <2>3. DeletionFits(q)'
    BY <1>3 DEF UploadDocument, Begin, DeletionFits, WorkFits
  <2>4. Overtaken(q)'
    BY <1>3 DEF UploadDocument, Begin, Overtaken, Syncing, WorkFits
  <2>5. SyncFits(q)'
    BY <1>3 DEF UploadDocument, Begin, SyncFits, Syncing, WorkFits
  <2> QED  BY <2>1, <2>2, <2>3, <2>4, <2>5
<1>4. CASE collectSourceDocuments(q)
  <2>1. WorkFits(q)'
    <3>1. CASE Goto(q, "fail") /\ UNCHANGED <<found, todo>>
      BY <1>4, <3>1 DEF collectSourceDocuments, WorkFits, Syncing
    <3>2. CASE \E files \in [DocsOf(src[q]) -> Listed] :
                  /\ found' = [found EXCEPT ![q] = Of(src[q], files)]
                  /\ todo' = [todo EXCEPT ![q] = Present(Of(src[q], files))]
                  /\ Goto(q, "file")
      <4>1. PICK files \in [DocsOf(src[q]) -> Listed] :
                  /\ found' = [found EXCEPT ![q] = Of(src[q], files)]
                  /\ todo' = [todo EXCEPT ![q] = Present(Of(src[q], files))]
                  /\ Goto(q, "file")
        BY <3>2
      <4>2. todo'[q] = Present(found'[q]) /\ pc'[q] = "file" /\ todo'[q] \subseteq DocsOf(src[q])
        BY <4>1
      <4> QED  BY <1>4, <4>2 DEF collectSourceDocuments, WorkFits, Syncing
    <3> QED  BY <1>4, <3>1, <3>2 DEF collectSourceDocuments
  <2>2. MidwayFits(q)'
    BY <1>4 DEF collectSourceDocuments, MidwayFits, Midway, WorkFits
  <2>3. DeletionFits(q)'
    BY <1>4 DEF collectSourceDocuments, DeletionFits, WorkFits
  <2>4. Overtaken(q)'
    BY <1>4 DEF collectSourceDocuments, Overtaken, Syncing, WorkFits
  <2>5. SyncFits(q)'
    <3>0. pc'[q] = "fail" \/ (pc'[q] = "file" /\ todo'[q] = Present(found'[q]))
      <4>1. CASE Goto(q, "fail")
        BY <4>1
      <4>2. ASSUME NEW files \in [DocsOf(src[q]) -> Listed],
                   found' = [found EXCEPT ![q] = Of(src[q], files)],
                   todo' = [todo EXCEPT ![q] = Present(Of(src[q], files))],
                   Goto(q, "file")
            PROVE  pc'[q] = "file" /\ todo'[q] = Present(found'[q])
        BY <4>2
      <4> QED  BY <1>4, <4>1, <4>2 DEF collectSourceDocuments
    <3>1. CASE pc'[q] = "fail"
      BY <3>1 DEF SyncFits
    <3>2. CASE pc'[q] = "file" /\ todo'[q] = Present(found'[q])
      <4> SUFFICES ASSUME Syncing(q), alone[q], NEW d \in DocsOf(src[q])
                   PROVE  \/ d \in todo'[q] /\ documents[d] = known[q][d]
                          \/ found'[q][d] = Gone /\ documents[d] = known[q][d]
        BY <1>4, <3>2 DEF collectSourceDocuments, SyncFits, Syncing
      <4>1. documents[d] = known[q][d]
        BY <1>4 DEF collectSourceDocuments, SyncFits
      <4> QED  BY <3>2, <4>1
    <3> QED  BY <3>0, <3>1, <3>2
  <2> QED  BY <2>1, <2>2, <2>3, <2>4, <2>5
<1>5. CASE SyncFile(q)
  <2>1. WorkFits(q)'
    <3>1. PICK d \in todo[q] :
            /\ todo' = [todo EXCEPT ![q] = @ \ {d}]
            /\ \/ UNCHANGED <<pc, cur>>
               \/ /\ cur' = [cur EXCEPT ![q] = {d}]
                  /\ \E stage \in {"delete", "fail"} : Goto(q, stage)
      BY <1>5 DEF SyncFile
    <3>2. pc[q] = "file" /\ UNCHANGED <<src, known, found, job>>
      BY <1>5 DEF SyncFile
    <3>3. CASE UNCHANGED <<pc, cur>>
      BY <3>1, <3>2, <3>3 DEF WorkFits, Syncing
    <3>4. CASE cur' = [cur EXCEPT ![q] = {d}] /\ \E stage \in {"delete", "fail"} : Goto(q, stage)
      <4>1. cur'[q] = {d} /\ todo'[q] \subseteq todo[q] /\ pc'[q] \in {"delete", "fail"} /\ d \in Docs
        BY <3>1, <3>4
      <4> QED  BY <3>2, <4>1 DEF WorkFits, Syncing
    <3> QED  BY <3>1, <3>3, <3>4
  <2>2. MidwayFits(q)'
    BY <1>5 DEF SyncFile, MidwayFits, Midway, WorkFits
  <2>3. DeletionFits(q)'
    BY <1>5 DEF SyncFile, DeletionFits, WorkFits
  <2>4. Overtaken(q)'
    BY <1>5 DEF SyncFile, Overtaken, Syncing, WorkFits
  <2>5. SyncFits(q)'
    BY <1>5 DEF SyncFile, SyncFits, Syncing, WorkFits
  <2> QED  BY <2>1, <2>2, <2>3, <2>4, <2>5
<1>6. CASE SyncGone(q)
  <2>1. WorkFits(q)'
    BY <1>6 DEF SyncGone, WorkFits, Syncing, Listed
  <2>2. MidwayFits(q)'
    BY <1>6 DEF SyncGone, MidwayFits, Midway, WorkFits
  <2>3. DeletionFits(q)'
    BY <1>6 DEF SyncGone, DeletionFits, WorkFits
  <2>4. Overtaken(q)'
    BY <1>6 DEF SyncGone, Overtaken, Syncing, WorkFits
  <2>5. SyncFits(q)'
    BY <1>6 DEF SyncGone, SyncFits, Syncing, WorkFits
  <2> QED  BY <2>1, <2>2, <2>3, <2>4, <2>5
<1>7. CASE DropGone(q)
  <2>1. WorkFits(q)'
    BY <1>7 DEF DropGone, IndexCall, Unsettle, WorkFits, Syncing, Listed
  <2>2. MidwayFits(q)'
    <3>1. PICK d \in todo[q] : cur' = [cur EXCEPT ![q] = {d}] /\ IndexCall(q, d, {}, "remove", "fail", {d})
      BY <1>7 DEF DropGone
    <3>2. \/ pc'[q] = "fail"
          \/ pc'[q] = "remove" /\ cur'[q] = {d} /\ index'[d] = {}
      BY <3>1 DEF IndexCall
    <3> QED  BY <3>2 DEF MidwayFits, Midway
  <2>3. DeletionFits(q)'
    BY <1>7 DEF DropGone, IndexCall, Unsettle, DeletionFits, WorkFits
  <2>4. Overtaken(q)'
    BY <1>7 DEF DropGone, IndexCall, Unsettle, Overtaken, Syncing, WorkFits
  <2>5. SyncFits(q)'
    BY <1>7 DEF DropGone, IndexCall, Unsettle, SyncFits, Syncing, WorkFits
  <2> QED  BY <2>1, <2>2, <2>3, <2>4, <2>5
<1>8. CASE removeDocument(q)
  <2>1. WorkFits(q)'
    BY <1>8 DEF removeDocument, Settle, WorkFits, Syncing, Listed
  <2>2. MidwayFits(q)'
    BY <1>8 DEF removeDocument, Settle, MidwayFits, Midway, WorkFits
  <2>3. DeletionFits(q)'
    BY <1>8 DEF removeDocument, Settle, DeletionFits, WorkFits
  <2>4. Overtaken(q)'
    BY <1>8 DEF removeDocument, Settle, Overtaken, Syncing, WorkFits
  <2>5. SyncFits(q)'
    BY <1>8 DEF removeDocument, Settle, SyncFits, Syncing, WorkFits
  <2> QED  BY <2>1, <2>2, <2>3, <2>4, <2>5
<1>9. CASE finishJob(q)
  <2>1. WorkFits(q)'
    BY <1>9 DEF finishJob, WorkFits, Syncing, Listed
  <2>2. MidwayFits(q)'
    BY <1>9 DEF finishJob, MidwayFits, Midway, WorkFits
  <2>3. DeletionFits(q)'
    BY <1>9 DEF finishJob, DeletionFits, WorkFits
  <2>4. Overtaken(q)'
    BY <1>9 DEF finishJob, Overtaken, Syncing, WorkFits
  <2>5. SyncFits(q)'
    BY <1>9 DEF finishJob, SyncFits, Syncing, WorkFits
  <2> QED  BY <2>1, <2>2, <2>3, <2>4, <2>5
<1>10. CASE DeleteBySourceFile(q)
  <2>1. WorkFits(q)'
    BY <1>10 DEF DeleteBySourceFile, IndexCall, Unsettle, Failed, WorkFits, Syncing, Listed
  <2>2. MidwayFits(q)'
    <3>1. PICK d \in cur[q] : IndexCall(q, d, {}, "upsert", Failed(q), {d})
      BY <1>10 DEF DeleteBySourceFile
    <3>2. cur'[q] = {d} /\ d \in Docs
      BY <1>10, <3>1 DEF DeleteBySourceFile, WorkFits
    <3>3. \/ pc'[q] \in {"done", "fail"}
          \/ pc'[q] = "upsert" /\ index'[d] = {}
      BY <3>1, <3>2 DEF IndexCall, Failed
    <3> QED  BY <3>2, <3>3 DEF MidwayFits, Midway
  <2>3. DeletionFits(q)'
    BY <1>10 DEF DeleteBySourceFile, IndexCall, Unsettle, Failed, DeletionFits, WorkFits
  <2>4. Overtaken(q)'
    BY <1>10 DEF DeleteBySourceFile, IndexCall, Unsettle, Failed, Overtaken, Syncing, WorkFits
  <2>5. SyncFits(q)'
    BY <1>10 DEF DeleteBySourceFile, IndexCall, Unsettle, Failed, SyncFits, Syncing, WorkFits
  <2> QED  BY <2>1, <2>2, <2>3, <2>4, <2>5
<1>11. CASE UpsertChunks(q)
  <2>1. WorkFits(q)'
    BY <1>11 DEF UpsertChunks, IndexCall, Unsettle, Failed, WorkFits, Syncing, Listed
  <2>2. MidwayFits(q)'
    <3>1. PICK d \in cur[q] : IndexCall(q, d, index[d] \cup {found[q][d]}, "store", Failed(q), {d})
      BY <1>11 DEF UpsertChunks
    <3>2. cur[q] = {d} /\ d \in Docs /\ UNCHANGED <<cur, found, alone>>
      BY <1>11, <3>1 DEF UpsertChunks, WorkFits
    <3>3. CASE pc'[q] \in {"done", "fail"}
      BY <3>3 DEF MidwayFits, Midway
    <3>4. CASE /\ pc'[q] = "store"
               /\ index'[d] = index[d] \cup {found[q][d]}
               /\ disturbed' = IF alone[q] THEN disturbed ELSE disturbed \cup {d}
      <4>1. alone[q] => index[d] = {}
        BY <1>11, <3>2 DEF UpsertChunks, MidwayFits, Midway
      <4>2. alone[q] \/ d \notin disturbed' => index'[d] = {found[q][d]}
        BY <3>2, <3>4, <4>1
      <4> QED  BY <3>2, <3>4, <4>2 DEF MidwayFits, Midway
    <3> QED  BY <3>1, <3>2, <3>3, <3>4 DEF IndexCall, Unsettle, Failed
  <2>3. DeletionFits(q)'
    BY <1>11 DEF UpsertChunks, IndexCall, Unsettle, Failed, DeletionFits, WorkFits
  <2>4. Overtaken(q)'
    BY <1>11 DEF UpsertChunks, IndexCall, Unsettle, Failed, Overtaken, Syncing, WorkFits
  <2>5. SyncFits(q)'
    BY <1>11 DEF UpsertChunks, IndexCall, Unsettle, Failed, SyncFits, Syncing, WorkFits
  <2> QED  BY <2>1, <2>2, <2>3, <2>4, <2>5
<1>12. CASE StoreDocument(q)
  <2>1. WorkFits(q)'
    BY <1>12 DEF StoreDocument, Settle, WorkFits, Syncing, Listed
  <2>2. MidwayFits(q)'
    BY <1>12 DEF StoreDocument, Settle, MidwayFits, Midway, WorkFits
  <2>3. DeletionFits(q)'
    BY <1>12 DEF StoreDocument, Settle, DeletionFits, WorkFits
  <2>4. Overtaken(q)'
    BY <1>12 DEF StoreDocument, Settle, Overtaken, Syncing, WorkFits
  <2>5. SyncFits(q)'
    BY <1>12 DEF StoreDocument, Settle, SyncFits, Syncing, WorkFits
  <2> QED  BY <2>1, <2>2, <2>3, <2>4, <2>5
<1>13. CASE DropVectors(q)
  <2>1. WorkFits(q)'
    BY <1>13 DEF DropVectors, IndexCall, Unsettle, WorkFits, Syncing, Listed
  <2>2. MidwayFits(q)'
    <3>1. PICK d \in todo[q] :
            /\ todo' = [todo EXCEPT ![q] = @ \ {d}]
            /\ IndexCall(q, d, {}, "drop", "done", {d} \cup (Present(known[q]) \ todo[q]))
      BY <1>13 DEF DropVectors
    <3>2. CASE pc'[q] = "done"
      BY <3>2 DEF MidwayFits, Midway
    <3>3. CASE /\ pc'[q] = "drop"
               /\ index' = [index EXCEPT ![d] = {}]
               /\ disturbed \subseteq disturbed'
      <4>1. Midway(q)' \subseteq Midway(q) \cup {d}
        BY <1>13, <3>1, <3>3 DEF DropVectors, Midway
      <4>2. ASSUME NEW e \in Midway(q)', alone'[q] \/ e \notin disturbed' PROVE index'[e] = {}
        <5>1. e \in Docs
          BY <3>3 DEF Midway
        <5>2. CASE e = d
          BY <3>3, <5>1, <5>2
        <5>3. CASE e # d
          <6>1. index[e] = {}
            BY <1>13, <3>3, <4>1, <4>2, <5>3 DEF DropVectors, MidwayFits
          <6> QED  BY <3>3, <5>1, <5>3, <6>1
        <5> QED  BY <5>2, <5>3
      <4> QED  BY <3>3, <4>2 DEF MidwayFits
    <3> QED  BY <3>1, <3>2, <3>3 DEF IndexCall, Unsettle
  <2>3. DeletionFits(q)'
    BY <1>13 DEF DropVectors, IndexCall, Unsettle, DeletionFits, WorkFits
  <2>4. Overtaken(q)'
    BY <1>13 DEF DropVectors, IndexCall, Unsettle, Overtaken, Syncing, WorkFits
  <2>5. SyncFits(q)'
    BY <1>13 DEF DropVectors, IndexCall, Unsettle, SyncFits, Syncing, WorkFits
  <2> QED  BY <2>1, <2>2, <2>3, <2>4, <2>5
<1>14. CASE RemoveSource(q)
  <2>1. WorkFits(q)'
    BY <1>14 DEF RemoveSource, Settle, WorkFits, Syncing, Listed
  <2>2. MidwayFits(q)'
    BY <1>14 DEF RemoveSource, Settle, MidwayFits, Midway, WorkFits
  <2>3. DeletionFits(q)'
    BY <1>14 DEF RemoveSource, Settle, DeletionFits, WorkFits
  <2>4. Overtaken(q)'
    BY <1>14 DEF RemoveSource, Settle, Overtaken, Syncing, WorkFits
  <2>5. SyncFits(q)'
    BY <1>14 DEF RemoveSource, Settle, SyncFits, Syncing, WorkFits
  <2> QED  BY <2>1, <2>2, <2>3, <2>4, <2>5
<1>15. CASE Respond(q)
  <2>1. WorkFits(q)'
    BY <1>15 DEF Respond, WorkFits, Syncing, Listed
  <2>2. MidwayFits(q)'
    BY <1>15 DEF Respond, MidwayFits, Midway, WorkFits
  <2>3. DeletionFits(q)'
    BY <1>15 DEF Respond, DeletionFits, WorkFits
  <2>4. Overtaken(q)'
    BY <1>15 DEF Respond, Overtaken, Syncing, WorkFits
  <2>5. SyncFits(q)'
    BY <1>15 DEF Respond, SyncFits, Syncing, WorkFits
  <2> QED  BY <2>1, <2>2, <2>3, <2>4, <2>5
<1> QED  BY <1>1, <1>2, <1>3, <1>4, <1>5, <1>6, <1>7, <1>8, <1>9, <1>10, <1>11, <1>12, <1>13, <1>14, <1>15 DEF Request, Continue

-----------------------------------------------------------------------------

\* A request goes on with no more documents than it had, or begins.
LEMMA WorkStep ==
    ASSUME TypeOK, NEW r \in Requests, WorkFits(r), Request(r) \/ Continue(r)
    PROVE  \/ Work(r)' \subseteq Work(r) /\ alone' = alone
           \/ Work(r)' = {} /\ \A q \in Requests \ {r} : alone'[q] = alone[q]
           \/ \E D \in SUBSET Docs : Begin(r, D) /\ Work(r)' = D
<1> USE KnowledgeAssumption DEF TypeOK, Goto, local, history
<1>1. ASSUME NEW s \in Sources, startJob(r, s) \/ DeleteSource(r, s)
      PROVE  \E D \in SUBSET Docs : Begin(r, D) /\ Work(r)' = D
  <2>1. DocsOf(s) \in SUBSET Docs
    BY DEF DocsOf
  <2>2. Begin(r, DocsOf(s)) /\ src'[r] = s /\ pc'[r] \in {"collect", "drop"}
    BY <1>1 DEF startJob, DeleteSource
  <2>3. Work(r)' = DocsOf(s)
    BY <2>2 DEF Work, DocsOf
  <2> QED  BY <2>1, <2>2, <2>3
<1>2. ASSUME NEW d \in Docs, NEW c \in Contents, UploadDocument(r, d, c)
      PROVE  \E D \in SUBSET Docs : Begin(r, D) /\ Work(r)' = D
  <2>1. Begin(r, {d}) /\ cur'[r] = {d} /\ pc'[r] = "delete" /\ UNCHANGED src
    BY <1>2 DEF UploadDocument
  <2>2. src[r] = Upload
    BY <2>1 DEF Begin, WorkFits
  <2>3. Work(r)' = {d}
    BY <2>1, <2>2 DEF Work
  <2> QED  BY <2>1, <2>3
<1>3. CASE Respond(r)
  <2>1. pc'[r] = "idle" /\ \A q \in Requests \ {r} : alone'[q] = alone[q]
    BY <1>3 DEF Respond
  <2> QED  BY <2>1 DEF Work
<1>4. ASSUME Continue(r), ~Respond(r)
      PROVE  Work(r)' \subseteq Work(r) /\ alone' = alone
  <2>1. alone' = alone /\ UNCHANGED src
    BY <1>4 DEF Continue, collectSourceDocuments, SyncFile, SyncGone, DropGone, removeDocument,
       finishJob, DeleteBySourceFile, UpsertChunks, StoreDocument, DropVectors, RemoveSource
  <2>2. pc[r] \notin {"idle", "done"}
    BY <1>4 DEF Continue, collectSourceDocuments, SyncFile, SyncGone, DropGone, removeDocument,
       finishJob, DeleteBySourceFile, UpsertChunks, StoreDocument, DropVectors, RemoveSource
  <2>3. CASE src[r] = Upload
    <3>1. pc[r] \in {"delete", "upsert", "store"}
      BY <2>2, <2>3 DEF WorkFits
    <3>2. UNCHANGED cur
      BY <1>4, <3>1 DEF Continue, collectSourceDocuments, SyncFile, SyncGone, DropGone,
         removeDocument, finishJob, DeleteBySourceFile, UpsertChunks, StoreDocument, DropVectors,
         RemoveSource
    <3> QED  BY <2>1, <2>2, <2>3, <3>2 DEF Work
  <2>4. CASE src[r] # Upload
    BY <2>1, <2>2, <2>4 DEF Work, DocsOf
  <2> QED  BY <2>1, <2>3, <2>4
<1> QED  BY <1>1, <1>2, <1>3, <1>4 DEF Request

\* Requests at work on one document know of each other.
LEMMA AcquaintedStep ==
    ASSUME TypeOK, Acquainted, NEW r \in Requests, WorkFits(r), Request(r) \/ Continue(r)
    PROVE  Acquainted'
<1> SUFFICES ASSUME NEW p \in Requests, NEW q \in Requests, p # q,
                    NEW d \in Docs, d \in Work(p)' /\ d \in Work(q)'
             PROVE  ~alone'[p]
  <2>1. \A q \in Requests : Work(q)' \subseteq Docs
    <3>1. TypeOK'
      BY TypeStep
    <3> QED  BY <3>1 DEF TypeOK, Work, DocsOf
  <2> QED  BY <2>1 DEF Acquainted
<1>1. Reach(r)
  BY ReachStep
<1>2. ASSUME NEW x \in Requests \ {r} PROVE Work(x)' = Work(x)
  <2>1. pc'[x] = pc[x] /\ src'[x] = src[x] /\ cur'[x] = cur[x]
    BY <1>1 DEF Reach, Keeps
  <2> QED  BY <2>1 DEF Work, DocsOf
<1>3. CASE Work(r)' \subseteq Work(r) /\ alone' = alone
  <2>1. d \in Work(p) /\ d \in Work(q)
    BY <1>2, <1>3
  <2> QED  BY <1>3, <2>1 DEF Acquainted
<1>4. CASE Work(r)' = {} /\ \A x \in Requests \ {r} : alone'[x] = alone[x]
  <2>1. p # r /\ q # r
    BY <1>4
  <2> QED  BY <1>2, <1>4, <2>1 DEF Acquainted
<1>5. ASSUME NEW D \in SUBSET Docs, Begin(r, D), Work(r)' = D
      PROVE  ~alone'[p]
  <2> DEFINE others == {x \in Requests : Work(x) \cap D # {}}
  <2>1. \A x \in Requests : alone'[x] = IF x = r THEN others = {} ELSE alone[x] /\ x \notin others
    BY <1>5 DEF Begin
  <2>2. CASE p = r
    <3>1. q \in others
      BY <1>2, <1>5, <2>2
    <3> QED  BY <2>1, <2>2, <3>1
  <2>3. CASE q = r
    <3>1. p \in others
      BY <1>2, <1>5, <2>3
    <3> QED  BY <2>1, <2>3, <3>1
  <2>4. CASE p # r /\ q # r
    <3>1. ~alone[p]
      BY <1>2, <2>4 DEF Acquainted
    <3> QED  BY <2>1, <2>4, <3>1
  <2> QED  BY <2>2, <2>3, <2>4
<1> QED  BY <1>3, <1>4, <1>5, WorkStep

-----------------------------------------------------------------------------

\* A document a request leaves alone, or leaves behind: the index has what is
\* listed, or it is as it was.
LEMMA OwnDocuments ==
    ASSUME TypeOK, NEW r \in Requests, WorkFits(r), MidwayFits(r), DeletionFits(r),
           Request(r) \/ Continue(r),
           NEW d \in Docs, d \notin disturbed', d \notin Midway(r)'
    PROVE  \/ index'[d] = Vectors(documents'[d])
           \/ /\ d \notin Midway(r) /\ d \notin disturbed
              /\ index'[d] = index[d] /\ documents'[d] = documents[d]
<1> DEFINE Unchanged == /\ d \notin Midway(r) /\ d \notin disturbed
                        /\ index'[d] = index[d] /\ documents'[d] = documents[d]
<1> USE DEF TypeOK, Goto, local, history
<1>1. ASSUME NEW s \in Sources, startJob(r, s) \/ DeleteSource(r, s) PROVE Unchanged
  BY <1>1 DEF startJob, DeleteSource, Begin, Midway
<1>2. ASSUME NEW e \in Docs, NEW c \in Contents, UploadDocument(r, e, c) PROVE Unchanged
  BY <1>2 DEF UploadDocument, Begin, Midway
<1>3. CASE collectSourceDocuments(r) \/ SyncFile(r) \/ SyncGone(r) \/ finishJob(r) \/ Respond(r)
  BY <1>3 DEF collectSourceDocuments, SyncFile, SyncGone, finishJob, Respond, Midway
<1>4. CASE DropGone(r)
  <2>1. PICK e \in todo[r] : cur' = [cur EXCEPT ![r] = {e}] /\ IndexCall(r, e, {}, "remove", "fail", {e})
    BY <1>4 DEF DropGone
  <2>2. d # e
    BY <2>1 DEF IndexCall, Midway
  <2> QED  BY <1>4, <2>1, <2>2 DEF DropGone, IndexCall, Unsettle, Midway
<1>5. CASE DeleteBySourceFile(r)
  <2>1. PICK e \in cur[r] : IndexCall(r, e, {}, "upsert", Failed(r), {e})
    BY <1>5 DEF DeleteBySourceFile
  <2>2. d # e
    BY <1>5, <2>1 DEF DeleteBySourceFile, IndexCall, Midway
  <2> QED  BY <1>5, <2>1, <2>2 DEF DeleteBySourceFile, IndexCall, Unsettle, Midway
<1>6. CASE UpsertChunks(r)
  <2>1. PICK e \in cur[r] : IndexCall(r, e, index[e] \cup {found[r][e]}, "store", Failed(r), {e})
    BY <1>6 DEF UpsertChunks
  <2>2. cur[r] = {e}
    BY <1>6, <2>1 DEF UpsertChunks, WorkFits
  <2>3. d # e
    BY <1>6, <2>1 DEF UpsertChunks, IndexCall, Midway
  <2> QED  BY <1>6, <2>1, <2>2, <2>3 DEF UpsertChunks, IndexCall, Unsettle, Midway
<1>7. CASE StoreDocument(r)
  <2>1. CASE d \in cur[r]
    <3>1. alone[r] /\ d \in Midway(r)
      BY <1>7, <2>1 DEF StoreDocument, Settle, Midway
    <3>2. index[d] = {found[r][d]}
      BY <1>7, <3>1 DEF StoreDocument, MidwayFits
    <3>3. found[r][d] # Gone
      BY <1>7, <2>1 DEF StoreDocument, WorkFits, Present
    <3> QED  BY <1>7, <2>1, <3>2, <3>3 DEF StoreDocument, Vectors
  <2>2. CASE d \notin cur[r]
    BY <1>7, <2>2 DEF StoreDocument, Settle, Midway
  <2> QED  BY <2>1, <2>2
<1>8. CASE removeDocument(r)
  <2>1. CASE d \in cur[r]
    <3>1. alone[r] /\ d \in Midway(r)
      BY <1>8, <2>1 DEF removeDocument, Settle, Midway
    <3>2. index[d] = {}
      BY <1>8, <3>1 DEF removeDocument, MidwayFits
    <3> QED  BY <1>8, <2>1, <3>2 DEF removeDocument, Vectors
  <2>2. CASE d \notin cur[r]
    BY <1>8, <2>2 DEF removeDocument, Settle, Midway
  <2> QED  BY <2>1, <2>2
<1>9. CASE DropVectors(r)
  <2>1. PICK e \in todo[r] :
            /\ todo' = [todo EXCEPT ![r] = @ \ {e}]
            /\ IndexCall(r, e, {}, "drop", "done", {e} \cup (Present(known[r]) \ todo[r]))
    BY <1>9 DEF DropVectors
  <2>2. pc[r] = "drop" /\ UNCHANGED <<documents, known>>
    BY <1>9 DEF DropVectors
  <2>3. src[r] # Upload
    BY <2>2 DEF WorkFits
  <2>4. CASE d \in todo[r] \/ d \notin Present(known[r])
    <3>1. d \notin Midway(r)
      BY <2>2, <2>4 DEF Midway
    <3>2. CASE d = e /\ e \in Present(known[r])
      <4>1. d \in Midway(r)' \/ d \in disturbed'
        BY <2>1, <2>2, <3>2 DEF IndexCall, Midway, Present
      <4> QED  BY <4>1
    <3>3. CASE d = e /\ e \notin Present(known[r])
      <4>1. alone[r] /\ index'[d] = {}
        BY <2>1, <3>3 DEF IndexCall, Unsettle
      <4>2. documents[d] = known[r][d] /\ known[r][d] = Gone
        BY <2>2, <3>3, <4>1 DEF DeletionFits, WorkFits, DocsOf, Present
      <4> QED  BY <2>2, <4>1, <4>2 DEF Vectors
    <3>4. CASE d # e
      BY <2>1, <2>2, <3>1, <3>4 DEF IndexCall, Unsettle
    <3> QED  BY <3>2, <3>3, <3>4
  <2>5. CASE d \in Present(known[r]) \ todo[r]
    BY <2>1, <2>2, <2>5 DEF IndexCall, Midway, Present
  <2> QED  BY <2>4, <2>5
<1>10. CASE RemoveSource(r)
  <2>1. Midway(r) = Present(known[r])
    BY <1>10 DEF RemoveSource, Midway
  <2>2. CASE d \in Present(known[r])
    <3>1. alone[r] /\ documents'[d] = Gone /\ index' = index
      BY <1>10, <2>2 DEF RemoveSource, Settle
    <3>2. index[d] = {}
      BY <1>10, <2>1, <2>2, <3>1 DEF RemoveSource, MidwayFits
    <3> QED  BY <3>1, <3>2 DEF Vectors
  <2>3. CASE d \notin Present(known[r])
    BY <1>10, <2>1, <2>3 DEF RemoveSource, Settle
  <2> QED  BY <2>2, <2>3
<1> QED  BY <1>1, <1>2, <1>3, <1>4, <1>5, <1>6, <1>7, <1>8, <1>9, <1>10 DEF Request, Continue

\* Search finds what is listed, after the step as before it.
LEMMA SearchStep ==
    ASSUME TypeOK, SearchMatchesListing, NEW r \in Requests, Fits(r), Reach(r),
           Request(r) \/ Continue(r)
    PROVE  SearchMatchesListing'
<1> SUFFICES ASSUME NEW d \in Docs \ disturbed', Still(d)'
             PROVE  index'[d] = Vectors(documents'[d])
  BY DEF SearchMatchesListing, Vectors
<1>1. d \notin Midway(r)'
  BY DEF Still
<1>2. CASE index'[d] = Vectors(documents'[d])
  BY <1>2
<1>3. CASE /\ d \notin Midway(r) /\ d \notin disturbed
           /\ index'[d] = index[d] /\ documents'[d] = documents[d]
  <2>1. ASSUME NEW q \in Requests \ {r} PROVE Midway(q)' = Midway(q)
    <3>1. pc'[q] = pc[q] /\ known'[q] = known[q] /\ todo'[q] = todo[q] /\ cur'[q] = cur[q]
      BY DEF Reach, Keeps
    <3> QED  BY <3>1 DEF Midway, Present
  <2>2. Still(d)
    BY <1>3, <2>1 DEF Still
  <2> QED  BY <1>3, <2>2 DEF SearchMatchesListing
<1> QED  BY <1>1, <1>2, <1>3, OwnDocuments DEF Fits

\* The documents of a deleted source stay gone.
LEMMA GoneStep ==
    ASSUME TypeOK, DeletedLeavesNothing, NEW r \in Requests, Fits(r), Request(r) \/ Continue(r),
           NEW s \in Sources, source'[s] = "deleted", NEW d \in DocsOf(s) \ disturbed'
    PROVE  documents'[d] = Gone
<1> USE KnowledgeAssumption DEF TypeOK, local, history
<1>1. d \in Docs /\ SourceOf[d] = s
  BY DEF DocsOf
<1>2. CASE source[s] = "deleted" /\ d \notin disturbed /\ documents'[d] = documents[d]
  BY <1>2 DEF DeletedLeavesNothing
<1>3. ASSUME UNCHANGED <<source, documents>>, disturbed \subseteq disturbed'
      PROVE  documents'[d] = Gone
  BY <1>2, <1>3
<1>4. CASE Request(r)
  BY <1>3, <1>4 DEF Request, startJob, DeleteSource, UploadDocument
<1>5. CASE collectSourceDocuments(r) \/ SyncFile(r) \/ SyncGone(r) \/ finishJob(r) \/ Respond(r)
  BY <1>3, <1>5 DEF collectSourceDocuments, SyncFile, SyncGone, finishJob, Respond
<1>6. CASE DropGone(r) \/ DeleteBySourceFile(r) \/ UpsertChunks(r) \/ DropVectors(r)
  <2>1. disturbed \subseteq disturbed'
    BY <1>6 DEF DropGone, DeleteBySourceFile, UpsertChunks, DropVectors, IndexCall, Unsettle
  <2> QED  BY <1>3, <1>6, <2>1 DEF DropGone, DeleteBySourceFile, UpsertChunks, DropVectors
<1>7. CASE StoreDocument(r)
  <2>1. d \notin cur[r]
    <3> SUFFICES ASSUME d \in cur[r] PROVE FALSE
      OBVIOUS
    <3>1. src[r] = s
      BY <1>1 DEF Fits, WorkFits, DocsOf
    <3>2. ~alone[r]
      BY <1>1, <1>7, <3>1 DEF StoreDocument, Fits, Overtaken, Syncing, DocsOf
    <3> QED  BY <1>7, <3>2 DEF StoreDocument, Settle
  <2>2. source[s] = "deleted" /\ d \notin disturbed /\ documents'[d] = documents[d]
    BY <1>1, <1>7, <2>1 DEF StoreDocument, Settle
  <2> QED  BY <1>2, <2>2
<1>8. CASE removeDocument(r)
  <2>1. CASE d \in cur[r]
    BY <1>1, <1>8, <2>1 DEF removeDocument
  <2>2. CASE d \notin cur[r]
    BY <1>1, <1>2, <1>8, <2>2 DEF removeDocument, Settle
  <2> QED  BY <2>1, <2>2
<1>9. CASE RemoveSource(r)
  <2>1. CASE source[src[r]] \notin {"enabled", "disabled"}
    BY <1>3, <1>9, <2>1 DEF RemoveSource
  <2>2. CASE source[src[r]] \in {"enabled", "disabled"} /\ d \in Present(known[r])
    BY <1>1, <1>9, <2>2 DEF RemoveSource
  <2>3. CASE source[src[r]] \in {"enabled", "disabled"} /\ d \notin Present(known[r])
    <3>1. d \notin disturbed /\ documents'[d] = documents[d]
      BY <1>1, <1>9, <2>3 DEF RemoveSource, Settle
    <3>2. CASE s = src[r]
      <4>1. documents[d] = known[r][d] /\ known[r][d] = Gone
        BY <1>1, <1>9, <2>3, <3>1, <3>2 DEF RemoveSource, Fits, DeletionFits, Present
      <4> QED  BY <3>1, <4>1
    <3>3. CASE s # src[r]
      BY <1>2, <1>9, <2>3, <3>1, <3>3 DEF RemoveSource
    <3> QED  BY <3>2, <3>3
  <2> QED  BY <2>1, <2>2, <2>3
<1> QED  BY <1>4, <1>5, <1>6, <1>7, <1>8, <1>9 DEF Continue

LEMMA DeletedStep ==
    ASSUME TypeOK, DeletedLeavesNothing, NEW r \in Requests, Fits(r),
           Request(r) \/ Continue(r), SearchMatchesListing'
    PROVE  DeletedLeavesNothing'
<1> SUFFICES ASSUME NEW s \in Sources, source'[s] = "deleted", NEW d \in DocsOf(s) \ disturbed'
             PROVE  documents'[d] = Gone /\ (Still(d)' => index'[d] = {})
  BY DEF DeletedLeavesNothing, DocsOf, Still, Midway, Present
<1>1. documents'[d] = Gone
  BY GoneStep
<1>2. Still(d)' => index'[d] = Vectors(documents'[d])
  BY DEF SearchMatchesListing, DocsOf, Vectors
<1> QED  BY <1>1, <1>2 DEF Vectors

-----------------------------------------------------------------------------

\* Every request fits, and the properties hold.
LEMMA InvParts ==
    KnowledgeInv <=> /\ TypeOK /\ Acquainted /\ \A q \in Requests : Fits(q)
                     /\ SearchMatchesListing /\ DeletedLeavesNothing /\ NoJobLeftRunning
BY DEF KnowledgeInv, Fits

LEMMA InitInv == Init => KnowledgeInv
<1> SUFFICES ASSUME Init PROVE KnowledgeInv
  OBVIOUS
<1> USE KnowledgeAssumption DEF Init
<1>1. TypeOK
  BY DEF TypeOK, NoDocs, Listed
<1>2. \A q \in Requests : Work(q) = {} /\ Midway(q) = {} /\ ~Syncing(q)
  BY DEF Work, Midway, Syncing
<1>3. Acquainted
  BY <1>2 DEF Acquainted
<1>4. ASSUME NEW q \in Requests PROVE Fits(q)
  <2>1. Present(known[q]) = {} /\ known[q] = NoDocs
    BY DEF Present, NoDocs
  <2>2. WorkFits(q)
    BY <1>2, <2>1 DEF WorkFits
  <2> QED  BY <1>2, <2>2 DEF Fits, MidwayFits, DeletionFits, Overtaken, SyncFits
<1>5. SearchMatchesListing
  BY DEF SearchMatchesListing, Vectors, NoDocs
<1>6. DeletedLeavesNothing /\ NoJobLeftRunning
  BY DEF DeletedLeavesNothing, NoJobLeftRunning
<1> QED  BY <1>1, <1>3, <1>4, <1>5, <1>6, InvParts

\* A step of a request keeps the invariant.
LEMMA RequestInv ==
    ASSUME KnowledgeInv, NEW r \in Requests, Request(r) \/ Continue(r)
    PROVE  KnowledgeInv'
<1>1. /\ TypeOK /\ Acquainted /\ SearchMatchesListing /\ DeletedLeavesNothing
      /\ \A q \in Requests : Fits(q)
  BY InvParts
<1>2. WorkFits(r) /\ Fits(r)
  BY <1>1 DEF Fits
<1>3. TypeOK'
  BY <1>1, <1>2, TypeStep
<1>4. Reach(r)
  BY <1>1, <1>2, ReachStep
<1>5. ASSUME NEW q \in Requests PROVE Fits(q)'
  <2>1. CASE q = r
    BY <1>1, <1>2, <2>1, OwnStep
  <2>2. CASE q # r
    BY <1>1, <1>4, <2>2, OthersKeep
  <2> QED  BY <2>1, <2>2
<1>6. Acquainted'
  BY <1>1, <1>2, AcquaintedStep
<1>7. SearchMatchesListing'
  BY <1>1, <1>2, <1>4, SearchStep
<1>8. DeletedLeavesNothing'
  BY <1>1, <1>2, <1>7, DeletedStep
<1>9. NoJobLeftRunning'
  BY <1>5 DEF Fits, WorkFits, Syncing, NoJobLeftRunning
<1> QED  BY <1>3, <1>5, <1>6, <1>7, <1>8, <1>9 DEF KnowledgeInv, Fits

\* Registering or toggling a source deletes none.
LEMMA UserInv ==
    ASSUME KnowledgeInv, User PROVE KnowledgeInv'
<1>1. /\ UNCHANGED <<documents, index, pc, local, job, faults, history, served>>
      /\ source' \in [Sources -> {"absent", "enabled", "disabled", "deleted"}]
      /\ \A s \in Sources : source'[s] = "deleted" => source[s] = "deleted"
  BY DEF User, CreateSource, UpdateSource, KnowledgeInv, TypeOK
<1> USE <1>1 DEF local, history, KnowledgeInv
<1>2. TypeOK'
  BY DEF TypeOK
<1>3. Acquainted'
  BY DEF Acquainted, Work, DocsOf
<1>4. ASSUME NEW q \in Requests PROVE WorkFits(q)' /\ MidwayFits(q)' /\ DeletionFits(q)' /\ SyncFits(q)'
  <2>1. WorkFits(q)'
    BY DEF WorkFits, Syncing, DocsOf, Present, NoDocs
  <2>2. MidwayFits(q)'
    BY DEF MidwayFits, Midway, Present
  <2>3. DeletionFits(q)'
    BY DEF DeletionFits, DocsOf
  <2>4. SyncFits(q)'
    BY DEF SyncFits, Syncing, DocsOf
  <2> QED  BY <2>1, <2>2, <2>3, <2>4
<1>5. ASSUME NEW q \in Requests PROVE Overtaken(q)'
  <2>1. Syncing(q) => src[q] \in Sources
    BY DEF Syncing, TypeOK
  <2> QED  BY <2>1 DEF Overtaken, Syncing, DocsOf
<1>6. SearchMatchesListing'
  BY DEF SearchMatchesListing, Still, Midway, Present, Vectors
<1>7. DeletedLeavesNothing'
  BY DEF DeletedLeavesNothing, Still, Midway, Present, DocsOf
<1>8. NoJobLeftRunning'
  BY DEF NoJobLeftRunning
<1> QED  BY <1>2, <1>3, <1>4, <1>5, <1>6, <1>7, <1>8

LEMMA NextInv == KnowledgeInv /\ [Next]_vars => KnowledgeInv'
<1> SUFFICES ASSUME KnowledgeInv, [Next]_vars PROVE KnowledgeInv'
  OBVIOUS
<1>1. CASE User
  BY <1>1, UserInv
<1>2. ASSUME NEW r \in Requests, Request(r) \/ Continue(r) PROVE KnowledgeInv'
  BY <1>2, RequestInv
<1>3. CASE UNCHANGED vars
  <2> USE <1>3 DEF vars, local, history, KnowledgeInv
  <2>1. TypeOK'
    BY DEF TypeOK
  <2>2. Acquainted'
    <3>1. \A q \in Requests : Work(q)' = Work(q)
      BY DEF Work, DocsOf
    <3> QED  BY <3>1 DEF Acquainted
  <2>3. ASSUME NEW q \in Requests PROVE WorkFits(q)' /\ MidwayFits(q)' /\ DeletionFits(q)'
    <3>1. WorkFits(q)'
      BY DEF WorkFits, Syncing, DocsOf, Present, NoDocs
    <3>2. MidwayFits(q)'
      BY DEF MidwayFits, Midway, Present
    <3>3. DeletionFits(q)'
      BY DEF DeletionFits, DocsOf
    <3> QED  BY <3>1, <3>2, <3>3
  <2>4. ASSUME NEW q \in Requests PROVE Overtaken(q)' /\ SyncFits(q)'
    BY DEF Overtaken, SyncFits, Syncing, DocsOf
  <2>5. SearchMatchesListing'
    BY DEF SearchMatchesListing, Still, Midway, Present, Vectors
  <2>6. DeletedLeavesNothing'
    BY DEF DeletedLeavesNothing, Still, Midway, Present, DocsOf
  <2>7. NoJobLeftRunning'
    BY DEF NoJobLeftRunning
  <2> QED  BY <2>1, <2>2, <2>3, <2>4, <2>5, <2>6, <2>7
<1> QED  BY <1>1, <1>2, <1>3 DEF Next

\* The invariant holds throughout, for any number of requests, documents,
\* sources and contents (service.go: SyncSource, UploadDocument, DeleteSource).
THEOREM KnowledgeInvariant == Spec => []KnowledgeInv
<1>1. Init => KnowledgeInv
  BY InitInv
<1>2. KnowledgeInv /\ [Next]_vars => KnowledgeInv'
  BY NextInv
<1> QED  BY <1>1, <1>2, PTL DEF Spec

\* What search finds of a document is what the maps list of it, if requests
\* did not meet at it and no index call failed for it.
THEOREM SearchIsListing == Spec => []SearchMatchesListing
<1>1. KnowledgeInv => SearchMatchesListing
  BY DEF KnowledgeInv
<1> QED  BY <1>1, KnowledgeInvariant, PTL

\* A deleted source leaves no document and no vector behind.
THEOREM DeletedSourcesLeaveNothing == Spec => []DeletedLeavesNothing
<1>1. KnowledgeInv => DeletedLeavesNothing
  BY DEF KnowledgeInv
<1> QED  BY <1>1, KnowledgeInvariant, PTL

\* Every job of a request that has answered has ended.
THEOREM JobsEnd == Spec => []NoJobLeftRunning
<1>1. KnowledgeInv => NoJobLeftRunning
  BY DEF KnowledgeInv
<1> QED  BY <1>1, KnowledgeInvariant, PTL

\* A completed job has listed exactly the files it collected, if it had the
\* source to itself.
THEOREM CompletionIsFaithful == Spec => CompletedJobIsFaithful
<1> DEFINE Faithful == \A q \in Requests :
              job[q] = "running" /\ job'[q] = "completed" /\ alone[q] =>
                  \A d \in DocsOf(src[q]) : documents[d] = found[q][d]
<1>1. KnowledgeInv /\ [Next]_vars => [Faithful]_vars
  <2> SUFFICES ASSUME KnowledgeInv, Next, NEW q \in Requests,
                      job[q] = "running", job'[q] = "completed", alone[q],
                      NEW d \in DocsOf(src[q])
               PROVE  documents[d] = found[q][d]
    OBVIOUS
  <2>1. TypeOK /\ Syncing(q) /\ SyncFits(q)
    BY DEF KnowledgeInv, WorkFits
  <2>2. ~User
    BY DEF User, CreateSource, UpdateSource
  <2>3. PICK r \in Requests : Request(r) \/ Continue(r)
    BY <2>2 DEF Next
  <2>4. r = q
    <3>1. Reach(r)
      BY <2>1, <2>3, ReachStep DEF KnowledgeInv
    <3> QED  BY <3>1 DEF Reach, Keeps
  <2>5. pc[q] = "gone" /\ todo[q] = {}
    BY <2>1, <2>3, <2>4 DEF TypeOK, Goto, local, history, Request, startJob, DeleteSource,
       UploadDocument, Continue, collectSourceDocuments, SyncFile, SyncGone, DropGone,
       removeDocument, finishJob, DeleteBySourceFile, UpsertChunks, StoreDocument, DropVectors,
       RemoveSource, Respond
  <2> QED  BY <2>1, <2>5 DEF SyncFits
<1> QED  BY <1>1, KnowledgeInvariant, PTL DEF Spec, CompletedJobIsFaithful

=============================================================================
