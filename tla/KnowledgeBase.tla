---------------------------- MODULE KnowledgeBase ----------------------------
(***************************************************************************)
(* internal/tools/kb/service.go: the documents of one knowledge base, their*)
(* vectors in the index, and the requests that sync a source, upload a     *)
(* document or delete a source.                                            *)
(*                                                                         *)
(* The maps are guarded by a mutex, the vector index is not: a request     *)
(* reads the maps, works on the index without the mutex, and then updates  *)
(* the maps, so requests for the same documents overlap.  One action is    *)
(* one critical section or one call on the index.                          *)
(*                                                                         *)
(* A document, its chunks and the list of its chunk ids always change in   *)
(* one critical section: `documents' stands for the three maps.  Texts,    *)
(* hashes and chunks are abstracted to the identity of the content.        *)
(***************************************************************************)
EXTENDS Naturals, FiniteSets

CONSTANTS
    Requests,       \* the requests the server works on at a time
    Docs,           \* the stable document ids
    Sources,        \* the ids ids.New("kbsrc") may return
    Upload,         \* the implicit source of uploaded documents
    SourceOf,       \* the source a document id is derived from
    Contents,       \* the contents that can be indexed
    Gone,           \* no content
    MaxServed,      \* bound: requests served over time
    MaxFaults       \* bound: calls on the index that return an error

ASSUME KnowledgeAssumption ==
    /\ Upload \notin Sources
    /\ SourceOf \in [Docs -> Sources \cup {Upload}]
    /\ Gone \notin Contents
    /\ MaxServed \in Nat /\ MaxFaults \in Nat

VARIABLES
    source,         \* s.sources: what is registered
    documents,      \* s.documents, s.chunks, s.documentChunks
    index,          \* the vectors of each document: of which contents
    pc,
    src,            \* the source a request works on
    known,          \* the documents it found when it started
    found,          \* the contents it has collected
    todo, cur,      \* the documents left, and the one at hand
    job,            \* the status of its KnowledgeIndexJob
    served, faults,
    alone,          \* history: nobody else works on the request's documents
    disturbed       \* history: the documents two requests or an error met at

local == <<src, known, found, todo, cur>>
history == <<alone, disturbed>>
vars == <<source, documents, index, pc, local, job, served, faults, history>>

Listed == Contents \cup {Gone}
NoDocs == [d \in Docs |-> Gone]
DocsOf(s) == {d \in Docs : SourceOf[d] = s}
Of(s, content) == [d \in Docs |-> IF SourceOf[d] = s THEN content[d] ELSE Gone]
Present(content) == {d \in Docs : content[d] # Gone}

TypeOK ==
    /\ source \in [Sources -> {"absent", "enabled", "disabled", "deleted"}]
    /\ documents \in [Docs -> Listed]
    /\ index \in [Docs -> SUBSET Contents]
    /\ pc \in [Requests -> {"idle", "collect", "file", "delete", "upsert", "store",
                            "gone", "remove", "fail", "drop", "done"}]
    /\ src \in [Requests -> Sources \cup {Upload}]
    /\ known \in [Requests -> [Docs -> Listed]]
    /\ found \in [Requests -> [Docs -> Listed]]
    /\ todo \in [Requests -> SUBSET Docs]
    /\ cur \in [Requests -> SUBSET Docs]
    /\ job \in [Requests -> {"none", "running", "completed", "failed"}]
    /\ served \in 0..MaxServed
    /\ faults \in 0..MaxFaults
    /\ alone \in [Requests -> BOOLEAN]
    /\ disturbed \subseteq Docs

Init ==
    /\ source = [s \in Sources |-> "absent"]
    /\ documents = NoDocs
    /\ index = [d \in Docs |-> {}]
    /\ pc = [q \in Requests |-> "idle"]
    /\ src = [q \in Requests |-> Upload]
    /\ known = [q \in Requests |-> NoDocs]
    /\ found = [q \in Requests |-> NoDocs]
    /\ todo = [q \in Requests |-> {}]
    /\ cur = [q \in Requests |-> {}]
    /\ job = [q \in Requests |-> "none"]
    /\ served = 0 /\ faults = 0
    /\ alone = [q \in Requests |-> TRUE]
    /\ disturbed = {}

-----------------------------------------------------------------------------
(* Pieces of actions *)

Goto(q, stage) == pc' = [pc EXCEPT ![q] = stage]

\* The documents a request may change.
Work(q) == IF pc[q] \in {"idle", "done"} THEN {}
           ELSE IF src[q] = Upload THEN cur[q] ELSE DocsOf(src[q])

\* Request q starts to work on D, next to those that already do.
Begin(q, D) ==
    /\ pc[q] = "idle"
    /\ served < MaxServed /\ served' = served + 1
    /\ LET others == {r \in Requests : Work(r) \cap D # {}}
       IN  alone' = [r \in Requests |-> IF r = q THEN others = {}
                                        ELSE alone[r] /\ r \notin others]

\* q has changed the documents in D: it leaves them in order if nobody else
\* was at work on them.
Settle(q, D) ==
    disturbed' = IF alone[q] THEN disturbed \ D ELSE disturbed \cup D

\* q is about to change them further.
Unsettle(q, D) ==
    disturbed' = IF alone[q] THEN disturbed ELSE disturbed \cup D

\* A call on the index, by q for document d: it succeeds, or it returns an
\* error and may have had its effect all the same.
IndexCall(q, d, vectors, stage, failed, lost) ==
    \/ /\ index' = [index EXCEPT ![d] = vectors]
       /\ Goto(q, stage)
       /\ Unsettle(q, {d})
       /\ UNCHANGED faults
    \/ /\ faults < MaxFaults /\ faults' = faults + 1
       /\ \E v \in {vectors, index[d]} : index' = [index EXCEPT ![d] = v]
       /\ Goto(q, failed)
       /\ disturbed' = disturbed \cup lost

-----------------------------------------------------------------------------
(* Sources *)

CreateSource(s) ==
    /\ source[s] = "absent"
    /\ \E status \in {"enabled", "disabled"} :
           source' = [source EXCEPT ![s] = status]
    /\ UNCHANGED <<documents, index, pc, local, job, faults, history, served>>

UpdateSource(s) ==
    /\ source[s] \in {"enabled", "disabled"}
    /\ \E status \in {"enabled", "disabled"} :
           source' = [source EXCEPT ![s] = status]
    /\ UNCHANGED <<documents, index, pc, local, job, faults, history, served>>

-----------------------------------------------------------------------------
(* SyncSource *)

\* startJob: the source is there and enabled; its documents are copied.
startJob(q, s) ==
    /\ source[s] = "enabled"
    /\ src' = [src EXCEPT ![q] = s]
    /\ known' = [known EXCEPT ![q] = Of(s, documents)]
    /\ job' = [job EXCEPT ![q] = "running"]
    /\ Goto(q, "collect")
    /\ Begin(q, DocsOf(s))
    /\ UNCHANGED <<source, documents, index, found, todo, cur, faults, disturbed>>

\* The files are read, with whatever the user has written to them by then, or
\* cannot be.
collectSourceDocuments(q) ==
    /\ pc[q] = "collect"
    /\ \/ \E files \in [DocsOf(src[q]) -> Listed] :
              /\ found' = [found EXCEPT ![q] = Of(src[q], files)]
              /\ todo' = [todo EXCEPT ![q] = Present(Of(src[q], files))]
              /\ Goto(q, "file")
       \/ Goto(q, "fail") /\ UNCHANGED <<found, todo>>
    /\ UNCHANGED <<source, documents, index, src, known, cur, job, faults, history, served>>

\* A mutant: a document that is known is taken for unchanged.
SyncFileKnown(q) ==
    /\ pc[q] = "file"
    /\ \E d \in todo[q] :
         /\ todo' = [todo EXCEPT ![q] = @ \ {d}]
         /\ \/ /\ known[q][d] # Gone
               /\ UNCHANGED <<pc, cur>>
            \/ /\ known[q][d] = Gone
               /\ cur' = [cur EXCEPT ![q] = {d}]
               /\ \E stage \in {"delete", "fail"} : Goto(q, stage)
    /\ UNCHANGED <<source, documents, index, src, known, found, job, faults, history, served>>

\* A file whose hash is that of the known document is skipped; any other is
\* parsed, scanned for secrets and embedded, and each may refuse it.
SyncFile(q) ==
    /\ pc[q] = "file"
    /\ \E d \in todo[q] :
         /\ todo' = [todo EXCEPT ![q] = @ \ {d}]
         /\ \/ /\ known[q][d] = found[q][d]
               /\ UNCHANGED <<pc, cur>>
            \/ /\ known[q][d] # found[q][d]
               /\ cur' = [cur EXCEPT ![q] = {d}]
               /\ \E stage \in {"delete", "fail"} : Goto(q, stage)
    /\ UNCHANGED <<source, documents, index, src, known, found, job, faults, history, served>>

\* All files are done: the known documents whose file is gone come next.
SyncGone(q) ==
    /\ pc[q] = "file" /\ todo[q] = {}
    /\ todo' = [todo EXCEPT ![q] = Present(known[q]) \ Present(found[q])]
    /\ known' = [known EXCEPT ![q] = NoDocs]
    /\ cur' = [cur EXCEPT ![q] = {}]
    /\ Goto(q, "gone")
    /\ UNCHANGED <<source, documents, index, src, found, job, faults, history, served>>

\* The vectors of one of them are deleted, and then the document.
DropGone(q) ==
    /\ pc[q] = "gone"
    /\ \E d \in todo[q] :
         /\ todo' = [todo EXCEPT ![q] = @ \ {d}]
         /\ cur' = [cur EXCEPT ![q] = {d}]
         /\ IndexCall(q, d, {}, "remove", "fail", {d})
    /\ UNCHANGED <<source, documents, src, known, found, job, alone, served>>

removeDocument(q) ==
    /\ pc[q] = "remove"
    /\ documents' = [d \in Docs |-> IF d \in cur[q] THEN Gone ELSE documents[d]]
    /\ Settle(q, cur[q])
    /\ Goto(q, "gone")
    /\ UNCHANGED <<source, index, local, job, faults, alone, served>>

\* A mutant: the error path forgets the job.
finishJobCompleted(q) ==
    /\ pc[q] \in {"gone", "fail"}
    /\ pc[q] = "gone" => todo[q] = {}
    /\ job' = [job EXCEPT ![q] = IF pc[q] = "gone" THEN "completed" ELSE @]
    /\ Goto(q, "done")
    /\ UNCHANGED <<source, documents, index, local, faults, history, served>>

finishJob(q) ==
    /\ pc[q] \in {"gone", "fail"}
    /\ pc[q] = "gone" => todo[q] = {}
    /\ job' = [job EXCEPT ![q] = IF pc[q] = "gone" THEN "completed" ELSE "failed"]
    /\ Goto(q, "done")
    /\ UNCHANGED <<source, documents, index, local, faults, history, served>>

-----------------------------------------------------------------------------
(* What SyncSource and UploadDocument do with one document *)

\* DeleteBySourceFile, UpsertChunks, and the update of the maps.  An error
\* ends an upload, and the job of a sync.
Failed(q) == IF src[q] = Upload THEN "done" ELSE "fail"

\* A mutant: the old vectors stay.
DeleteNothing(q) ==
    /\ pc[q] = "delete"
    /\ \E d \in cur[q] : IndexCall(q, d, index[d], "upsert", Failed(q), {d})
    /\ UNCHANGED <<source, documents, local, job, alone, served>>

DeleteBySourceFile(q) ==
    /\ pc[q] = "delete"
    /\ \E d \in cur[q] : IndexCall(q, d, {}, "upsert", Failed(q), {d})
    /\ UNCHANGED <<source, documents, local, job, alone, served>>

UpsertChunks(q) ==
    /\ pc[q] = "upsert"
    /\ \E d \in cur[q] :
           IndexCall(q, d, index[d] \cup {found[q][d]}, "store", Failed(q), {d})
    /\ UNCHANGED <<source, documents, local, job, alone, served>>

StoreDocument(q) ==
    /\ pc[q] = "store"
    /\ documents' = [d \in Docs |-> IF d \in cur[q] THEN found[q][d] ELSE documents[d]]
    /\ Settle(q, cur[q])
    /\ Goto(q, IF src[q] = Upload THEN "done" ELSE "file")
    /\ UNCHANGED <<source, index, local, job, faults, alone, served>>

\* UploadDocument, once the content is parsed and embedded.
UploadDocument(q, d, c) ==
    /\ SourceOf[d] = Upload
    /\ found' = [found EXCEPT ![q] = [NoDocs EXCEPT ![d] = c]]
    /\ cur' = [cur EXCEPT ![q] = {d}]
    /\ Goto(q, "delete")
    /\ Begin(q, {d})
    /\ UNCHANGED <<source, documents, index, src, known, todo, job, faults, disturbed>>

-----------------------------------------------------------------------------
(* DeleteSource *)

\* The documents of the source are copied, even if there is no such source.
DeleteSource(q, s) ==
    /\ source[s] # "absent"
    /\ src' = [src EXCEPT ![q] = s]
    /\ known' = [known EXCEPT ![q] = Of(s, documents)]
    /\ todo' = [todo EXCEPT ![q] = Present(Of(s, documents))]
    /\ Goto(q, "drop")
    /\ Begin(q, DocsOf(s))
    /\ UNCHANGED <<source, documents, index, found, cur, job, faults, disturbed>>

\* Their vectors are deleted one by one; an error leaves the source and all
\* the documents in the maps.
DropVectors(q) ==
    /\ pc[q] = "drop"
    /\ \E d \in todo[q] :
         /\ todo' = [todo EXCEPT ![q] = @ \ {d}]
         /\ IndexCall(q, d, {}, "drop", "done", {d} \cup (Present(known[q]) \ todo[q]))
    /\ UNCHANGED <<source, documents, src, known, found, cur, job, alone, served>>

\* A mutant: the documents stay in the maps.
RemoveSourceOnly(q) ==
    /\ pc[q] = "drop" /\ todo[q] = {}
    /\ IF source[src[q]] \in {"enabled", "disabled"}
       THEN /\ source' = [source EXCEPT ![src[q]] = "deleted"]
            /\ Settle(q, Present(known[q]))
       ELSE disturbed' = disturbed \cup Present(known[q]) /\ UNCHANGED source
    /\ Goto(q, "done")
    /\ UNCHANGED <<documents, index, local, job, faults, alone, served>>

\* The source, if it is still there, and the copied documents are removed.
RemoveSource(q) ==
    /\ pc[q] = "drop" /\ todo[q] = {}
    /\ LET listed == Present(known[q])
       IN  IF source[src[q]] \in {"enabled", "disabled"}
           THEN /\ source' = [source EXCEPT ![src[q]] = "deleted"]
                /\ documents' = [d \in Docs |-> IF d \in listed THEN Gone ELSE documents[d]]
                /\ Settle(q, listed)
           ELSE disturbed' = disturbed \cup listed /\ UNCHANGED <<source, documents>>
    /\ Goto(q, "done")
    /\ UNCHANGED <<index, local, job, faults, alone, served>>

\* The handler answers; its place is free for another request.
Respond(q) ==
    /\ pc[q] = "done"
    /\ Goto(q, "idle")
    /\ src' = [src EXCEPT ![q] = Upload]
    /\ known' = [known EXCEPT ![q] = NoDocs]
    /\ found' = [found EXCEPT ![q] = NoDocs]
    /\ todo' = [todo EXCEPT ![q] = {}]
    /\ cur' = [cur EXCEPT ![q] = {}]
    /\ alone' = [alone EXCEPT ![q] = TRUE]
    /\ job' = [job EXCEPT ![q] = "none"]
    /\ UNCHANGED <<source, documents, index, faults, disturbed, served>>

-----------------------------------------------------------------------------

User == \E s \in Sources : CreateSource(s) \/ UpdateSource(s)

Request(q) ==
    \/ \E s \in Sources : startJob(q, s) \/ DeleteSource(q, s)
    \/ \E d \in Docs, c \in Contents : UploadDocument(q, d, c)

Continue(q) ==
    \/ collectSourceDocuments(q) \/ SyncFile(q) \/ SyncGone(q)
    \/ DropGone(q) \/ removeDocument(q) \/ finishJob(q)
    \/ DeleteBySourceFile(q) \/ UpsertChunks(q) \/ StoreDocument(q)
    \/ DropVectors(q) \/ RemoveSource(q)
    \/ Respond(q)

Next == User \/ \E q \in Requests : Request(q) \/ Continue(q)

Spec == Init /\ [][Next]_vars

-----------------------------------------------------------------------------
(* Properties *)

\* The documents q has begun to change and not finished with.
Midway(q) == IF pc[q] \in {"upsert", "store", "remove"} THEN cur[q]
             ELSE IF pc[q] = "drop" THEN Present(known[q]) \ todo[q]
             ELSE {}

Still(d) == \A q \in Requests : d \notin Midway(q)

Vectors(content) == IF content = Gone THEN {} ELSE {content}

\* Search finds what the maps list, no more and no less: the vectors of a
\* document are those of its listed content, whatever is synced, uploaded or
\* deleted around it and fails.  Only a document two requests met at, or at
\* which an index call failed, may be out of step, until a request that has it
\* to itself indexes it again.
SearchMatchesListing ==
    \A d \in Docs \ disturbed : Still(d) => index[d] = Vectors(documents[d])

\* A source that has been deleted leaves nothing that can be found.
DeletedLeavesNothing ==
    \A s \in Sources : source[s] = "deleted" =>
        \A d \in DocsOf(s) \ disturbed :
            documents[d] = Gone /\ (Still(d) => index[d] = {})

\* No job is left running by a request that has answered, whichever of its
\* calls failed.
NoJobLeftRunning ==
    \A q \in Requests : job[q] = "running" => pc[q] \notin {"idle", "done"}

\* The stages of a sync.
Syncing(q) == src[q] # Upload /\ pc[q] \notin {"idle", "drop", "done"}

\* What a request works on belongs to its source.
WorkFits(q) ==
    /\ cur[q] \cup todo[q] \cup Present(known[q]) \subseteq DocsOf(src[q])
    /\ pc[q] = "idle" => src[q] = Upload /\ cur[q] = {} /\ todo[q] = {} /\ known[q] = NoDocs
    /\ src[q] = Upload => pc[q] \in {"idle", "delete", "upsert", "store", "done"}
    /\ pc[q] \in {"delete", "upsert", "store", "remove"} => \E d \in Docs : cur[q] = {d}
    /\ pc[q] = "file" => todo[q] \subseteq Present(found[q])
    /\ pc[q] \in {"delete", "upsert", "store"} =>
           (IF src[q] = Upload THEN {} ELSE todo[q]) \cup cur[q] \subseteq Present(found[q])
    /\ pc[q] \in {"gone", "remove"} => todo[q] \cap Present(found[q]) = {}
    /\ pc[q] = "remove" => cur[q] \cap Present(found[q]) = {}
    /\ job[q] = "running" <=> Syncing(q)

\* Two requests at work on one document know of each other.
Acquainted ==
    \A q, r \in Requests : q # r /\ Work(q) \cap Work(r) # {} => ~alone[q]

\* A document that q is midway with is in the state q has left it in.
MidwayFits(q) ==
    \A d \in Midway(q) : alone[q] \/ d \notin disturbed =>
        index[d] = IF pc[q] = "store" THEN {found[q][d]} ELSE {}

\* A deletion has seen the documents of the source as they are.
DeletionFits(q) ==
    pc[q] = "drop" => \A d \in DocsOf(src[q]) :
        alone[q] \/ d \notin disturbed => documents[d] = known[q][d]

\* A sync of a deleted source has met the deletion.
Overtaken(q) ==
    Syncing(q) /\ source[src[q]] = "deleted" /\ DocsOf(src[q]) # {} => ~alone[q]

\* Which documents of a sync are listed as its files are, and which still will be.
SyncFits(q) ==
    Syncing(q) /\ alone[q] => \A d \in DocsOf(src[q]) :
        /\ pc[q] = "collect" => documents[d] = known[q][d]
        /\ pc[q] \in {"file", "delete", "upsert", "store"} =>
               \/ d \in todo[q] /\ documents[d] = known[q][d]
               \/ d \in cur[q] /\ pc[q] # "file"
               \/ documents[d] = found[q][d]
               \/ found[q][d] = Gone /\ documents[d] = known[q][d]
        /\ pc[q] \in {"gone", "remove"} =>
               \/ documents[d] = found[q][d]
               \/ found[q][d] = Gone /\ (d \in todo[q] \/ (d \in cur[q] /\ pc[q] = "remove"))

\* The invariant the proofs work with.
KnowledgeInv ==
    /\ TypeOK /\ Acquainted
    /\ \A q \in Requests :
           /\ WorkFits(q) /\ MidwayFits(q) /\ DeletionFits(q)
           /\ Overtaken(q) /\ SyncFits(q)
    /\ SearchMatchesListing /\ DeletedLeavesNothing /\ NoJobLeftRunning

\* A job that reports completion, and had the source to itself, has listed
\* exactly the files it collected, the changed and the vanished ones included.
CompletedJobIsFaithful ==
    [][\A q \in Requests :
         job[q] = "running" /\ job'[q] = "completed" /\ alone[q] =>
             \A d \in DocsOf(src[q]) : documents[d] = found[q][d]]_vars

\* When nobody works on a deleted source any more, it has no document and no
\* chunk in the index.
DeletedIsGone ==
    \A s \in Sources :
        source[s] = "deleted" /\ (\A q \in Requests : Work(q) \cap DocsOf(s) = {}) =>
            \A d \in DocsOf(s) : documents[d] = Gone /\ index[d] = {}

=============================================================================
