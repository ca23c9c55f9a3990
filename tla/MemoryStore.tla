----------------------------- MODULE MemoryStore -----------------------------
(***************************************************************************)
(* internal/tools/memory: one Markdown file of memory items, the vector    *)
(* index next to it and the queue of reviews.                              *)
(*                                                                         *)
(* The store has no lock.  An operation on an item reads the whole file,   *)
(* changes one item of the copy, truncates the file and writes the copy    *)
(* into it, and re-indexes all files; a review is read, applied and        *)
(* written back.  Requests, the tool router's and the reviews' handlers,   *)
(* do this next to each other.  Files do not interact: one is enough.  An  *)
(* item is the number of its creation; of its text only matters whether it *)
(* is sensitive, and then it is refused before anything happens; how the   *)
(* text is rendered and parsed is MemoryDocument.                          *)
(***************************************************************************)
EXTENDS Naturals, FiniteSets, MemoryDocument

CONSTANTS
    MemRequests,    \* the requests the store serves at a time
    MemReviews,     \* the candidates that may be queued
    MaxMemItems,    \* bound: items created
    MaxMemOps,      \* bound: operations begun
    MaxMemFaults    \* bound: failures of the indexer and crashes

ASSUME MemAssumption ==
    /\ MemReviews \subseteq Nat \ {0}
    /\ MaxMemItems \in Nat /\ MaxMemOps \in Nat /\ MaxMemFaults \in Nat

VARIABLES
    file,           \* the Markdown file
    vectors,        \* the items the vector index knows
    reviews,        \* the files of the review queue
    mempc,          \* the stage of a request
    job,            \* what it has been asked to do
    doc,            \* its copy of the document
    memItems,       \* items created so far
    memOps, memFaults,
    origin,         \* history: the review an item was made from
    last,           \* history: the file as the requests that wrote it meant it
    disturbed,      \* history: two requests had the file at once, or a crash tore it
    muddled,        \* history: reviews with overlapping or failed decisions
    unindexed       \* history: an indexing failed and none has succeeded since

memFiles == <<file, vectors, reviews>>
memLocal == <<mempc, job, doc>>
memBounds == <<memItems, memOps, memFaults>>
memHistory == <<origin, last, disturbed, muddled, unindexed>>
memVars == <<memFiles, memLocal, memBounds, memHistory>>

MemItems == 1..MaxMemItems
ItemStatus == {"none", "active", "archived"}
\* The preamble, which may hold memories without markup, and the items.
Documents == [legacy : BOOLEAN, item : [MemItems -> ItemStatus]]
EmptyFile == [legacy |-> FALSE, item |-> [i \in MemItems |-> "none"]]
NoReview == 0
Jobs == [kind : {"none", "create", "archive", "restore", "delete", "reject", "reindex"},
         item : 0..MaxMemItems, review : MemReviews \cup {NoReview}]
NoJob == [kind |-> "none", item |-> 0, review |-> NoReview]
Job(kind, i, v) == [kind |-> kind, item |-> i, review |-> v]

MemTypeOK ==
    /\ file \in Documents
    /\ vectors \subseteq MemItems
    /\ reviews \in [MemReviews -> {"none", "pending", "rejected", "applied"}]
    /\ mempc \in [MemRequests -> {"idle", "read", "truncate", "fill", "reindex",
                                  "review"}]
    /\ job \in [MemRequests -> Jobs]
    /\ doc \in [MemRequests -> Documents]
    /\ memItems \in 0..MaxMemItems /\ memOps \in 0..MaxMemOps
    /\ memFaults \in 0..MaxMemFaults
    /\ origin \in [MemItems -> MemReviews \cup {NoReview}]
    /\ last \in Documents
    /\ disturbed \in BOOLEAN
    /\ muddled \subseteq MemReviews
    /\ unindexed \in BOOLEAN

\* A file written by hand, or none.
MemInit ==
    /\ \E legacy \in BOOLEAN : file = [EmptyFile EXCEPT !.legacy = legacy]
    /\ vectors = {}
    /\ reviews = [v \in MemReviews |-> "none"]
    /\ mempc = [r \in MemRequests |-> "idle"]
    /\ job = [r \in MemRequests |-> NoJob]
    /\ doc = [r \in MemRequests |-> EmptyFile]
    /\ memItems = 0 /\ memOps = 0 /\ memFaults = 0
    /\ origin = [i \in MemItems |-> NoReview]
    /\ last = file
    /\ disturbed = FALSE /\ muddled = {} /\ unindexed = FALSE

MemGoto(r, stage) == mempc' = [mempc EXCEPT ![r] = stage]
\* The requests between reading the file and having written it.
Holding == {r \in MemRequests : mempc[r] \in {"truncate", "fill"}}
DecidingOn(v) == {r \in MemRequests : mempc[r] # "idle" /\ job[r].review = v}

-----------------------------------------------------------------------------
(* Reviews *)

\* CreateReview: a sensitive candidate is rejected at once.  Conflicts with
\* items are noted for the reader only.
CreateReview(v) ==
    /\ memOps < MaxMemOps /\ memOps' = memOps + 1
    /\ reviews[v] = "none"
    /\ \E status \in {"pending", "rejected"} : reviews' = [reviews EXCEPT ![v] = status]
    /\ UNCHANGED <<file, vectors, memLocal, memItems, memFaults, memHistory>>

Begin(r, j, stage) ==
    /\ memOps < MaxMemOps /\ memOps' = memOps + 1
    /\ mempc[r] = "idle"
    /\ job' = [job EXCEPT ![r] = j]
    /\ MemGoto(r, stage)

\* ApproveReview reads the review and goes on to create the item.
ApproveReview(r, v) ==
    /\ reviews[v] = "pending"
    /\ Begin(r, Job("create", 0, v), "read")
    /\ muddled' = IF DecidingOn(v) = {} THEN muddled ELSE muddled \cup {v}
    /\ UNCHANGED <<memFiles, doc, memItems, memFaults, origin, last, disturbed, unindexed>>

\* RejectReview reads it and goes on to write it.
RejectReview(r, v) ==
    /\ reviews[v] \in {"pending", "rejected"}
    /\ Begin(r, Job("reject", 0, v), "review")
    /\ muddled' = IF DecidingOn(v) = {} THEN muddled ELSE muddled \cup {v}
    /\ UNCHANGED <<memFiles, doc, memItems, memFaults, origin, last, disturbed, unindexed>>

\* writeReview, with the decision.
WriteReview(r) ==
    /\ mempc[r] = "review"
    /\ reviews' = [reviews EXCEPT ![job[r].review] =
                     IF job[r].kind = "reject" THEN "rejected" ELSE "applied"]
    /\ job' = [job EXCEPT ![r] = NoJob]
    /\ MemGoto(r, "idle")
    /\ UNCHANGED <<file, vectors, doc, memBounds, memHistory>>

-----------------------------------------------------------------------------
(* Items *)

\* CreateItem, UpdateItem (ArchiveItem, RestoreItem) and DeleteItem begin, or
\* Reindex does.  DeleteItem archives unless it is forced.
BeginItem(r) ==
    /\ \/ Begin(r, Job("create", 0, NoReview), "read")
       \/ \E i \in MemItems, kind \in {"archive", "restore", "delete"} :
             i <= memItems /\ Begin(r, Job(kind, i, NoReview), "read")
       \/ Begin(r, Job("reindex", 0, NoReview), "reindex")
    /\ UNCHANGED <<memFiles, doc, memItems, memFaults, memHistory>>

Becomes(kind) == CASE kind \in {"create", "restore"} -> "active"
                   [] kind = "archive" -> "archived"
                   [] kind = "delete" -> "none"

\* A mutant: the document is rendered from what ListItems lists, which leaves
\* archived items out.
ReadItemListed(r) ==
    /\ mempc[r] = "read"
    /\ LET i == IF job[r].kind = "create" THEN memItems + 1 ELSE job[r].item
           listed == [j \in MemItems |-> IF file.item[j] = "archived" THEN "none" ELSE file.item[j]]
       IN  \/ /\ i <= MaxMemItems
              /\ job[r].kind = "create" \/ file.item[i] # "none"
              /\ doc' = [doc EXCEPT ![r] = [legacy |-> file.legacy,
                            item |-> [listed EXCEPT ![i] = Becomes(job[r].kind)]]]
              /\ job' = [job EXCEPT ![r].item = i]
              /\ memItems' = IF job[r].kind = "create" THEN i ELSE memItems
              /\ origin' = [origin EXCEPT ![i] =
                              IF job[r].kind = "create" THEN job[r].review ELSE @]
              /\ disturbed' = (disturbed \/ Holding # {})
              /\ MemGoto(r, "truncate")
           \/ /\ job[r].kind # "create" /\ file.item[i] = "none"
              /\ job' = [job EXCEPT ![r] = NoJob]
              /\ MemGoto(r, "idle")
              /\ UNCHANGED <<doc, memItems, origin, disturbed>>
    /\ UNCHANGED <<memFiles, memOps, memFaults, last, muddled, unindexed>>

\* readDocumentOrNew or findItem, and the change of the copy.  An item that is
\* not found, because the file is torn or without it, is an error.
ReadItem(r) ==
    /\ mempc[r] = "read"
    /\ LET i == IF job[r].kind = "create" THEN memItems + 1 ELSE job[r].item
       IN  \/ /\ i <= MaxMemItems
              /\ job[r].kind = "create" \/ file.item[i] # "none"
              /\ doc' = [doc EXCEPT ![r] = [file EXCEPT !.item[i] = Becomes(job[r].kind)]]
              /\ job' = [job EXCEPT ![r].item = i]
              /\ memItems' = IF job[r].kind = "create" THEN i ELSE memItems
              /\ origin' = [origin EXCEPT ![i] =
                              IF job[r].kind = "create" THEN job[r].review ELSE @]
              /\ disturbed' = (disturbed \/ Holding # {})
              /\ MemGoto(r, "truncate")
           \/ /\ job[r].kind # "create" /\ file.item[i] = "none"
              /\ job' = [job EXCEPT ![r] = NoJob]
              /\ MemGoto(r, "idle")
              /\ UNCHANGED <<doc, memItems, origin, disturbed>>
    /\ UNCHANGED <<memFiles, memOps, memFaults, last, muddled, unindexed>>

\* os.WriteFile truncates the file ...
Truncate(r) ==
    /\ mempc[r] = "truncate"
    /\ file' = EmptyFile
    /\ MemGoto(r, "fill")
    /\ UNCHANGED <<vectors, reviews, job, doc, memBounds, memHistory>>

\* ... and writes.  Of what another request has written in between the tail
\* may stay behind.
Fill(r) ==
    /\ mempc[r] = "fill"
    /\ \E tail \in SUBSET {i \in MemItems : file.item[i] # "none"} :
         file' = [legacy |-> doc[r].legacy,
                  item |-> [i \in MemItems |->
                     IF doc[r].item[i] = "none" /\ i \in tail
                     THEN file.item[i] ELSE doc[r].item[i]]]
    /\ last' = [last EXCEPT !.item[job[r].item] = Becomes(job[r].kind)]
    /\ doc' = [doc EXCEPT ![r] = EmptyFile]
    /\ MemGoto(r, "reindex")
    /\ UNCHANGED <<vectors, reviews, job, memBounds,
                   origin, disturbed, muddled, unindexed>>

Active == {i \in MemItems : file.item[i] = "active"}

\* A mutant: the item of the request is all that is indexed.
ReindexOne(r) ==
    /\ mempc[r] = "reindex"
    /\ vectors' = vectors \cup (Active \cap {job[r].item})
    /\ unindexed' = FALSE
    /\ IF job[r].review # NoReview
       THEN MemGoto(r, "review") /\ UNCHANGED job
       ELSE MemGoto(r, "idle") /\ job' = [job EXCEPT ![r] = NoJob]
    /\ UNCHANGED <<file, reviews, doc, memBounds, origin, last, disturbed, muddled>>

\* Reindex reads all files and upserts what is active in them.  Nothing is ever
\* taken out of the index, so that it does not matter how long that takes.
Reindex(r) ==
    /\ mempc[r] = "reindex"
    /\ vectors' = vectors \cup Active
    /\ unindexed' = (unindexed /\ Holding # {})
    /\ IF job[r].review # NoReview
       THEN MemGoto(r, "review") /\ UNCHANGED job
       ELSE MemGoto(r, "idle") /\ job' = [job EXCEPT ![r] = NoJob]
    /\ UNCHANGED <<file, reviews, doc, memBounds, origin, last, disturbed, muddled>>

\* The embedder or the index fails, or the client has left: the request ends
\* with an error, though the file is written.
ReindexFails(r) ==
    /\ memFaults < MaxMemFaults /\ memFaults' = memFaults + 1
    /\ mempc[r] = "reindex"
    /\ job' = [job EXCEPT ![r] = NoJob]
    /\ unindexed' = TRUE
    /\ muddled' = muddled \cup ({job[r].review} \ {NoReview})
    /\ MemGoto(r, "idle")
    /\ UNCHANGED <<memFiles, doc, memItems, memOps, origin, last, disturbed>>

\* The process dies.  The files are what they were; the requests are gone.
MemCrash ==
    /\ memFaults < MaxMemFaults /\ memFaults' = memFaults + 1
    /\ \E r \in MemRequests : mempc[r] # "idle"
    /\ disturbed' = (disturbed \/ \E r \in MemRequests : mempc[r] = "fill")
    /\ unindexed' = (unindexed \/ \E r \in MemRequests : mempc[r] \in {"fill", "reindex"})
    /\ muddled' = muddled \cup ({job[r].review : r \in MemRequests} \ {NoReview})
    /\ mempc' = [r \in MemRequests |-> "idle"]
    /\ job' = [r \in MemRequests |-> NoJob]
    /\ doc' = [r \in MemRequests |-> EmptyFile]
    /\ UNCHANGED <<memFiles, memItems, memOps, origin, last>>

MemNext ==
    \/ \E v \in MemReviews : CreateReview(v)
    \/ \E r \in MemRequests, v \in MemReviews : ApproveReview(r, v) \/ RejectReview(r, v)
    \/ \E r \in MemRequests :
          \/ BeginItem(r) \/ ReadItem(r) \/ Truncate(r) \/ Fill(r)
          \/ Reindex(r) \/ ReindexFails(r) \/ WriteReview(r)
    \/ MemCrash

MemSpec == MemInit /\ [][MemNext]_memVars

-----------------------------------------------------------------------------
(* Properties *)

\* Requests that do not have the file in their hands at the same time act on
\* it one after the other: each changes its item and leaves the other items and
\* the memories without markup as they were.  Only a request that overlaps, or
\* a crash between truncating and writing, can lose anything.
OneAfterTheOther ==
    disturbed \/ file = last \/ \E r \in MemRequests : mempc[r] = "fill"

\* Whatever requests do to the file at the same time, every active item in it
\* is in the index once they are through, unless an indexing failed or was cut
\* off by a crash and none has succeeded since.
IndexHasActive ==
    unindexed \/ Active \subseteq vectors \/ \E r \in MemRequests : mempc[r] \in {"fill", "reindex"}

\* A candidate becomes an item only when somebody approves it, and at most one,
\* unless decisions on it overlap or one of them ended with an error after the
\* item was written.
DecidedOnce ==
    \A v \in MemReviews \ muddled :
        LET made == {i \in MemItems : origin[i] = v}
        IN  /\ Cardinality(made) <= 1
            /\ reviews[v] \in {"none", "rejected"} => made = {}
            /\ reviews[v] = "applied" => made # {}
            /\ reviews[v] = "pending" /\ DecidingOn(v) = {} => made = {}

\* The file keeps what nobody meant to change, the index follows it, and what
\* was decided on a candidate is what became of it.
MemoryIsKept == OneAfterTheOther /\ IndexHasActive /\ DecidedOnce

=============================================================================
