---------------------------- MODULE VectorBackends ----------------------------
(***************************************************************************)
(* internal/tools/kb: the vector indexes behind the VectorIndex interface. *)
(* To index a source is to remove what it has in the index and to insert   *)
(* its new chunks.  Qdrant and Pinecone remove by the source's name and    *)
(* insert at once.  An OpenAI vector store is given a file per chunk:      *)
(* uploaded, attached, waited for and only then remembered, in the         *)
(* process alone; to remove a source is to delete the files remembered.    *)
(*                                                                         *)
(* Requests that index the same source may overlap, a call may fail with   *)
(* or without its effect, and the process may restart.                     *)
(***************************************************************************)
EXTENDS Naturals, FiniteSets, SequencesExt

CONSTANTS
    Indexers,       \* the requests that index at a time
    VecSources,     \* the sources
    ChunkLists,     \* the chunks a source may be given, <<>> to remove it
    MaxVecCalls,    \* bound: requests
    MaxVecFaults    \* bound: calls that fail, and restarts

\* stableChunkID: the chunks of a list are told apart by their positions.
ASSUME VecAssumption ==
    /\ \A c \in ChunkLists : c \in Seq(Range(c)) /\ IsInjective(c)
    /\ MaxVecCalls \in Nat /\ MaxVecFaults \in Nat

VARIABLES
    kind,           \* the backend that is configured
    held,           \* the entries of the index
    uploaded,       \* OpenAI's files
    sourceFiles,    \* the files remembered of a source
    indexer,        \* what a request does
    files,          \* files there have been, to name them
    vecCalls, vecFaults,
    settled,        \* history: what a source was given last, if it is known
    unhurt          \* history: the files of a source whose calls have all succeeded

vecRemote == <<held, uploaded>>
vecVars == <<kind, held, uploaded, sourceFiles, indexer, files, vecCalls, vecFaults,
             settled, unhurt>>

VecBackends == {"memory", "qdrant", "pinecone", "openai"}
NotSettled == "unknown"
NotIndexing == [at |-> "idle"]
VecStages == {"idle", "delete", "upsert", "upload", "attach", "wait"}

VecInit ==
    /\ kind \in VecBackends
    /\ held = {} /\ uploaded = {} /\ files = 0
    /\ sourceFiles = [s \in VecSources |-> <<>>]
    /\ indexer = [q \in Indexers |-> NotIndexing]
    /\ vecCalls = 0 /\ vecFaults = 0
    /\ settled = [s \in VecSources |-> NotSettled] /\ unhurt = VecSources

-----------------------------------------------------------------------------
(* The calls *)

At(q, stage_) == indexer[q].at = stage_
Moves(q, job_) == indexer' = [indexer EXCEPT ![q] = job_]
AtWorkOn(s) == {q \in Indexers : indexer[q].at # "idle" /\ indexer[q].source = s}
VecQuiet == UNCHANGED <<kind, files, vecCalls, vecFaults>>

\* The entries a search with the source as its filter may find.
Search(s) == {e \in held : e.source = s}

\* openAIFileAttributes, sanitizePayload: an entry knows its source.
Entry(id, s, c) == [id |-> id, source |-> s, chunk |-> c]

\* takeSourceFiles: the process forgets them before it deletes the first.
IndexSource(q, s, chunks_) ==
    /\ At(q, "idle") /\ vecCalls < MaxVecCalls /\ vecCalls' = vecCalls + 1
    /\ LET overlaps == AtWorkOn(s) # {}
           job_ == [at |-> "delete", source |-> s, wants |-> chunks_, left |-> chunks_,
                    todo |-> sourceFiles[s], file |-> 0, alone |-> ~overlaps]
       IN  indexer' = [p \in Indexers |->
              IF p = q THEN job_
              ELSE IF p \in AtWorkOn(s) THEN [indexer[p] EXCEPT !.alone = FALSE]
              ELSE indexer[p]]
    /\ sourceFiles' = [sourceFiles EXCEPT ![s] = <<>>]
    /\ settled' = [settled EXCEPT ![s] = NotSettled]
    /\ UNCHANGED <<kind, held, uploaded, files, vecFaults, unhurt>>

\* What becomes of a request whose next stage is to insert what is left.
Inserts(q, left) ==
    IF left = <<>>
    THEN /\ Moves(q, NotIndexing)
         /\ settled' = [settled EXCEPT ![indexer[q].source] =
               IF indexer[q].alone THEN indexer[q].wants ELSE NotSettled]
    ELSE /\ Moves(q, [indexer[q] EXCEPT !.left = left,
                                        !.at = IF kind = "openai" THEN "upload" ELSE "upsert"])
         /\ UNCHANGED settled

\* DeleteBySourceFile of the others: by the name of the source.
DeleteByFilter(q) ==
    /\ At(q, "delete") /\ kind # "openai"
    /\ held' = held \ Search(indexer[q].source)
    /\ Inserts(q, indexer[q].left)
    /\ UNCHANGED <<uploaded, sourceFiles, unhurt>> /\ VecQuiet

\* And OpenAI's, file by file; whether the file itself goes does not matter.
DeleteFile(q) ==
    /\ At(q, "delete") /\ kind = "openai"
    /\ IF indexer[q].todo = <<>>
       THEN Inserts(q, indexer[q].left) /\ UNCHANGED vecRemote
       ELSE LET f == Head(indexer[q].todo) IN
            /\ held' = {e \in held : e.id # f}
            /\ uploaded' \in {uploaded, uploaded \ {f}}
            /\ Moves(q, [indexer[q] EXCEPT !.todo = Tail(@)])
            /\ UNCHANGED settled
    /\ UNCHANGED <<sourceFiles, unhurt>> /\ VecQuiet

\* UpsertChunks of the others: one call, an entry for each chunk, and one of
\* the same id is replaced.
UpsertAll(q) ==
    LET s == indexer[q].source IN
    /\ At(q, "upsert")
    /\ held' = held \cup {Entry(<<s, c>>, s, c) : c \in Range(indexer[q].left)}
    /\ Inserts(q, <<>>)
    /\ UNCHANGED <<uploaded, sourceFiles, unhurt>> /\ VecQuiet

uploadChunkFile(q) ==
    /\ At(q, "upload")
    /\ files' = files + 1 /\ uploaded' = uploaded \cup {files'}
    /\ Moves(q, [indexer[q] EXCEPT !.at = "attach", !.file = files'])
    /\ UNCHANGED <<kind, held, sourceFiles, vecCalls, vecFaults, settled, unhurt>>

attachFile(q) ==
    LET job_ == indexer[q] IN
    /\ At(q, "attach")
    /\ held' = held \cup {Entry(job_.file, job_.source, Head(job_.left))}
    /\ Moves(q, [job_ EXCEPT !.at = "wait"])
    /\ UNCHANGED <<uploaded, sourceFiles, settled, unhurt>> /\ VecQuiet

\* A mutant: what was remembered is replaced.
rememberLastFile(s, f) == sourceFiles' = [sourceFiles EXCEPT ![s] = <<f>>]

rememberSourceFile(s, f) == sourceFiles' = [sourceFiles EXCEPT ![s] = Append(@, f)]

\* waitFileReady, when the file is: it is remembered, and the next chunk follows.
waitFileReady(q) ==
    LET job_ == indexer[q] IN
    /\ At(q, "wait")
    /\ rememberSourceFile(job_.source, job_.file)
    /\ Inserts(q, Tail(job_.left))
    /\ UNCHANGED <<held, uploaded, unhurt>> /\ VecQuiet

\* An answer that is an error or does not come, a file that fails or is not
\* ready in time, a vector of another size: the request ends.  A request that
\* was sent may have had its effect.
VecCallFails(q) ==
    LET job_ == indexer[q] IN
    /\ ~At(q, "idle") /\ vecFaults < MaxVecFaults /\ vecFaults' = vecFaults + 1
    /\ kind # "memory"
    /\ \/ UNCHANGED held
       \/ /\ At(q, "delete") /\ kind # "openai"
          /\ held' = held \ Search(job_.source)
       \/ /\ At(q, "upsert")
          /\ held' = held \cup {Entry(<<job_.source, c>>, job_.source, c) : c \in Range(job_.left)}
       \/ /\ At(q, "attach")
          /\ held' = held \cup {Entry(job_.file, job_.source, Head(job_.left))}
    /\ Moves(q, NotIndexing)
    /\ unhurt' = unhurt \ {job_.source}
    /\ UNCHANGED <<kind, uploaded, sourceFiles, files, vecCalls, settled>>

\* The process forgets the files, and the index in memory is empty.
VecRestarts ==
    /\ vecFaults < MaxVecFaults /\ vecFaults' = vecFaults + 1
    /\ indexer' = [q \in Indexers |-> NotIndexing]
    /\ sourceFiles' = [s \in VecSources |-> <<>>]
    /\ held' = IF kind = "memory" THEN {} ELSE held
    /\ settled' = IF kind = "memory" THEN [s \in VecSources |-> NotSettled] ELSE settled
    /\ unhurt' = {s \in unhurt : sourceFiles[s] = <<>> /\ AtWorkOn(s) = {}}
    /\ UNCHANGED <<kind, uploaded, files, vecCalls>>

VecNext ==
    \/ \E q \in Indexers, s \in VecSources, c \in ChunkLists : IndexSource(q, s, c)
    \/ \E q \in Indexers :
          \/ DeleteByFilter(q) \/ DeleteFile(q) \/ UpsertAll(q)
          \/ uploadChunkFile(q) \/ attachFile(q) \/ waitFileReady(q)
          \/ VecCallFails(q)
    \/ VecRestarts

VecSpec == VecInit /\ [][VecNext]_vecVars

-----------------------------------------------------------------------------
(* Properties *)

VecTypeOK ==
    /\ kind \in VecBackends /\ files \in Nat
    /\ vecCalls \in 0..MaxVecCalls /\ vecFaults \in 0..MaxVecFaults
    /\ \A e \in held : e.source \in VecSources /\ (kind = "openai" => e.id \in uploaded)
    /\ \A q \in Indexers : indexer[q].at \in VecStages
    /\ kind # "openai" => \A s \in VecSources : sourceFiles[s] = <<>>

\* A source that was indexed by a request that met no other on it has the
\* chunks it was given and no other, once.  Qdrant and Pinecone come back to
\* this after a failure, as soon as the source is indexed again; an OpenAI
\* store does as long as no call for the source has failed and no restart has
\* lost its files.
IndexedAsAsked ==
    \A s \in VecSources :
        settled[s] # NotSettled /\ (kind = "openai" => s \in unhurt) =>
            /\ {e.chunk : e \in Search(s)} = Range(settled[s])
            /\ Cardinality(Search(s)) = Len(settled[s])

\* Every file of an OpenAI store is remembered or in the hands of a request,
\* so that it can be deleted, if the calls for its source have succeeded.
NoFileForgotten ==
    kind = "openai" => \A e \in held : e.source \in unhurt =>
        \/ e.id \in Range(sourceFiles[e.source])
        \/ \E q \in AtWorkOn(e.source) :
              e.id \in Range(indexer[q].todo) \/ (At(q, "wait") /\ indexer[q].file = e.id)

\* The index of a source: the chunks it was given, all of them within reach.
IndexFollowsSources == IndexedAsAsked /\ NoFileForgotten
=============================================================================
