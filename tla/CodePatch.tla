------------------------------ MODULE CodePatch ------------------------------
(***************************************************************************)
(* internal/tools/code/patcher.go and patch_validate.go: code.apply_patch, *)
(* several files in one request, several requests at a time.               *)
(*                                                                         *)
(* Every file is read and checked first, one after the other; then every   *)
(* file is written, one after the other, and an error puts the files       *)
(* already written back, as well as that goes.  Nothing is locked.  The    *)
(* content of a file is the set of the edits in it: each request makes     *)
(* one, as a diff that adds it to what is there (module CodeDiff) or as    *)
(* the whole new content of the file.                                      *)
(***************************************************************************)
EXTENDS Naturals, SequencesExt

CONSTANTS
    Patchers,       \* the requests, each made once
    PatchPaths,     \* the paths of files
    Existing,       \* those that are there to begin with
    MaxPatchFaults  \* bound: errors of the disk

ASSUME CodePatchAssumption == Existing \subseteq PatchPaths /\ MaxPatchFaults \in Nat

VARIABLES
    disk,           \* the content of each file
    ppc,            \* the stage of a request
    ask,            \* its files: what it is for each
    prepared,       \* what it has read of them
    at,             \* the file it is at
    diskFaults,
    racing,     \* history: files two requests were at at the same time
    spoiled         \* history: files a failed restoration has left as they were

patchVars == <<disk, ppc, ask, prepared, at, diskFaults, racing, spoiled>>

\* An edit is the request it comes from.
Contents == [is : {"absent", "empty", "text"}, edits : SUBSET Patchers]
NoFile == [is |-> "absent", edits |-> {}]
Emptied == [is |-> "empty", edits |-> {}]

\* sha256Hex: a file not there has the hash of an empty one.
Hash(content) == IF content = Emptied THEN NoFile ELSE content

\* A file of a request: how it is to change, the content it had when the change
\* was worked out, and whether its hash is sent along.
PatchFiles == [path : PatchPaths, how : {"diff", "content", "delete"},
               base : Contents, hashed : BOOLEAN]
PreparedFiles == [old : Contents, new : Contents]

PatchInit ==
    /\ disk = [f \in PatchPaths |->
                  [is |-> IF f \in Existing THEN "text" ELSE "absent", edits |-> {}]]
    /\ ppc = [p \in Patchers |-> "idle"]
    /\ ask = [p \in Patchers |-> <<>>]
    /\ prepared = [p \in Patchers |-> <<>>]
    /\ at = [p \in Patchers |-> 0]
    /\ diskFaults = 0
    /\ racing = {} /\ spoiled = {}

PathsOf(p) == {ask[p][i].path : i \in DOMAIN ask[p]}
Busy(p) == ppc[p] \in {"prepare", "write", "restore", "refill"}
Twice(p) == Cardinality(PathsOf(p)) < Len(ask[p])

\* The request comes: for one or two files, the same one twice perhaps.  It is
\* approved later, the files may have changed by then.
AskPatch(p) ==
    /\ ppc[p] = "idle"
    /\ \E n \in {1, 2}, how \in {"diff", "content"}, hashed \in BOOLEAN, delete \in BOOLEAN :
       \E paths \in [1..n -> PatchPaths] :
         /\ delete => how = "diff" /\ disk[paths[n]] # NoFile
         /\ ask' = [ask EXCEPT ![p] = [i \in 1..n |->
                [path |-> paths[i], how |-> IF delete /\ i = n THEN "delete" ELSE how,
                 base |-> disk[paths[i]], hashed |-> hashed]]]
    /\ ppc' = [ppc EXCEPT ![p] = "asked"]
    /\ at' = [at EXCEPT ![p] = 1]
    /\ UNCHANGED <<disk, prepared, diskFaults, racing, spoiled>>

\* What the file is to hold.  A diff adds its edit to a file it fits in.
NewContent(p, file, current) ==
    IF file.how = "content" THEN [is |-> "text", edits |-> file.base.edits \cup {p}]
    ELSE IF file.how = "delete" THEN NoFile
    ELSE [is |-> "text", edits |-> current.edits \cup {p}]

\* The request has been answered.
PatchEnds(p, how) ==
    /\ ppc' = [ppc EXCEPT ![p] = how]
    /\ at' = [at EXCEPT ![p] = 0]
    /\ prepared' = [prepared EXCEPT ![p] = <<>>]

Prepares(p, file) ==
    /\ prepared' = [prepared EXCEPT ![p] = Append(@,
           [old |-> disk[file.path], new |-> NewContent(p, file, disk[file.path])])]
    /\ IF at[p] = Len(ask[p])
       THEN ppc' = [ppc EXCEPT ![p] = "write"] /\ at' = [at EXCEPT ![p] = 1]
       ELSE ppc' = [ppc EXCEPT ![p] = "prepare"] /\ at' = [at EXCEPT ![p] = @ + 1]
    /\ racing' = racing \cup
           {f \in {file.path} : \E o \in Patchers \ {p} : Busy(o) /\ f \in PathsOf(o)}

\* Nothing has been written yet.
Refused(p) == PatchEnds(p, "failed") /\ UNCHANGED racing

\* prepareUnifiedDiffPatch, and the loop over the files of Execute: a file that
\* is not the one the request was made for is refused if its hash was sent; a
\* diff may not fit in it.
Prepare(p) ==
    /\ ppc[p] \in {"asked", "prepare"}
    /\ LET file == ask[p][at[p]]
           same == Hash(disk[file.path]) = Hash(file.base)
       IN  \/ /\ file.hashed => same
              /\ Prepares(p, file)
           \/ /\ ~same /\ (file.hashed \/ file.how # "content")
              /\ Refused(p)
    /\ UNCHANGED <<disk, ask, diskFaults, spoiled>>

\* applyPreparedPatch: the next file is moved in place, or removed.
WriteFile(p) ==
    /\ ppc[p] = "write"
    /\ disk' = [disk EXCEPT ![ask[p][at[p]].path] = prepared[p][at[p]].new]
    /\ IF at[p] = Len(ask[p])
       THEN PatchEnds(p, "applied")
       ELSE at' = [at EXCEPT ![p] = @ + 1] /\ UNCHANGED <<ppc, prepared>>
    /\ UNCHANGED <<ask, diskFaults, racing, spoiled>>

DiskFails == diskFaults < MaxPatchFaults /\ diskFaults' = diskFaults + 1

\* The restoration goes on with the file before, or is over.
RestoreBefore(p) ==
    IF at[p] <= 1
    THEN PatchEnds(p, "failed")
    ELSE /\ ppc' = [ppc EXCEPT ![p] = "restore"] /\ at' = [at EXCEPT ![p] = @ - 1]
         /\ UNCHANGED prepared

\* A mutant: the file written last is not put back.
WriteFailsOneOff(p) ==
    /\ ppc[p] = "write" /\ DiskFails
    /\ IF at[p] <= 2
       THEN PatchEnds(p, "failed")
       ELSE /\ ppc' = [ppc EXCEPT ![p] = "restore"] /\ at' = [at EXCEPT ![p] = @ - 2]
            /\ UNCHANGED prepared
    /\ UNCHANGED <<disk, ask, racing, spoiled>>

\* A file cannot be written: it stays as it is, the ones before are put back.
WriteFails(p) ==
    /\ ppc[p] = "write" /\ DiskFails
    /\ RestoreBefore(p)
    /\ UNCHANGED <<disk, ask, racing, spoiled>>

\* rollbackPatch: a file that was not there is removed, another is opened, which
\* empties it ...
Restore(p) ==
    /\ ppc[p] = "restore"
    /\ LET file == ask[p][at[p]]
           old == prepared[p][at[p]].old
       IN  IF old # NoFile
           THEN /\ disk' = [disk EXCEPT ![file.path] = Emptied]
                /\ ppc' = [ppc EXCEPT ![p] = "refill"]
                /\ UNCHANGED <<at, prepared>>
           ELSE /\ disk' = [disk EXCEPT ![file.path] = NoFile]
                /\ RestoreBefore(p)
    /\ UNCHANGED <<ask, diskFaults, racing, spoiled>>

\* ... and written.
Refill(p) ==
    /\ ppc[p] = "refill"
    /\ disk' = [disk EXCEPT ![ask[p][at[p]].path] = prepared[p][at[p]].old]
    /\ RestoreBefore(p)
    /\ UNCHANGED <<ask, diskFaults, racing, spoiled>>

\* Either may fail, and nobody is told.
RestoreFails(p) ==
    /\ ppc[p] \in {"restore", "refill"} /\ DiskFails
    /\ spoiled' = spoiled \cup {ask[p][at[p]].path}
    /\ RestoreBefore(p)
    /\ UNCHANGED <<disk, ask, racing>>

\* The program dies: the requests at work are gone, those waiting for approval
\* and the files stay.
PatchCrash ==
    /\ DiskFails
    /\ \E p \in Patchers : ppc[p] \in {"write", "restore", "refill"}
    /\ spoiled' = spoiled \cup UNION {PathsOf(p) : p \in {o \in Patchers : Busy(o)}}
    /\ ppc' = [p \in Patchers |-> IF Busy(p) THEN "gone" ELSE ppc[p]]
    /\ at' = [p \in Patchers |-> IF Busy(p) THEN 0 ELSE at[p]]
    /\ prepared' = [p \in Patchers |-> <<>>]
    /\ UNCHANGED <<disk, ask, racing>>

PatchNext ==
    \/ \E p \in Patchers :
         \/ AskPatch(p) \/ Prepare(p) \/ WriteFile(p) \/ WriteFails(p)
         \/ Restore(p) \/ Refill(p) \/ RestoreFails(p)
    \/ PatchCrash

PatchSpec == PatchInit /\ [][PatchNext]_patchVars

-----------------------------------------------------------------------------
(* Properties *)

PatchTypeOK ==
    /\ disk \in [PatchPaths -> Contents]
    /\ ppc \in [Patchers -> {"idle", "asked", "prepare", "write", "restore", "refill",
                             "applied", "failed", "gone"}]
    /\ ask \in [Patchers -> Seq(PatchFiles)] /\ prepared \in [Patchers -> Seq(PreparedFiles)]
    /\ at \in [Patchers -> 0..2] /\ diskFaults \in 0..MaxPatchFaults
    /\ racing \subseteq PatchPaths /\ spoiled \subseteq PatchPaths

\* Another request was made from the file with the edit of p in it.
Copied(p, f) ==
    \E o \in Patchers : \E i \in DOMAIN ask[o] :
        ask[o][i].path = f /\ p \in ask[o][i].base.edits

\* A patch that fails leaves none of its edits behind, in no file: unless the
\* disk refused to put one back, another request was at that file at the time, or
\* was made from what was in it then.
AllOrNothing ==
    \A p \in Patchers, f \in PatchPaths :
        ppc[p] = "failed" /\ p \in disk[f].edits
            => f \in racing \cup spoiled \/ Copied(p, f)

\* Files that a request replaces or deletes without having checked what it
\* replaces.
Unchecked(f) ==
    \E p \in Patchers : \E i \in DOMAIN ask[p] :
        /\ ask[p][i].path = f
        /\ \/ ask[p][i].how = "delete" \/ Twice(p)
           \/ ask[p][i].how = "content" /\ ~ask[p][i].hashed

BeingRestored == {ask[p][at[p]].path : p \in {o \in Patchers : ppc[o] = "refill"}}

\* An edit that was reported applied stays in its file when later patches are
\* applied, or have failed and are put back: unless they were at it at the same
\* time, or replace it without the hash of what they replace.
ReportedIsThere ==
    \A p \in Patchers, f \in PatchPaths :
        ppc[p] = "applied" /\ f \in PathsOf(p)
            => p \in disk[f].edits \/ f \in racing \cup spoiled \cup BeingRestored
               \/ Unchecked(f)

\* The outcome of a patch is what it is reported to be.
PatchOutcome == AllOrNothing /\ ReportedIsThere

=============================================================================
