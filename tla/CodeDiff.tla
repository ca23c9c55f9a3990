------------------------------ MODULE CodeDiff ------------------------------
(***************************************************************************)
(* internal/tools/code/patch_validate.go: how the hunks of a unified diff  *)
(* are applied to the lines of a file (code.validate_patch, dry_run_patch, *)
(* propose_patch and apply_patch all go through it).                       *)
(*                                                                         *)
(* A user has edited a file, the diff of that edit is applied to the file  *)
(* as it is by then: the same, or with lines added on top of it.  A hunk   *)
(* is the line it starts at, the lines it replaces and the lines it puts   *)
(* there; its header counts them rightly, or the parser has refused it.    *)
(***************************************************************************)
EXTENDS Integers, SequencesExt

CONSTANTS
    Line,           \* the lines of the files
    MaxLines,       \* bound: lines of the file the diff was made from
    Insertions      \* the lines an edit may put in place of others

ASSUME CodeDiffAssumption ==
    MaxLines \in Nat /\ Insertions \subseteq Seq(Line)

VARIABLES
    taken,      \* the diff and the file have been read
    original,   \* the file the diff was made from
    edited,     \* what the edit made of it
    hunks,      \* the hunks that are still to be applied
    drift,      \* the lines on top of the original in the file now
    lines, cursor, lineOffset,
    applyErr,   \* a hunk has found no place
    bare,       \* history: a hunk inserts after a line without naming one
    unique      \* history: each hunk's old lines had one place to go

diffVars == <<taken, original, edited, hunks, drift, lines, cursor, lineOffset, applyErr,
              bare, unique>>

\* The hunk of lines i..j of f becoming s, with c lines of context around it.
\* A hunk without old lines starts at the line it inserts after.
HunkOf(f, i, j, s, c) ==
    LET first == IF i > c THEN i - c ELSE 1
        last == IF j + c < Len(f) THEN j + c ELSE Len(f)
        old == SubSeq(f, first, last)
    IN  [start |-> IF old = <<>> THEN first - 1 ELSE first, old |-> old,
         new |-> SubSeq(f, first, i - 1) \o s \o SubSeq(f, j + 1, last)]

\* What the edit of lines i..j makes of f.
Edit(f, i, j, s) == SubSeq(f, 1, i - 1) \o s \o SubSeq(f, j + 1, Len(f))

\* A segment of f, an empty one before line i if j = i - 1.
Segments(f) == {ij \in (1..(Len(f) + 1)) \X (0..Len(f)) : ij[2] >= ij[1] - 1}

\* One edit with its context, or an edit of the first line and one of the last:
\* what becomes of f, and the hunks of the diff.
Diffs(f) ==
    {<<Edit(f, ij[1], ij[2], s), <<HunkOf(f, ij[1], ij[2], s, c)>>>> :
        ij \in Segments(f), s \in Insertions, c \in {0, 1}}
    \cup
    {<<Edit(Edit(f, Len(f), Len(f), t), 1, 1, s),
       <<HunkOf(f, 1, 1, s, 0), HunkOf(f, Len(f), Len(f), t, 0)>>>> :
        s \in Insertions, t \in IF Len(f) > 1 THEN Insertions ELSE {}}

CodeDiffInit ==
    /\ taken = FALSE
    /\ original = <<>> /\ edited = <<>> /\ drift = <<>>
    /\ hunks = <<>> /\ lines = <<>>
    /\ cursor = 0 /\ lineOffset = 0
    /\ applyErr = FALSE /\ bare = FALSE /\ unique = TRUE

\* The diff is parsed and the file it names is read.
TakeDiff ==
    /\ ~taken /\ taken' = TRUE
    /\ original' \in BoundedSeq(Line, MaxLines)
    /\ drift' \in BoundedSeq(Line, 1)
    /\ \E d \in Diffs(original') : edited' = d[1] /\ hunks' = d[2]
    /\ lines' = drift' \o original'
    /\ bare' = \E i \in DOMAIN hunks' : hunks'[i].old = <<>> /\ hunks'[i].start > 0
    /\ UNCHANGED <<cursor, lineOffset, applyErr, unique>>

-----------------------------------------------------------------------------
(* applyUnifiedPatchToContentDetailed; positions count from 0, as in Go *)

\* sequenceMatches.
sequenceMatches(f, seq, pos) ==
    /\ pos >= 0 /\ pos + Len(seq) <= Len(f)
    /\ SubSeq(f, pos + 1, pos + Len(seq)) = seq

Matches(f, seq, from) == {i \in from..Len(f) : sequenceMatches(f, seq, i)}

\* findLineSequence: the first match from the cursor on, or -1.
findLineSequence(f, seq, from) ==
    LET found == Matches(f, seq, from)
    IN  IF found = {} THEN -1 ELSE Min(found)

\* findHunkPosition: where the header says, or else the first match; a hunk
\* without old lines goes where the header says, within the file.
findHunkPosition(f, seq, from, hint) ==
    IF seq = <<>> THEN Min({Max({hint, from, 0}), Len(f)})
    ELSE IF hint >= from /\ sequenceMatches(f, seq, hint) THEN hint
    ELSE findLineSequence(f, seq, from)

\* A mutant: the place of the later hunks does not follow.
SpliceKeepsOffset(h, pos) ==
    /\ lines' = SubSeq(lines, 1, pos) \o h.new
                  \o SubSeq(lines, pos + Len(h.old) + 1, Len(lines))
    /\ cursor' = pos + Len(h.new)
    /\ hunks' = Tail(hunks)
    /\ UNCHANGED <<lineOffset, applyErr>>

\* A mutant: the search goes on a line too far behind them.
SpliceSkipsALine(h, pos) ==
    /\ lines' = SubSeq(lines, 1, pos) \o h.new
                  \o SubSeq(lines, pos + Len(h.old) + 1, Len(lines))
    /\ cursor' = pos + Len(h.new) + 1
    /\ lineOffset' = lineOffset + Len(h.new) - Len(h.old)
    /\ hunks' = Tail(hunks)
    /\ UNCHANGED applyErr

\* The lines the hunk replaces are replaced, and the search goes on behind them.
Splice(h, pos) ==
    /\ lines' = SubSeq(lines, 1, pos) \o h.new
                  \o SubSeq(lines, pos + Len(h.old) + 1, Len(lines))
    /\ cursor' = pos + Len(h.new)
    /\ lineOffset' = lineOffset + Len(h.new) - Len(h.old)
    /\ hunks' = Tail(hunks)
    /\ UNCHANGED applyErr

\* The patch is refused as a whole.
NoPlace == applyErr' = TRUE /\ UNCHANGED <<lines, cursor, lineOffset, hunks>>

\* The body of the loop over the hunks.
ApplyHunk ==
    /\ hunks # <<>> /\ ~applyErr
    /\ LET h == Head(hunks)
           pos == findHunkPosition(lines, h.old, cursor, h.start - 1 + lineOffset)
       IN  /\ unique' = (unique /\ \E i \in 0..Len(lines) : Matches(lines, h.old, cursor) = {i})
           /\ IF pos < 0 THEN NoPlace ELSE Splice(h, pos)
    /\ UNCHANGED <<taken, original, edited, drift, bare>>

CodeDiffSpec == CodeDiffInit /\ [][TakeDiff \/ ApplyHunk]_diffVars

-----------------------------------------------------------------------------
(* Properties *)

CodeDiffTypeOK ==
    /\ taken \in BOOLEAN /\ lines \in Seq(Line) /\ cursor \in 0..Len(lines) /\ lineOffset \in Int
    /\ applyErr \in BOOLEAN /\ unique \in BOOLEAN /\ bare \in BOOLEAN

Applied == taken /\ hunks = <<>>

\* A diff applied to the file it was made from gives the edited file, and is
\* never refused: whatever lines are repeated in it, and however much the first
\* hunk moves the place of the second.  A hunk that inserts after a line
\* without naming one is excused, it goes in one line too early.  And applied
\* to a file whose lines have moved down since, it follows them, when the lines
\* of each hunk can be in one place only.
DiffLands ==
    /\ taken /\ drift = <<>> /\ ~bare => ~applyErr /\ (Applied => lines = edited)
    /\ unique => ~applyErr /\ (Applied => lines = drift \o edited)

=============================================================================
