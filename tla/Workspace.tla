------------------------------ MODULE Workspace ------------------------------
(***************************************************************************)
(* internal/tools/code/workspace.go and project.go: the tools that read    *)
(* the workspace, code.search_text, code.search_symbol, code.list_files    *)
(* and code.detect_language.  They walk a tree that others change while    *)
(* they do.                                                                *)
(*                                                                         *)
(* The entries that there may be are numbered in the order of a walk, so   *)
(* that one comes after its directory and before the directory's next      *)
(* entry; 1 is the root of the workspace.  A file's content is how many of *)
(* its lines hold the text, how many of these the symbol, and whether it   *)
(* looks binary.                                                           *)
(***************************************************************************)
EXTENDS Integers, FiniteSets, SequencesExt

CONSTANTS
    TreeEntries,    \* the entries, [parent, dir, skipped, sensitive, language]
    FileContents,   \* what a file may hold, [text, symbol, binary]
    Walks,          \* the calls, [tool, root, limit, depth, sensitive]
    MaxTreeEdits    \* bound: changes by others

ASSUME WorkspaceAssumption ==
    /\ TreeEntries \in Seq([parent : Nat, dir : BOOLEAN, skipped : BOOLEAN, sensitive : BOOLEAN,
                            language : STRING])
    /\ \A i \in DOMAIN TreeEntries : LET p == TreeEntries[i].parent IN
         IF i = 1 THEN p = 0
         ELSE p \in 1..(i - 1) /\ TreeEntries[p].dir
              /\ (p > 1 /\ TreeEntries[p].sensitive => TreeEntries[i].sensitive)
    /\ FileContents \subseteq [text : Nat, symbol : Nat, binary : BOOLEAN]
    /\ \A c \in FileContents : c.symbol <= c.text
    /\ Walks \subseteq [tool : {"search_text", "search_symbol", "list", "detect"},
                        root : DOMAIN TreeEntries, limit : Nat \ {0}, depth : Nat,
                        sensitive : BOOLEAN]
    /\ MaxTreeEdits \in Nat

VARIABLES
    tree,           \* the entries that are there
    content,        \* of every file
    walk,           \* the call at work
    listed,         \* the entries it has read from directories and not visited
    found,          \* its result so far, [entry, line]
    tally,          \* skipped_sensitive, or the files that the detection has seen
    treeEdits,
    steady          \* history: the entries that nobody has touched since it began

walkVars == <<walk, listed, found, tally>>
wsVars == <<tree, content, walkVars, treeEdits, steady>>

NoWalk == [tool |-> "none", at |-> "idle"]
Files == {i \in DOMAIN TreeEntries : ~TreeEntries[i].dir}

WorkspaceInit ==
    /\ tree = DOMAIN TreeEntries
    /\ content \in [Files -> FileContents]
    /\ walk = NoWalk /\ listed = {} /\ found = <<>> /\ tally = 0
    /\ treeEdits = 0 /\ steady = {}

-----------------------------------------------------------------------------
(* The tree *)

Children(i) == {j \in tree : TreeEntries[j].parent = i}

\* With an entry what is above it, too.
Rooted(S) == \A k \in S : TreeEntries[k].parent \in S \cup {0}

\* An entry and what is above it, up to the root: the least set of the kind.
Above ==
    [i \in DOMAIN TreeEntries |->
        {j \in DOMAIN TreeEntries :
            \A S \in SUBSET (DOMAIN TreeEntries) : i \in S /\ Rooted(S) => j \in S}]
Under(i) == {j \in DOMAIN TreeEntries : i \in Above[j]}

\* pathDepth, below the root of the walk.
pathDepth(root, i) == Cardinality(Above[i] \ Above[root])

\* What a name says: a directory that no walk enters, a path that holds one of
\* the sensitive words, in its own name or in one above it, and a language.
shouldSkipDir(i) == TreeEntries[i].dir /\ TreeEntries[i].skipped
isSensitive(i) == TreeEntries[i].sensitive
languageForPath(i) == TreeEntries[i].language

\* containsSymbol: of the lines that hold the text, those where it stands alone.
Matching(i, symbol) == IF symbol THEN content[i].symbol ELSE content[i].text

\* searchFile: the lines that match, as many as are wanted, of a text.
searchFile(i, symbol, limit) ==
    LET n == IF content[i].binary THEN 0 ELSE Matching(i, symbol)
    IN  [k \in 1..(IF n > limit THEN limit ELSE n) |-> [entry |-> i, line |-> k]]

-----------------------------------------------------------------------------
(* The walk *)

\* resolve: a walk begins at an entry within the workspace.
BeginWalk(w) ==
    /\ walk.at # "walking"
    /\ walk' = [at |-> "walking", tool |-> w.tool, root |-> w.root, limit |-> w.limit,
                depth |-> w.depth, sensitive |-> w.sensitive]
    /\ listed' = {w.root} /\ found' = <<>> /\ tally' = 0
    /\ steady' = tree
    /\ UNCHANGED <<tree, content, treeEdits>>

EndsWalk(how) == walk' = [walk EXCEPT !.at = how] /\ listed' = {}
Passes(i) == listed' = listed \ {i} /\ UNCHANGED <<walk, found, tally>>
Enters(i) == listed' = (listed \ {i}) \cup Children(i)

\* A mutant: SkipDir for a file leaves its directory.
HidesTheRest(i) ==
    /\ tally' = tally + 1 /\ UNCHANGED <<walk, found>>
    /\ listed' = {j \in listed : TreeEntries[j].parent # TreeEntries[i].parent}

Hides(i) == tally' = tally + 1 /\ listed' = listed \ {i} /\ UNCHANGED <<walk, found>>

\* SearchExecutor: directories are entered whatever their names say, save the
\* ones that are always skipped.
VisitSearch(i, symbol) ==
    IF TreeEntries[i].dir THEN
        IF shouldSkipDir(i) /\ i # walk.root THEN Passes(i)
        ELSE Enters(i) /\ UNCHANGED <<walk, found, tally>>
    ELSE IF Len(found) >= walk.limit THEN EndsWalk("done") /\ UNCHANGED <<found, tally>>
    ELSE IF isSensitive(i) /\ ~walk.sensitive THEN Hides(i)
    ELSE IF i \notin tree THEN Passes(i)
    ELSE /\ found' = found \o searchFile(i, symbol, walk.limit - Len(found))
         /\ listed' = listed \ {i} /\ UNCHANGED <<walk, tally>>

\* SearchSymbolExecutor: the same walk.
VisitSymbol(i) == VisitSearch(i, TRUE)

\* ListFilesExecutor.  An entry that is gone is not listed; if it was a
\* directory, the list fails on it afterwards.
VisitList(i) ==
    IF i = walk.root THEN Enters(i) /\ UNCHANGED <<walk, found, tally>>
    ELSE IF pathDepth(walk.root, i) > walk.depth \/ shouldSkipDir(i) THEN Passes(i)
    ELSE IF isSensitive(i) /\ ~walk.sensitive THEN Hides(i)
    ELSE IF Len(found) >= walk.limit THEN EndsWalk("done") /\ UNCHANGED <<found, tally>>
    ELSE IF i \notin tree THEN Passes(i)
    ELSE /\ found' = Append(found, [entry |-> i, line |-> 0])
         /\ Enters(i) /\ UNCHANGED <<walk, tally>>

\* detectLanguages: the files seen are bounded, and what they are is counted.
VisitDetect(i) ==
    IF TreeEntries[i].dir THEN
        IF shouldSkipDir(i) /\ i # walk.root THEN Passes(i)
        ELSE Enters(i) /\ UNCHANGED <<walk, found, tally>>
    ELSE IF tally + 1 > walk.limit THEN EndsWalk("done") /\ UNCHANGED <<found, tally>>
    ELSE /\ tally' = tally + 1 /\ listed' = listed \ {i}
         /\ found' = IF languageForPath(i) = "" THEN found
                     ELSE Append(found, [entry |-> i, line |-> 0])
         /\ UNCHANGED walk

\* filepath.WalkDir: the next entry; one whose directory is entered and gone,
\* or a root that is not there, ends the walk with an error.
Visit ==
    /\ walk.at = "walking" /\ listed # {}
    /\ LET i == Min(listed)
           listable == /\ pathDepth(walk.root, i) <= walk.depth
                       /\ walk.sensitive \/ ~isSensitive(i)
                       /\ Len(found) < walk.limit
           enters == \/ i = walk.root
                     \/ /\ TreeEntries[i].dir /\ ~shouldSkipDir(i)
                        /\ walk.tool = "list" => listable
       IN  IF i \notin tree /\ enters
           THEN EndsWalk("error") /\ UNCHANGED <<found, tally>>
           ELSE CASE walk.tool = "list" -> VisitList(i)
                  [] walk.tool = "detect" -> VisitDetect(i)
                  [] walk.tool = "search_symbol" -> VisitSymbol(i)
                  [] OTHER -> VisitSearch(i, FALSE)
    /\ UNCHANGED <<tree, content, treeEdits, steady>>

FinishWalk ==
    /\ walk.at = "walking" /\ listed = {}
    /\ EndsWalk("done")
    /\ UNCHANGED <<tree, content, found, tally, treeEdits, steady>>

\* Others remove an entry with all below it, bring one back, or write a file.
Vanish(i) ==
    /\ i \in tree /\ tree' = tree \ Under(i) /\ steady' = steady \ Under(i)
    /\ UNCHANGED content

Appear(i) ==
    /\ i \notin tree /\ TreeEntries[i].parent \in tree
    /\ tree' = tree \cup {i} /\ UNCHANGED <<content, steady>>

Write(i, c) ==
    /\ i \in tree /\ content' = [content EXCEPT ![i] = c] /\ steady' = steady \ {i}
    /\ UNCHANGED tree

TreeEdit ==
    /\ treeEdits < MaxTreeEdits /\ treeEdits' = treeEdits + 1
    /\ \/ \E i \in DOMAIN TreeEntries \ {1} : Vanish(i) \/ Appear(i)
       \/ \E i \in Files, c \in FileContents : Write(i, c)
    /\ UNCHANGED walkVars

WorkspaceNext ==
    \/ \E w \in Walks : BeginWalk(w)
    \/ Visit \/ FinishWalk \/ TreeEdit

WorkspaceSpec == WorkspaceInit /\ [][WorkspaceNext]_wsVars

-----------------------------------------------------------------------------
(* Properties *)

WorkspaceTypeOK ==
    /\ tree \subseteq DOMAIN TreeEntries /\ steady \subseteq tree
    /\ content \in [Files -> FileContents]
    /\ walk.at \in {"idle", "walking", "done", "error"}
    /\ listed \subseteq DOMAIN TreeEntries /\ tally \in 0..Len(TreeEntries)
    /\ treeEdits \in 0..MaxTreeEdits

FoundEntries == {found[k].entry : k \in DOMAIN found}

\* The entries a walk is about: below its root, in no directory that is always
\* skipped, and for a list no deeper than was asked.
WithinReach(i) ==
    /\ i \in Under(walk.root)
    /\ \A j \in Above[i] \ Above[walk.root] : ~shouldSkipDir(j)
    /\ walk.tool = "list" => i # walk.root /\ pathDepth(walk.root, i) <= walk.depth
    /\ walk.tool # "list" => ~TreeEntries[i].dir
    /\ walk.tool = "detect" => languageForPath(i) # ""

\* A walk shows what it is about and nothing twice, no more than its limit, and
\* nothing sensitive unless it was asked to.
WalkShowsNoMore ==
    walk.at # "idle" =>
        /\ \A i \in FoundEntries : WithinReach(i)
        /\ Cardinality(Range(found)) = Len(found) /\ Len(found) <= walk.limit
        /\ walk.tool # "detect" /\ ~walk.sensitive
             => \A i \in FoundEntries : ~isSensitive(i)

\* A walk that has not come to its limit shows all that it is about and that
\* nobody has touched meanwhile, whatever became of the rest of the tree; and
\* it fails only if something is gone.
WalkShowsAll ==
    /\ walk.at = "done" /\ Len(found) < walk.limit /\ (walk.tool = "detect" => tally < walk.limit) =>
         \A i \in steady :
            WithinReach(i) /\ (walk.tool = "detect" \/ walk.sensitive \/ ~isSensitive(i)) =>
                IF walk.tool \in {"list", "detect"} THEN i \in FoundEntries
                ELSE Range(searchFile(i, walk.tool = "search_symbol", walk.limit)) \subseteq Range(found)
    /\ walk.at = "error" => \E i \in DOMAIN TreeEntries : i \notin steady

WalksAreFaithful == WalkShowsNoMore /\ WalkShowsAll
=============================================================================
