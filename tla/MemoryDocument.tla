--------------------------- MODULE MemoryDocument ----------------------------
(***************************************************************************)
(* internal/tools/memory/items.go: how memory items are kept as Markdown.  *)
(* An operation parses the file, changes one item and renders the file     *)
(* anew, so that every item passes through the text form at every change   *)
(* of any of them.                                                         *)
(*                                                                         *)
(* A line is a word behind some "- ", or the comment that opens an item.   *)
(* The word "end" is the comment that closes one.  Blank lines and spaces  *)
(* are layout.  Of an item's attributes that a user can fill, the project  *)
(* key, the source and the tags, one stands for all: it is plain, holds a  *)
(* quotation mark or holds a ">".  A file written by hand is listed as one *)
(* memory while it has no items, but is rendered as the preamble it is.    *)
(***************************************************************************)
EXTENDS Naturals, SequencesExt

CONSTANTS
    Handwritten,    \* the files there may be before the first item
    DocTexts,       \* the texts that items may be given
    MaxDocItems,    \* bound: items created
    MaxDocOps       \* bound: operations

DocText(word, bullets) == [is |-> "text", word |-> word, bullets |-> bullets]
DocLines == [is : {"text"}, word : {"x", "y", "end", "title", "secret"}, bullets : 0..2]

ASSUME DocAssumption ==
    /\ Handwritten \subseteq Seq(DocLines)
    /\ DocTexts \subseteq Seq(DocLines) \ {<<>>}
    /\ MaxDocItems \in Nat /\ MaxDocOps \in Nat

VARIABLES
    docBody,        \* the file
    handwritten,    \* history: the file in the beginning
    kept,           \* history: the items as they were meant
    docOps

docVars == <<docBody, handwritten, kept, docOps>>

-----------------------------------------------------------------------------
(* The text form *)

Title == DocText("title", 0)
End == DocText("end", 0)
Start(item) == [is |-> "start", id |-> item.id, status |-> item.status, tag |-> item.tag]

\* memoryItemStart: a ">" among the attributes, and the line is a line of text.
Opens(line) == line.is = "start" /\ line.tag # "angle"

\* parseMemoryAttrs: a value ends at the first quotation mark, the escaped one.
ReadTag(tag) == IF tag = "quoted" THEN "cut" ELSE tag

\* cleanMemoryText: a list loses one level.
Unlisted(line) == IF line.is = "text" /\ line.bullets > 0 THEN [line EXCEPT !.bullets = @ - 1] ELSE line

\* An item without text is none.
WithText(items) == IF items # <<>> /\ Last(items).text = <<>> THEN Front(items) ELSE items

\* A mutant: the comment that closes an item is looked for behind a "- " too.
ParseLineAnyEnd(doc, line) ==
    IF doc.open THEN
        IF line.is = "text" /\ line.word = "end"
        THEN [doc EXCEPT !.open = FALSE, !.items = WithText(@)]
        ELSE [doc EXCEPT !.items[Len(doc.items)].text = Append(@, Unlisted(line))]
    ELSE IF Opens(line)
    THEN [doc EXCEPT !.open = TRUE, !.items = Append(@,
            [id |-> line.id, status |-> line.status, tag |-> ReadTag(line.tag), text |-> <<>>])]
    ELSE [doc EXCEPT !.preamble = Append(@, line)]

\* ParseMemoryDocument, for one line: within an item nothing but its end ends
\* it, and outside of one all that opens none is preamble.
ParseLine(doc, line) ==
    IF doc.open THEN
        IF line = End THEN [doc EXCEPT !.open = FALSE, !.items = WithText(@)]
        ELSE [doc EXCEPT !.items[Len(doc.items)].text = Append(@, Unlisted(line))]
    ELSE IF Opens(line)
    THEN [doc EXCEPT !.open = TRUE, !.items = Append(@,
            [id |-> line.id, status |-> line.status, tag |-> ReadTag(line.tag), text |-> <<>>])]
    ELSE [doc EXCEPT !.preamble = Append(@, line)]

\* ParseMemoryDocument.  An item may be without an end, at that of the file.
ParseMemoryDocument(file_) ==
    LET doc == FoldLeft(ParseLine, [preamble |-> <<>>, items |-> <<>>, open |-> FALSE], file_)
    IN  [preamble |-> doc.preamble, items |-> WithText(doc.items)]

\* RenderMemoryItem: the text is a list.
RenderMemoryItem(item) ==
    <<Start(item)>>
    \o (IF item.text[1].bullets > 0 THEN item.text
        ELSE [item.text EXCEPT ![1].bullets = 1])
    \o <<End>>

\* RenderMemoryDocument.
AndItem(lines, item) == lines \o RenderMemoryItem(item)
RenderMemoryDocument(preamble, items) == FoldLeft(AndItem, preamble, items)

-----------------------------------------------------------------------------
(* The operations: each of them finds an item and rewrites the file *)

DocInit ==
    /\ handwritten \in Handwritten
    /\ docBody = handwritten
    /\ kept = <<>> /\ docOps = 0

\* writeDocument; WriteFile refuses a file in which any line is a secret.
WriteDocument(preamble, items) ==
    LET file_ == RenderMemoryDocument(preamble, items) IN
    /\ \A k \in DOMAIN file_ : file_[k].is = "text" => file_[k].word # "secret"
    /\ docBody' = file_
    /\ docOps < MaxDocOps /\ docOps' = docOps + 1
    /\ UNCHANGED handwritten

\* CreateItem, in a new file below a title.
CreateDocItem(text, tag) ==
    LET doc == ParseMemoryDocument(docBody)
        item == [id |-> Len(kept) + 1, status |-> "active", tag |-> tag, text |-> text]
    IN  /\ Len(kept) < MaxDocItems
        /\ WriteDocument(IF docBody = <<>> THEN <<Title>> ELSE doc.preamble, Append(doc.items, item))
        /\ kept' = Append(kept, item)

\* findItem: the first item of that name.
WithId(doc, i) == {k \in DOMAIN doc.items : doc.items[k].id = i}

\* UpdateItem with a text and tags; ArchiveItem and RestoreItem.
UpdateDocItem(i, text, tag) ==
    LET doc == ParseMemoryDocument(docBody) IN
    \E k \in WithId(doc, i) :
        /\ \A j \in WithId(doc, i) : k <= j
        /\ WriteDocument(doc.preamble, [doc.items EXCEPT ![k].text = text, ![k].tag = tag])
        /\ kept' = [kept EXCEPT ![i].text = text, ![i].tag = tag]

MarkDocItem(i, status) ==
    LET doc == ParseMemoryDocument(docBody) IN
    \E k \in WithId(doc, i) :
        /\ \A j \in WithId(doc, i) : k <= j
        /\ WriteDocument(doc.preamble, [doc.items EXCEPT ![k].status = status])
        /\ kept' = [kept EXCEPT ![i].status = status]

\* DeleteItem, forced.
DeleteDocItem(i) ==
    LET doc == ParseMemoryDocument(docBody) IN
    \E k \in WithId(doc, i) :
        /\ \A j \in WithId(doc, i) : k <= j
        /\ WriteDocument(doc.preamble, RemoveAt(doc.items, k))
        /\ kept' = [kept EXCEPT ![i].status = "gone"]

DocNext ==
    \/ \E text \in DocTexts, tag \in {"plain", "quoted", "angle"} :
          \/ CreateDocItem(text, tag)
          \/ \E i \in DOMAIN kept : UpdateDocItem(i, text, tag)
    \/ \E i \in DOMAIN kept :
          \/ \E status \in {"active", "archived"} : MarkDocItem(i, status)
          \/ DeleteDocItem(i)

DocSpec == DocInit /\ [][DocNext]_docVars

-----------------------------------------------------------------------------
(* Properties *)

DocTypeOK ==
    /\ handwritten \in Handwritten
    /\ docOps \in 0..MaxDocOps /\ Len(kept) <= MaxDocItems
    /\ \A i \in DOMAIN kept :
          /\ kept[i].id = i /\ kept[i].text \in DocTexts
          /\ kept[i].tag \in {"plain", "quoted", "angle"}
          /\ kept[i].status \in {"active", "archived", "gone"}
    /\ \A k \in DOMAIN docBody : docBody[k] \in DocLines \/ docBody[k].is = "start"

WordsOfText(text) == [k \in DOMAIN text |-> text[k].word]

\* What the text form can hold: no line but the first reads like the end of an
\* item, and no attribute has a ">" in it.
Representable(item) ==
    /\ item.tag # "angle"
    /\ \A k \in DOMAIN item.text : k > 1 => item.text[k].word # "end"

\* However often the file is parsed and rendered for the sake of other items, and
\* whatever these hold, an item that the text form can hold is found once, with
\* its status and its words, and a deleted one is not; a quotation mark cuts off
\* its own attribute only.  An item that it cannot hold loses no other one.
ItemsSurvive ==
    LET doc == ParseMemoryDocument(docBody) IN
    \A i \in DOMAIN kept :
        IF kept[i].status = "gone" THEN WithId(doc, i) = {}
        ELSE Representable(kept[i]) => \E k \in WithId(doc, i) :
                /\ WithId(doc, i) = {k}
                /\ doc.items[k].status = kept[i].status
                /\ WordsOfText(doc.items[k].text) = WordsOfText(kept[i].text)
                /\ doc.items[k].tag = ReadTag(kept[i].tag)

\* What was written by hand stays in the file, in its order.
HandwrittenStays == IsPrefix(handwritten, ParseMemoryDocument(docBody).preamble)

\* A file of memories keeps what was written into it, through its text form.
DocumentIsKept == ItemsSurvive /\ HandwrittenStays

=============================================================================
