-------------------------------- MODULE Text --------------------------------
(***************************************************************************)
(* What the operations of the model do to a document.  The AI service      *)
(* works on a flat text in which a blank line separates the paragraphs,    *)
(* looks up the text each operation expects, and applies the operations    *)
(* one after the other; the Yjs service maps every offset of the flat text *)
(* to the paragraph that owns it.                                          *)
(*                                                                         *)
(* A document is a sequence of paragraphs with one text node each, a node  *)
(* a sequence of cells: a character that is bold or not.  Runs of bold     *)
(* cells are rendered between an opening and a closing tag, of one         *)
(* character each here.  A text to insert is the sequence of its           *)
(* paragraphs.  Legacy documents of plain Y.Text, nested blocks, several   *)
(* nodes in a paragraph and other marks are left out.                      *)
(***************************************************************************)
EXTENDS Integers, Sequences, FiniteSets, SequencesExt, FiniteSetsExt

CONSTANTS
  Documents,       \* documents to start from
  Texts,           \* texts the model inserts
  MaxQuote,        \* bound of the model: characters of an anchor
  Shifts,          \* bound of the model: by how much the ends of a range are off
  MaxPast,         \* bound of the model: places past the end for an insert
  MaxOps,          \* bound of the model: operations of an answer
  Letters,         \* what other users type
  Characters,      \* all characters, those of the tags among them
  MaxEdits,        \* bound of the model: edits by other users
  FuzzyThreshold   \* AI_FUZZY_THRESHOLD, in per cent

Cells == [ch : Characters, bold : BOOLEAN]

ASSUME BoundsAssumption == {MaxQuote, MaxPast, MaxOps, MaxEdits} \subseteq Nat
ASSUME ShiftsAssumption == Shifts \subseteq Int \X Int
ASSUME FuzzyAssumption == FuzzyThreshold \in 0 .. 100
ASSUME CharactersAssumption == {"nl", "sp", "<", ">"} \cup Letters \subseteq Characters
ASSUME DocumentsAssumption == Documents \subseteq Seq(Seq(Cells))
\* What insertText splits at the blank lines has a first segment.
ASSUME TextsAssumption == Texts \subseteq Seq(Seq(Characters)) \ {<<>>}

VARIABLES
  doc,      \* the document
  erased,   \* has anything of it ever been deleted: what Yjs keeps of that
  at,       \* progress of the request
  ops,      \* operations it works with
  before,   \* the document to which operations were applied, with
  applied,  \* these operations
  edits     \* edits by others so far

textVars == <<doc, erased, at, ops, before, applied, edits>>

Plain(s) == [i \in DOMAIN s |-> [ch |-> s[i], bold |-> FALSE]]

Break == <<"nl", "nl">>
Clamp(value, min, max) == Min({Max({value, min}), max})
Slice(s, start, end) == SubSeq(s, start + 1, Min({end, Len(s)}))

(* String.slice: a negative offset counts from the end.                     *)
JsSlice(s, start, end) ==
  LET index(k) == IF k < 0 THEN Max({Len(s) + k, 0}) ELSE k
  IN Slice(s, index(start), index(end))

(* Sequences with a blank line between one and the next.                    *)
Joined(s) == FlattenSeq([i \in DOMAIN s |-> IF i = 1 THEN s[i] ELSE Break \o s[i]])

-----------------------------------------------------------------------------
(* The Yjs service                                                          *)

(* Y.XmlText.toString: the marks of a run are written around it.            *)
Render(b) ==
  FlattenSeq([i \in DOMAIN b |->
    (IF b[i].bold /\ (i = 1 \/ ~b[i - 1].bold) THEN <<"<">> ELSE <<>>)
    \o <<b[i].ch>>
    \o (IF b[i].bold /\ (i = Len(b) \/ ~b[i + 1].bold) THEN <<">">> ELSE <<>>)])

ExtractText(d) == Joined([i \in DOMAIN d |-> Render(d[i])])

(* The range of the flat text each node stands for.                         *)
LinearizeXmlText(d) ==
  LET start[i \in DOMAIN d] ==
        IF i = 1 THEN 0 ELSE start[i - 1] + Len(Render(d[i - 1])) + Len(Break)
  IN [i \in DOMAIN d |-> [start |-> start[i], end |-> start[i] + Len(Render(d[i]))]]

(* Y.XmlText.insert: what is typed after a character takes its marks; an    *)
(* offset past the end is the end.                                          *)
YInsert(b, offset, s) ==
  LET k == Min({offset, Len(b)})
      bold == k > 0 /\ b[Max({k, 1})].bold
  IN Slice(b, 0, k) \o [i \in DOMAIN s |-> [ch |-> s[i], bold |-> bold]]
       \o Slice(b, k, Len(b))

(* Y.XmlText.delete: nothing is deleted past the end.                       *)
YDelete(b, offset, length) ==
  Slice(b, 0, offset) \o Slice(b, offset + length, Len(b))

(* Y.XmlText.format: past the end, line breaks make up the length.          *)
YFormat(b, offset, length) ==
  LET short == Max({0, offset + length - Len(b)}) IN
  [i \in DOMAIN b |-> IF offset < i /\ i <= offset + length
                        THEN [b[i] EXCEPT !.bold = TRUE] ELSE b[i]]
  \o [i \in 1 .. Min({short, length}) |-> [ch |-> "nl", bold |-> TRUE]]

(* Fault to be caught: the tail is copied and not taken away.               *)
InsertBlocksTailTwice(d, t, offset, segments) ==
  LET tail == Slice(Render(d[t]), offset, Len(Render(d[t])))
      rest == [i \in 1 .. Len(segments) - 1 |->
                 Plain(IF i < Len(segments) - 1 THEN segments[i + 1]
                                                ELSE segments[i + 1] \o tail)]
  IN SubSeq(d, 1, t - 1) \o <<YInsert(d[t], offset, Head(segments))>> \o rest
       \o SubSeq(d, t + 1, Len(d))

(* The paragraph is split at the offset: the first segment continues it,    *)
(* the last one is followed by the tail, as rendered.                       *)
InsertBlocks(d, t, offset, segments) ==
  LET nodeText == Render(d[t])
      tail == Slice(nodeText, offset, Len(nodeText))
      kept == YDelete(d[t], offset, Len(nodeText) - offset)
      rest == [i \in 1 .. Len(segments) - 1 |->
                 Plain(IF i < Len(segments) - 1 THEN segments[i + 1]
                                                ELSE segments[i + 1] \o tail)]
  IN SubSeq(d, 1, t - 1) \o <<YInsert(kept, offset, Head(segments))>> \o rest
       \o SubSeq(d, t + 1, Len(d))

Owner(d, position) ==
  LET owners == {i \in DOMAIN d : position <= LinearizeXmlText(d)[i].end}
  IN IF owners = {} THEN Len(d) ELSE Min(owners)

LocalOffset(d, position) ==
  LET node == LinearizeXmlText(d)[Owner(d, position)]
  IN Clamp(position - node.start, 0, node.end - node.start)

InsertText(d, position, segments) ==
  LET t == Owner(d, position)
      offset == LocalOffset(d, position)
  IN IF d = <<>> THEN [i \in DOMAIN segments |-> Plain(segments[i])]
     ELSE IF Len(segments) = 1 THEN [d EXCEPT ![t] = YInsert(@, offset, segments[1])]
     ELSE InsertBlocks(d, t, offset, segments)

(* forEachXmlTextRange: the part of [start, end) in each node it overlaps.  *)
Overlaps(d, start, end) ==
  LET node == LinearizeXmlText(d) IN
  [i \in {i \in DOMAIN d : Max({start, node[i].start}) < Min({end, node[i].end})} |->
     LET from == Max({start, node[i].start})
     IN [offset |-> from - node[i].start, length |-> Min({end, node[i].end}) - from]]

(* Fault to be caught: the last paragraph goes as well.                     *)
PruneAllBlocks(d, affected) ==
  LET empty == {i \in affected : d[i] = <<>>}
  IN FlattenSeq([i \in DOMAIN d |-> IF i \in empty THEN <<>> ELSE <<d[i]>>])

(* Of the affected paragraphs those left empty go, as long as another stays. *)
PruneEmptyBlocks(d, affected) ==
  LET empty == {i \in affected : d[i] = <<>>}
      gone == IF empty = DOMAIN d THEN empty \ {Len(d)} ELSE empty
  IN FlattenSeq([i \in DOMAIN d |-> IF i \in gone THEN <<>> ELSE <<d[i]>>])

DeleteText(d, start, end) ==
  LET o == Overlaps(d, start, end) IN
  PruneEmptyBlocks([i \in DOMAIN d |->
      IF i \in DOMAIN o THEN YDelete(d[i], o[i].offset, o[i].length) ELSE d[i]],
    DOMAIN o)

FormatText(d, start, end) ==
  LET o == Overlaps(d, start, end) IN
  [i \in DOMAIN d |->
     IF i \in DOMAIN o THEN YFormat(d[i], o[i].offset, o[i].length) ELSE d[i]]

-----------------------------------------------------------------------------
(* The AI service: check 2                                                  *)

IsInsert(op) == op.type = "insert"
Place(op) == IF IsInsert(op) THEN op.position ELSE op.start

Occurrences(text, needle) ==
  {i \in 0 .. Len(text) - Len(needle) : Slice(text, i, i + Len(needle)) = needle}

Distance(i, j) == IF i < j THEN j - i ELSE i - j

(* normalizeAnchorText: every blank counts as a space, a line break too.    *)
Normalized(s) == [i \in DOMAIN s |-> IF s[i] = "nl" THEN "sp" ELSE s[i]]

(* Starts of the occurrence nearest to the preferred start, the first of    *)
(* two: at most one.  If there is none, blanks need not be the same.        *)
FindNearestExactText(text, needle, preferredStart) ==
  LET exact == Occurrences(text, needle)
      found == IF exact # {} THEN exact
                             ELSE Occurrences(Normalized(text), Normalized(needle))
  IN {i \in found : \A j \in found \ {i} :
        \/ Distance(i, preferredStart) < Distance(j, preferredStart)
        \/ Distance(i, preferredStart) = Distance(j, preferredStart) /\ i < j}

Trim(s) ==
  LET solid == {i \in DOMAIN s : s[i] \notin {"sp", "nl"}}
  IN IF solid = {} THEN <<>> ELSE SubSeq(s, Min(solid), Max(solid))

Levenshtein(a, b) ==
  LET dp[i \in 0 .. Len(a), j \in 0 .. Len(b)] ==
        IF i = 0 THEN j ELSE IF j = 0 THEN i
        ELSE IF a[i] = b[j] THEN dp[i - 1, j - 1]
        ELSE 1 + Min({dp[i - 1, j], dp[i, j - 1], dp[i - 1, j - 1]})
  IN dp[Len(a), Len(b)]

Similar(a, b) ==
  LET maxLen == Max({Len(a), Len(b)})
  IN 100 * (maxLen - Levenshtein(Trim(a), Trim(b))) >= FuzzyThreshold * maxLen

Unchecked == [outcome |-> "all_exact", valid |-> <<>>, moved |-> <<>>]
Keep(acc, op) == [acc EXCEPT !.valid = Append(@, op)]
Reject(acc) == [acc EXCEPT !.outcome = "partial"]

(* An insert goes to the anchor it quotes; without one, to where a range    *)
(* edit of the same place was moved.                                        *)
CheckInsert(acc, op, text) ==
  IF op.anchor = <<>> THEN
    Keep(acc, [op EXCEPT !.position = IF @ \in DOMAIN acc.moved THEN acc.moved[@] ELSE @])
  ELSE LET found == FindNearestExactText(text, op.anchor, op.position) IN
    IF found = {} THEN Reject(acc)
    ELSE Keep(acc, [op EXCEPT !.position =
                      Min(found) + (IF op.side = "before" THEN 0 ELSE Len(op.anchor))])

(* relocatedRanges: the places that range edits were moved to.              *)
Moved(acc, from, to) ==
  [acc EXCEPT !.moved = [p \in DOMAIN @ \cup {from} |-> IF p = from THEN to ELSE @[p]]]

(* A range edit that finds its text stays as it was sent; one whose text is *)
(* elsewhere is moved there; one whose text is merely similar stops the     *)
(* check.                                                                   *)
CheckRange(acc, op, text) ==
  LET actual == JsSlice(text, op.start, op.end)
      found == FindNearestExactText(text, op.expected, op.start)
      start == Min(found)
  IN IF op.expected = actual THEN Moved(Keep(acc, op), op.start, op.start)
     ELSE IF found # {} THEN
       Moved(Keep(acc, [op EXCEPT !.start = start, !.end = start + Len(op.expected)]),
             op.start, start)
     ELSE IF Similar(op.expected, actual) THEN [acc EXCEPT !.outcome = "fuzzy_match"]
     ELSE Reject(acc)

CheckContentExistence(operations, text) ==
  FoldLeft(LAMBDA acc, op :
             IF acc.outcome = "fuzzy_match" THEN acc
             ELSE IF IsInsert(op) THEN CheckInsert(acc, op, text)
             ELSE CheckRange(acc, op, text),
           Unchecked, operations)

-----------------------------------------------------------------------------
(* The AI service: application                                              *)

HasRangeEdit(operations) == \E i \in DOMAIN operations : ~IsInsert(operations[i])

(* Fault to be caught: the operations are applied as the model lists them.  *)
UnorderedOps(operations) == operations

(* With a range edit among them, the operations are applied from the back;  *)
(* of those at one place the insert comes last.                             *)
OrderOpsForApplication(operations) ==
  LET Sooner(i, j) ==
        LET a == operations[i]
            b == operations[j]
        IN \/ Place(a) > Place(b)
           \/ Place(a) = Place(b) /\ ~IsInsert(a) /\ IsInsert(b)
           \/ Place(a) = Place(b) /\ (IsInsert(a) <=> IsInsert(b)) /\ i < j
      order == CHOOSE p \in [DOMAIN operations -> DOMAIN operations] :
                 \A k, l \in DOMAIN operations : k < l => Sooner(p[k], p[l])
  IN IF HasRangeEdit(operations) THEN [k \in DOMAIN operations |-> operations[order[k]]]
                                 ELSE operations

Apply(d, op) ==
  CASE op.type = "insert" -> InsertText(d, op.position, op.text)
    [] op.type = "delete" -> DeleteText(d, op.start, op.end)
    [] op.type = "format" -> FormatText(d, op.start, op.end)

ComputeAfter(d, operations) == FoldLeft(Apply, d, OrderOpsForApplication(operations))

(* Does it delete anything, be it the mark of a run that a format reaches?  *)
Erases(d, op) ==
  CASE op.type = "insert" ->
         d # <<>> /\ Len(op.text) > 1
           /\ LocalOffset(d, op.position) < Len(d[Owner(d, op.position)])
    [] op.type = "delete" -> DeleteText(d, op.start, op.end) # d
    [] op.type = "format" ->
         LET o == Overlaps(d, op.start, op.end) IN
         \E i \in DOMAIN o :
           /\ FormatText(d, op.start, op.end)[i] # d[i]
           /\ \E k \in o[i].offset .. o[i].offset + o[i].length + 1 :
                k \in DOMAIN d[i] /\ d[i][k].bold

(* The document before the first operation in order and after each.         *)
Versions(d, order) ==
  LET version[k \in 0 .. Len(order)] ==
        IF k = 0 THEN d ELSE Apply(version[k - 1], order[k])
  IN version

(* Has anything been deleted by the time of the k-th?                       *)
ErasedBy(version, order, k) ==
  erased \/ \E j \in 1 .. k : Erases(version[j - 1], order[j])

(* classifyUpdate: the update of an operation brings something new, or at   *)
(* least the deletions, all of the document's, that go with each update.    *)
Classified(version, order) ==
  \A k \in DOMAIN order : version[k] # version[k - 1] \/ ErasedBy(version, order, k)

-----------------------------------------------------------------------------
(* Requests                                                                 *)

(* validateOperations: what the model may answer to a text.  It quotes the  *)
(* text as it is or with spaces for the breaks.  Nothing relates a range to *)
(* its quote, or to the text: each end may be anywhere.                     *)
Operations(text) ==
  LET Slices(n) == {r \in (0 .. Len(text)) \X (0 .. Len(text)) :
                      r[1] < r[2] /\ r[2] - r[1] <= n}
      Quotes(r) == {Slice(text, r[1], r[2]), Normalized(Slice(text, r[1], r[2]))}
      Ranges(r) == {x \in {<<r[1] + k[1], r[2] + k[2]>> : k \in Shifts} : x[1] < x[2]}
  IN (UNION {{[type |-> type, start |-> x[1], end |-> x[2], expected |-> quote] :
                type \in {"delete", "format"}, quote \in Quotes(r), x \in Ranges(r)} :
              r \in Slices(Len(text))})
     \cup (UNION {{[type |-> "insert", position |-> r[1], text |-> t, anchor |-> quote,
                    side |-> side] :
                      t \in Texts, quote \in Quotes(r), side \in {"before", "after"}} :
                    r \in Slices(MaxQuote)})
     \cup {[type |-> "insert", position |-> p, text |-> t, anchor |-> <<>>,
            side |-> "after"] : p \in 0 .. Len(text) + MaxPast, t \in Texts}

TextInit ==
  /\ doc \in Documents
  /\ erased \in BOOLEAN
  /\ at = "idle"
  /\ ops = <<>>
  /\ before = doc
  /\ applied = <<>>
  /\ edits = 0

(* reconstructDocument and generateValidatedOps of chat and propose.        *)
Generate ==
  /\ at = "idle"
  /\ at' = "draft"
  /\ \E n \in 1 .. MaxOps : ops' \in [1 .. n -> Operations(ExtractText(doc))]
  /\ UNCHANGED <<doc, erased, before, applied, edits>>

(* The operations are classified after all of them were applied, in the     *)
(* transaction that logs them: if one fails, none is.                       *)
ApplyOps(operations, end) ==
  LET order == OrderOpsForApplication(operations)
      version == Versions(doc, order)
  IN
  /\ Classified(version, order)
  /\ doc' = ComputeAfter(doc, operations)
  /\ erased' = ErasedBy(version, order, Len(order))
  /\ before' = doc
  /\ applied' = operations
  /\ at' = end
  /\ ops' = <<>>
  /\ UNCHANGED edits

(* chat applies to the text the model was given whatever it finds there.    *)
Chat ==
  LET check == CheckContentExistence(ops, ExtractText(doc)) IN
  /\ at = "draft"
  /\ check.outcome # "fuzzy_match" /\ check.valid # <<>>
  /\ ApplyOps(check.valid, "applied")

(* propose stages operations all of which were found.                       *)
StageProposal ==
  LET check == CheckContentExistence(ops, ExtractText(doc)) IN
  /\ at = "draft"
  /\ check.outcome = "all_exact"
  /\ at' = "staged"
  /\ ops' = check.valid
  /\ UNCHANGED <<doc, erased, before, applied, edits>>

(* Meanwhile others type a letter, remove one, or start a paragraph.        *)
Edit ==
  /\ at = "staged"
  /\ edits < MaxEdits
  /\ edits' = edits + 1
  /\ \E i \in DOMAIN doc : \E k \in 0 .. Len(doc[i]) :
       \/ \E c \in Letters : /\ doc' = [doc EXCEPT ![i] = YInsert(@, k, <<c>>)]
                             /\ erased' = erased
       \/ /\ k < Len(doc[i])
          /\ doc' = [doc EXCEPT ![i] = YDelete(@, k, 1)]
          /\ erased' = TRUE
       \/ /\ doc' = SubSeq(doc, 1, i - 1)
                       \o <<Slice(doc[i], 0, k), Slice(doc[i], k, Len(doc[i]))>>
                       \o SubSeq(doc, i + 1, Len(doc))
          /\ erased' = (erased \/ k < Len(doc[i]))
  /\ UNCHANGED <<at, ops, before, applied>>

(* acceptProposal checks again and applies what it finds.                   *)
AcceptProposal ==
  LET check == CheckContentExistence(ops, ExtractText(doc)) IN
  /\ at = "staged"
  /\ check.outcome # "fuzzy_match" /\ check.valid # <<>>
  /\ ApplyOps(check.valid, "applied")

(* After a drift and with a confirm, the operations as they were staged.    *)
AcceptConfirmed ==
  LET check == CheckContentExistence(ops, ExtractText(doc)) IN
  /\ at = "staged"
  /\ check.outcome = "fuzzy_match"
  /\ ApplyOps(ops, "confirmed")

(* The request ends without effect: nothing is found, the answer exceeds    *)
(* the scope, an operation without effect cannot be classified, a call      *)
(* fails, or the proposal is declined.                                      *)
Refuse ==
  /\ at \in {"draft", "staged"}
  /\ at' = "refused"
  /\ ops' = <<>>
  /\ UNCHANGED <<doc, erased, before, applied, edits>>

TextNext ==
  \/ Generate \/ Chat \/ StageProposal
  \/ Edit \/ AcceptProposal \/ AcceptConfirmed \/ Refuse

TextSpec == TextInit /\ [][TextNext]_textVars

-----------------------------------------------------------------------------

TextDocs == Seq(Seq(Cells))
RangeEdits == {op \in [type : {"delete", "format"}, start : Int, end : Int,
                       expected : Seq(Characters) \ {<<>>}] : op.start < op.end}
Insertions == [type : {"insert"}, position : Nat, text : Texts, anchor : Seq(Characters),
               side : {"before", "after"}]
TextOps == RangeEdits \cup Insertions

TextTypeOK ==
  /\ doc \in TextDocs /\ before \in TextDocs /\ erased \in BOOLEAN
  /\ before # <<>> => doc # <<>>
  /\ at \in {"idle", "draft", "staged", "applied", "confirmed", "refused"}
  /\ ops \in Seq(TextOps) /\ applied \in Seq(TextOps)
  /\ edits \in 0 .. MaxEdits

(* The operations as simultaneous edits of the flat text: what is inserted  *)
(* stands where it was to be, what is deleted is left out.                  *)
Edited(text, operations) ==
  LET inserted(p) == FlattenSeq([i \in DOMAIN operations |->
        IF IsInsert(operations[i]) /\ Min({operations[i].position, Len(text)}) = p
          THEN Joined(operations[i].text) ELSE <<>>])
      deleted(p) == \E i \in DOMAIN operations :
        operations[i].type = "delete" /\ operations[i].start <= p /\ p < operations[i].end
  IN FlattenSeq([k \in 1 .. Len(text) + 1 |->
       inserted(k - 1) \o
       IF k > Len(text) \/ deleted(k - 1) THEN <<>> ELSE <<text[k]>>])

(* The range edits of an answer are disjoint, its inserts go to different   *)
(* places outside of them.                                                  *)
Apart(operations, length) ==
  \A i, j \in DOMAIN operations :
    LET a == operations[i]
        b == operations[j]
    IN i # j =>
      CASE IsInsert(a) /\ IsInsert(b) ->
             Min({a.position, length}) # Min({b.position, length})
        [] ~IsInsert(a) /\ ~IsInsert(b) -> a.end <= b.start \/ b.end <= a.start
        [] IsInsert(a) /\ ~IsInsert(b) -> a.position <= b.start \/ a.position >= b.end
        [] OTHER -> TRUE

(* Past the end of a paragraph, up to the start of the next one.            *)
AtBreak(d, place) ==
  LET node == LinearizeXmlText(d)
  IN {i \in 2 .. Len(d) : node[i - 1].end < place /\ place <= node[i].start}

(* No operation ends at the break between paragraphs to which another one   *)
(* inserts: when the next paragraph is the last and is removed, what is     *)
(* inserted in front of it joins the paragraph before the break, where it   *)
(* is in reach of the other operation.                                      *)
ApartAtBreaks(d, operations) ==
  \A i, j \in DOMAIN operations :
    i # j /\ IsInsert(operations[i]) =>
      LET b == operations[j]
      IN AtBreak(d, operations[i].position)
           \cap AtBreak(d, IF IsInsert(b) THEN b.position ELSE b.end) = {}

Unformatted(d) ==
  \A i \in DOMAIN d : \A k \in DOMAIN d[i] : ~d[i][k].bold /\ d[i][k].ch \notin {"<", ">"}

(* Operations the service carries out in place on a document without marks: *)
(* their ranges lie in the text, they keep apart, they are applied from the *)
(* back, and no paragraph is split in an answer that also formats.          *)
Orderly(d, operations) ==
  /\ Unformatted(d)
  /\ \A i \in DOMAIN operations : ~IsInsert(operations[i]) =>
       operations[i].start >= 0 /\ operations[i].end <= Len(ExtractText(d))
  /\ Apart(operations, Len(ExtractText(d)))
  /\ ApartAtBreaks(d, operations)
  /\ Len(operations) = 1 \/ HasRangeEdit(operations)
  /\ \A i, j \in DOMAIN operations :
       operations[i].type = "format" /\ IsInsert(operations[j]) =>
         Len(operations[j].text) = 1

(* The text itself, without the tags that extractText adds.                 *)
PlainText(d) == Joined([i \in DOMAIN d |-> [k \in DOMAIN d[i] |-> d[i][k].ch]])
Unbroken(s) == FlattenSeq([i \in DOMAIN s |-> IF s[i] = "nl" THEN <<>> ELSE <<s[i]>>])

(* ai.service.spec.ts: multiple replacements are applied "from the back so  *)
(* earlier edits do not shift later ranges".  Whatever others typed before  *)
(* the check, every range edit that does not start in front of the text     *)
(* works on the text it was meant for; and the text that results of orderly *)
(* operations is that of the operations made all at once, where breaks      *)
(* between paragraphs are not looked at.                                    *)
EditsLandInPlace ==
  at = "applied" =>
    LET text == ExtractText(before) IN
    /\ \A i \in DOMAIN applied : ~IsInsert(applied[i]) /\ applied[i].start >= 0 =>
         Normalized(applied[i].expected) =
           Normalized(Slice(text, applied[i].start, applied[i].end))
    /\ Orderly(before, applied) =>
         Unbroken(PlainText(doc)) = Unbroken(Edited(text, applied))

(* An operation that leaves the structure alone: a delete within a          *)
(* paragraph that does not empty it, an insert not between two paragraphs.  *)
WithinParagraph(d, op) ==
  \E i \in DOMAIN d :
    LET node == LinearizeXmlText(d)[i] IN
    IF IsInsert(op) THEN node.start <= op.position /\ op.position <= node.end
    ELSE node.start <= op.start /\ op.end <= node.end

Emptied(d, operations) ==
  \E i \in DOMAIN d :
    LET node == LinearizeXmlText(d)[i] IN
    d[i] # <<>> /\ \A p \in node.start .. node.end - 1 :
      \E k \in DOMAIN operations :
        operations[k].type = "delete" /\ operations[k].start <= p /\ p < operations[k].end

(* A text that starts with a blank line has an empty first segment: what is *)
(* in front of it in its paragraph becomes a paragraph that can be emptied. *)
BreaksFirst(op) == IsInsert(op) /\ Len(op.text) > 1 /\ op.text[1] = <<>>

(* yjs.service.ts: offsets "line up exactly with extractText's output".     *)
(* Within paragraphs the result is exact, breaks included: a text of        *)
(* several paragraphs becomes that many, and no other is split or joined.   *)
ParagraphsKept ==
  at = "applied" /\ Orderly(before, applied)
    /\ (\A i \in DOMAIN applied :
          WithinParagraph(before, applied[i]) /\ ~BreaksFirst(applied[i]))
    /\ ~Emptied(before, applied)
  => PlainText(doc) = Edited(ExtractText(before), applied)

=============================================================================
