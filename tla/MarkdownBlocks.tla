---------------------------- MODULE MarkdownBlocks ----------------------------
(***************************************************************************)
(* How load_posts turns a Markdown file into the body of a post: the block *)
(* parsers of types/post/parser.  Parse() hands the document, line by      *)
(* line, to one block parser at a time; quotes and lists hand what is left *)
(* of a line to a child of their own, so that the open parsers form a      *)
(* stack.  A parser's output reaches its parent's, and at last the         *)
(* document's, only when the parser has finished.                          *)
(*                                                                         *)
(* A line is a sequence of tokens: the marks that block parsers look for,  *)
(* then its words, told apart by the number of the line ("fence" stands    *)
(* for three backquotes, "  " for two spaces).  Lists put HTML tags in     *)
(* front of a line before they pass it on, and recognise by them that a    *)
(* parent has ended their item.  The output is a sequence of tags and      *)
(* words.  Inline markup (runLineParser) moves neither and is left out.    *)
(***************************************************************************)
EXTENDS Integers, SequencesExt

CONSTANTS
  Lines,          \* the lines a document is made of, "words" for any words
  MaxLines        \* bound: lines of a document

VARIABLES
  doc,            \* the lines read so far
  parsers,        \* the open block parsers, the outermost first
  line,           \* what is left of the line being parsed
  level,          \* the parser that has the line, 0 for Parse() itself
  phase,          \* "read", or the line is on its way "down", or its parsers
                  \* return ("up"); "done" at the end
  ended,          \* the last line has been read
  html,           \* Parse()'s result
  health          \* "sound", "undefined" after an access out of bounds

vars == <<doc, parsers, line, level, phase, ended, html, health>>

-----------------------------------------------------------------------------
(* Lines.                                                                  *)

HeadIn(l, S) == l # <<>> /\ Head(l) \in S

(* regex_replace with an expression anchored at the line's beginning.      *)
Without(l, S) == IF HeadIn(l, S) THEN Tail(l) ELSE l

Separator == <<"- ", "| - | -">>

(* The HTML elements the parsers write: their start and end tags.          *)
Elements ==
  { <<"<ul>", "</ul>">>, <<"<ol>", "</ol>">>, <<"<li>", "</li>">>,
    <<"<label>", "</label>">>, <<"<p>", "</p>">>, <<"<h1>", "</h1>">>,
    <<"<pre>", "</pre>">>, <<"<code>", "</code>">>,
    <<"<blockquote>", "</blockquote>">>, <<"<table>", "</table>">>,
    <<"<thead>", "</thead>">>, <<"<tbody>", "</tbody>">>, <<"<tfoot>", "</tfoot>">>,
    <<"<tr>", "</tr>">>, <<"<th>", "</th>">>, <<"<td>", "</td>">> }

StartTags == { tags[1] : tags \in Elements }
EndTags   == { tags[2] : tags \in Elements }
EndTag    == [ t \in StartTags |-> (CHOOSE tags \in Elements : tags[1] = t)[2] ]
Tags      == StartTags \cup EndTags \cup {"<hr/>"}

(* What parsers look for in a line.                                        *)
Marks == { "fence", "# ", "---", ">", "|table>", "|<table", "| - | -", "- ", "[ ] ",
           "1. ", "2. ", "* ", "  ", " " }

(* The words of the n-th line.                                             *)
Word(n) == ToString(n)
AllWords == { Word(n) : n \in 1 .. MaxLines }

(* A line of a file holds no tag, which a list might take for its parent's.*)
ASSUME LineAssumption == MaxLines \in Nat /\ Lines \subseteq Seq(Marks \cup {"words"})

(* No box stands alone: it would become an <input> tag, which is left out  *)
(* like all markup inside a line, and the line would count as empty.       *)
ASSUME BoxAssumption == \A l \in Lines : l # <<>> => Last(l) # "[ ] "

ASSUME WordAssumption == AllWords \cap (Tags \cup Marks) = {}

(* The lines a parser of a kind begins at.                                 *)
IsStartingLine(kind, l) ==
  \/ kind = "code"       /\ l = <<"fence">>
  \/ kind = "headline"   /\ HeadIn(l, {"# "})
  \/ kind = "hr"         /\ l = <<"---">>
  \/ kind = "quote"      /\ HeadIn(l, {">"})
  \/ kind = "table"      /\ l = <<"|table>">>
  \/ kind = "checklist"  /\ HeadIn(l, {"- "}) /\ HeadIn(Tail(l), {"[ ] "})
  \/ kind = "ordered"    /\ HeadIn(l, {"1. "})
  \/ kind = "unordered"  /\ HeadIn(l, {"* ", "- "})
  \/ kind = "paragraph"  /\ l # <<>>

Lists == {"checklist", "ordered", "unordered"}

(* The kinds Parse() and a quote ask for, in this order; what a list asks  *)
(* for; the others have no children.                                       *)
Blocks == <<"code", "headline", "hr", "quote", "table", "checklist",
            "ordered", "unordered", "paragraph">>

Children(kind) ==
  CASE kind = "quote"                      -> Blocks
    [] kind = "checklist"                  -> <<"checklist">>
    [] kind \in {"ordered", "unordered"}   -> <<"ordered", "unordered">>
    [] OTHER                               -> <<>>

New(kind) == [ kind |-> kind, isStarted |-> FALSE,
               isFinished |-> kind \in {"headline", "hr"},
               result |-> <<>>, table |-> <<>>, currentBlock |-> 0 ]

(* getBlockParserForLine: the parser made for l, none or one.              *)
ParserFor(kinds, l) ==
  LET starting == { i \in DOMAIN kinds : IsStartingLine(kinds[i], l) }
  IN  IF starting = {} THEN <<>> ELSE <<New(kinds[Min(starting)])>>

-----------------------------------------------------------------------------
(* parseBlock: what becomes of the parser and of the line.                 *)

Parsed(p, l) == [parser |-> p, line |-> l]

Started(p)  == [p EXCEPT !.isStarted = TRUE]
Finished(p) == [p EXCEPT !.isFinished = TRUE]

Opening == [ checklist |-> <<"<ul>", "<li>", "<label>">>,
             ordered   |-> <<"<ol>", "<li>">>,
             unordered |-> <<"<ul>", "<li>">> ]
Closing == [ checklist |-> <<"</label>", "</li>", "</ul>">>,
             ordered   |-> <<"</li>", "</ol>">>,
             unordered |-> <<"</li>", "</ul>">> ]
Between == [ checklist |-> <<"</label>", "</li>", "<li>", "<label>">>,
             ordered   |-> <<"</li>", "<li>">>,
             unordered |-> <<"</li>", "<li>">> ]

IsStartOfNewListItem(kind, l) ==
  IF kind = "ordered" THEN HeadIn(l, {"1. ", "2. ", "* "})
                      ELSE IsStartingLine(kind, l)

WithoutMark(kind, l) ==
  CASE kind = "ordered"   -> Without(Without(l, {"1. ", "2. "}), {"* "})
    [] kind = "unordered" -> Without(l, {"* ", "- "})
    [] kind = "checklist" -> Without(Without(l, {"- "}), {"[ ] "})

(* The parent list has put the end of its item in front of the line.       *)
EndsParentsItem(kind, l) ==
  HeadIn(l, IF kind = "checklist" THEN {"</label>"} ELSE {"</li>"})

(* Slip: the closing tags come behind the line.                            *)
ParseListLineClosingLate(p, l) ==
  LET rest == WithoutMark(p.kind, l) IN
  IF ~p.isStarted THEN Parsed(Started(p), Opening[p.kind] \o rest)
  ELSE IF HeadIn(l, {"  "}) THEN Parsed(p, Tail(l))
  ELSE IF rest = <<>> \/ EndsParentsItem(p.kind, l)
       THEN Parsed(Finished(p), rest \o Closing[p.kind])
  ELSE IF IsStartOfNewListItem(p.kind, l)
       THEN Parsed(p, Between[p.kind] \o rest)
  ELSE Parsed(p, rest)

ParseListLine(p, l) ==
  LET rest == WithoutMark(p.kind, l) IN
  IF ~p.isStarted THEN Parsed(Started(p), Opening[p.kind] \o rest)
  ELSE IF HeadIn(l, {"  "}) THEN Parsed(p, Tail(l))
  ELSE IF rest = <<>> \/ EndsParentsItem(p.kind, l)
       THEN Parsed(Finished(p), Closing[p.kind] \o rest)
  ELSE IF IsStartOfNewListItem(p.kind, l)
       THEN Parsed(p, Between[p.kind] \o rest)
  ELSE Parsed(p, rest)

ParseCodeLine(p, l) ==
  IF l # <<"fence">> THEN Parsed(p, l)
  ELSE IF p.isStarted
       THEN Parsed(Finished([p EXCEPT !.isStarted = FALSE]), <<"</code>", "</pre>">>)
       ELSE Parsed(Started(p), <<"<pre>", "<code>">>)

ParseParagraphLine(p, l) ==
  IF ~p.isStarted THEN Parsed(Started(p), <<"<p>">> \o l \o <<" ">>)
  ELSE IF l = <<>> THEN Parsed(Finished(p), <<"</p>">>)
  ELSE Parsed(p, l \o <<" ">>)

parseBlock(p, l) ==
  CASE p.kind \in Lists     -> ParseListLine(p, l)
    [] p.kind = "code"      -> ParseCodeLine(p, l)
    [] p.kind = "paragraph" -> ParseParagraphLine(p, l)
    [] p.kind = "headline"  -> Parsed(p, <<"<h1>">> \o Tail(l) \o <<"</h1>">>)
    [] p.kind = "hr"        -> Parsed(p, <<"<hr/>">>)

(* A quote takes off "> " and then ">" (of "> > words", both).             *)
WithoutQuotes(l) ==
  Without(IF HeadIn(l, {">"}) /\ HeadIn(Tail(l), {" "}) THEN Tail(Tail(l)) ELSE l,
          {">"})

(* Slip: puts the space at the end of an empty line too.                   *)
UnquotedWithSpace(l) == WithoutQuotes(l) \o <<" ">>

(* What is left gets a space at its end.                                   *)
Unquoted(l) ==
  LET rest == WithoutQuotes(l)
  IN  IF rest = <<>> THEN rest ELSE rest \o <<" ">>

-----------------------------------------------------------------------------
(* Tables.                                                                 *)

Concat(seqs) ==
  LET upto[n \in 0 .. Len(seqs)] == IF n = 0 THEN <<>> ELSE upto[n - 1] \o seqs[n]
  IN  upto[Len(seqs)]

(* An element, from its start and end tags and its contents.               *)
Element(tags, contents) == <<tags[1]>> \o contents \o <<tags[2]>>

(* The element a block of rows becomes: the first of several is the head,  *)
(* the last of three or more the foot.                                     *)
IsHead(table, b) == b = 1 /\ Len(table) > 1

Section(table, b) ==
  CASE IsHead(table, b)                    -> <<"<thead>", "</thead>">>
    [] b = Len(table) /\ Len(table) >= 3   -> <<"<tfoot>", "</tfoot>">>
    [] OTHER                               -> <<"<tbody>", "</tbody>">>

Cell(table, b) ==
  IF IsHead(table, b) THEN <<"<th>", "</th>">> ELSE <<"<td>", "</td>">>

RowHtml(cell, cells) ==
  Element(<<"<tr>", "</tr>">>,
          Concat([i \in DOMAIN cells |-> Element(cell, <<cells[i]>>)]))

BlockHtml(table, b) ==
  Element(Section(table, b),
          Concat([r \in DOMAIN table[b] |-> RowHtml(Cell(table, b), table[b][r])]))

TableHtml(table) ==
  Element(<<"<table>", "</table>">>,
          Concat([b \in DOMAIN table |-> BlockHtml(table, b)]))

(* Slip: forgets that blocks are counted from zero.                        *)
WithBlockFromOne(p) ==
  IF Len(p.table) < p.currentBlock THEN Append(p.table, <<>>) ELSE p.table

(* At most one block is added, whatever the number of the current one.     *)
WithBlock(p) ==
  IF Len(p.table) < p.currentBlock + 1 THEN Append(p.table, <<>>) ELSE p.table

-----------------------------------------------------------------------------
Init == /\ doc = <<>> /\ parsers = <<>> /\ line = <<>>
        /\ level = 0 /\ phase = "read" /\ ended = FALSE
        /\ html = <<>>
        /\ health = "sound"

(* Parse() gives the line to the current parser, or to a new one.          *)
Give(l) ==
  LET open == IF parsers = <<>> THEN ParserFor(Blocks, l) ELSE parsers IN
  /\ parsers' = open
  /\ line' = l
  /\ IF open = <<>> THEN level' = 0 /\ phase' = "read"
                    ELSE level' = 1 /\ phase' = "down"
  /\ UNCHANGED <<ended, html, health>>

(* The n-th line, with its words.                                          *)
NthLine(l, n) == [i \in DOMAIN l |-> IF l[i] = "words" THEN Word(n) ELSE l[i]]

ReadLine ==
  /\ phase = "read" /\ ~ended /\ Len(doc) < MaxLines
  /\ \E l \in Lines :
       /\ doc' = Append(doc, l)
       /\ Give(NthLine(l, Len(doc) + 1))

(* After the last line, an unfinished parser gets an empty one.            *)
EndOfFile ==
  /\ phase = "read" /\ ~ended
  /\ ended' = TRUE
  /\ IF parsers = <<>>
     THEN phase' = "done" /\ UNCHANGED <<parsers, line, level>>
     ELSE phase' = "down" /\ parsers' = parsers /\ line' = <<>> /\ level' = 1
  /\ UNCHANGED <<doc, html, health>>

Current == parsers[level]

(* The parser that has the line, q, keeps what is left of it, or hands it  *)
(* to its child, an old or a new one.                                      *)
Keep(q) == /\ parsers' = [parsers EXCEPT ![level] = q]
           /\ phase' = "up"
           /\ UNCHANGED <<doc, line, level, ended, html>>

HandOn(q, l) ==
  LET below == IF level < Len(parsers) THEN <<>> ELSE ParserFor(Children(q.kind), l) IN
  /\ parsers' = [parsers EXCEPT ![level] = q] \o below
  /\ line' = l /\ level' = level + 1
  /\ UNCHANGED <<doc, phase, ended, html, health>>

HasChildFor(l) ==
  level < Len(parsers) \/ ParserFor(Children(Current.kind), l) # <<>>

Write(q, l) == [q EXCEPT !.result = @ \o l]

(* AddLine() of all but quotes and tables.                                 *)
AddLine ==
  /\ phase = "down" /\ Current.kind \notin {"quote", "table"}
  /\ LET parsed == parseBlock(Current, line) IN
       IF HasChildFor(parsed.line)
       THEN HandOn(parsed.parser, parsed.line)
       ELSE Keep(Write(parsed.parser, parsed.line)) /\ UNCHANGED health

(* Slip: an empty line ends a quote, child or no child.                    *)
AddQuoteLineAndFinish ==
  /\ phase = "down" /\ Current.kind = "quote"
  /\ LET q    == IF Current.isStarted THEN Current
                 ELSE Started(Write(Current, <<"<blockquote>">>))
         rest == Unquoted(line) IN
       IF line = <<>> THEN Keep(Finished(Write(q, <<"</blockquote>">>))) /\ UNCHANGED health
       ELSE IF HasChildFor(rest) THEN HandOn(q, rest)
       ELSE Keep(Write(q, rest)) /\ UNCHANGED health

(* An empty line that a child takes does not end the quote.                *)
AddQuoteLine ==
  /\ phase = "down" /\ Current.kind = "quote"
  /\ LET q    == IF Current.isStarted THEN Current
                 ELSE Started(Write(Current, <<"<blockquote>">>))
         rest == Unquoted(line) IN
       IF HasChildFor(rest) THEN HandOn(q, rest)
       ELSE /\ Keep(IF line = <<>> THEN Finished(Write(q, <<"</blockquote>">>))
                                   ELSE Write(q, rest))
            /\ UNCHANGED health

(* A row goes to the current block; when there is no such block, it goes   *)
(* beyond the end of the vector.                                           *)
AddRow(p, cells) ==
  LET blocks == WithBlock(p) IN
  IF p.currentBlock < Len(blocks)
  THEN /\ Keep([p EXCEPT !.table = [blocks EXCEPT ![p.currentBlock + 1] =
                                      Append(@, cells)]])
       /\ UNCHANGED health
  ELSE Keep(p) /\ health' = "undefined"

AddTableLine ==
  /\ phase = "down" /\ Current.kind = "table"
  /\ \/ ~Current.isStarted /\ Keep(Started(Current)) /\ UNCHANGED health
     \/ /\ Current.isStarted /\ line = Separator
        /\ Keep([Current EXCEPT !.currentBlock = @ + 1]) /\ UNCHANGED health
     \/ /\ Current.isStarted /\ line = <<"|<table">>
        /\ Keep(Finished(Write(Current, TableHtml(Current.table)))) /\ UNCHANGED health
     \/ /\ Current.isStarted /\ line \notin {Separator, <<"|<table">>}
        /\ AddRow(Current, line)

(* AddLine() returns to its caller, which takes the result of a finished   *)
(* parser, its children gone with it, and otherwise leaves it open.        *)
Return ==
  /\ phase = "up"
  /\ IF ~Current.isFinished
     THEN UNCHANGED <<parsers, html>>
     ELSE IF level = 1
     THEN parsers' = <<>> /\ html' = html \o Current.result
     ELSE /\ parsers' = [SubSeq(parsers, 1, level - 1) EXCEPT
                           ![level - 1] = Write(@, Current.result)]
          /\ html' = html
  /\ level' = level - 1
  /\ phase' = IF level > 1 THEN "up" ELSE IF ended THEN "done" ELSE "read"
  /\ UNCHANGED <<doc, line, ended, health>>

Next == /\ health = "sound"
        /\ ReadLine \/ EndOfFile \/ AddLine \/ AddQuoteLine \/ AddTableLine \/ Return

Spec == Init /\ [][Next]_vars

-----------------------------------------------------------------------------
(* Properties                                                              *)

(* What a document's elements still lack: every start tag waits for its    *)
(* end tag, which must come in the reverse order.                          *)
Nest(open, t) ==
  CASE t \in StartTags -> Append(open, EndTag[t])
    [] t \in EndTags   -> IF open # <<>> /\ Last(open) = t
                          THEN Front(open) ELSE Append(open, "error")
    [] OTHER           -> open

OpenElements(tokens) ==
  LET upto[n \in 0 .. Len(tokens)] ==
        IF n = 0 THEN <<>> ELSE Nest(upto[n - 1], tokens[n])
  IN  upto[Len(tokens)]

(* A body is well formed: whatever lists, quotes and tables are nested in  *)
(* one another or break off, every element is closed, in the right order.  *)
(* A list closes its children only through the tags it puts in front of the*)
(* line it hands them.                                                     *)
WellFormed == OpenElements(html) = <<>>

(* The words of every line are in the output once, in the document's order,*)
(* or still in the parsers that are open: closing one drops none.  At the  *)
(* end of a document only a quote, a code block or a table can be open, and*)
(* only what is in it is missing from the body.                            *)
Pending(p) ==
  IF p.isFinished THEN p.result
  ELSE p.result \o Concat([b \in DOMAIN p.table |-> Concat(p.table[b])])

Words(tokens) ==
  Concat([i \in DOMAIN tokens |->
            IF tokens[i] \in AllWords THEN <<tokens[i]>> ELSE <<>>])

Written == Concat([n \in DOMAIN doc |-> Words(NthLine(doc[n], n))])

NothingIsDropped ==
  /\ phase \in {"read", "done"} /\ health = "sound" =>
       Words(html \o Concat([i \in DOMAIN parsers |-> Pending(parsers[i])])) = Written
  /\ phase = "done" /\ parsers # <<>> =>
       parsers[1].kind \in {"quote", "code", "table"}

(* An empty line ends every block but code blocks and tables, though a     *)
(* quote only if none of its children takes it: as many empty lines end    *)
(* everything as a line can have marks of quotation, and one more.         *)
Quotes(l) == Cardinality({ i \in DOMAIN l : l[i] = ">" })

AreEmpty(n) == \A i \in Len(doc) - n + 1 .. Len(doc) : doc[i] = <<>>

EmptyLinesEndBlocks ==
  phase = "read" /\ parsers # <<>> /\ parsers[1].kind \notin {"code", "table"} =>
    \A n \in 1 .. Len(doc) :
      AreEmpty(n) => /\ \E i \in DOMAIN doc : n <= Quotes(doc[i])
                     /\ \E i \in DOMAIN parsers : parsers[i].kind = "quote"

(* A table breaks only at a row after a block without rows.                *)
BrokenTables ==
  health = "undefined" =>
    \E i, j \in DOMAIN doc :
      /\ i < j /\ doc[i] \in {<<"|table>">>, Separator} /\ doc[j] = Separator
      /\ \A k \in i + 1 .. j - 1 : doc[k] = Separator

(* All parsers are finished in the end.                                    *)
EveryParserFinishes == phase = "done" => parsers = <<>>
=============================================================================
