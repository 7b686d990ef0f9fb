--------------------------- MODULE DocumentEvents ---------------------------
(***************************************************************************)
(* document_item (document.cpp): what a reader hands over, with the styles *)
(* and the texts it is made of.                                            *)
(***************************************************************************)
EXTENDS Once, SequencesExt

(* css::styles: what the formats say of the contexts of a document, as far  *)
(* as readers look at it: how a context is displayed, what becomes of its   *)
(* blanks, how the items of a list are counted and whether what is in a     *)
(* context is heard one after the other (css/style_manager.cpp).            *)

Inherit == [display |-> "inherit", whitespace |-> "normal", list_style_type |-> "", media_synchronisation |-> "inherit"]
Displayed(display) == [Inherit EXCEPT !.display = display]

Synchronised ==
    ("unknown" :> Inherit)
    @@ ("sequential" :> [Inherit EXCEPT !.media_synchronisation = "sequential"])
    @@ ("parallel" :> [Inherit EXCEPT !.media_synchronisation = "parallel"])

Plain == ("hidden" :> Displayed("none")) @@ ("block" :> Displayed("block")) @@ ("line_break" :> Displayed("line_break"))

Headings == {"heading0", "heading1", "heading2", "heading3", "heading4", "heading5", "heading6"}
Paragraphs == [name \in {"paragraph"} \cup Headings |-> Displayed("block")]

Phrases == [name \in {"span", "sentence", "superscript", "subscript", "emphasized"} |-> Displayed("inlined")]
Highlighted ==
    [name \in {"strong", "reduced", "underlined", "monospace"} |-> Displayed("inlined")]
    @@ ("emphasized_block" :> Displayed("block"))

Preformatted == ("monospace_block" :> [Displayed("block") EXCEPT !.whitespace = "preserved"])

Lists ==
    ("bullet_list" :> [Displayed("block") EXCEPT !.list_style_type = "disc"])
    @@ ("number_list" :> [Displayed("block") EXCEPT !.list_style_type = "decimal"])
    @@ ("list_item" :> Displayed("list_item"))

Tables == [name \in {"table", "table_row", "table_cell"} |-> Displayed(name)]

styles == Synchronised @@ Plain @@ Paragraphs @@ Phrases @@ Highlighted @@ Preformatted @@ Lists @@ Tables

\* A context without styles, and one that is not there at all.
NoStyles == "no styles"
-----------------------------------------------------------------------------
(* The markers of list items in a counter style (css/counterstyles.cpp).    *)

\* Mutant: the numerals are written as they are found, the last one first.
NumeralsBackwards(count, n) ==
    LET digits[c \in 0 .. count] == IF c = 0 THEN <<>> ELSE <<c % n>> \o digits[c \div n]
    IN  IF count = 0 THEN <<0>> ELSE digits[count]

\* The number of an item, in the numerals of a counter style.
Numerals(count, n) ==
    LET digits[c \in 0 .. count] == IF c = 0 THEN <<>> ELSE Append(digits[c \div n], c % n)
    IN  IF count = 0 THEN <<0>> ELSE digits[count]

marker(style, count) ==
    LET n == Len(style.symbols)
        text == CASE n # 0 /\ style.system = "cyclic" -> <<style.symbols[(count % n) + 1]>>
                  [] n # 0 /\ style.system = "numeric" ->
                        LET digits == Numerals(count, n) IN [i \in DOMAIN digits |-> style.symbols[digits[i] + 1]]
                  [] OTHER -> <<>>
    IN  SelectSeq(<<style.prefix>> \o text \o <<style.suffix, " ">>, LAMBDA part : part # "")

-----------------------------------------------------------------------------
(* What becomes of the blanks of a text (normalized_text_buffer.cpp): each of *)
(* them is kept, or every run of them is one space.                           *)

Space == {" ", "\n"}

\* "collapse" or "preserve", for blanks, for the ends of lines, at the left
\* and at the right.
NormalizedWith(text, whitespace, newlines, trim_left, trim_right) ==
    LET words == {i \in DOMAIN text : text[i] \notin Space}
        Skips(i) == i \in DOMAIN text /\ text[i] \in Space
                    /\ (IF text[i] = "\n" THEN newlines ELSE whitespace) = "collapse"
        first == IF trim_left = "collapse" THEN Min(words \cup {Len(text) + 1}) ELSE 1
        last == IF trim_right = "collapse" THEN Max(words \cup {0}) ELSE Len(text)
        kept == SelectSeq([i \in DOMAIN text |-> i], LAMBDA i : i \in first .. last /\ ~(Skips(i) /\ Skips(i + 1)))
    IN  [k \in DOMAIN kept |-> IF Skips(kept[k]) THEN " " ELSE text[kept[k]]]

normalize(text) == NormalizedWith(text, "collapse", "collapse", "collapse", "collapse")

-----------------------------------------------------------------------------
(* The bits of an item's type are a set; the parts an item does not set are *)
(* those of the items before, and its text begins where the text before it  *)
(* ended.                                                                   *)

NoItem == [type |-> {}, styles |-> NoStyles, content |-> <<>>, range |-> <<0, 0>>, anchor |-> "", media |-> <<>>]

Clear(item) == [item EXCEPT !.type = {}]
BeginContext(item, style) == [item EXCEPT !.type = @ \cup {"begin_context"}, !.styles = style]
EndContext(item, style) == [item EXCEPT !.type = @ \cup {"end_context"}, !.styles = style]
BeginEndContext(item, style) == EndContext(BeginContext(item, style), style)
TextEvent(item, text) ==
    [item EXCEPT !.type = @ \cup {"text"}, !.content = text, !.range = <<@[2], @[2] + Len(text)>>]
AnchorEvent(item, anchor) == [item EXCEPT !.type = @ \cup {"anchor"}, !.anchor = anchor]
TextRefEvent(item, anchor) == [item EXCEPT !.type = @ \cup {"text_ref"}, !.anchor = anchor]
MediaRefEvent(item, file, audio, begin, end) ==
    [item EXCEPT !.type = @ \cup {"media_ref"}, !.anchor = file, !.content = audio, !.media = <<begin, end>>]

\* Mutant: the item of a chapter is handed over as it is.
CopiedAsItIs(item, from) == from

\* copy: the events of an item, made again after the items that were there.
Copied(item, from) ==
    LET begun == IF "begin_context" \in from.type THEN BeginContext(Clear(item), from.styles) ELSE Clear(item)
        ended == IF "end_context" \in from.type THEN EndContext(begun, from.styles) ELSE begun
        text == IF "text" \in from.type THEN TextEvent(ended, from.content) ELSE ended
        anchor == IF "anchor" \in from.type THEN AnchorEvent(text, from.anchor) ELSE text
        text_ref == IF "text_ref" \in from.type THEN TextRefEvent(anchor, from.anchor) ELSE anchor
    IN  IF "media_ref" \in from.type THEN MediaRefEvent(text_ref, from.anchor, from.content, from.media[1], from.media[2])
        ELSE text_ref

-----------------------------------------------------------------------------
\* document: every item a reader gives is kept; an anchor leads to where the
\* item after it will be.
NoDocument == [children |-> <<>>, anchors |-> <<>>, length |-> 0]

Keeps(document, item) ==
    LET count == Len(document.children) + 1
    IN  [children |-> Append(document.children, item),
         anchors |-> IF "anchor" \in item.type THEN (item.anchor :> count) @@ document.anchors ELSE document.anchors,
         length |-> IF "text" \in item.type THEN item.range[2] ELSE document.length]
=============================================================================
