------------------------------ MODULE RtfReader ------------------------------
(***************************************************************************)
(* rtf_reader and rtf_document_reader (parsers/rtf.cpp).                   *)
(*                                                                         *)
(* The text of an RTF document is a sequence of lexemes; a run of digits is *)
(* one of them, apart from the letters of a control word before it.        *)
(***************************************************************************)
EXTENDS XmlReader, Metadata, DocumentEvents

Digits == {"0", "1", "2", "27", "20"}
Control(lexeme) == IsWord(lexeme) /\ lexeme \notin Digits \cup {"{", "}", "\\", "*", "-", "_", "~"}

\* What control words and symbols stand for, and the characters of \'hh; a
\* zero in the number makes it invalid.
Replacement ==
    ("\\" :> "\\") @@ ("{" :> "{") @@ ("}" :> "}") @@ ("\n" :> "\n") @@ ("_" :> "-") @@ ("~" :> "nbsp")
    @@ ("bullet" :> "*") @@ ("emdash" :> "--") @@ ("endash" :> "-") @@ ("ldblquote" :> "\"") @@ ("lquote" :> "'")
    @@ ("rdblquote" :> "\"") @@ ("rquote" :> "'") @@ ("tab" :> "\t")
Hex == ("27" :> "'")

Replaces(r) == IF r.data = <<"'">> THEN r.parameter \in DOMAIN Hex ELSE Len(r.data) = 1 /\ r.data[1] \in DOMAIN Replacement
lookupReplacementText(r) == IF r.data = <<"'">> THEN Hex[r.parameter] ELSE Replacement[r.data[1]]

\* A control word, its number and the blank after it.
ControlWord(r, i) ==
    LET numbered == At(r, i + 1) \in Digits
        to == IF numbered THEN i + 2 ELSE i + 1
    IN  [r EXCEPT !.data = <<r.text[i]>>, !.parameter = IF numbered THEN r.text[i + 1] ELSE "1",
                  !.current = IF At(r, to) \in Blank THEN to + 1 ELSE to]

RECURSIVE RtfToken(_)
Instruction(r) ==
    LET i == r.current + 1
        symbol == [r EXCEPT !.token = "instruction", !.data = <<At(r, i)>>, !.current = i + 1]
    IN  CASE i > Len(r.text) -> [r EXCEPT !.token = "instruction", !.current = i, !.more = FALSE]
          [] i <= Len(r.text) /\ Control(r.text[i]) -> ControlWord([r EXCEPT !.token = "instruction"], i)
          [] At(r, i) = "'" /\ At(r, i + 1) \in DOMAIN Hex -> [symbol EXCEPT !.parameter = r.text[i + 1], !.current = i + 2]
          [] At(r, i) = "'" /\ At(r, i + 1) \notin DOMAIN Hex -> RtfToken(symbol)
          [] OTHER -> symbol

RtfToken(r) ==
    CASE r.current > Len(r.text) -> [r EXCEPT !.data = <<>>, !.more = FALSE]
      [] At(r, r.current) = "{" -> [r EXCEPT !.token = "begin_block", !.current = @ + 1, !.depth = @ + 1]
      [] At(r, r.current) = "}" -> [r EXCEPT !.token = "end_block", !.current = @ + 1, !.depth = @ - 1]
      [] At(r, r.current) = "\\" -> Instruction(r)
      [] At(r, r.current) = "\n" -> RtfToken([r EXCEPT !.current = @ + 1])
      [] OTHER -> With(Until(r, r.current, {"{", "}", "\\", "\n"}), LAMBDA to :
            [r EXCEPT !.token = "text", !.data = SubSeq(r.text, r.current, to - 1), !.current = to])

rtf_reader(text) ==
    [text |-> text, current |-> 1, token |-> "text", data |-> <<>>, parameter |-> "0", depth |-> 0, more |-> TRUE]

RECURSIVE skipRtfBlock(_)
skipRtfBlock(r) ==
    With(RtfToken(r), LAMBDA t :
        CASE ~t.more \/ t.token = "end_block" -> t
          [] t.more /\ t.token = "begin_block" -> With(skipRtfBlock(t), LAMBDA after : skipRtfBlock(after))
          [] OTHER -> skipRtfBlock(t))

-----------------------------------------------------------------------------
Skipped_ == {"stylesheet", "fonttbl", "colortbl", "pict", "header", "footer", "field", "xe", "tc", "object", "*"}
par(d) == d.rtf.data = <<"par">> /\ d.text # <<>>

RtfSays(d, predicate, object) == [d EXCEPT !.graph = statement(@, d.subject, predicate, object)]

\* A person is a node of its own, with a name and a role.
Person(d, predicate, role) ==
    LET node == genid(d.graph)
        named == statement(Given(d.graph), d.subject, predicate, node)
    IN  [d EXCEPT !.graph = statement(statement(named, node, "rdf:value", Text(d.rtf.data)), node, "opf:role", role)]

\* What is said in the info block, by the control word that came before.
InfoText(d, info) ==
    CASE info = "author" -> Person(d, "dc:creator", "aut")
      [] info = "operator" -> Person(d, "dc:contributor", "edt")
      [] info = "title" -> RtfSays([d EXCEPT !.title = Text(d.rtf.data)], "dc:title", Text(d.rtf.data))
      [] info = "subject" -> RtfSays(d, "dc:description", Text(d.rtf.data))
      [] info = "keywords" ->
            FoldLeft(LAMBDA said, word : RtfSays(said, "dc:subject", word), d, SelectSeq(d.rtf.data, LAMBDA l : l \notin Blank))
      [] OTHER -> d

ReadInstruction(d) ==
    CASE d.state = "rtf" -> IF d.rtf.data = <<"rtf">> /\ d.rtf.parameter = "1" THEN [d EXCEPT !.state = "text"]
                            ELSE [d EXCEPT !.status = "error"]
      [] d.state = "info" -> d
      [] d.state \notin {"rtf", "info"} /\ Replaces(d.rtf) -> [d EXCEPT !.text = Append(@, lookupReplacementText(d.rtf))]
      [] d.state \notin {"rtf", "info"} /\ ~Replaces(d.rtf) ->
            CASE d.rtf.data # <<>> /\ ToSet(d.rtf.data) \subseteq Skipped_ -> [d EXCEPT !.rtf = skipRtfBlock(@)]
              [] d.rtf.data = <<"info">> -> [d EXCEPT !.state = "info", !.blockCount = 1]
              [] OTHER -> d

\* A token that does not end a paragraph.
ReadToken(d, info) ==
    CASE d.rtf.token = "instruction" -> ReadInstruction(d)
      [] d.rtf.token = "begin_block" /\ d.state = "info" -> [d EXCEPT !.blockCount = @ + 1]
      [] d.rtf.token = "end_block" /\ d.state = "info" ->
            [d EXCEPT !.blockCount = @ - 1, !.state = IF d.blockCount = 1 THEN "text" ELSE @]
      [] d.rtf.token = "text" /\ d.state = "info" -> InfoText(d, info)
      [] d.rtf.token = "text" /\ d.state = "text" /\ d.rtf.depth > 0 -> [d EXCEPT !.text = @ \o d.rtf.data]
      [] OTHER -> d

\* The text that was gathered is kept, until a "par" was met on entry once.
text_event(d) ==
    [d EXCEPT !.item = BeginEndContext(TextEvent(Clear(@), d.text), "paragraph"), !.status = "item",
              !.text = IF d.clearText THEN <<>> ELSE @]

RECURSIVE Tokens(_, _)
Tokens(d, info) ==
    IF d.rtf.token = "instruction" /\ d.state \notin {"rtf", "info"} /\ par(d) THEN text_event(d)
    ELSE With(ReadToken(d, info), LAMBDA read :
            With([read EXCEPT !.rtf = RtfToken(@)], LAMBDA n :
                CASE read.status = "error" -> read
                  [] read.status # "error" /\ n.rtf.more ->
                        Tokens(n, IF read.rtf.token = "instruction" /\ read.state = "info" /\ d.state = "info"
                                  THEN Text(d.rtf.data) ELSE info)
                  [] OTHER -> IF n.text = <<>> THEN [n EXCEPT !.item = Clear(@), !.status = "end"] ELSE text_event(n)))

ReadText(d) == IF par(d) THEN text_event([d EXCEPT !.clearText = TRUE]) ELSE Tokens(d, "")

ReadRtf(d) ==
    IF d.state = "title"
    THEN LET title == IF d.title = "" THEN FileName(d.subject) ELSE d.title
         IN  [d EXCEPT !.title = title, !.graph = SingleEntry(@, d.subject, title), !.item = AnchorEvent(Clear(@), d.subject),
                       !.state = "text", !.status = "item"]
    ELSE ReadText(d)

\* The constructor reads up to the first paragraph; it is given again later.
NewRtfReader(text, subject, graph, title) ==
    LET d == [rtf |-> RtfToken(rtf_reader(text)), state |-> "rtf", blockCount |-> 0, title |-> title, text |-> <<>>,
              clearText |-> FALSE, item |-> NoItem, subject |-> subject, graph |-> graph, status |-> "new"]
    IN  With(ReadText(d), LAMBDA r :
            [r EXCEPT !.item.range = IF r.status = "item" THEN <<0, 0>> ELSE @,
                      !.state = IF r.status = "item" THEN "title" ELSE @,
                      !.graph = IF r.status = "error" THEN @ ELSE statement(@, subject, "tts:mimetype", "application/rtf"),
                      !.status = IF r.status = "error" THEN "error" ELSE "new"])
=============================================================================
