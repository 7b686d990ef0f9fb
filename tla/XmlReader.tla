------------------------------ MODULE XmlReader ------------------------------
(***************************************************************************)
(* xml::reader (parsers/xmlreader.cpp): the pull parser under every        *)
(* document format that is written with tags.                              *)
(*                                                                         *)
(* A document is a sequence of lexemes: a punctuation character of the     *)
(* markup, a blank, the pairs "--", "[CDATA[" and "]]", or a whole run of   *)
(* characters (a name, a word of text, a namespace URI).  Two runs never   *)
(* touch, and letters are in the case the tables have.  The encoding of    *)
(* the text is left out.  A reader is a record; Read is read().            *)
(***************************************************************************)
EXTENDS Once, SequencesExt

NoLexeme == "no lexeme"    \* past the end of a document
Blank == {" ", "\n"}
Punctuation == {"<", ">", "/", "?", "!", "=", "\"", "'", "&", ";", ":", "#", "%", "[", "]", ".", ",", "(", ")",
                "--", "[CDATA[", "]]"}
IsWord(lexeme) == lexeme \notin Blank \cup Punctuation \cup {NoLexeme}

\* What the entities stand for, of the HTML ones for one; and the characters
\* of numeric references.
XmlEntities == ("amp" :> "&") @@ ("apos" :> "'") @@ ("gt" :> ">") @@ ("lt" :> "<") @@ ("quot" :> "\"")
HtmlEntities == XmlEntities @@ ("copy" :> "(c)")
Characters == ("65" :> "A") @@ ("x41" :> "A")

\* The names of elements and attributes that are known, by namespace, the
\* elements that have no end tag and the entities.
NoTables == [nodes |-> <<>>, attrs |-> <<>>, void |-> {}, entities |-> XmlEntities]

-----------------------------------------------------------------------------
At(r, i) == IF i <= Len(r.text) THEN r.text[i] ELSE NoLexeme
Until(r, i, lexemes) == Min({j \in i .. Len(r.text) : r.text[j] \in lexemes} \cup {Len(r.text) + 1})
PastWord(r, i) == IF IsWord(At(r, i)) THEN i + 1 ELSE i
UntilPair(r, i, a, b) ==
    Min({j \in i .. Len(r.text) : r.text[j] = a /\ At(r, j + 1) = b} \cup {Len(r.text) + 1})

skip_whitespace(r) ==
    [r EXCEPT !.current = Min({i \in @ .. Len(r.text) : r.text[i] \notin Blank} \cup {Len(r.text) + 1})]
checks(r, lexeme) == At(skip_whitespace(r), skip_whitespace(r).current) = lexeme
check_next(r, lexeme) ==
    With(skip_whitespace(r), LAMBDA s : IF checks(s, lexeme) THEN [s EXCEPT !.current = @ + 1] ELSE s)

identifier(r) ==
    With(skip_whitespace(r), LAMBDA s :
        With(PastWord(s, s.current), LAMBDA to :
            [s EXCEPT !.name = IF to = s.current THEN "" ELSE s.text[s.current], !.current = to]))

QName(r) ==
    With(identifier(r), LAMBDA one :
        IF checks(one, ":")
        THEN [identifier([check_next(one, ":") EXCEPT !.prefix = one.name]) EXCEPT !.prefix = one.name]
        ELSE skip_whitespace(one))

read_tag(r, type) ==
    With(QName(r), LAMBDA t :
        IF type = "attribute" THEN [t EXCEPT !.type = type]
        ELSE [t EXCEPT !.type = type, !.tag = TRUE, !.tagName = t.name, !.tagPrefix = t.prefix])

-----------------------------------------------------------------------------
\* Namespaces: a stack of declarations, each of the block it was made in.
push_block(r) == [r EXCEPT !.block = @ + 1]
pop_block(r) ==
    [r EXCEPT !.block = @ - 1, !.spaces = SelectSeq(@, LAMBDA item : item.block < r.block)]

Lookup(r, prefix) ==
    LET known == {i \in DOMAIN r.spaces : r.spaces[i].prefix = prefix /\ r.spaces[i].block <= r.block}
    IN  IF known = {} THEN "" ELSE r.spaces[Max(known)].href

namespaceUri(r) == IF r.name = "xmlns" THEN "" ELSE Lookup(r, r.prefix)

\* context::lookup.  (A namespace that ends in "#" is looked up without it, too.)
Context(table, uri, name) ==
    IF uri \in DOMAIN table /\ name \in DOMAIN table[uri] THEN table[uri][name] ELSE "unknown"

reset_context(r) ==
    CASE r.type = "attribute" -> [r EXCEPT !.context = Context(r.tables.attrs, namespaceUri(r), r.name)]
      [] r.type \in {"beginTagNode", "endTagNode"} ->
            [r EXCEPT !.context = Context(r.tables.nodes, namespaceUri(r), r.name)]
      [] OTHER -> r

\* set_nodes, set_attrs and set_predefined_entities.
set_tables(r, tables) == With([r EXCEPT !.tables = tables], LAMBDA known : reset_context(known))

-----------------------------------------------------------------------------
\* Values: text up to a terminator, with the references in it replaced.  A
\* value is a rope, the buffers it is made of: none at all when it is only a
\* reference nobody knows.
Value(r) == FlattenSeq(r.value)

parse_entity(r, reference) ==
    LET table == IF reference[1] = "#" THEN Characters ELSE r.entities @@ r.tables.entities
        name == reference[Len(reference)]
    IN  IF name \in DOMAIN table THEN <<<<table[name]>>>> ELSE <<>>

RECURSIVE NodeValue(_, _, _)
NodeValue(r, terminators, value) ==
    LET from == r.current
        name == PastWord(r, IF At(r, from + 1) = "#" THEN from + 2 ELSE from + 1)
        \* Where the value goes on, and what was read of it.
        Piece == IF At(r, from) = "&" /\ At(r, name) = ";"
                 THEN [to |-> name + 1, value |-> parse_entity(r, SubSeq(r.text, from + 1, name - 1))]
                 ELSE With(Until(r, IF At(r, from) = "&" THEN name ELSE from, terminators \cup {"&"}),
                           LAMBDA to : [to |-> to, value |-> <<SubSeq(r.text, from, to - 1)>>])
    IN  With(Piece, LAMBDA piece :
            With([r EXCEPT !.current = piece.to, !.value = value \o piece.value], LAMBDA next :
                IF At(next, next.current) \in terminators \cup {NoLexeme} THEN next
                ELSE NodeValue(next, terminators, next.value)))

read_node_value(r, terminators) == With(r, LAMBDA from : NodeValue(from, terminators, <<>>))

Quoted(r, quote) == [read_node_value(check_next(r, quote), {quote}) EXCEPT !.current = @ + 1]

unquoted_node_value(r) ==
    With(skip_whitespace(r), LAMBDA s :
        With(Min({i \in s.current .. Len(s.text) : ~(IsWord(s.text[i]) \/ s.text[i] = "%")} \cup {Len(s.text) + 1}),
             LAMBDA to : [s EXCEPT !.current = to, !.value = <<SubSeq(s.text, s.current, to - 1)>>]))

Attribute(r) ==
    With(With(read_tag(r, "attribute"), LAMBDA a : reset_context(a)), LAMBDA named :
        IF ~checks(named, "=") THEN [skip_whitespace(named) EXCEPT !.value = <<<<named.name>>>>]
        ELSE With(check_next(named, "="), LAMBDA given :
                CASE checks(given, "\"") -> Quoted(given, "\"")
                  [] checks(given, "'") -> Quoted(given, "'")
                  [] OTHER -> unquoted_node_value(given)))

-----------------------------------------------------------------------------
\* A value that is kept is one lexeme.
Kept(r) == IF Value(r) = <<>> THEN "" ELSE Value(r)[1]

\* Tags.  The attributes of a tag are read twice: first for the namespaces
\* they declare, then one by one as nodes.
RECURSIVE Declared(_, _)
Declared(r, spaces) ==
    With(skip_whitespace(r), LAMBDA s :
        IF ~IsWord(At(s, s.current)) THEN spaces
        ELSE With(Attribute([s EXCEPT !.prefix = ""]), LAMBDA a :
                LET Item(prefix) == [block |-> r.block, prefix |-> prefix, href |-> Kept(a)]
                IN  With(CASE a.prefix = "xmlns" -> Append(spaces, Item(a.name))
                           [] a.prefix = "" /\ a.name = "xmlns" -> Append(spaces, Item(""))
                           [] OTHER -> spaces,
                         LAMBDA next : Declared(a, next))))

set_begin_tag_type(r) ==
    [r EXCEPT !.state = IF r.context \in r.tables.void THEN "ContainedTagAttributes" ELSE "TagAttributes"]

StartTag(r) ==
    With(read_tag(push_block([r EXCEPT !.current = @ + 1]), "beginTagNode"), LAMBDA t :
        With([t EXCEPT !.spaces = Declared(t, t.spaces)], LAMBDA declared :
            With(reset_context(declared), LAMBDA known : set_begin_tag_type(known))))

EndTag(r) == With(read_tag([r EXCEPT !.current = @ + 2], "endTagNode"), LAMBDA t : reset_context(t))

ProcessingInstruction(r) ==
    [read_tag([r EXCEPT !.current = @ + 2], "beginProcessingInstructionNode") EXCEPT !.state = "InstructionAttributes"]

Comment(r) ==
    With(UntilPair(r, r.current + 3, "--", ">"), LAMBDA to :
        [r EXCEPT !.type = "commentNode", !.value = <<SubSeq(r.text, r.current + 3, to - 1)>>, !.current = to + 2])

CData(r) ==
    With(UntilPair(r, r.current + 3, "]]", ">"), LAMBDA to :
        [r EXCEPT !.type = "cdataNode", !.value = <<SubSeq(r.text, r.current + 3, to - 1)>>, !.current = to + 2])

Skipped(r) == [r EXCEPT !.type = "error", !.tag = FALSE, !.current = Until(r, @, {">"}) + 1]

Entity(r) ==
    IF checks(r, "%") THEN Skipped(check_next(r, "%"))
    ELSE With(identifier(r), LAMBDA named :
            IF checks(named, "\"") THEN [Quoted(named, "\"") EXCEPT !.type = "dtdEntity"] ELSE Skipped(named))

-----------------------------------------------------------------------------
RECURSIVE Read(_), DtdNodes(_)

\* The declarations of a document type, up to "]>" or what else ends them.
DtdNodes(r) ==
    With(Read(r), LAMBDA n :
        CASE n.type = "endOfData" \/ n.state # "Dtd" -> n
          [] n.type = "dtdEntity" /\ n.state = "Dtd" ->
                DtdNodes([n EXCEPT !.entities = (n.name :> Kept(n)) @@ @])
          [] OTHER -> DtdNodes(n))

Doctype(r) ==
    With(QName(r), LAMBDA named :
        With(Until(named, named.current, {">", "["}), LAMBDA to :
            IF At(named, to) # "[" THEN [named EXCEPT !.type = "doctypeNode", !.current = to + 1]
            ELSE [DtdNodes([named EXCEPT !.type = "doctypeNode", !.current = to, !.state = "Dtd"])
                    EXCEPT !.state = "Xml", !.type = "doctypeNode", !.name = named.name, !.prefix = named.prefix]))

Declaration(r) ==
    CASE At(r, r.current + 2) = "--" -> Comment(r)
      [] At(r, r.current + 2) = "[CDATA[" -> CData(r)
      [] OTHER -> With(identifier([r EXCEPT !.current = @ + 2]), LAMBDA kind :
            LET rest == [kind EXCEPT !.name = ""]
            IN  CASE kind.name = "DOCTYPE" -> Doctype(rest)
                  [] kind.name = "ENTITY" -> Entity(rest)
                  [] OTHER -> Skipped(rest))

Content(r) ==
    CASE At(r, r.current) = "<" /\ At(r, r.current + 1) = "!" -> Declaration(r)
      [] At(r, r.current) = "<" /\ At(r, r.current + 1) = "?" -> ProcessingInstruction(r)
      [] At(r, r.current) = "<" /\ At(r, r.current + 1) = "/" -> EndTag(r)
      [] At(r, r.current) = "<" /\ At(r, r.current + 1) \notin {"!", "?", "/"} -> StartTag(r)
      [] At(r, r.current) # "<" /\ r.state = "Dtd" ->
            IF At(r, r.current) = "]" /\ At(r, r.current + 1) = ">"
            THEN [r EXCEPT !.state = "Xml", !.current = @ + 2]
            ELSE [read_node_value(r, {"<", "]"}) EXCEPT !.type = "textNode"]
      [] OTHER -> [read_node_value(r, {"<"}) EXCEPT !.type = "textNode"]

\* Inside a tag: it closes itself, has an attribute, ends, or is broken off.
InTag(r) ==
    LET Is(i, lexeme) == At(r, r.current + i) = lexeme
        contained == r.state = "ContainedTagAttributes"
        closes == \/ Is(0, "/") /\ Is(1, ">")
                  \/ Is(0, "?") /\ Is(1, ">") /\ r.state = "InstructionAttributes"
                  \/ Is(0, ">") /\ contained
    IN  CASE closes -> reset_context(
                [r EXCEPT !.name = r.tagName, !.prefix = r.tagPrefix, !.state = "Xml",
                          !.type = IF Is(0, "?") THEN "endProcessingInstructionNode" ELSE "endTagNode",
                          !.tag = ~contained,
                          !.current = @ + IF contained /\ Is(0, "/") THEN 2 ELSE 1])
          [] ~closes /\ IsWord(At(r, r.current)) -> Attribute(r)
          [] ~closes /\ Is(0, ">") -> Content([r EXCEPT !.current = @ + 1, !.tag = FALSE])
          [] OTHER -> Skipped(r)

Read(last) ==
    LET fresh == [last EXCEPT !.name = "", !.prefix = "", !.context = "unknown"]
        popped == IF last.type = "endTagNode" THEN pop_block(fresh) ELSE fresh
    IN  CASE last.current > Len(last.text) -> [fresh EXCEPT !.type = "endOfData"]
          [] last.current <= Len(last.text) /\ last.state = "Text" ->
                [popped EXCEPT !.type = "textNode", !.value = <<SubSeq(last.text, last.current, Len(last.text))>>,
                               !.current = Len(last.text) + 1]
          [] OTHER -> With(popped, LAMBDA r :
                        IF r.tag THEN With(skip_whitespace(r), LAMBDA t : InTag(t)) ELSE Content(r))

\* The constructor looks at the first node, and at nothing if it is no tag.
NewReader(text) ==
    LET blank == [text |-> text, current |-> 1, state |-> "Xml", type |-> "textNode", name |-> "", prefix |-> "",
                  value |-> <<>>, tag |-> FALSE, tagName |-> "", tagPrefix |-> "", block |-> -1,
                  spaces |-> <<[block |-> -1, prefix |-> "xml", href |-> "urn:xml"]>>,
                  entities |-> <<>>, tables |-> NoTables, context |-> "unknown"]
        start == skip_whitespace(blank)
        asText == [blank EXCEPT !.state = "Text"]
    IN  IF At(start, start.current) # "<" THEN asText
        ELSE With(Read(start), LAMBDA first :
                CASE first.type = "error" -> [asText EXCEPT !.type = "error", !.tag = first.tag]
                  [] first.type = "beginTagNode" ->
                        [pop_block(first) EXCEPT !.current = start.current, !.tag = FALSE, !.type = "textNode"]
                  [] OTHER -> [first EXCEPT !.current = start.current, !.tag = FALSE, !.type = "textNode"])

RECURSIVE ToRoot(_)
ToRoot(r) == IF r.type \in {"beginTagNode", "endOfData"} THEN r ELSE With(Read(r), LAMBDA n : ToRoot(n))

createXmlReader(text) == With(With(text, LAMBDA t : NewReader(t)), LAMBDA r : ToRoot(r))
=============================================================================
