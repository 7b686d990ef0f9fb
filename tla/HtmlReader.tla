------------------------------ MODULE HtmlReader ------------------------------
(***************************************************************************)
(* html_document_reader (parsers/xhtml.cpp): the items of an HTML document *)
(* and what it says of itself, its table of contents included.             *)
(*                                                                         *)
(* A reader is a record: the tree under it, the stack of contexts that     *)
(* nodes are handled in (each with its handler), the item it is at, and     *)
(* the metadata.  ReadHtml is read(): nodes are handled one by one until    *)
(* one of them gives an item.                                              *)
(***************************************************************************)
EXTENDS XmlReader, Metadata, DocumentEvents

-----------------------------------------------------------------------------
(***************************************************************************)
(* html_tree_builder (parsers/xhtml.cpp): the tags of an HTML document, as *)
(* far as they were left out or do not match, put right.                   *)
(*                                                                         *)
(* A tree is a record: the XML reader under it, the elements that are open, *)
(* the insertion mode, and the node that was read.  TreeRead is read().    *)
(***************************************************************************)

Sections == {"article", "aside", "footer", "header", "hgroup", "main", "nav", "section"}
InTheHead == {"base", "basefont", "bgsound", "link", "meta", "noframes", "noscript", "script", "style", "template", "title"}
HtmlVoid == {"area", "base", "basefont", "bgsound", "br", "col", "embed", "hr", "img", "input", "keygen", "link",
             "menuitem", "meta", "noad", "param", "source", "track", "wbr"}

\* The styles of contexts, by the name of a style; other contexts have none.
HtmlStyles ==
    [context \in Sections |-> "block"]
    @@ ("h1" :> "heading1") @@ ("h2" :> "heading2") @@ ("h3" :> "heading3")
    @@ ("h4" :> "heading4") @@ ("h5" :> "heading5") @@ ("h6" :> "heading6")
    @@ [context \in {"a", "span"} |-> "span"]
    @@ [context \in {"audio", "script", "style"} |-> "hidden"]
    @@ [context \in {"b", "strong"} |-> "strong"]
    @@ [context \in {"center", "div", "p"} |-> "paragraph"]
    @@ [context \in {"cite", "dfn", "em", "i", "var"} |-> "emphasized"]
    @@ [context \in {"code", "tt"} |-> "monospace"]
    @@ [context \in {"dir", "menu", "ul"} |-> "bullet_list"]
    @@ [context \in {"td", "th"} |-> "table_cell"]
    @@ ("address" :> "emphasized_block") @@ ("br" :> "line_break") @@ ("li" :> "list_item") @@ ("ol" :> "number_list")
    @@ ("pre" :> "monospace_block") @@ ("sub" :> "subscript") @@ ("sup" :> "superscript")
    @@ ("table" :> "table") @@ ("tr" :> "table_row") @@ ("u" :> "underlined")

NamesOnly == {"abbr", "acronym", "applet", "bdi", "bdo", "big", "blockquote", "body", "button", "canvas", "caption",
              "colgroup", "data", "datalist", "dd", "del", "details", "dialog", "dl", "dt", "fieldset", "figcaption",
              "figure", "font", "form", "frame", "frameset", "head", "html", "iframe", "ins", "isindex", "kbd", "label",
              "legend", "map", "mark", "marquee", "meter", "object", "optgroup", "option", "output", "progress", "q",
              "rp", "rt", "ruby", "s", "samp", "select", "small", "strike", "summary", "tbody", "textarea", "tfoot",
              "thead", "time", "video"}

html_nodes == [name \in DOMAIN HtmlStyles \cup HtmlVoid \cup InTheHead \cup NamesOnly |-> name] @@ ("command" :> "menuitem")
html_attrs == [name \in {"charset", "code", "color", "content", "data", "href", "http-equiv", "id", "label", "lang",
                         "name", "rel", "shape", "src", "type", "value"} |-> name]
epub_attrs == ("case" :> "epub:case") @@ ("default" :> "epub:default") @@ ("switch" :> "epub:switch")
              @@ ("trigger" :> "epub:trigger") @@ ("type" :> "epub:type")
XmlAttrs == ("lang" :> "lang") @@ ("id" :> "id") @@ ("base" :> "xml:base")

HtmlSpaces == {"", "urn:xhtml", "urn:html40"}
HtmlTables ==
    [nodes |-> [space \in HtmlSpaces |-> html_nodes],
     attrs |-> [space \in HtmlSpaces |-> html_attrs] @@ ("urn:xml" :> XmlAttrs) @@ ("urn:epub" :> epub_attrs),
     void |-> HtmlVoid,
     entities |-> HtmlEntities]

\* A tree over a reader that is at the root of the document.
html_tree_builder(reader) ==
    [xml |-> set_tables(reader, HtmlTables), hold |-> FALSE, reprocess |-> TRUE, open |-> <<>>,
     mode |-> "before_html", type |-> "error", context |-> "unknown", status |-> "node"]

-----------------------------------------------------------------------------
push_open_tag(t, context) == [t EXCEPT !.open = Append(@, context)]
pop_open_tag(t) == [t EXCEPT !.open = Front(@)]

\* A tag that the document does not have, before the node that was read.
Inserted(t, type, context) == [t EXCEPT !.reprocess = TRUE, !.type = type, !.context = context]

next_node(t) ==
    With(IF t.reprocess THEN t.xml ELSE Read(t.xml), LAMBDA r :
        IF r.type = "endOfData" THEN [t EXCEPT !.xml = r, !.reprocess = FALSE, !.status = "end"]
        ELSE [t EXCEPT !.xml = r, !.reprocess = FALSE, !.type = r.type, !.context = r.context, !.status = "node"])

IsTag(n, type, contexts) == n.status = "node" /\ n.type = type /\ n.context \in contexts
AsNode(n) == [n EXCEPT !.status = "node"]
Again(n) == [n EXCEPT !.status = "again"]

\* before_html, before_head and after_head: whatever else is there, the
\* element is open afterwards.
Opening(n, element, mode, passing) ==
    CASE n.status = "node" /\ n.type \in passing -> n
      [] n.status = "node" /\ n.type \notin passing \cup {"beginTagNode"} -> Again(n)
      [] OTHER ->
            LET opened == push_open_tag([AsNode(n) EXCEPT !.mode = mode], element)
            IN  IF IsTag(n, "beginTagNode", {element}) THEN opened ELSE Inserted(opened, "beginTagNode", element)

\* in_head: what does not belong there ends the head.
InHead(n) ==
    LET ended == pop_open_tag([AsNode(n) EXCEPT !.mode = "after_head"])
    IN  CASE IsTag(n, "endTagNode", {"head"}) -> ended
          [] n.status = "node" /\ (n.type \in {"cdataNode", "textNode", "attribute"}
                                   \/ (n.type = "endTagNode" /\ n.context # "head")
                                   \/ IsTag(n, "beginTagNode", InTheHead)) -> n
          [] n.status = "end" \/ (n.type = "beginTagNode" /\ n.context \notin InTheHead) ->
                Inserted(ended, "endTagNode", "head")
          [] OTHER -> Again(n)

\* in_body: the elements that are open above the one that ends are closed
\* first; an end tag of nothing that is open is left out.
InBody(n) ==
    LET top == Last(n.open)
        Closed(t) == pop_open_tag(Inserted(t, "endTagNode", top))
        after == [AsNode(n) EXCEPT !.mode = "after_body"]
    IN  CASE n.status = "node" /\ n.type = "beginTagNode" -> push_open_tag(n, n.context)
          [] IsTag(n, "endTagNode", {"body"}) -> IF top = "body" THEN pop_open_tag(after) ELSE Closed(n)
          [] IsTag(n, "endTagNode", {"html"}) -> IF top = "body" THEN Closed(after) ELSE Closed(n)
          [] n.status = "node" /\ n.type = "endTagNode" /\ n.context \notin {"body", "html"} ->
                CASE n.context \notin ToSet(n.open) -> Again(n)
                  [] n.context = top -> pop_open_tag(n)
                  [] OTHER -> Closed(n)
          [] n.status = "end" -> IF top = "body" THEN Closed(after) ELSE Closed(AsNode(n))
          [] OTHER -> n

AfterBody(n) ==
    LET after == [AsNode(n) EXCEPT !.mode = "after_after_body"]
    IN  CASE IsTag(n, "endTagNode", {"html"}) -> after
          [] n.status = "node" /\ n.type = "endTagNode" /\ n.context # "html" -> n
          [] n.status = "end" -> Inserted(after, "endTagNode", "html")
          [] OTHER -> Again(n)

RECURSIVE InMode(_)
InMode(t) ==
    IF t.mode = "after_after_body" THEN [t EXCEPT !.status = "end"]
    ELSE With(next_node(t), LAMBDA n :
            With(CASE t.mode = "before_html" -> Opening(n, "html", "before_head", {})
                   [] t.mode = "before_head" -> Opening(n, "head", "in_head", {"attribute"})
                   [] t.mode = "in_head" -> InHead(n)
                   [] t.mode = "after_head" -> Opening(n, "body", "in_body", {})
                   [] t.mode = "in_body" -> InBody(n)
                   [] t.mode = "after_body" -> AfterBody(n),
                 LAMBDA next : IF next.status = "again" THEN InMode(next) ELSE next))

\* Mutant: a node that is held is lost.
TreeReadOn(t) == InMode([t EXCEPT !.hold = FALSE])

\* A node that is held is read again.
TreeRead(t) == IF t.hold THEN [t EXCEPT !.hold = FALSE, !.status = "node"] ELSE InMode(t)
-----------------------------------------------------------------------------
(* The document reader.                                                   *)

\* What /css/counterstyles.css has of the two styles lists are counted in.
get_counter_style ==
    ("disc" :> [system |-> "cyclic", symbols |-> <<"*">>, prefix |-> "", suffix |-> ""])
    @@ ("decimal" :> [system |-> "numeric", symbols |-> <<"0", "1", "2", "3", "4", "5", "6", "7", "8", "9">>,
                      prefix |-> "", suffix |-> "."])

StyleOf(context) == IF context \in DOMAIN HtmlStyles THEN HtmlStyles[context] ELSE NoStyles
IsList(style) == style # NoStyles /\ styles[style].list_style_type # ""

-----------------------------------------------------------------------------
Top(h) == Last(h.ctx)
Push(h, context, handler, parameter, visible) ==
    [h EXCEPT !.ctx = Append(@, [ctx |-> context, handler |-> handler, parameter |-> parameter, visible |-> visible])]
\* Mutant: the last context stays.
PopButOne(h) == IF Len(h.ctx) = 1 THEN h ELSE [h EXCEPT !.ctx = Front(@)]

Pop(h) == [h EXCEPT !.ctx = Front(@)]

\* Whether a handler returned an item.
Returns(h) == [h EXCEPT !.status = "item"]

Value_(h) == Value(h.tree.xml)
Node(h) == h.tree.type
Ctx(h) == h.tree.context

Says(h, subject, predicate, object) ==
    With(h, LAMBDA r : [r EXCEPT !.graph = With(@, LAMBDA graph : statement(graph, subject, predicate, object))])
SaysIf(condition, h, subject, predicate, object) == IF condition THEN Says(h, subject, predicate, object) ELSE h

AnchorAt(h) == Returns([h EXCEPT !.item = AnchorEvent(Clear(@), uri(h.subject, Text(Value_(h))))])

\* Where a block begins or ends, blanks are dropped or kept.
reset_block_scope(h) ==
    With(h, LAMBDA r :
        LET style == styles[r.item.styles]
        IN  CASE style.display \in {"inlined", "inherit"} -> r
              [] style.display \notin {"inlined", "inherit"} /\ style.whitespace = "preserved" -> [r EXCEPT !.trim_left = "preserve"]
              [] OTHER -> [r EXCEPT !.trim_left = "collapse"])

Ends(h) == reset_block_scope(Returns([Pop(h) EXCEPT !.item = EndContext(Clear(@), StyleOf(Ctx(h)))]))

-----------------------------------------------------------------------------
parse_document_root(h) == IF IsTag(h.tree, "beginTagNode", {"html"}) THEN Push(h, "", "html_node", 0, TRUE) ELSE h

HasLanguage(h) == IF h.language = "" THEN [h EXCEPT !.language = Text(Value_(h))] ELSE h

parse_html_node(h) ==
    CASE Node(h) = "attribute" /\ Ctx(h) = "lang" -> HasLanguage(h)
      [] IsTag(h.tree, "beginTagNode", {"head"}) -> Push(h, "", "head_node", 0, TRUE)
      [] IsTag(h.tree, "beginTagNode", {"body"}) -> Push(h, "", "body_attrs", 0, TRUE)
      [] OTHER -> h

\* The head, with its title and its meta tags, is read in one go.
MetaNames ==
    ("abstract" :> "dcterms:abstract") @@ ("author" :> "dc:creator") @@ ("description" :> "dc:description")
    @@ ("keywords" :> "dc:subject") @@ ("shs-author" :> "dc:creator") @@ ("shs-keywords" :> "dc:subject")
    @@ ("shs-summary" :> "dc:description") @@ ("shs-title" :> "dc:title")

\* The keywords of a content, which has "," between them.
Keywords(content) ==
    LET commas == {i \in DOMAIN content : content[i] = ","}
        From(i) == Max({j \in commas : j < i} \cup {0}) + 1
        ends == SelectSeq([i \in DOMAIN content |-> i] \o (IF Last(content) = "," THEN <<>> ELSE <<Len(content) + 1>>),
                          LAMBDA i : i \in commas \cup {Len(content) + 1})
    IN  [k \in DOMAIN ends |-> Text(normalize(SubSeq(content, From(ends[k]), ends[k] - 1)))]

MetaStatements(h, name, content) ==
    CASE content = <<>> \/ name \notin DOMAIN MetaNames -> h
      [] content # <<>> /\ name \in DOMAIN MetaNames /\ MetaNames[name] = "dc:subject" ->
            [h EXCEPT !.graph = FoldLeft(LAMBDA g, word : statement(g, h.subject, "dc:subject", word), @, Keywords(content))]
      [] OTHER -> Says(h, h.subject, MetaNames[name], Text(content))

RECURSIVE parseMetaNode(_, _, _)
parseMetaNode(h, name, content) ==
    With([h EXCEPT !.tree = TreeRead(@)], LAMBDA n :
        CASE n.tree.status = "end" -> n
          [] IsTag(n.tree, "endTagNode", {"meta"}) -> MetaStatements(n, name, content)
          [] n.tree.status # "end" /\ Node(n) = "attribute" /\ Ctx(n) = "name" ->
                parseMetaNode(n, Text(normalize(Value_(n))), content)
          [] n.tree.status # "end" /\ Node(n) = "attribute" /\ Ctx(n) = "content" ->
                parseMetaNode(n, name, normalize(Value_(n)))
          [] OTHER -> parseMetaNode(n, name, content))

RECURSIVE parse_head_node(_, _)
parse_head_node(h, inTitle) ==
    With([h EXCEPT !.tree = TreeRead(@)], LAMBDA n :
        CASE n.tree.status = "end" \/ IsTag(n.tree, "endTagNode", {"head"}) -> Pop(n)
          [] IsTag(n.tree, "beginTagNode", {"title"}) -> parse_head_node(n, TRUE)
          [] IsTag(n.tree, "endTagNode", {"title"}) -> parse_head_node(n, FALSE)
          [] IsTag(n.tree, "beginTagNode", {"meta"}) ->
                With(parseMetaNode(n, "", <<>>), LAMBDA m : parse_head_node(m, inTitle))
          [] n.tree.status # "end" /\ Node(n) \in {"textNode", "cdataNode"} /\ inTitle ->
                parse_head_node([n EXCEPT !.title = Text(normalize(Value_(n)))], inTitle)
          [] OTHER -> parse_head_node(n, inTitle))

\* The first element of the body is read again as one of a section.
parse_body_attrs(h) ==
    CASE Node(h) = "attribute" /\ Ctx(h) = "lang" -> HasLanguage(h)
      [] Node(h) = "beginTagNode" -> Returns([Push(h, "body", "section_node", 0, TRUE) EXCEPT !.tree.hold = TRUE])
      [] OTHER -> h

-----------------------------------------------------------------------------
\* A table of contents: epub:type begins a listing, where the caller wants to
\* hear of one.
Listing(h) ==
    LET listing == genid(h.graph)
        given == [h EXCEPT !.graph = Given(@), !.listing = listing]
        linked == Says(given, h.subject, "ref:listing", listing)
    IN  Says(Says(linked, listing, "rdf:type", "ref:Listing"), listing, "ref:type", "epv:" \o Text(Value_(h)))

\* Mutant: a list in a list is no deeper.
PushListFlat(h) == Push(h, Ctx(h), "list_node", 1, TRUE)

PushList(h) == [Push(h, Ctx(h), "list_node", 1, TRUE) EXCEPT !.depth = @ + 1]

parse_section_node(h) ==
    LET style == StyleOf(Ctx(h))
        Began == [h EXCEPT !.item = BeginContext(Clear(@), style)]
        Shown == reset_block_scope(Returns(Began))
    IN  CASE Node(h) = "attribute" /\ Ctx(h) = "id" -> AnchorAt(h)
          [] Node(h) = "attribute" /\ Ctx(h) = "epub:type" /\ h.heard -> Listing(h)
          [] Node(h) = "beginTagNode" ->
                CASE style = NoStyles -> Began
                  [] style # NoStyles /\ styles[style].display = "none" -> Push(Began, Ctx(h), "node", 0, FALSE)
                  [] style = "list_item" -> Push([Shown EXCEPT !.item = TextEvent(@, <<" ">>)], Ctx(h), "node", 0, TRUE)
                  [] IsList(style) -> PushList(Shown)
                  [] Ctx(h) \in Sections -> Push(Shown, Ctx(h), "section_node", 0, TRUE)
                  [] OTHER -> Push(Shown, Ctx(h), "node", 0, TRUE)
          [] Node(h) = "endTagNode" /\ Ctx(h) = Top(h).ctx /\ Ctx(h) # "body" -> Ends(h)
          [] OTHER -> h

-----------------------------------------------------------------------------
\* The next entry of the listing is a cell of an RDF list.
Entry(h) ==
    LET cell == genid(h.graph)
        entry == genid(Given(h.graph))
        first == Top(h).parameter = 1 /\ h.depth = 1
        given == [h EXCEPT !.graph = Given(Given(@)), !.reference = cell, !.entry = entry, !.entryText = <<>>]
        linked == IF first THEN Says(given, h.listing, "ref:entries", cell) ELSE Says(given, h.reference, "rdf:rest", cell)
        typed == Says(Says(linked, cell, "rdf:first", entry), entry, "rdf:type", "ref:Entry")
    IN  Says(typed, entry, "ref:level", ToString(h.depth))

\* An item of a list begins with its marker.
ListItem(h) ==
    LET began == [h EXCEPT !.item = BeginContext(Clear(@), StyleOf(Ctx(h)))]
        type == styles[StyleOf(Top(h).ctx)].list_style_type
        Counted(e) == [e EXCEPT !.item = TextEvent(@, marker(get_counter_style[type], Top(h).parameter)),
                                !.ctx[Len(h.ctx)].parameter = @ + 1]
    IN  With(IF h.listing # "" THEN Entry(began) ELSE began, LAMBDA entered :
            Returns(Push(reset_block_scope(Counted(entered)), Ctx(h), "node", 0, TRUE)))

parse_list_node(h) ==
    CASE Node(h) = "attribute" /\ Ctx(h) = "id" -> AnchorAt(h)
      [] Node(h) = "beginTagNode" /\ StyleOf(Ctx(h)) = "list_item" -> ListItem(h)
      [] Node(h) = "beginTagNode" /\ StyleOf(Ctx(h)) # "list_item" ->
            [h EXCEPT !.item = BeginContext(Clear(@), StyleOf(Ctx(h)))]
      [] Node(h) = "endTagNode" /\ Ctx(h) = Top(h).ctx ->
            With(SaysIf(h.listing # "" /\ h.depth = 1, h, h.reference, "rdf:rest", "rdf:nil"), LAMBDA closed :
                [Ends(closed) EXCEPT !.depth = @ - 1])
      [] OTHER -> h

-----------------------------------------------------------------------------
\* What was read of the text of an entry is its title.
EntryTitle(entered) ==
    With(entered, LAMBDA h :
        IF h.entry = "" \/ h.entryText = <<>> THEN h
        ELSE With(normalize(h.entryText), LAMBDA title :
                [SaysIf(title # <<>>, h, h.entry, "dc:title", Text(title)) EXCEPT !.entryText = <<>>]))

\* Text: blanks are dropped after a blank, or where a block begins.
parse_text_node(h) ==
    LET preserved == h.item.styles # NoStyles /\ styles[h.item.styles].whitespace = "preserved"
        blanks == IF preserved THEN "preserve" ELSE "collapse"
        text == NormalizedWith(Value_(h), blanks, blanks, h.trim_left, "preserve")
        trim == CASE text # <<>> /\ Last(text) \in Space -> "collapse"
                  [] text # <<>> /\ Last(text) \notin Space -> "preserve"
                  [] OTHER -> h.trim_left
        next == [h EXCEPT !.item = TextEvent(Clear(@), text), !.trim_left = trim]
    IN  IF text = <<>> THEN next ELSE Returns(next)

BeginNode(h) ==
    LET style == StyleOf(Ctx(h))
        Began == [h EXCEPT !.item = BeginContext(Clear(@), style)]
        Shown == reset_block_scope(Returns(Began))
    IN  CASE ~Top(h).visible -> Push(h, Ctx(h), "node", 0, FALSE)
          [] Top(h).visible /\ Ctx(h) = "br" ->
                Returns([h EXCEPT !.trim_left = "collapse", !.item = BeginEndContext(Clear(@), style)])
          [] Top(h).visible /\ style = NoStyles -> Began
          [] Top(h).visible /\ style = "hidden" -> Push(Began, Ctx(h), "node", 0, FALSE)
          [] Top(h).visible /\ IsList(style) -> PushList(EntryTitle(Shown))
          [] OTHER -> Push(Shown, Ctx(h), "node", 0, TRUE)

parse_node(h) ==
    CASE Node(h) = "attribute" /\ Ctx(h) = "id" -> AnchorAt(h)
      [] Node(h) = "attribute" /\ Ctx(h) = "href" ->
            LET target == href(Text(Value_(h)))
            IN  SaysIf(h.entry # "", h, h.entry, "ref:target", uri(Within(h.base, target.ns), target.ref))
      [] Node(h) \in {"textNode", "cdataNode"} ->
            With(IF h.entry # "" THEN [h EXCEPT !.entryText = @ \o Value_(h)] ELSE h, LAMBDA heard :
                IF Top(h).visible THEN parse_text_node(heard) ELSE heard)
      [] Node(h) = "beginTagNode" -> BeginNode(h)
      [] Node(h) = "endTagNode" /\ Ctx(h) = Top(h).ctx ->
            CASE ~Top(h).visible -> Pop(h)
              [] Top(h).visible /\ Ctx(h) = "li" -> EntryTitle(Ends(h))
              [] OTHER -> Ends(h)
      [] OTHER -> h

generate_title_event(h) == Returns([Pop(h) EXCEPT !.item = AnchorEvent(Clear(@), h.subject)])

-----------------------------------------------------------------------------
\* The handler of the context that is on top; all contexts end with the text.
Handle(h) ==
    CASE Top(h).handler = "title_event" -> generate_title_event(h)
      [] Top(h).handler = "head_node" -> parse_head_node(h, FALSE)
      [] OTHER ->
            With([h EXCEPT !.tree = TreeRead(@)], LAMBDA n :
                CASE n.tree.status = "end" -> Pop(n)
                  [] n.tree.status # "end" /\ Top(n).handler = "document_root" -> parse_document_root(n)
                  [] n.tree.status # "end" /\ Top(n).handler = "html_node" -> parse_html_node(n)
                  [] n.tree.status # "end" /\ Top(n).handler = "body_attrs" -> parse_body_attrs(n)
                  [] n.tree.status # "end" /\ Top(n).handler = "section_node" -> parse_section_node(n)
                  [] n.tree.status # "end" /\ Top(n).handler = "list_node" -> parse_list_node(n)
                  [] n.tree.status # "end" /\ Top(n).handler = "node" -> parse_node(n))

RECURSIVE Handled(_)
Handled(h) ==
    CASE h.status = "item" -> h
      [] h.status # "item" /\ h.ctx = <<>> -> [h EXCEPT !.status = "end"]
      [] OTHER -> With(Handle(h), LAMBDA next : Handled(next))

ReadHtml(h) == Handled([h EXCEPT !.status = "more"])

\* The constructor reads up to the first element of the body; what it read
\* there is not an item, and its place is taken by the anchor of the document.
NewHtmlReader(xml, subject, graph, mimetype, title, base) ==
    LET h == [tree |-> html_tree_builder(xml), ctx |-> <<>>, item |-> NoItem, trim_left |-> "preserve",
              subject |-> subject, base |-> base, title |-> "", language |-> "", listing |-> "", reference |-> "",
              entry |-> "", entryText |-> <<>>, depth |-> 0, graph |-> graph, heard |-> TRUE, status |-> "more"]
        Titled(r) == [r EXCEPT !.title = CASE r.title # "" -> @ [] r.title = "" /\ title # "" -> title [] OTHER -> FileName(subject)]
        Known(r) == SaysIf(r.title # "", SaysIf(r.language # "", r, subject, "dc:language", r.language), subject, "dc:title", r.title)
    IN  With(ReadHtml(Push(h, "", "document_root", 0, TRUE)), LAMBDA r :
            [Says(Push(Titled(Known(r)), "title", "title_event", 0, TRUE), subject, "tts:mimetype", mimetype)
                EXCEPT !.status = "new"])
=============================================================================
