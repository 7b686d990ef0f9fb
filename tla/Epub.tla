--------------------------------- MODULE Epub ---------------------------------
(***************************************************************************)
(* epub_document_reader (parsers/epub.cpp): a publication, which is an      *)
(* archive of files, read as one document.  The package says which files    *)
(* are read and in which order; the table of contents is read first, for    *)
(* what it says; then each chapter is read through a reader of its own, and *)
(* where a media overlay has the text of an anchor as audio, the audio comes *)
(* after the anchor.                                                       *)
(*                                                                         *)
(* An archive is a function from the names of its files.  A step is one     *)
(* node of the XML that is being read.                                     *)
(***************************************************************************)
EXTENDS HtmlReader

-----------------------------------------------------------------------------
(***************************************************************************)
(* The files of a publication that are read for other files: the container *)
(* (parsers/ocf.cpp), the package (opf.cpp), a table of contents in a file *)
(* of its own (ncx.cpp) and a media overlay (smil.cpp).                    *)
(***************************************************************************)
\* The container (ocf.cpp): the package is the first root file with its type.
OcfTables ==
    [NoTables EXCEPT !.nodes = "urn:ocf" :> [name \in {"container", "rootfile", "rootfiles"} |-> name],
                     !.attrs = "urn:ocf" :> [name \in {"full-path", "media-type"} |-> name]]

RECURSIVE OcfHeader(_)
OcfHeader(xml) ==
    IF xml.type = "endOfData" \/ (xml.type = "beginTagNode" /\ xml.context = "rootfiles") THEN xml
    ELSE With(Read(xml), LAMBDA r : OcfHeader(r))

RECURSIVE RootFile(_, _, _, _)
RootFile(xml, current, anchor, content) ==
    With(Read(xml), LAMBDA r :
        LET attribute == r.type = "attribute" /\ current = "rootfile"
            ends == r.type = "endTagNode"
        IN  CASE r.type = "endOfData" \/ (ends /\ r.context = "rootfiles") -> ""
              [] ends /\ r.context = "rootfile" ->
                    IF content = "application/oebps-package+xml" /\ anchor # "" THEN anchor ELSE RootFile(r, "", "", "")
              [] r.type = "beginTagNode" -> RootFile(r, r.context, anchor, content)
              [] attribute /\ r.context = "full-path" -> RootFile(r, current, Text(Value(r)), content)
              [] attribute /\ r.context = "media-type" -> RootFile(r, current, anchor, Text(Value(r)))
              [] OTHER -> RootFile(r, current, anchor, content))

opf_file(xml) ==
    With(set_tables(xml, OcfTables), LAMBDA known :
        IF known.context # "container" THEN "" ELSE With(OcfHeader(known), LAMBDA root : RootFile(root, "", "", "")))

-----------------------------------------------------------------------------
\* ncx_document_reader: NcxStep takes one node of the XML, first of the header,
\* which the constructor reads, then of the navigation map.
NcxNodes == {"content", "docAuthor", "docTitle", "head", "meta", "navLabel", "navMap", "navPoint", "ncx", "text"}
NcxTables ==
    [NoTables EXCEPT !.nodes = "urn:ncx" :> [name \in NcxNodes |-> name],
                     !.attrs = "urn:ncx" :> [name \in {"content", "name", "src"} |-> name]]

NcxValue(n) == Text(Value(n.xml))

\* The constructor's own metadata is lost: it is not the publication's.
NewNcxReader(xml, subject, graph, base) ==
    [xml |-> set_tables(xml, NcxTables), subject |-> subject, base |-> base, graph |-> graph, title |-> "", current |-> "",
     outer |-> "", content |-> <<>>, anchor |-> <<>>, depth |-> 0, reference |-> subject, first |-> TRUE, in_header |-> TRUE,
     item |-> [type |-> {}], status |-> "more"]

\* An entry for a place in the text, in an RDF list.
generate_reference(n, depth, title, location) ==
    LET listing == genid(n.graph)
        begun == IF ~n.first THEN n.graph
                 ELSE statement(statement(statement(statement(Given(Given(n.graph)), n.subject, "ref:listing", listing),
                            listing, "rdf:type", "ref:Listing"), listing, "ref:type", "epv:toc"),
                        listing, "ref:entries", genid(Given(n.graph)))
        cell == IF n.first THEN genid(Given(n.graph)) ELSE genid(n.graph)
        linked == IF n.first THEN begun ELSE statement(Given(begun), n.reference, "rdf:rest", cell)
        entry == genid(linked)
        first == statement(statement(Given(linked), cell, "rdf:first", entry), entry, "rdf:type", "ref:Entry")
    IN  [n EXCEPT !.reference = cell, !.first = FALSE,
                  !.graph = statement(statement(statement(first, entry, "ref:level", ToString(depth)),
                                entry, "ref:target", location), entry, "dc:title", title)]

\* Mutant: a place is left as it is written.
ReferenceAsWritten(n) ==
    generate_reference(n, n.depth, Text(n.content[1]), uri(n.anchor[1].ns, n.anchor[1].ref))

Reference(n) ==
    generate_reference(n, n.depth, Text(n.content[1]), uri(Within(n.base, n.anchor[1].ns), n.anchor[1].ref))

\* The first entry is that of the whole publication.
Whole(n) == IF n.title = "" THEN n ELSE generate_reference(n, 0, n.title, n.subject)

\* The header, up to the navigation map.
NcxHeader(n) ==
    CASE n.xml.type \in {"textNode", "cdataNode"} /\ n.current = "text" ->
            [n EXCEPT !.title = IF n.outer = "docTitle" THEN NcxValue(n) ELSE @, !.current = "", !.outer = ""]
      [] n.xml.type = "beginTagNode" /\ n.xml.context = "navMap" ->
            Whole([n EXCEPT !.current = "", !.outer = "", !.in_header = FALSE])
      [] n.xml.type = "beginTagNode" /\ n.xml.context # "navMap" ->
            [n EXCEPT !.current = n.xml.context, !.outer = IF n.xml.context \in {"head", "docAuthor", "docTitle"} THEN n.xml.context ELSE @]
      [] n.xml.type = "endTagNode" -> [n EXCEPT !.current = "", !.outer = IF n.xml.context = "head" THEN "" ELSE @]
      [] OTHER -> n

\* The label of a point and where it leads come in either order.
NcxMap(n) ==
    LET text == n.xml.type \in {"textNode", "cdataNode"} /\ n.current = "text"
        labelled == [n EXCEPT !.content = IF n.outer = "navLabel" THEN <<Value(n.xml)>> ELSE @, !.current = "", !.outer = ""]
        src == LET hash == SelectInSeq(Value(n.xml), LAMBDA lexeme : lexeme = "#")
                   value == Value(n.xml)
               IN  IF hash = 0 THEN [ns |-> Text(value), ref |-> ""]
                   ELSE [ns |-> Text(SubSeq(value, 1, hash - 1)), ref |-> Text(SubSeq(value, hash + 1, Len(value)))]
        led == [n EXCEPT !.anchor = <<src>>]
    IN  CASE text -> IF n.anchor = <<>> THEN labelled ELSE [Reference(labelled) EXCEPT !.content = <<>>]
          [] n.xml.type = "attribute" /\ n.current = "content" /\ n.xml.context = "src" ->
                IF n.content = <<>> THEN led ELSE [Reference(led) EXCEPT !.anchor = <<>>]
          [] n.xml.type = "beginTagNode" ->
                [n EXCEPT !.current = n.xml.context,
                          !.depth = IF n.xml.context = "navPoint" THEN @ + 1 ELSE @,
                          !.outer = IF n.xml.context = "navLabel" THEN n.xml.context ELSE @]
          [] n.xml.type = "endTagNode" /\ n.xml.context = "navPoint" -> [n EXCEPT !.depth = @ - 1]
          [] OTHER -> n

NcxStep(ncx) ==
    With([ncx EXCEPT !.xml = Read(@)], LAMBDA n :
        CASE n.xml.type = "endOfData" ->
                With(IF n.in_header THEN Whole(n) ELSE n, LAMBDA done :
                    [done EXCEPT !.graph = IF done.first THEN @ ELSE statement(@, done.reference, "rdf:rest", "rdf:nil"), !.status = "end"])
          [] n.xml.type # "endOfData" /\ n.in_header -> NcxHeader(n)
          [] OTHER -> NcxMap(n))

-----------------------------------------------------------------------------
\* smil_document_reader: which text is heard as which part of which audio file.
\* A time is kept as it is written.
SmilStyles == ("par" :> "parallel") @@ ("seq" :> "sequential")
SmilTables ==
    [NoTables EXCEPT
        !.nodes = "urn:smil" :> [name \in {"audio", "body", "head", "metadata", "par", "seq", "smil", "text"} |-> name],
        !.attrs = ("urn:smil" :> [name \in {"clipBegin", "clipEnd", "src"} |-> name]) @@ ("urn:xml" :> ("lang" :> "lang"))]

\* The constructor reads up to the body, and one node more.
RECURSIVE SmilHeader(_, _)
SmilHeader(xml, current) ==
    With(Read(xml), LAMBDA r :
        CASE r.type = "endOfData" \/ current = "body" -> r
          [] r.type = "beginTagNode" /\ current # "body" -> SmilHeader(r, r.context)
          [] OTHER -> SmilHeader(r, current))

NewSmilReader(xml, subject) ==
    With(set_tables(xml, SmilTables), LAMBDA known :
        [xml |-> SmilHeader(known, known.context), base |-> parent(subject), item |-> NoItem, status |-> "new"])

RECURSIVE SmilRead(_, _, _)
SmilRead(s, current, l) ==
    With([s EXCEPT !.xml = Read(@)], LAMBDA n :
        LET context == n.xml.context
            value == Text(Value(n.xml))
            Gives(item) == [n EXCEPT !.item = item, !.status = "item"]
            Sets_(name, to) == With([l EXCEPT ![name] = to], LAMBDA locals : SmilRead(n, current, locals))
            attribute == n.xml.type = "attribute"
            ends == n.xml.type = "endTagNode"
            styled == context \in DOMAIN SmilStyles
        IN  CASE n.xml.type = "endOfData" -> [n EXCEPT !.status = "end"]
              [] n.xml.type = "beginTagNode" ->
                    IF styled THEN Gives(BeginContext(Clear(n.item), SmilStyles[context])) ELSE SmilRead(n, context, l)
              [] attribute /\ current \in {"text", "audio"} /\ context = "src" -> Sets_("src", Within(n.base, value))
              [] attribute /\ current = "audio" /\ context \in {"clipBegin", "clipEnd"} -> Sets_(context, value)
              [] ends /\ styled -> Gives(EndContext(Clear(n.item), SmilStyles[context]))
              [] ends /\ ~styled /\ current = "text" -> Gives(TextRefEvent(Clear(n.item), l.src))
              [] ends /\ ~styled /\ current = "audio" -> Gives(MediaRefEvent(Clear(n.item), l.src, <<>>, l.clipBegin, l.clipEnd))
              [] OTHER -> SmilRead(n, current, l))

ReadSmil(s) == SmilRead(s, "", [src |-> "", clipBegin |-> "", clipEnd |-> ""])

-----------------------------------------------------------------------------
(* opf_document_reader: the package of a publication, which says what the  *)
(* publication is, which files it has and in which order they are read.    *)
(*                                                                         *)
(* OpfStep takes one node of the XML.  The procedures that are being run   *)
(* are a stack; the locals of a procedure are kept with it.  The           *)
(* constructor runs until the manifest or the spine begins                 *)
(* ("read_package"), read() until the end.  A graph of its own has the     *)
(* manifest.                                                               *)

DublinCore == {"contributor", "coverage", "creator", "date", "description", "format", "identifier", "language",
               "publisher", "relation", "rights", "source", "subject", "title", "type"}
OpfNodes == {"dc-metadata", "item", "itemref", "link", "manifest", "meta", "metadata", "package", "spine"}
OpfAttrs == {"about", "content", "datatype", "event", "file-as", "href", "id", "idref", "media-overlay", "media-type",
             "name", "prefer", "prefix", "properties", "property", "refines", "rel", "role", "scheme", "toc", "version"}

OpfTables ==
    [NoTables EXCEPT
        !.nodes = ("urn:opf" :> [name \in OpfNodes |-> name]) @@ ("urn:dc" :> [name \in DublinCore |-> "dc:" \o name]),
        !.attrs = ("urn:opf" :> [name \in OpfAttrs |-> name]) @@ ("urn:xml" :> ("lang" :> "lang"))]

OpfContext(o) == o.xml.context
OpfValue(o) == Value(o.xml)
OpfSays(o, subject, predicate, object) == [o EXCEPT !.graph = statement(@, subject, predicate, object)]
SaysOfItem(o, subject, predicate, object) == [o EXCEPT !.manifest = statement(@, subject, predicate, object)]

Call(o, procedure, of, locals) == [o EXCEPT !.calls = Append(@, [procedure |-> procedure, of |-> of, locals |-> locals])]
Return(o) == [o EXCEPT !.calls = Front(@)]
Locals(o) == Last(o.calls).locals
Sets(o, name, value) == [o EXCEPT !.calls[Len(o.calls)].locals[name] = value]

-----------------------------------------------------------------------------
\* A term: with a prefix that is known, or of the vocabulary of packages.
Colon(term) == SelectInSeq(term, LAMBDA lexeme : lexeme = ":")
curie(prefixes, term) ==
    CASE Colon(term) = 0 -> "pkg:" \o Text(term)
      [] Colon(term) # 0 /\ Text(SubSeq(term, 1, Colon(term) - 1)) \in prefixes \cup {"_"} -> Text(term)
      [] OTHER -> ""

\* The terms of a list, those with an unknown prefix left out.
Terms(list) ==
    LET ends == SelectSeq([i \in 1 .. Len(list) + 1 |-> i], LAMBDA i : i > Len(list) \/ list[i] \in Blank)
        From(k) == IF k = 1 THEN 1 ELSE ends[k - 1] + 1
    IN  SelectSeq([k \in DOMAIN ends |-> SubSeq(list, From(k), ends[k] - 1)], LAMBDA term : term # <<>>)
curie_list(prefixes, list) ==
    LET terms == Terms(list)
    IN  SelectSeq([k \in DOMAIN terms |-> curie(prefixes, terms[k])], LAMBDA term : term # "")

\* "a: uri b: uri" declares a and b.
add_prefix(o, value) ==
    [o EXCEPT !.prefixes = @ \cup {value[i] : i \in {j \in DOMAIN value : j < Len(value) /\ value[j + 1] = ":"
                                                                      /\ (j + 2) \in DOMAIN value /\ value[j + 2] \in Blank}}]

\* What an attribute that refers to something in the package is about.
About(o) == uri(o.subject, Text(Tail(OpfValue(o))))

-----------------------------------------------------------------------------
NoMeta == [name |-> "", custom |-> "", content |-> "", property |-> "", id |-> "", about |-> "", value |-> ""]

MetaAttribute(o) ==
    LET value == OpfValue(o)
        term == curie(o.prefixes, value)
    IN  CASE OpfContext(o) = "name" -> IF term # "" THEN Sets(o, "name", term)
                                       ELSE IF value[1] = "calibre" THEN Sets(o, "custom", Text(value)) ELSE o
          [] OpfContext(o) = "content" -> Sets(o, "content", Text(value))
          [] OpfContext(o) = "property" -> IF term # "" THEN Sets(o, "property", term) ELSE o
          [] OpfContext(o) = "id" -> Sets(o, "id", Text(value))
          [] OpfContext(o) \in {"about", "refines"} -> Sets(o, "about", About(o))
          [] OTHER -> o

\* A value that has an id is a node of its own.
Refined(o, about, predicate, id, value) ==
    IF id = "" THEN OpfSays(o, about, predicate, value)
    ELSE OpfSays(OpfSays(o, about, predicate, uri(o.subject, id)), uri(o.subject, id), "rdf:value", value)

\* The series a book belongs to, as calibre says it.
Series(o) == IF o.series = "" THEN [o EXCEPT !.series = genid(o.graph), !.graph = Given(@)] ELSE o
CalibreMeta(o, m) ==
    With(Series(o), LAMBDA s :
        CASE m.custom = "calibre:series" ->
                OpfSays(OpfSays(OpfSays(s, s.subject, "pkg:belongs-to-collection", s.series), s.series, "rdf:value", m.content),
                        s.series, "pkg:collection-type", "series")
          [] m.custom = "calibre:series_index" -> OpfSays(s, s.series, "pkg:group-position", m.content)
          [] OTHER -> o)

EndMeta(o) ==
    LET m == Locals(o)
        done == Return(o)
    IN  CASE m.name # "" /\ m.content # "" -> OpfSays(done, o.subject, m.name, m.content)
          [] ~(m.name # "" /\ m.content # "") /\ m.property # "" -> Refined(done, m.about, m.property, m.id, m.value)
          [] ~(m.name # "" /\ m.content # "") /\ m.property = "" /\ m.custom # "" /\ m.content # "" -> CalibreMeta(done, m)
          [] OTHER -> done

parseOpfMeta(o) ==
    CASE o.xml.type = "attribute" -> MetaAttribute(o)
      [] o.xml.type \in {"textNode", "cdataNode"} -> Sets(o, "value", Text(OpfValue(o)))
      [] o.xml.type = "endTagNode" /\ OpfContext(o) = "meta" -> EndMeta(o)
      [] OTHER -> o

-----------------------------------------------------------------------------
NoLink == [rel |-> <<>>, href |-> "", id |-> "", about |-> ""]

parseOpfLink(o) ==
    LET l == Locals(o)
        Linked(said, predicate) == Refined(said, l.about, predicate, l.id, l.href)
    IN  CASE o.xml.type = "attribute" /\ OpfContext(o) = "rel" -> Sets(o, "rel", OpfValue(o))
          [] o.xml.type = "attribute" /\ OpfContext(o) \in {"href", "id"} -> Sets(o, OpfContext(o), Text(OpfValue(o)))
          [] o.xml.type = "attribute" /\ OpfContext(o) \in {"about", "refines"} -> Sets(o, "about", About(o))
          [] o.xml.type = "endTagNode" /\ OpfContext(o) = "link" ->
                IF l.href = "" THEN Return(o) ELSE Each(Linked, Return(o), curie_list(o.prefixes, l.rel))
          [] OTHER -> o

-----------------------------------------------------------------------------
NoDublinCore == [id |-> "", value |-> <<>>] @@ [name \in {"file-as", "role", "event", "scheme"} |-> ""]

\* A node for a value that more is said of.
ValueNode(o, predicate, id, value) ==
    LET node == IF id = "" THEN genid(o.graph) ELSE uri(o.subject, id)
        named == IF id = "" THEN [o EXCEPT !.graph = Given(@)] ELSE o
    IN  [o |-> OpfSays(OpfSays(named, o.subject, predicate, node), node, "rdf:value", value), node |-> node]
With_(n, predicate, value) == [n EXCEPT !.o = IF value = "" THEN @ ELSE OpfSays(@, n.node, predicate, value)]

\* d/m/y is y-m-d.
Dated(value) ==
    LET slashes == SelectSeq([i \in DOMAIN value |-> i], LAMBDA i : value[i] = "/")
    IN  IF Len(slashes) < 2 THEN Text(value)
        ELSE Text(SubSeq(value, slashes[2] + 1, Len(value))) \o "-" \o Text(SubSeq(value, slashes[1] + 1, slashes[2] - 1))
             \o "-" \o Text(SubSeq(value, 1, slashes[1] - 1))

\* Subjects with commas between them.
Subjects(value) ==
    LET ends == SelectSeq([i \in 1 .. Len(value) + 1 |-> i], LAMBDA i : i > Len(value) \/ value[i] = ",")
        From(k) == IF k = 1 THEN 1 ELSE ends[k - 1] + 1
        parts == [k \in DOMAIN ends |-> Text(normalize(SubSeq(value, From(k), ends[k] - 1)))]
    IN  SelectSeq(parts, LAMBDA part : part # "")
HasDivider(value) == \E i \in DOMAIN value : value[i] = "--" /\ i > 1 /\ value[i - 1] = " " /\ i < Len(value) /\ value[i + 1] = " "

EndDublinCore(o, ctx) ==
    LET d == Locals(o)
        done == Return(o)
        value == IF ctx = "dc:date" THEN Dated(d.value) ELSE Text(d.value)
        Said(said, subject) == OpfSays(said, o.subject, ctx, subject)
    IN  CASE ctx \in {"dc:contributor", "dc:creator"} /\ (d.role # "" \/ d["file-as"] # "" \/ d.id # "") ->
                With(ValueNode(done, ctx, d.id, value), LAMBDA n :
                    With_(With_(n, "opf:role", d.role), "opf:file-as", d["file-as"]).o)
          [] ctx = "dc:date" /\ d.event # "" ->
                With(ValueNode(done, ctx, "", value), LAMBDA n : With_(n, "opf:event", d.event).o)
          [] ctx = "dc:identifier" /\ (d.scheme # "" \/ d.id # "") ->
                With(ValueNode(done, ctx, d.id, value), LAMBDA n : With_(n, "opf:scheme", d.scheme).o)
          [] ctx = "dc:subject" /\ "," \in ToSet(d.value) /\ ~HasDivider(d.value) -> Each(Said, done, Subjects(d.value))
          [] OTHER -> OpfSays(done, o.subject, ctx, value)

parseOpfDublinCore(o, ctx) ==
    CASE o.xml.type = "attribute" /\ OpfContext(o) = "prefer" -> Return(o)
      [] o.xml.type = "attribute" /\ OpfContext(o) \in {"id", "file-as", "role", "event", "scheme"} ->
            Sets(o, OpfContext(o), Text(OpfValue(o)))
      [] o.xml.type \in {"textNode", "cdataNode"} -> Sets(o, "value", normalize(OpfValue(o)))
      [] o.xml.type = "endTagNode" /\ OpfContext(o) = ctx -> EndDublinCore(o, ctx)
      [] OTHER -> o

parseOpfMetadata(o, ctx) ==
    LET begins == o.xml.type = "beginTagNode"
    IN  CASE o.xml.type = "attribute" /\ OpfContext(o) = "prefix" /\ ctx = "metadata" -> add_prefix(o, OpfValue(o))
          [] begins /\ ctx = "metadata" /\ OpfContext(o) = "dc-metadata" -> Call(o, "metadata", "dc-metadata", <<>>)
          [] begins /\ ctx = "metadata" /\ OpfContext(o) = "meta" -> Call(o, "meta", "", [NoMeta EXCEPT !.about = o.subject])
          [] begins /\ ctx = "metadata" /\ OpfContext(o) = "link" -> Call(o, "link", "", [NoLink EXCEPT !.about = o.subject])
          [] begins /\ namespaceUri(o.xml) = "urn:dc" /\ OpfContext(o) # "unknown" ->
                Call(o, "dublin core", OpfContext(o), NoDublinCore)
          [] o.xml.type = "endTagNode" /\ OpfContext(o) = ctx -> Return(o)
          [] OTHER -> o

-----------------------------------------------------------------------------
Version3 == {"dcterms", "media", "onix", "marc", "xsd"}

NoManifestItem == [name \in {"id", "href", "media-type", "media-overlay", "toc"} |-> ""] @@ ("properties" :> <<>>)

read_package(o) ==
    CASE o.xml.type = "attribute" /\ OpfContext(o) = "version" /\ Text(OpfValue(o)) = "3.0" -> [o EXCEPT !.prefixes = @ \cup Version3]
      [] o.xml.type = "attribute" /\ OpfContext(o) = "prefix" -> add_prefix(o, OpfValue(o))
      [] o.xml.type = "beginTagNode" /\ OpfContext(o) = "metadata" -> Call([o EXCEPT !.series = ""], "metadata", "metadata", <<>>)
      [] o.xml.type = "beginTagNode" /\ OpfContext(o) \in {"spine", "manifest"} ->
            [o EXCEPT !.context = OpfContext(o), !.calls = <<[procedure |-> "read", of |-> "", locals |-> NoManifestItem]>>]
      [] OTHER -> o

\* The files that are read, as an RDF list.
add_spine_item(o, location) ==
    LET cell == genid(o.manifest)
        given == [o EXCEPT !.manifest = Given(@), !.reference = cell, !.first = FALSE]
        linked == IF o.first THEN SaysOfItem(SaysOfItem(given, o.subject, "rdf:type", "ref:Manifest"), o.subject, "ref:spine", cell)
                  ELSE SaysOfItem(given, o.reference, "rdf:rest", cell)
    IN  SaysOfItem(linked, cell, "rdf:first", location)

EndItem(o) ==
    LET l == Locals(o)
        item == uri(o.subject, l.id)
        known == SaysOfItem(SaysOfItem(o, o.subject, "ref:hasManifestItem", item), item, "rdf:type", "ref:ManifestItem")
        found == SaysOfItem(SaysOfItem(known, item, "ref:target", l.href), item, "ref:mimetype", l["media-type"])
        spoken == IF l["media-overlay"] = "" THEN found
                  ELSE SaysOfItem(found, item, "ref:media-overlay", uri(o.subject, l["media-overlay"]))
        terms == curie_list({}, l.properties)
        Has(said, term) == SaysOfItem(said, item, "ref:property", term)
        toc == IF "pkg:nav" \in ToSet(terms) THEN l.id ELSE l.toc
    IN  [Each(Has, spoken, terms) EXCEPT !.calls[1].locals = [NoManifestItem EXCEPT !.toc = toc], !.context = "manifest"]

read_items(o) ==
    LET ctx == OpfContext(o)
        attribute == o.xml.type = "attribute"
        begins == o.xml.type = "beginTagNode"
        ends == o.xml.type = "endTagNode"
    IN  CASE attribute /\ o.context = "spine" /\ ctx = "toc" /\ Locals(o).toc = "" -> Sets(o, "toc", Text(OpfValue(o)))
          [] attribute /\ o.context = "item" /\ ctx \in {"href", "id", "media-type", "media-overlay"} -> Sets(o, ctx, Text(OpfValue(o)))
          [] attribute /\ o.context = "item" /\ ctx = "properties" -> Sets(o, ctx, OpfValue(o))
          [] attribute /\ o.context = "itemref" /\ ctx = "idref" -> add_spine_item(o, uri(o.subject, Text(OpfValue(o))))
          [] begins /\ o.context = "manifest" /\ ctx = "item" -> [o EXCEPT !.context = "item"]
          [] begins /\ o.context = "spine" /\ ctx = "itemref" -> [o EXCEPT !.context = "itemref"]
          [] begins /\ o.context = "" /\ ctx \in {"spine", "manifest"} -> [o EXCEPT !.context = ctx]
          [] ends /\ o.context \in {"spine", "manifest"} -> [o EXCEPT !.context = ""]
          [] ends /\ o.context = "item" -> EndItem(o)
          [] ends /\ o.context = "itemref" -> [o EXCEPT !.context = "spine"]
          [] OTHER -> o

\* At the end of the package the spine is closed.
EndPackage(o) ==
    LET toc == IF Last(o.calls).procedure = "read" THEN Locals(o).toc ELSE ""
        mimed == OpfSays(o, o.subject, "tts:mimetype", o.mimetype)
        known == IF toc = "" THEN mimed ELSE SaysOfItem(mimed, o.subject, "ref:toc", uri(o.subject, toc))
    IN  [IF o.first THEN known ELSE SaysOfItem(known, o.reference, "rdf:rest", "rdf:nil") EXCEPT !.status = "end"]

OpfStep(opf) ==
    With([opf EXCEPT !.xml = Read(@)], LAMBDA o :
        LET call == Last(o.calls)
        IN  CASE o.xml.type = "endOfData" -> EndPackage(o)
              [] o.xml.type # "endOfData" /\ call.procedure = "read_package" -> read_package(o)
              [] o.xml.type # "endOfData" /\ call.procedure = "metadata" -> parseOpfMetadata(o, call.of)
              [] o.xml.type # "endOfData" /\ call.procedure = "meta" -> parseOpfMeta(o)
              [] o.xml.type # "endOfData" /\ call.procedure = "link" -> parseOpfLink(o)
              [] o.xml.type # "endOfData" /\ call.procedure = "dublin core" -> parseOpfDublinCore(o, call.of)
              [] o.xml.type # "endOfData" /\ call.procedure = "read" -> read_items(o))

NewOpfReader(xml, subject, graph, mimetype) ==
    [xml |-> set_tables(xml, OpfTables), subject |-> subject, graph |-> graph, manifest |-> NoGraph, mimetype |-> mimetype,
     prefixes |-> {"http", "https", "mailto", "file"}, calls |-> <<[procedure |-> "read_package", of |-> "", locals |-> <<>>]>>,
     context |-> "", series |-> "", reference |-> subject, first |-> TRUE, status |-> "more"]

-----------------------------------------------------------------------------
(* The publication. *)

CONSTANTS Books,         \* the archives
          Subject        \* the URI of the publication

VARIABLES book, mState, opf, graph, child, media_overlay, mTextRef, mMediaItem,
          mManifestItem, mCurrentOverlay, item, document,
          odd            \* whether the number of steps so far is odd; nothing depends on it
overlay == <<media_overlay, mTextRef, mMediaItem, mCurrentOverlay>>
vars == <<book, mState, opf, graph, child, overlay, mManifestItem, item, document, odd>>

None == <<>>

-----------------------------------------------------------------------------
\* The archive (zip.cpp).
Data(path) == IF path \in DOMAIN Books[book].files THEN Books[book].files[path] ELSE None
location(filename, ref) == uri(Subject \o "!/" \o filename, ref)
zip_path(path) ==
    LET mark == LastOf(path, "!") IN IF mark = 0 THEN "" ELSE SubSeq(path, mark + 2, Len(path))

Container == "META-INF/container.xml"
opf_root == parent(opf.file)

\* An entry of the manifest: its file, and what kind it is.
FileOf(manifest_item) == Within(opf_root, Objects(opf.reader.manifest, manifest_item, "ref:target")[1])
Mimetype(manifest_item) == LastObject(opf.reader.manifest, manifest_item, "ref:mimetype")
Manifest(subject, predicate) == Objects(opf.reader.manifest, subject, predicate)

Init ==
    /\ book \in DOMAIN Books
    /\ mState = "container"
    /\ opf = [file |-> "", reader |-> None]
    /\ graph = NoGraph
    /\ child = None
    /\ media_overlay = None /\ mTextRef = "" /\ mMediaItem = NoItem /\ mCurrentOverlay = ""
    /\ mManifestItem = <<>>
    /\ item = NoItem
    /\ document = NoDocument
    /\ odd = FALSE

\* What read() gives becomes part of the document.
Gives(event) == item' = event /\ document' = Keeps(document, event)
GivesNothing == UNCHANGED <<item, document>>

-----------------------------------------------------------------------------
\* The constructor: the container names the package, and the package is read
\* to its end.
readContainer ==
    /\ mState = "container"
    /\ \E file \in {With(Data(Container), LAMBDA text : IF text = None THEN "" ELSE opf_file(createXmlReader(text)))} :
        IF file = "" \/ Data(file) = None
        THEN mState' = "failed" /\ UNCHANGED opf
        ELSE /\ mState' = "package"
             /\ opf' \in {[file |-> file,
                           reader |-> NewOpfReader(createXmlReader(Data(file)), Subject, NoGraph, "application/epub+zip")]}
    /\ GivesNothing
    /\ UNCHANGED <<book, graph, child, overlay, mManifestItem>>

readPackage ==
    /\ mState = "package"
    /\ \E reader \in {OpfStep(opf.reader)} :
        /\ opf' = [opf EXCEPT !.reader = reader]
        /\ IF reader.status = "end"
           THEN /\ mState' = "title"
                /\ graph' = reader.graph
                /\ mManifestItem' = Objects(reader.manifest, Subject, "ref:spine")
           ELSE UNCHANGED <<mState, graph, mManifestItem>>
    /\ GivesNothing
    /\ UNCHANGED <<book, child, overlay>>

title ==
    /\ mState = "title"
    /\ Gives(AnchorEvent(Clear(item), Subject))
    /\ mState' = "publication_toc"
    /\ UNCHANGED <<book, opf, graph, child, overlay, mManifestItem>>

-----------------------------------------------------------------------------
\* load_document, for the table of contents.  What the constructor of the
\* reader says goes to a graph that is thrown away.
TocReader(file, mimetype) ==
    LET base == parent(location(file, ""))
    IN  CASE Data(file) # None /\ mimetype = "application/x-dtbncx+xml" ->
                [NewNcxReader(createXmlReader(Data(file)), Subject, graph, base) EXCEPT !.status = "more"]
          [] Data(file) # None /\ mimetype = "application/xhtml+xml" ->
                [NewHtmlReader(createXmlReader(Data(file)), Subject, NoGraph, mimetype, "", base) EXCEPT !.graph = graph]
          [] OTHER -> None

publication_toc ==
    /\ mState = "publication_toc"
    /\ LET toc == Manifest(Subject, "ref:toc")
       IN  child' \in {IF toc = <<>> THEN None ELSE TocReader(FileOf(toc[1]), Mimetype(toc[1]))}
    /\ mState' = IF child' = None THEN "publication" ELSE "toc"
    /\ GivesNothing
    /\ UNCHANGED <<book, opf, graph, overlay, mManifestItem>>

\* A step of the reader of a chapter; one that is done with a node goes on.
HtmlStep(r) == IF r.ctx = <<>> THEN [r EXCEPT !.status = "end"] ELSE Handle([r EXCEPT !.status = "more"])
TocStep(r) == IF "depth" \in DOMAIN r /\ "in_header" \in DOMAIN r THEN NcxStep(r) ELSE HtmlStep(r)

\* The items of the table of contents are dropped; what it says is kept.
toc ==
    /\ mState = "toc"
    /\ \E reader \in {TocStep(child)} :
        IF reader.status = "end"
        THEN child' = None /\ graph' = reader.graph /\ mState' = "publication"
        ELSE child' = reader /\ UNCHANGED <<graph, mState>>
    /\ GivesNothing
    /\ UNCHANGED <<book, opf, overlay, mManifestItem>>

-----------------------------------------------------------------------------
\* next_media_overlay_entry: up to the end of the next pair of a text and its
\* audio.
NoEntry == [reader |-> None, text |-> "", media |-> NoItem]

\* Mutant: the audio of the pair before stays.
RECURSIVE NextEntryKept(_, _, _)
NextEntryKept(reader, text, media) ==
    IF reader = None THEN NoEntry
    ELSE With(ReadSmil(reader), LAMBDA r :
            LET parallel == r.item.styles = "parallel"
                begins == parallel /\ "begin_context" \in r.item.type
                audio == IF "media_ref" \in r.item.type THEN r.item ELSE media
            IN  CASE r.status = "end" -> NoEntry
                  [] r.status # "end" /\ parallel /\ "end_context" \in r.item.type -> [reader |-> r, text |-> text, media |-> media]
                  [] OTHER -> NextEntryKept(r, IF "text_ref" \in r.item.type THEN r.item.anchor ELSE IF begins THEN "" ELSE text, audio))

RECURSIVE NextEntry(_, _, _)
NextEntry(reader, text, media) ==
    IF reader = None THEN NoEntry
    ELSE With(ReadSmil(reader), LAMBDA r :
            LET parallel == r.item.styles = "parallel"
                begins == parallel /\ "begin_context" \in r.item.type
                audio == IF "media_ref" \in r.item.type THEN r.item ELSE IF begins THEN NoItem ELSE media
            IN  CASE r.status = "end" -> NoEntry
                  [] r.status # "end" /\ parallel /\ "end_context" \in r.item.type -> [reader |-> r, text |-> text, media |-> media]
                  [] OTHER -> NextEntry(r, IF "text_ref" \in r.item.type THEN r.item.anchor ELSE IF begins THEN "" ELSE text, audio))

At_(entry) == media_overlay' = entry.reader /\ mTextRef' = entry.text /\ mMediaItem' = entry.media

\* load_document, for the media overlay of a chapter: one that was loaded for
\* the chapter before goes on where it was.
LoadOverlay(chapter) ==
    LET media == Manifest(chapter, "ref:media-overlay")
        file == FileOf(media[1])
        loads == /\ media # <<>>
                 /\ Data(file) # None
                 /\ file # mCurrentOverlay
                 /\ Mimetype(media[1]) = "application/smil+xml"
    IN  IF ~loads THEN UNCHANGED overlay
        ELSE /\ mCurrentOverlay' = file
             /\ \E entry \in {NextEntry(NewSmilReader(createXmlReader(Data(file)), location(file, "")), mTextRef, mMediaItem)} :
                    At_(entry)

\* load_document, for the text of a chapter.  No metadata is asked of it.
ChapterReader(chapter) ==
    IF Mimetype(chapter) # "application/xhtml+xml" \/ Data(FileOf(chapter)) = None THEN None
    ELSE [NewHtmlReader(createXmlReader(Data(FileOf(chapter))), location(FileOf(chapter), ""), NoGraph,
                        "application/xhtml+xml", "", "") EXCEPT !.heard = FALSE]

\* The next cell of the list of chapters.
publication ==
    /\ mState = "publication"
    /\ IF mManifestItem = <<>>
       THEN mState' = "eof" /\ UNCHANGED <<child, overlay, mManifestItem>>
       ELSE LET first == Manifest(mManifestItem[1], "rdf:first")
                rest == Manifest(mManifestItem[1], "rdf:rest")
            IN  /\ mManifestItem' = IF rest # <<>> /\ rest[1] = "rdf:nil" THEN <<>> ELSE rest
                /\ IF first = <<>> THEN UNCHANGED <<mState, child, overlay>>
                   ELSE /\ LoadOverlay(first[1])
                        /\ child' \in {ChapterReader(first[1])}
                        /\ mState' = IF child' = None THEN mState ELSE "content"
    /\ GivesNothing
    /\ UNCHANGED <<book, opf, graph>>

-----------------------------------------------------------------------------
\* Before an item of a chapter is read, the one before it is looked at: the
\* audio of an anchor comes after it.
Spoken == child.status # "more" /\ "anchor" \in child.item.type /\ mTextRef = child.item.anchor

audio ==
    /\ mState = "content"
    /\ Spoken
    /\ IF mMediaItem.anchor # ""
       THEN Gives(MediaRefEvent(Clear(item), mMediaItem.anchor, Data(zip_path(mMediaItem.anchor)),
                                mMediaItem.media[1], mMediaItem.media[2])) /\ UNCHANGED child
       ELSE child' = [child EXCEPT !.status = "more"] /\ GivesNothing
    /\ \E entry \in {NextEntry(media_overlay, mTextRef, mMediaItem)} : At_(entry)
    /\ UNCHANGED <<book, mState, opf, graph, mManifestItem, mCurrentOverlay>>

content ==
    /\ mState = "content"
    /\ ~Spoken
    /\ \E reader \in {HtmlStep(child)} :
        IF reader.status = "end"
        THEN child' = None /\ mState' = "publication" /\ GivesNothing
        ELSE /\ child' = reader
             /\ IF reader.status = "item" THEN Gives(Copied(item, reader.item)) ELSE GivesNothing
             /\ UNCHANGED mState
    /\ UNCHANGED <<book, opf, graph, overlay, mManifestItem>>

-----------------------------------------------------------------------------
Counted(action) == action /\ odd' = ~odd
Next == \/ Counted(readContainer)
        \/ Counted(readPackage)
        \/ Counted(title)
        \/ Counted(publication_toc)
        \/ Counted(toc)
        \/ Counted(publication)
        \/ Counted(audio)
        \/ Counted(content)

\* A publication is read on for as long as it has something to give.
Goes == mState \notin {"failed", "eof"} /\ odd' = ~odd
Spec == Init /\ [][Next]_vars /\ WF_odd(Goes)
=============================================================================
