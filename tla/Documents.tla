------------------------------ MODULE Documents ------------------------------
(***************************************************************************)
(* From the content of a file to a document: the format is found out       *)
(* (parsers/document.cpp), a reader is made for it, and the document       *)
(* (document.cpp) keeps every item the reader gives, what was said of it    *)
(* and where its anchors are.                                              *)
(*                                                                         *)
(* A step of an HTML reader is one node; the others give an item a step.    *)
(* Formats that are made of other files are in Epub.                        *)
(***************************************************************************)
EXTENDS HtmlReader, RtfReader

-----------------------------------------------------------------------------
(***************************************************************************)
(* ssml_document_reader (parsers/ssml.cpp): the text of an SSML document,  *)
(* with the contexts that begin right before text and all that end.        *)
(***************************************************************************)

SsmlStyles ==
    ("emphasis" :> "emphasized") @@ ("p" :> "paragraph") @@ ("s" :> "sentence")
    @@ ("strong" :> "strong") @@ ("reduced" :> "reduced") @@ ("none" :> "span")

SsmlTables ==
    [NoTables EXCEPT
        !.nodes = "urn:ssml" :> [name \in {"emphasis", "meta", "p", "s", "speak"} |-> name],
        !.attrs = ("urn:ssml" :> [name \in {"content", "level", "name"} |-> name])
                  @@ ("urn:xml" :> ("lang" :> "lang"))]

\* The header: up to the first text, or the first element that is not "meta".
RECURSIVE SsmlHeader(_, _, _, _)
SsmlHeader(s, current, name, content) ==
    With([s EXCEPT !.xml = Read(@)], LAMBDA n :
        LET Is(type) == n.xml.type = type
            Goes(next, node, key, is) == With(next, LAMBDA m : SsmlHeader(m, node, key, is))
            value == Text(Value(n.xml))
            Known(object) == [n EXCEPT !.graph = statement(@, n.subject, "dc:language", object)]
            seeAlso == current = "meta" /\ name = "seeAlso" /\ content # ""
        IN  CASE Is("endOfData") -> n
              [] Is("attribute") /\ current = "speak" /\ n.xml.context = "lang" ->
                    Goes(Known(value), current, name, content)
              [] Is("attribute") /\ current = "meta" /\ n.xml.context = "name" -> SsmlHeader(n, current, value, content)
              [] Is("attribute") /\ current = "meta" /\ n.xml.context = "content" -> SsmlHeader(n, current, name, value)
              [] Is("textNode") \/ Is("cdataNode") ->
                    LET text == [n EXCEPT !.item.content = normalize(Value(n.xml))]
                    IN  IF text.item.content = <<>> THEN Goes(text, current, name, content) ELSE text
              [] Is("beginTagNode") /\ n.xml.context # "meta" -> n
              [] Is("beginTagNode") /\ n.xml.context = "meta" -> SsmlHeader(n, "meta", name, content)
              [] Is("endTagNode") /\ seeAlso ->
                    Goes([n EXCEPT !.graph = statement(@, n.subject, "rdfs:seeAlso", content)], current, "", "")
              [] OTHER -> SsmlHeader(n, current, name, content))

NewSsmlReader(xml, subject, graph) ==
    With([xml |-> set_tables(xml, SsmlTables), item |-> NoItem, subject |-> subject, graph |-> graph, status |-> "new"], LAMBDA s :
        With(SsmlHeader(s, s.xml.context, "", ""), LAMBDA r :
            [r EXCEPT !.graph = statement(@, subject, "tts:mimetype", "application/ssml+xml")]))

\* read(): the node that was read last comes first.  The context that begins
\* next is forgotten when another one begins or ends.
RECURSIVE SsmlRead(_, _)
SsmlRead(s, current) ==
    LET Is(type) == s.xml.type = type
        On(r) == [r EXCEPT !.xml = Read(@)]
        Goes(r, context) == With(On(r), LAMBDA n :
            IF n.xml.type = "endOfData" THEN [n EXCEPT !.status = "end"] ELSE SsmlRead(n, context))
        Gives(r) == [On(r) EXCEPT !.status = "item"]
        value == Value(s.xml)
        blank == ToSet(value) \subseteq Space
        level == Text(value)
        text == [s EXCEPT !.item = IF blank THEN Clear(@) ELSE TextEvent(Clear(@), value)]
    IN  CASE Is("attribute") /\ current = "emphasis" /\ s.xml.context = "level" ->
                Goes(s, IF level \in {"strong", "reduced", "none"} THEN level ELSE current)
          [] (Is("textNode") \/ Is("cdataNode")) /\ current \in DOMAIN SsmlStyles ->
                Gives([text EXCEPT !.item = BeginContext(@, SsmlStyles[current])])
          [] (Is("textNode") \/ Is("cdataNode")) /\ current \notin DOMAIN SsmlStyles ->
                IF blank THEN Goes(text, current) ELSE Gives(text)
          [] Is("beginTagNode") -> Goes(s, s.xml.context)
          [] Is("endTagNode") /\ s.xml.context \in DOMAIN SsmlStyles ->
                Gives([s EXCEPT !.item = EndContext(Clear(@), SsmlStyles[s.xml.context])])
          [] Is("endTagNode") /\ s.xml.context \notin DOMAIN SsmlStyles -> Goes(s, "")
          [] OTHER -> Goes(s, current)

ReadSsml(s) == SsmlRead(s, "")
-----------------------------------------------------------------------------

CONSTANTS Contents,      \* the files: [text, given], given is the title the caller has
          Subject        \* the URI of a file

VARIABLES file, phase, kind, reader, document,
          odd            \* whether the number of steps so far is odd; nothing depends on it
vars == <<file, phase, kind, reader, document, odd>>

-----------------------------------------------------------------------------
(* mimetype.cpp, and the patterns of the shared MIME database it loads: a   *)
(* pattern is looked for near the start of the content, or the root element *)
(* is looked at.                                                            *)
\* A matchlet looks for its pattern at the places offset .. offset + range - 1
\* of the content, which has to go on after the pattern.
Matches(matchlet, text) ==
    \E i \in matchlet.offset + 1 .. matchlet.offset + matchlet.range :
        LET to == i + Len(matchlet.pattern) - 1
        IN  to < Len(text) /\ SubSeq(text, i, to) = matchlet.pattern

Magic(matchlets, text) == matchlets # {} /\ \A matchlet \in matchlets : Matches(matchlet, text)

Near(offset, range, pattern) == [offset |-> offset, range |-> range, pattern |-> pattern]
AtStart(pattern) == Near(0, 1, pattern)
Within256(pattern) == Near(0, 256, pattern)

\* The ways to know a format; one of them is enough.  A header begins the text,
\* some only when another one is near.
mime_magic ==
    {{AtStart(<<header, ":", " ">>)} :
        header \in {"Date", "MDate", "Newsgroups", "Title", "Author", "Keywords", "Story"}}
    \cup {{[AtStart(<<header, ":">>) EXCEPT !.range = 2]} :
        header \in {"Content-Type", "Content-Transfer-Encoding", "Content-Location"}}
    \cup {{AtStart(<<"From", " ">>), Near(2, 80, <<"\n", header, ":", " ">>)} : header \in {"Path", "From", "Subject"}}
    \cup {{AtStart(<<"Article", " ">>), Near(3, 15, <<" ", "of", " ">>)}}
    \cup {{AtStart(<<"HTTP", "/", "1", ".", minor>>), Near(5, 81, <<"\n", "Content-Type", ":">>)} : minor \in {"0", "1"}}
    \cup {{Near(0, 81, <<"MIME-Version", ":", " ", "1", ".", "0">>), Near(6, 81, <<"\n", "Content-Type", ":">>)}}

shared_magic ==
    ("xml" :> {{AtStart(<<"<", "?", "xml">>)}})
    @@ ("smil" :> {{Within256(<<"<", "smil">>)}})
    @@ ("html" :> {{Within256(<<"<", "html">>)}, {Within256(<<"<", "head">>)}, {Within256(<<"<", "title">>)},
                   {Within256(<<"<", "!", "DOCTYPE", " ", "html">>)}})
    @@ ("rtf" :> {{AtStart(<<"{", "\\", "rtf">>)}})
    @@ ("pdf" :> {{AtStart(<<"%", "PDF">>)}})
    @@ ("zip" :> {{AtStart(<<"PK">>)}})
    @@ ("gzip" :> {{AtStart(<<"gzip">>)}})
    @@ ("email" :> {{AtStart(<<"Received", ":">>)}})

mimetypes == shared_magic @@ ("mime" :> mime_magic)
MatchesData(format, text) == \E matchlets \in mimetypes[format] : Magic(matchlets, text)

\* The root elements of the formats that are written in XML.
roots ==
    ("xhtml" :> <<"urn:xhtml", "html">>) @@ ("ncx" :> <<"urn:ncx", "ncx">>) @@ ("opf" :> <<"urn:opf", "package">>)
    @@ ("rdfxml" :> <<"urn:rdf", "RDF">>) @@ ("ssml" :> <<"urn:ssml", "speak">>)
MatchesRoot(format, namespace, name) == roots[format] = <<namespace, name>>

-----------------------------------------------------------------------------
\* The XML formats, by the root element.
XmlFormats == <<"xhtml", "ncx", "opf", "rdfxml", "ssml">>

XmlFormat(root, text) ==
    LET known == SelectSeq(XmlFormats, LAMBDA format : MatchesRoot(format, namespaceUri(root), root.name))
    IN  CASE known # <<>> -> known[1]
          [] known = <<>> /\ MatchesData("html", text) -> "xhtml"
          [] OTHER -> "none"

\* A control character near the start makes it no text.
IsOctets(text) == \E i \in DOMAIN text : i <= 101 /\ text[i] = "control"

\* The formats that are known by a pattern, in the order they are tried.
Patterns == <<"gzip", "zip", "smil", "xml", "email", "mime", "html", "rtf", "pdf">>

Format(text) ==
    With(SelectSeq(Patterns, LAMBDA format : MatchesData(format, text)), LAMBDA known :
        CASE text = <<>> -> "none"
          [] text # <<>> /\ known = <<>> -> IF IsOctets(text) THEN "none" ELSE "text"
          [] text # <<>> /\ known # <<>> /\ known[1] = "xml" ->
                With(createXmlReader(text), LAMBDA root : XmlFormat(root, text))
          [] OTHER -> known[1])

\* What a gzip file has in it; external.
inflate_gzip(text) == Tail(text)

-----------------------------------------------------------------------------
NewTextReader(text, subject, graph, title) ==
    [data |-> text, state |-> "title", title |-> IF title = "" THEN FileName(subject) ELSE title, subject |-> subject,
     item |-> NoItem, graph |-> statement(graph, subject, "tts:mimetype", "text/plain"), status |-> "new"]

ReadPlain(d) ==
    CASE d.state = "title" ->
            [d EXCEPT !.graph = SingleEntry(@, d.subject, d.title), !.item = AnchorEvent(Clear(@), d.subject),
                      !.state = IF d.data = <<>> THEN "eof" ELSE "text", !.status = "item"]
      [] d.state = "text" -> [d EXCEPT !.item = TextEvent(Clear(@), d.data), !.state = "eof", !.status = "item"]
      [] d.state = "eof" -> [d EXCEPT !.item = Clear(@), !.status = "end"]

\* createDocumentReader: the title is not given on to what a gzip file has.
OpenAs(format, text, title) ==
    CASE format \in {"html", "xhtml"} ->
            NewHtmlReader(createXmlReader(text), Subject, NoGraph,
                          IF format = "html" THEN "text/html" ELSE "application/xhtml+xml", title, "")
      [] format = "ssml" -> NewSsmlReader(createXmlReader(text), Subject, NoGraph)
      [] format = "rtf" -> NewRtfReader(text, Subject, NoGraph, title)
      [] format = "text" -> NewTextReader(text, Subject, NoGraph, title)

Opens(format) == format \in {"html", "xhtml", "ssml", "rtf", "text"}

RECURSIVE Opened(_, _)
Opened(text, title) ==
    With(Format(text), LAMBDA format :
        CASE format = "gzip" -> With(inflate_gzip(text), LAMBDA inflated : Opened(inflated, ""))
          [] Opens(format) -> [kind |-> format, reader |-> OpenAs(format, text, title)]
          [] OTHER -> [kind |-> format, reader |-> <<>>])

Init ==
    /\ file \in DOMAIN Contents
    /\ phase = "new"
    /\ kind = "none"
    /\ reader = <<>>
    /\ document = NoDocument
    /\ odd = FALSE

createDocumentReader ==
    /\ phase = "new"
    /\ \E opened \in {With(Contents[file].text, LAMBDA text : Opened(text, Contents[file].given))} :
            /\ kind' = opened.kind
            /\ reader' = opened.reader
            /\ phase' = CASE ~Opens(opened.kind) -> "none"
                          [] Opens(opened.kind) /\ opened.reader.status = "error" -> "failed"
                          [] OTHER -> "open"
    /\ UNCHANGED <<file, document>>

\* A step of the reader; one that is done with a node goes on with the next.
Step(r) ==
    CASE kind \in {"html", "xhtml"} ->
            IF r.ctx = <<>> THEN [r EXCEPT !.status = "end"] ELSE Handle([r EXCEPT !.status = "more"])
      [] kind = "ssml" -> ReadSsml(r)
      [] kind = "rtf" -> ReadRtf(r)
      [] kind = "text" -> ReadPlain(r)

\* document::document keeps what the reader gives, until it gives no more.
read ==
    /\ phase = "open"
    /\ reader' \in {Step(reader)}
    /\ document' = IF reader'.status = "item" THEN Keeps(document, reader'.item) ELSE document
    /\ phase' = CASE reader'.status = "end" -> "read"
                  [] reader'.status = "error" -> "failed"
                  [] OTHER -> phase
    /\ UNCHANGED <<file, kind>>

Counted(action) == action /\ odd' = ~odd
Next == Counted(createDocumentReader) \/ Counted(read)

\* A document is read on for as long as it is open.
Goes == phase \in {"new", "open"} /\ odd' = ~odd
Spec == Init /\ [][Next]_vars /\ WF_odd(Goes)
=============================================================================
