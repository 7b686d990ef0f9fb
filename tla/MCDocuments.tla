----------------------------- MODULE MCDocuments -----------------------------
(***************************************************************************)
(* Instances of Documents: documents written from what they mean, so that   *)
(* a reading can be held against it.  An HTML document is written with all  *)
(* of its tags, without those of html, head and body, or without the end    *)
(* tags that the end of something else implies.                            *)
(***************************************************************************)
EXTENDS Documents, Markup

Link(target, kids) == Element("a", Attr(<<"href">>, <<"#", target>>), kids)
Toc == Attr(<<"xmlns", ":", "epub">>, <<"urn:epub">>) \o Attr(<<"epub", ":", "type">>, <<"toc">>)

Blocks(n) ==
    LET w(i) == "w" \o ToString(n) \o ToString(i)
        T(i) == Of(w(i))
    IN  <<Tag("p", <<T(1)>>),
          Tag("p", <<T(1), Tag("b", <<T(2)>>), Run(<<" ", w(3)>>, <<w(3)>>)>>),
          Element("p", Id("x" \o ToString(n)), <<Run(<<w(1), " ", "&", "amp", ";", " ", " ", w(2)>>, <<w(1), "&", w(2)>>)>>),
          Tag("ul", <<Tag("li", <<T(1)>>), Tag("li", <<T(2)>>)>>),
          Tag("ol", <<Tag("li", <<T(1), Tag("p", <<T(2)>>)>>),
                        Tag("li", <<T(3), Tag("ul", <<Tag("li", <<T(4)>>)>>)>>), Tag("li", <<T(5)>>)>>),
          Element("section", Id("x" \o ToString(n)), <<Tag("h1", <<T(1)>>), Tag("p", <<T(2)>>)>>),
          Tag("div", <<Tag("script", <<T(0)>>), T(1), Tag("br", <<>>), T(2)>>),
          Tag("pre", <<Run(<<w(1), "\n", "\n", w(2)>>, <<w(1), w(2)>>)>>),
          Element("nav", Toc,
                  <<Tag("h1", <<T(1)>>),
                    Tag("ol", <<Tag("li", <<Link("b", <<T(2), Tag("i", <<T(3)>>)>>)>>),
                                  Tag("li", <<Link("c", <<T(4)>>), Tag("ol", <<Tag("li", <<Link("d", <<T(5)>>)>>)>>)>>),
                                  Tag("li", <<Link("e", <<T(6)>>)>>)>>)>>),
          Tag("table", <<Tag("tr", <<Tag("td", <<T(1)>>), Tag("td", <<T(2)>>)>>)>>),
          Tag("p", <<Run(<<"<", "!", "[CDATA[", w(1), "]]", ">">>, <<w(1)>>), Run(<<"<", "!", "--", w(0), "--", ">">>, <<>>),
                       Tag("q", <<T(2)>>)>>),
          Tag("li", <<T(1)>>)>>


-----------------------------------------------------------------------------
Meta == <<"<", "meta">> \o Attr(<<"name">>, <<"keywords">>) \o Attr(<<"content">>, <<"k1", ",", " ", "k2">>) \o <<" ", "/", ">">>
HeadOf(head) ==
    CASE head = "none" -> <<>>
      [] head = "title" -> <<"<", "title", ">", "A", " ", " ", "title", "<", "/", "title", ">">>
      [] head = "meta" -> Meta

Html(d) ==
    LET tree == [i \in DOMAIN d.blocks |-> Blocks(i)[d.blocks[i]]]
        body == Tag("body", tree)
    IN  CASE d.form = "full" ->
                <<"<", "html", ">", "<", "head", ">">> \o HeadOf(d.head) \o <<"<", "/", "head", ">", "\n">>
                \o Written(body, FALSE) \o <<"<", "/", "body", ">", "<", "/", "html", ">", "\n">>
          [] d.form = "bare" ->
                <<"<", "!", "DOCTYPE", " ", "html", ">">> \o HeadOf(d.head) \o Tail(Tail(Tail(Written(body, FALSE)))) \o <<" ">>
          [] d.form = "implied" -> <<"<", "html", ">">> \o HeadOf(d.head) \o Written(body, TRUE) \o <<"\n">>

\* What it says.
RECURSIVE Told(_, _)
Told(node, in) ==
    LET Kids == FlattenSeq([i \in DOMAIN node.kids |-> Told(node.kids[i], [tag |-> node.tag, at |-> i])])
        anchor == IF Len(node.attrs) = 6 /\ node.attrs[2] = "id" THEN <<<<"anchor", Subject \o "#" \o node.attrs[5]>>>> ELSE <<>>
        marker_ == IF node.tag # "li" THEN <<>> ELSE CASE in.tag = "ul" -> Words(<<"*">>)
                                                      [] in.tag = "ol" -> Words(<<ToString(in.at), ".">>)
                                                      [] OTHER -> <<>>
    IN  CASE node.tag = "" -> Words(node.says)
          [] node.tag = "script" -> <<>>
          [] node.tag = "q" -> Kids
          [] OTHER -> <<Begin(HtmlStyles[node.tag])>> \o marker_ \o anchor \o Kids \o <<End_>>

RECURSIVE Says_(_)
Says_(node) == IF node.tag = "" THEN node.says ELSE FlattenSeq([i \in DOMAIN node.kids |-> Says_(node.kids[i])])

\* The entries of a table of contents: those of an item come after its own.
RECURSIVE Entries(_, _)
Entries(list, depth) ==
    FlattenSeq([i \in DOMAIN list.kids |->
        LET item == list.kids[i]
            link == item.kids[1]
        IN  <<[depth |-> ToString(depth), location |-> "#" \o link.attrs[6], title |-> FoldLeft(\o, "", Says_(link))]>>
            \o IF Len(item.kids) = 2 THEN Entries(item.kids[2], depth + 1) ELSE <<>>])

HtmlMeans(d) ==
    LET tree == [i \in DOMAIN d.blocks |-> Blocks(i)[d.blocks[i]]]
        navs == SelectSeq(tree, LAMBDA node : node.tag = "nav")
    IN  [told |-> <<<<"anchor", Subject>>>> \o FlattenSeq([i \in DOMAIN tree |-> Told(tree[i], [tag |-> "body", at |-> i])]),
         toc |-> IF navs = <<>> THEN <<>> ELSE Entries(navs[1].kids[2], 1),
         title |-> IF d.head = "title" THEN <<"A title">> ELSE <<>>,
         subjects |-> IF d.head = "meta" THEN <<"k1", "k2">> ELSE <<>>]

-----------------------------------------------------------------------------
\* SSML, RTF and plain text: parts with a style, and the words in them.
Tags == ("p" :> "p") @@ ("s" :> "s") @@ ("strong" :> "emphasis") @@ ("none" :> "emphasis") @@ ("emphasis" :> "emphasis")
RECURSIVE Ssml(_)
Ssml(node) ==
    CASE node.tag = "" -> node.written
      [] node.tag \in {"p", "s", "emphasis", "strong", "none"} ->
            <<"<", Tags[node.tag]>> \o (IF node.tag \in {"strong", "none"} THEN Attr(<<"level">>, <<node.tag>>) ELSE <<>>) \o <<">">>
            \o (IF node.kids[1].tag # "" THEN <<" ">> ELSE <<>>)
            \o FlattenSeq([i \in DOMAIN node.kids |-> Ssml(node.kids[i])]) \o <<"<", "/", Tags[node.tag], ">", " ">>

RECURSIVE SsmlTold(_)
SsmlTold(node) ==
    IF node.tag = "" THEN Words(node.says)
    ELSE <<Begin(SsmlStyles[node.tag])>> \o FlattenSeq([i \in DOMAIN node.kids |-> SsmlTold(node.kids[i])]) \o <<End_>>

SsmlBlocks(n) ==
    LET T(i) == Of("w" \o ToString(n) \o ToString(i))
    IN  <<Tag("s", <<T(1)>>), Tag("p", <<Tag("s", <<T(1)>>), Tag("s", <<T(2)>>), Tag("strong", <<T(3)>>)>>),
          Tag("emphasis", <<T(1)>>), Tag("p", <<T(1), Tag("none", <<T(2)>>)>>)>>

RtfParts(n) ==
    LET w(i) == "w" \o ToString(n) \o ToString(i)
    IN  <<Run(<<w(1)>>, <<w(1)>>), Run(<<"{", "\\", "b", " ", w(1), "}", " ", w(2)>>, <<w(1), w(2)>>),
          Run(<<w(1), "\\", "'", "27", w(2), "\n", w(3)>>, <<w(1), "'", w(2), w(3)>>),
          Run(<<"\\", "{", w(1), "\\", "emdash", " ", w(2)>>, <<"{", w(1), "--", w(2)>>),
          Run(<<"{", "\\", "header", " ", "{", w(0), "}", w(0), "}", w(1)>>, <<w(1)>>)>>

RtfFor(parts, title) ==
    <<"{", "\\", "rtf", "1", "\\", "ansi", "{", "\\", "fonttbl", "\\", "f", "0", " ", "Arial", ";", "}">>
    \o (IF title THEN <<"{", "\\", "info", "{", "\\", "title", " ", "T", "}", "{", "\\", "author", " ", "me", "}", "}">> ELSE <<>>)
    \o FlattenSeq([i \in DOMAIN parts |-> parts[i].written \o <<"\\", "par", "\n">>]) \o <<"}">>

\* The entry for the whole: the title of the document, the title that is
\* given, or the name of the file.
Whole(own, given) ==
    <<[depth |-> "0", location |-> Subject, title |-> CASE own # "" -> own [] own = "" /\ given # "" -> given [] OTHER -> "doc"]>>

PlainText == <<"w1", " ", "w2", "\n", "w3">>

\* A file and what it means, by its description.
Described(d) ==
    CASE d.format = "html" -> [text |-> Html(d), given |-> d.given] @@ HtmlMeans(d)
      [] d.format = "ssml" ->
            LET parts == [i \in DOMAIN d.blocks |-> SsmlBlocks(i)[d.blocks[i]]]
            IN  [text |-> <<"<", "?", "xml">> \o Attr(<<"version">>, <<"1", ".", "0">>) \o <<"?", ">", "<", "speak">> \o Attr(<<"xmlns">>, <<"urn:ssml">>)
                          \o (IF d.form = "full" THEN Attr(<<"xml", ":", "lang">>, <<"en">>) ELSE <<>>) \o <<">", "\n">>
                          \o FlattenSeq([i \in DOMAIN parts |-> Ssml(parts[i])]) \o <<"<", "/", "speak", ">", "\n">>,
                 given |-> d.given, told |-> FlattenSeq([i \in DOMAIN parts |-> SsmlTold(parts[i])]),
                 toc |-> <<>>, title |-> <<>>, subjects |-> <<>>]
      [] d.format = "rtf" ->
            LET parts == [i \in DOMAIN d.blocks |-> RtfParts(i)[d.blocks[i]]]
                Part(i) == <<Begin("paragraph")>> \o Words(parts[i].says) \o <<End_>>
            IN  [text |-> RtfFor(parts, d.head = "title"), given |-> d.given,
                 told |-> <<<<"anchor", Subject>>>> \o FlattenSeq([i \in DOMAIN parts |-> Part(i)]),
                 toc |-> Whole(IF d.head = "title" THEN "T" ELSE "", d.given),
                 title |-> IF d.head = "title" THEN <<"T">> ELSE <<>>, subjects |-> <<>>]
      [] d.format = "text" ->
            [text |-> (IF d.form = "full" THEN <<>> ELSE <<"gzip">>) \o PlainText, given |-> d.given,
             told |-> <<<<"anchor", Subject>>>> \o Words(<<"w1", "w2", "w3">>),
             toc |-> Whole("", IF d.form = "full" THEN d.given ELSE ""), title |-> <<>>, subjects |-> <<>>]
      [] d.format = "none" ->
            [text |-> CASE d.form = "full" -> <<"w1", "control">> [] d.form = "bare" -> <<>> [] OTHER -> <<"%", "PDF", "-">>,
             given |-> d.given, told |-> <<>>, toc |-> <<>>, title |-> <<>>, subjects |-> <<>>]

Upto(n) == {<<i>> : i \in 1 .. n} \cup {<<i, j>> : i, j \in 1 .. n}
Forms == {"full", "bare", "implied"}
\* What comes after a table of contents has no item outside a list.
Files ==
    [format : {"html"}, blocks : {b \in Upto(12) : Len(b) = 1 \/ (b[1] # 9 \/ b[2] \notin {9, 12})}, form : Forms,
     head : {"none"}, given : {""}]
    \cup [format : {"html"}, blocks : Upto(3), form : Forms, head : {"title", "meta"}, given : {""}]
    \cup [format : {"ssml"}, blocks : Upto(4), form : {"full", "bare"}, head : {"none"}, given : {""}]
    \cup [format : {"rtf"}, blocks : Upto(5), form : {"full"}, head : {"none", "title"}, given : {"", "given"}]
    \cup [format : {"text"}, blocks : {<<>>}, form : {"full", "implied"}, head : {"none"}, given : {"", "given"}]
    \cup [format : {"none"}, blocks : {<<>>}, form : Forms, head : {"none"}, given : {""}]

MCContents == [d \in Files |-> Described(d)]
MCSubject == "/doc"

\* An RTF document that has a paragraph but does not end it.
EndlessRtf == "doc" :> [text |-> <<"{", "\\", "rtf", "1", " ", "w1", "}">>, given |-> ""]

\* A table of contents, and a link after it.
LinkAfterToc ==
    LET tree == Tag("body", <<Blocks(1)[9], Tag("p", <<Link("z", <<Of("w2")>>)>>)>>)
    IN  "doc" :> [text |-> <<"<", "html", ">">> \o Written(tree, FALSE) \o <<"\n">>, given |-> "",
                  toc |-> Entries(tree.kids[1].kids[2], 1)]

-----------------------------------------------------------------------------
\* A document is read in order, and at its end everything in it was given
\* once: a tag that was left out is there, in its place.  Its texts follow on
\* each other and make up its length; an anchor leads to the item after it.
ItemsOfDocument ==
    /\ InPlace(document)
    /\ IsPrefix(Saying(document), Contents[file].told)
    /\ phase = "read" => Saying(document) = Contents[file].told

\* The table of contents and the title are those of the document; what the
\* caller has is for a document that has none.
KnowsItself ==
    phase = "read" =>
        /\ navigation(reader.graph, Subject, "epv:toc") = Contents[file].toc
        /\ Objects(reader.graph, Subject, "dc:title") = Contents[file].title
        /\ Objects(reader.graph, Subject, "dc:subject") = Contents[file].subjects

\* Every document is read to its end.
DocumentIsRead == <>(phase \in {"read", "none"})

\* A document says no more than its file holds.
EventsEnd == document.length <= Len(Contents[file].text)

\* The location of an entry is the one it has in the document.
EntryIsThere ==
    phase = "read" =>
        LET entries == navigation(reader.graph, Subject, "epv:toc")
        IN  \A i \in DOMAIN entries : entries[i].location = Contents[file].toc[i].location
=============================================================================
