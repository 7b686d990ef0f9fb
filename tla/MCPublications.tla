---------------------------- MODULE MCPublications ----------------------------
(***************************************************************************)
(* Instances of Epub: publications of up to three chapters, written from    *)
(* what they mean: chapters with and without audio, chapters that are not   *)
(* there or not text, both kinds of table of contents, and packages that    *)
(* say a lot of the publication or cannot be found.                        *)
(***************************************************************************)
EXTENDS Epub, Markup

N(name, n) == name \o ToString(n)
Single(tag, attrs) == <<"<", tag>> \o attrs \o <<"/", ">">>
All(Op(_), s) == FlattenSeq([i \in DOMAIN s |-> Op(i)])
Node_(node) == Written(node, FALSE) \o <<"<", "/", node.tag, ">">>
Ns(name) == Attr(<<"xmlns">>, <<name>>)
Item(id, file, type, more) ==
    Single("item", Attr(<<"id">>, <<id>>) \o Attr(<<"href">>, file) \o Attr(<<"media-type">>, type) \o more)

Xhtml == <<"application", "/", "xhtml+xml">>
Types == [xhtml |-> Xhtml, svg |-> <<"image", "/", "svg+xml">>, ncx |-> <<"application", "/", "x-dtbncx+xml">>,
          smil |-> <<"application", "/", "smil+xml">>]

\* The files of chapter n.  A chapter with audio has two anchors.
Chapter(n) == <<N("c", n), ".", "xhtml">>
ChapterText(n) ==
    Tag("body", <<Element("p", Id("a"), <<Of(N("w1", n))>>), Element("p", Id("b"), <<Of(N("w2", n)), Tag("b", <<Of(N("w3", n))>>)>>)>>)
Pair(n, anchor, heard) ==
    <<"<", "par", ">">> \o Single("text", Attr(<<"src">>, Chapter(n) \o <<"#", anchor>>))
    \o (IF heard THEN Single("audio", Attr(<<"src">>, <<"m">>) \o Attr(<<"clipBegin">>, <<N(anchor, n)>>) \o Attr(<<"clipEnd">>, <<N("e", n)>>))
        ELSE <<>>)
    \o <<"<", "/", "par", ">">>
Pairs(n, kind) == Pair(n, "a", kind = "spoken") \o Pair(n, "b", TRUE)
SmilOf(pairs) == <<"<", "smil">> \o Ns("urn:smil") \o <<">", "<", "body", ">", "<", "seq", ">">> \o pairs
                 \o <<"<", "/", "seq", ">", "<", "/", "body", ">", "<", "/", "smil", ">">>

\* Metadata: as it is written, and the paths to its values from the subject.
Dc(name, attrs, value) == <<"<", "dc", ":", name>> \o attrs \o <<">">> \o value \o <<"<", "/", "dc", ":", name, ">">>
Opf_(name, value) == Attr(<<"opf", ":", name>>, value)
MetadataOf(kind) ==
    CASE kind = "plain" -> [text |-> Dc("title", <<>>, <<"T">>), says |-> {<<"dc:title", "", "T">>}]
      [] kind = "roles" ->
            [text |-> Dc("creator", Opf_("role", <<"aut">>) \o Opf_("file-as", <<"F">>), <<"me">>) \o <<"\n">>
                      \o Dc("identifier", Attr(<<"id">>, <<"i">>) \o Opf_("scheme", <<"S">>), <<"x">>)
                      \o Dc("date", Opf_("event", <<"pub">>), <<"2", "/", "1", "/", "2010">>),
             says |-> {<<"dc:creator", "rdf:value", "me">>, <<"dc:creator", "opf:role", "aut">>, <<"dc:creator", "opf:file-as", "F">>,
                       <<"dc:identifier", "rdf:value", "x">>, <<"dc:identifier", "opf:scheme", "S">>,
                       <<"dc:date", "rdf:value", "2010-1-2">>, <<"dc:date", "opf:event", "pub">>}]
      [] kind = "terms" ->
            [text |-> Single("meta", Attr(<<"name">>, <<"cover">>) \o Attr(<<"content">>, <<"c">>))
                      \o <<"<", "meta">> \o Attr(<<"property">>, <<"dcterms", ":", "modified">>) \o <<">", "now", "<", "/", "meta", ">">>
                      \o Dc("subject", <<>>, <<"s1", ",", " ", "s2">>)
                      \o Dc("title", Attr(<<"id">>, <<"i">>), <<"T">>)
                      \o <<"<", "meta">> \o Attr(<<"refines">>, <<"#", "i">>) \o Attr(<<"property">>, <<"role">>)
                      \o <<">", "main", "<", "/", "meta", ">">>
                      \o Single("link", Attr(<<"rel">>, <<"marc", ":", "record", " ", "other", ":", "no">>) \o Attr(<<"href">>, <<"r">>)),
             says |-> {<<"pkg:cover", "", "c">>, <<"dcterms:modified", "", "now">>, <<"dc:subject", "", "s1">>, <<"dc:subject", "", "s2">>,
                       <<"dc:title", "", "T">>, <<"marc:record", "", "r">>}]
      [] kind = "calibre" ->
            [text |-> <<"<", "dc-metadata", ">">> \o Dc("language", <<>>, <<"en">>) \o <<"<", "/", "dc-metadata", ">">>
                      \o Single("meta", Attr(<<"name">>, <<"calibre", ":", "series">>) \o Attr(<<"content">>, <<"S">>))
                      \o Single("meta", Attr(<<"name">>, <<"calibre", ":", "series_index">>) \o Attr(<<"content">>, <<"2">>)),
             says |-> {<<"dc:language", "", "en">>, <<"pkg:belongs-to-collection", "rdf:value", "S">>,
                       <<"pkg:belongs-to-collection", "pkg:collection-type", "series">>,
                       <<"pkg:belongs-to-collection", "pkg:group-position", "2">>}]

\* The items of the manifest for chapter n.
ManifestOf(d, n) ==
    LET spoken == d.spine[n] \in {"spoken", "half spoken"}
        smil == IF d.overlays = "shared" THEN "m" ELSE N("m", n)
    IN  Item(N("c", n), Chapter(n), IF d.spine[n] = "picture" THEN Types.svg ELSE Xhtml,
             IF spoken THEN Attr(<<"media-overlay">>, <<smil>>) ELSE <<>>)
        \o IF spoken /\ d.overlays # "shared" THEN Item(smil, <<smil, ".", "smil">>, Types.smil, <<>>) ELSE <<>>

Package(d) ==
    LET ManifestItem(n) == ManifestOf(d, n)
        Ref(n) == Single("itemref", Attr(<<"idref">>, <<N("c", n)>>))
        version == IF d.toc = "nav" \/ d.metadata = "terms" THEN "3" ELSE "2"
    IN  <<"<", "package">> \o Ns("urn:opf") \o Attr(<<"version">>, <<version, ".", "0">>) \o <<">", "<", "metadata">>
        \o Attr(<<"xmlns", ":", "dc">>, <<"urn:dc">>) \o Attr(<<"xmlns", ":", "opf">>, <<"urn:opf">>) \o <<">">>
        \o MetadataOf(d.metadata).text \o <<"<", "/", "metadata", ">", "<", "manifest", ">">>
        \o All(ManifestItem, d.spine)
        \o (IF d.overlays = "shared" THEN Item("m", <<"m", ".", "smil">>, Types.smil, <<>>) ELSE <<>>)
        \o (CASE d.toc = "ncx" -> Item("toc", <<"t", ".", "ncx">>, Types.ncx, <<>>)
              [] d.toc = "nav" -> Item("toc", <<"t", ".", "xhtml">>, Xhtml, Attr(<<"properties">>, <<"nav">>))
              [] OTHER -> <<>>)
        \o <<"<", "/", "manifest", ">", "<", "spine">> \o (IF d.toc = "ncx" THEN Attr(<<"toc">>, <<"toc">>) ELSE <<>>) \o <<">">>
        \o All(Ref, d.spine) \o <<"<", "/", "spine", ">", "<", "/", "package", ">">>

\* The tables of contents have an entry for each anchor of a chapter, the
\* second below the first.
Read_(d) == SelectSeq([n \in DOMAIN d.spine |-> n], LAMBDA n : d.spine[n] \notin {"missing", "picture"})
Label(n, a) == N("t", n) \o a
TocOf(d) ==
    LET chapters == Read_(d)
        A(n, a) == Element("a", Attr(<<"href">>, Chapter(n) \o <<"#", a>>), <<Of(Label(n, a))>>)
        Li(n) == Tag("li", <<A(n, "a"), Tag("ol", <<Tag("li", <<A(n, "b")>>)>>)>>)
        nav == Element("nav", Ns("urn:xhtml") \o Attr(<<"xmlns", ":", "epub">>, <<"urn:epub">>) \o Attr(<<"epub", ":", "type">>, <<"toc">>),
                       <<Tag("ol", [i \in DOMAIN chapters |-> Li(chapters[i])])>>)
        Text_(n, a) == <<"<", "navLabel", ">", "<", "text", ">", Label(n, a), "<", "/", "text", ">", "<", "/", "navLabel", ">">>
        Src(n, a) == Single("content", Attr(<<"src">>, Chapter(n) \o <<"#", a>>))
        At1(n, a) == IF d.first = "label" THEN Text_(n, a) \o Src(n, a) ELSE Src(n, a) \o Text_(n, a)
        Point(i) == LET n == chapters[i] IN
            <<"<", "navPoint", ">">> \o At1(n, "a") \o <<"<", "navPoint", ">">> \o At1(n, "b") \o <<"<", "/", "navPoint", ">", "<", "/", "navPoint", ">">>
    IN  IF d.toc = "nav" THEN <<"<", "html">> \o Ns("urn:xhtml") \o <<">">> \o Node_(Tag("body", <<nav>>))
        ELSE <<"<", "ncx">> \o Ns("urn:ncx") \o <<">", "<", "head", ">", "<", "/", "head", ">", "<", "docTitle", ">", "<", "text", ">", "D", "<", "/", "text", ">",
               "<", "/", "docTitle", ">", "<", "navMap", ">">> \o All(Point, chapters) \o <<"<", "/", "navMap", ">", "<", "/", "ncx", ">">>

Root(d) == IF d.place = "top" THEN "" ELSE "o/"
ContainerOf(d) ==
    <<"<", "container">> \o Ns("urn:ocf") \o <<">", "<", "rootfiles", ">">>
    \o Single("rootfile", Attr(<<"full-path">>, <<"x">>) \o Attr(<<"media-type">>, <<"text", "/", "plain">>))
    \o (IF d.place = "nowhere" THEN <<>>
        ELSE Single("rootfile", Attr(<<"full-path">>, (IF d.place = "top" THEN <<>> ELSE <<"o", "/">>) \o <<"p", ".", "opf">>)
                    \o Attr(<<"media-type">>, <<"application", "/", "oebps-package+xml">>)))
    \o <<"<", "/", "rootfiles", ">", "<", "/", "container", ">">>

\* The files, by name.
FilesOf(d) ==
    LET here == {n \in DOMAIN d.spine : d.spine[n] # "missing"}
        spoken == SelectSeq([n \in DOMAIN d.spine |-> n], LAMBDA n : d.spine[n] \in {"spoken", "half spoken"})
        P(i) == Pairs(spoken[i], d.spine[spoken[i]])
        smils == IF d.overlays = "shared" THEN Root(d) \o "m.smil" :> SmilOf(All(P, spoken))
                 ELSE [file \in {Root(d) \o N("m", n) \o ".smil" : n \in ToSet(spoken)} |->
                        LET n == CHOOSE n \in ToSet(spoken) : file = Root(d) \o N("m", n) \o ".smil" IN SmilOf(Pairs(n, d.spine[n]))]
    IN  (IF d.place = "no container" THEN <<>> ELSE Container :> ContainerOf(d))
        @@ (IF d.place = "no package" THEN <<>> ELSE Root(d) \o "p.opf" :> Package(d))
        @@ [file \in {Root(d) \o Text(Chapter(n)) : n \in here} |->
                LET n == CHOOSE n \in here : file = Root(d) \o Text(Chapter(n))
                IN  <<"<", "html">> \o Ns("urn:xhtml") \o <<">">> \o Node_(ChapterText(n)) \o <<"<", "/", "html", ">">>]
        @@ smils
        @@ (CASE d.toc = "ncx" -> Root(d) \o "t.ncx" :> TocOf(d) [] d.toc = "nav" -> Root(d) \o "t.xhtml" :> TocOf(d) [] OTHER -> <<>>)
        @@ (Root(d) \o "m" :> <<"sound">>)

\* What a publication means.
UriOf(d, n) == Subject \o "!/" \o Root(d) \o Text(Chapter(n))
MeansOf(d) ==
    LET chapters == Read_(d)
        Anchor(n, a) == <<"anchor", UriOf(d, n) \o "#" \o a>>
        heard(n, a) == d.spine[n] = "spoken" \/ (d.spine[n] = "half spoken" /\ a = "b")
        Sound(n, a) == <<"audio", Subject \o "!/" \o Root(d) \o "m", N(a, n), N("e", n), <<"sound">>>>
        Told(i) == LET n == chapters[i] IN
            <<<<"anchor", UriOf(d, n)>>, Begin("paragraph"), Anchor(n, "a"), Word(N("w1", n)), End_,
              Begin("paragraph"), Anchor(n, "b"), Word(N("w2", n)), Begin("strong"), Word(N("w3", n)), End_, End_>>
        Heard(i) == LET n == chapters[i] IN
            (IF heard(n, "a") THEN <<<<Anchor(n, "a"), Sound(n, "a")>>>> ELSE <<>>)
            \o (IF heard(n, "b") THEN <<<<Anchor(n, "b"), Sound(n, "b")>>>> ELSE <<>>)
        Entry_(n, a, depth) == [depth |-> ToString(depth), location |-> UriOf(d, n) \o "#" \o a, title |-> Label(n, a)]
        Entries(i) == <<Entry_(chapters[i], "a", 1), Entry_(chapters[i], "b", 2)>>
    IN  [told |-> <<<<"anchor", Subject>>>> \o All(Told, chapters), heard |-> All(Heard, chapters),
         toc |-> CASE d.toc = "none" -> <<>>
                   [] d.toc = "nav" -> All(Entries, chapters)
                   [] d.toc = "ncx" -> <<[depth |-> "0", location |-> Subject, title |-> "D"]>> \o All(Entries, chapters),
         metadata |-> MetadataOf(d.metadata).says \cup {<<"tts:mimetype", "", "application/epub+zip">>}]

Kinds == {"text", "spoken", "half spoken", "missing", "picture"}
Described ==
    [spine : UNION {[1 .. n -> Kinds] : n \in 1 .. 2} \cup [1 .. 3 -> {"text", "spoken", "missing"}],
     toc : {"none"}, first : {"label"}, overlays : {"own", "shared"}, metadata : {"plain"}, place : {"inside"}]
    \cup [spine : UNION {[1 .. n -> {"text", "spoken", "missing"}] : n \in 1 .. 2}, toc : {"ncx", "nav"}, first : {"label", "place"},
          overlays : {"own"}, metadata : {"plain"}, place : {"inside", "top"}]
    \cup [spine : {<<"text">>}, toc : {"none", "ncx"}, first : {"label"}, overlays : {"own"},
          metadata : {"plain", "roles", "terms", "calibre"}, place : {"inside", "top"}]
    \cup [spine : {<<"text">>}, toc : {"none"}, first : {"label"}, overlays : {"own"}, metadata : {"plain"},
          place : {"nowhere", "no container", "no package"}]
MCBooks == [d \in Described |-> [files |-> FilesOf(d)] @@ MeansOf(d)]
MCSubject == "/book"

-----------------------------------------------------------------------------
IsAudio(event) == event[1] = "audio"
Prefixed(said, meant) == IsPrefix(said, meant) /\ (mState = "eof" => said = meant)

\* The chapters of a publication that are there are read in the order of the
\* spine, each whole and once, and their texts are one text.
ChaptersInOrder ==
    InPlace(document)
    /\ Prefixed(SelectSeq(Saying(document), LAMBDA event : ~IsAudio(event)), Books[book].told)

\* The audio of a text comes right after its anchor, with its own times, once.
AudioFollowsItsText ==
    LET said == Saying(document)
        audio_ == SelectSeq([i \in DOMAIN said |-> i], LAMBDA i : IsAudio(said[i]))
    IN  Prefixed([k \in DOMAIN audio_ |-> <<said[audio_[k] - 1], said[audio_[k]]>>], Books[book].heard)

\* The table of contents is that of the publication, and all it leads to is
\* in the document that is read; the package is understood.
SaidOfBook ==
    UNION {LET deeper == {t \in ToSet(graph.triples) : t[1] = triple[3] /\ triple[3] # Subject}
           IN  IF deeper = {} \/ triple[2] = "ref:listing" THEN {<<triple[2], "", triple[3]>>} ELSE {<<triple[2], t[2], t[3]>> : t \in deeper}
           : triple \in {t \in ToSet(graph.triples) : t[1] = Subject}}
KnowsItself ==
    mState = "eof" =>
        /\ navigation(graph, Subject, "epv:toc") = Books[book].toc
        /\ \A i \in DOMAIN Books[book].toc : Books[book].toc[i].location \in DOMAIN document.anchors
        /\ {said \in SaidOfBook : said[1] # "ref:listing"} = Books[book].metadata

\* A publication that can be opened is read to its end.
PublicationIsRead == <>(mState \in {"eof", "failed"})
=============================================================================
