-------------------------------- MODULE Markup --------------------------------
(* Documents to be read, written from trees, and what the items that are      *)
(* read of them say.                                                         *)
EXTENDS XmlReader, DocumentEvents

\* A node is a run of text, as it is written and with the words it says, or
\* an element with its attributes as they are written.
Run(written, says) == [tag |-> "", written |-> written, says |-> says]
Of(word) == Run(<<word>>, <<word>>)
Element(tag, attrs, kids) == [tag |-> tag, attrs |-> attrs, kids |-> kids]
Tag(tag, kids) == Element(tag, <<>>, kids)
Attr(name, value) == <<" ">> \o name \o <<"=", "\"">> \o value \o <<"\"">>
Id(name) == Attr(<<"id">>, <<name>>)

\* How a tree is written.  The last element of another ends with it, unless
\* what ends it would be taken for the end of something inside.
RECURSIVE HasInside(_, _)
HasInside(node, tag) == node.tag # "" /\ (node.tag = tag \/ \E i \in DOMAIN node.kids : HasInside(node.kids[i], tag))

RECURSIVE Written(_, _)
Written(node, implied) ==
    IF node.tag = "" THEN node.written
    ELSE LET last == Len(node.kids)
             End(kid) == IF kid.tag \in {"", "br"} THEN <<>> ELSE <<"<", "/", kid.tag, ">">>
             Kid(i) == Written(node.kids[i], implied) \o IF implied /\ i = last /\ ~HasInside(node.kids[i], node.tag) THEN <<>> ELSE End(node.kids[i])
         IN  <<"<", node.tag>> \o node.attrs \o <<">">> \o FlattenSeq([i \in 1 .. last |-> Kid(i)])

\* What a document says.
Begin(style) == <<"begin", style>>
End_ == <<"end">>
Word(lexeme) == <<"word", lexeme>>
Words(lexemes) == [i \in DOMAIN lexemes |-> Word(lexemes[i])]

\* What an item says.
Flat(item) ==
    (IF "begin_context" \in item.type THEN <<Begin(item.styles)>> ELSE <<>>)
    \o (IF "text" \in item.type THEN Words(SelectSeq(item.content, LAMBDA l : l \notin Blank)) ELSE <<>>)
    \o (IF "anchor" \in item.type THEN <<<<"anchor", item.anchor>>>> ELSE <<>>)
    \o (IF "end_context" \in item.type THEN <<End_>> ELSE <<>>)
    \o (IF "media_ref" \in item.type THEN <<<<"audio", item.anchor, item.media[1], item.media[2], item.content>>>> ELSE <<>>)

Saying(document) == FlattenSeq([i \in DOMAIN document.children |-> Flat(document.children[i])])

\* The texts of a document follow on each other and make up its length; an
\* anchor leads to the item after it.
InPlace(document) ==
    LET texts == SelectSeq(document.children, LAMBDA item : "text" \in item.type)
    IN  /\ \A i \in DOMAIN texts : texts[i].range[1] = IF i = 1 THEN 0 ELSE texts[i - 1].range[2]
        /\ document.length = FoldLeft(LAMBDA n, item : n + Len(item.content), 0, texts)
        /\ \A a \in DOMAIN document.anchors :
                document.anchors[a] \in DOMAIN document.children /\ document.children[document.anchors[a]].anchor = a
=============================================================================
