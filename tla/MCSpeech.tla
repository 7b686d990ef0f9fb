------------------------------ MODULE MCSpeech ------------------------------
(* Small documents and the sessions over them, for SpeechSession. *)
EXTENDS SpeechSession

CONSTANTS root, c1, c2, c3, clip      \* anchors

\* Item constructors, named after the document_item methods.
Event(t, a) == [type |-> t, begin |-> 0, end |-> 0, anchor |-> a]
anchorAt(a) == Event({"anchor"}, a)
beginContext == Event({"begin_context"}, NoAnchor)
endContext == Event({"end_context"}, NoAnchor)
lineBreak == Event({"begin_context", "end_context"}, NoAnchor)
media == Event({"media_ref"}, clip)
text(b, e) == [type |-> {"text"}, begin |-> b, end |-> e, anchor |-> NoAnchor]
listItem(b, e) == [type |-> {"text", "begin_context"}, begin |-> b, end |-> e, anchor |-> NoAnchor]

\* parsers/plaintext.cpp: the subject's anchor and one text.
PlainText == <<anchorAt(root), text(0, 2)>>

\* An HTML page with two headings, a line break and a list item.
Page == <<anchorAt(root),
          beginContext, anchorAt(c1), text(0, 1), lineBreak, text(1, 2), endContext,
          beginContext, anchorAt(c2), text(2, 3), endContext,
          listItem(3, 4), text(4, 5), endContext>>

\* tests/epub3/media-overlay/single-file/text-but-no-audio.events: three
\* paragraphs of which the second is narrated.
Overlay == <<anchorAt(root),
             beginContext, anchorAt(c1), text(0, 1), endContext,
             beginContext, anchorAt(c2), media, text(1, 2), lineBreak, text(2, 3), endContext,
             beginContext, anchorAt(c3), text(3, 4), endContext>>

PageListing == <<root, c1, c2>>
OverlayListing == <<root, c1, c2, c3>>

Session(d, l, range, mode, engine, sink) ==
    [doc |-> d, listing |-> l, from |-> range.from, to |-> range.to, mode |-> mode,
     engine |-> engine, sink |-> sink, player |-> TRUE]

Whole(d) == [from |-> 1, to |-> Len(d) + 1]

WholeSessions ==
    {Session(PlainText, <<>>, Whole(PlainText), "tts_only", "pico", "ogg")}
    \cup {Session(Page, PageListing, Whole(Page), "tts_only", e, k) : e \in {"espeak", "pico"}, k \in {"pulse", "wav"}}
    \cup {Session(Overlay, OverlayListing, Whole(Overlay), m, e, "pulse") : m \in Mode, e \in {"espeak", "pico"}}
    \cup {Session(PlainText, <<root>>, Whole(PlainText), "tts_only", "espeak", k) : k \in SinkKind}

\* Reading without an overlay, for what a stop cuts short.
SpokenSessions ==
    {Session(d, <<root>>, Whole(d), "tts_only", e, k) :
        d \in {PlainText, Page}, e \in {"espeak", "pico"}, k \in {"pulse", "wav", "ogg"}}

\* Reading a part: from one entry of the contents to another, as --from and
\* --to of the command line client select it.
Part(d, l, first, last) == childrenOfListing(d, l, first, last)

PartSessions ==
    SpokenSessions \cup
    {Session(Page, PageListing, Part(Page, PageListing, i, j), "tts_only", "espeak", "pulse") :
        i \in 0 .. 3, j \in 0 .. 4}

-----------------------------------------------------------------------------
(* One session for each place where the code and its documentation part.   *)

\* The whole page but for its last section.
ToLastEntry ==
    {Session(Page, PageListing, Part(Page, PageListing, 0, 3), "tts_only", "espeak", "pulse")}

\* The last section of the page.
FromLastEntry ==
    {Session(Page, PageListing, Part(Page, PageListing, 3, 0), "tts_only", "espeak", "pulse")}

\* A plain text from its only entry, which points at the one text it has.
FromOnlyEntry ==
    {Session(PlainText, <<root>>, Part(PlainText, <<root>>, 1, 0), "tts_only", "espeak", "pulse")}

NarratedSessions ==
    {Session(Overlay, OverlayListing, Whole(Overlay), "tts_and_media_overlays", "espeak", "pulse")}

AlsaSessions == {Session(PlainText, <<root>>, Whole(PlainText), "tts_only", "espeak", "alsa")}

WavSessions == {Session(PlainText, <<root>>, Whole(PlainText), "tts_only", "espeak", "wav")}

\* A heading two contexts deep, then a narrated paragraph: reading from the
\* heading, the paragraph is at depth -1, which is also "no overlay".
NestedHeading == <<anchorAt(root),
                   beginContext, beginContext, anchorAt(c1), text(0, 1), endContext, endContext,
                   beginContext, anchorAt(c2), media, text(1, 2), endContext>>

NestedSessions ==
    {Session(NestedHeading, <<root, c1>>, Part(NestedHeading, <<root, c1>>, 2, 0),
             "tts_and_media_overlays", "espeak", "pulse")}

\* The overlays of the documents are told apart, but for the one at depth -1.
ASSUME OverlayAssumption ==
    /\ \A s \in WholeSessions \cup PartSessions : OverlaysApart(s)
    /\ \A s \in NestedSessions : ~OverlaysApart(s)

\* The progress of a whole document is reckoned rightly; that of a part is not
\* where it begins with a text or after the second entry of the contents.
ASSUME ProgressAssumption ==
    /\ \A s \in WholeSessions : MeasuredWhole(s) /\ ListingFollows(s)
    /\ \A s \in ToLastEntry \cup FromOnlyEntry : ~MeasuredWhole(s)
    /\ \A s \in FromLastEntry : ~ListingFollows(s)
=============================================================================
