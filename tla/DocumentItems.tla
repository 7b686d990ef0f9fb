--------------------------- MODULE DocumentItems ---------------------------
(***************************************************************************)
(* The document items libcainteoir passes around: what a document_reader   *)
(* produces, what a document stores and what a speech session iterates     *)
(* over (include/cainteoir/document.hpp, document.cpp).                    *)
(*                                                                         *)
(* An item keeps the bits of document_item::type as a set, the code point  *)
(* range of its text, and its anchor.  Styles, content bytes and media     *)
(* times are not told apart by any property and are left out.              *)
(*                                                                         *)
(* Positions are 1-based, as in TLA+ sequences: position p stands for the  *)
(* C++ iterator begin() + (p - 1), and Len(doc) + 1 for end().             *)
(***************************************************************************)
EXTENDS Integers, Sequences

CONSTANTS Anchor,     \* the URIs used as anchors
          NoAnchor    \* the empty URI

ASSUME AnchorAssumption == NoAnchor \notin Anchor

EventType == {"begin_context", "end_context", "text", "anchor", "text_ref", "media_ref"}

Item == [type : SUBSET EventType, begin : Nat, end : Nat, anchor : Anchor \cup {NoAnchor}]

Has(doc, p, t) == t \in doc[p].type

TextAt(doc, p) == Has(doc, p, "text")

-----------------------------------------------------------------------------
(* Selecting a part of a document by the anchors of its table of contents. *)

NotFound == -1

\* The anchor map keeps the size of the list after the push, so an anchor's
\* index is that of the item FOLLOWING it; a repeated anchor overwrites.
AnchorsAt(doc, a) == {p \in 1 .. Len(doc) : Has(doc, p, "anchor") /\ doc[p].anchor = a}

indexof(doc, a) ==
    IF AnchorsAt(doc, a) = {}
    THEN NotFound
    ELSE CHOOSE p \in AnchorsAt(doc, a) : \A q \in AnchorsAt(doc, a) : q <= p

get_child(doc, index) == IF index = NotFound THEN Len(doc) + 1 ELSE index + 1

children(doc, first, last) ==
    LET from == IF indexof(doc, first) = NotFound THEN 0 ELSE indexof(doc, first)
        to   == indexof(doc, last)
    IN  IF to # NotFound /\ from > to
        THEN [from |-> get_child(doc, to), to |-> get_child(doc, from)]
        ELSE [from |-> get_child(doc, from), to |-> get_child(doc, to)]

\* An entry number outside the listing selects the empty URI.
EntryAnchor(listing, n) == IF n \in 1 .. Len(listing) THEN listing[n] ELSE NoAnchor

childrenOfListing(doc, listing, first, last) ==
    children(doc, EntryAnchor(listing, first), EntryAnchor(listing, last))
=============================================================================
