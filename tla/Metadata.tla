------------------------------- MODULE Metadata -------------------------------
(***************************************************************************)
(* What the readers say about a document: RDF statements, and the table of *)
(* contents that is read back from them (rdf/metadata.cpp, document.cpp).  *)
(*                                                                         *)
(* A URI is a string, with the prefix of its namespace for the vocabularies *)
(* of the program ("dc:title").  A graph is the statements, each <<subject, *)
(* predicate, object>>, in the order they were made.  A literal keeps its   *)
(* value only.                                                             *)
(***************************************************************************)
EXTENDS Once, SequencesExt

\* Strings.
Letter(string, i) == SubSeq(string, i, i)
LastOf(string, letter) == Max({i \in 1 .. Len(string) : Letter(string, i) = letter} \cup {0})
Text(lexemes) == FoldLeft(LAMBDA string, lexeme : string \o lexeme, "", lexemes)

\* URIs.
uri(ns, ref) ==
    LET joined == ns = "" \/ ref = "" \/ Letter(ns, Len(ns)) \in {"#", "/", ":"}
    IN  ns \o (IF joined THEN "" ELSE "#") \o ref

href(string) ==
    LET hash == LastOf(string, "#")
        slash == LastOf(string, "/")
        SplitAt(i) == [ns |-> SubSeq(string, 1, i), ref |-> SubSeq(string, i + 1, Len(string))]
    IN  CASE hash # 0 -> SplitAt(hash)
          [] hash = 0 /\ slash # 0 -> SplitAt(slash)
          [] OTHER -> [ns |-> string, ref |-> ""]

FileName(path) == SubSeq(path, LastOf(path, "/") + 1, Len(path))

\* Paths.
parent(path) == IF LastOf(path, "/") = 0 THEN "" ELSE SubSeq(path, 1, LastOf(path, "/") - 1)

RECURSIVE Within(_, _)
Within(path, relative) ==
    LET up == Len(relative) >= 3 /\ SubSeq(relative, 1, 3) = "../"
        ends == path # "" /\ Letter(path, Len(path)) = "/"
        starts == relative # "" /\ Letter(relative, 1) = "/"
    IN  CASE relative = "" -> path
          [] relative # "" /\ up -> Within(parent(path), SubSeq(relative, 4, Len(relative)))
          [] relative # "" /\ ~up /\ path = "" -> relative
          [] OTHER -> (IF ends THEN SubSeq(path, 1, Len(path) - 1) ELSE path) \o (IF starts THEN "" ELSE "/") \o relative

-----------------------------------------------------------------------------
NoGraph == [triples |-> <<>>, nextId |-> 1]

\* The name of the next node that has none, and the graph after it was given.
genid(graph) == "_:genid" \o ToString(graph.nextId)
Given(graph) == [graph EXCEPT !.nextId = @ + 1]

statement(graph, subject, predicate, object) ==
    IF SubSeq(predicate, 1, 2) = "_:" THEN graph
    ELSE [graph EXCEPT !.triples = Append(@, <<subject, predicate, object>>)]

\* A table of contents with one entry, for the whole document.
SingleEntry(graph, subject, title) ==
    LET listing == genid(graph)
        cell == genid(Given(graph))
        entry == genid(Given(Given(graph)))
    IN  [triples |-> graph.triples \o
            <<<<subject, "ref:listing", listing>>, <<listing, "rdf:type", "ref:Listing">>, <<listing, "ref:type", "epv:toc">>,
              <<listing, "ref:entries", cell>>, <<cell, "rdf:first", entry>>, <<entry, "rdf:type", "ref:Entry">>,
              <<entry, "ref:level", "0">>, <<entry, "ref:target", subject>>, <<entry, "dc:title", title>>,
              <<cell, "rdf:rest", "rdf:nil">>>>,
         nextId |-> graph.nextId + 3]

\* select: the objects of a subject's statements with a predicate, in order.
Objects(graph, subject, predicate) ==
    LET chosen == SelectSeq(graph.triples, LAMBDA triple : triple[1] = subject /\ triple[2] = predicate)
    IN  [i \in DOMAIN chosen |-> chosen[i][3]]

\* The items of a list, from one of its cells.
RECURSIVE ListItems(_, _)
ListItems(graph, cell) ==
    LET first == Objects(graph, cell, "rdf:first")
        rest == Objects(graph, cell, "rdf:rest")
    IN  (IF first = <<>> THEN <<>> ELSE <<first[1]>>)
        \o (IF rest = <<>> \/ rest[1] = "rdf:nil" THEN <<>> ELSE ListItems(graph, rest[1]))

rdf_list_items(graph, subject, predicate) ==
    LET start == Objects(graph, subject, predicate)
    IN  IF start = <<>> THEN <<>> ELSE ListItems(graph, start[1])

-----------------------------------------------------------------------------
\* The last of the statements wins; what none gives is empty.
LastObject(graph, subject, predicate) ==
    LET objects == Objects(graph, subject, predicate) IN IF objects = <<>> THEN "" ELSE Last(objects)

ref_entry(graph, entry) ==
    [depth |-> LastObject(graph, entry, "ref:level"),
     location |-> LastObject(graph, entry, "ref:target"),
     title |-> LastObject(graph, entry, "dc:title")]

\* The entries of the first listing of a subject that has the wanted type.
navigation(graph, subject, type) ==
    LET listings == Objects(graph, subject, "ref:listing")
        wanted == {i \in DOMAIN listings : type \in ToSet(Objects(graph, listings[i], "ref:type"))}
        items == IF wanted = {} THEN <<>> ELSE rdf_list_items(graph, listings[Min(wanted)], "ref:entries")
    IN  [i \in DOMAIN items |-> ref_entry(graph, items[i])]
=============================================================================
