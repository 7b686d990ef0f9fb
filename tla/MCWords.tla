------------------------------ MODULE MCWords ------------------------------
(* Instances of DictionaryApp: all short texts, in one item or in two, and  *)
(* dictionaries of two or three lines with every kind of line of            *)
(* tests/dict, listed, resolved and compared.                               *)
EXTENDS DictionaryApp

MCAlphabet == {"a", "A", ".", "'", "-", " ", "\n", "g", "h", "s", "p", "1", "m", "$"}
MCClass == ("o" :> "vowel") @@ ("u" :> "vowel") @@ ("." :> "break")

CONSTANTS Alphabet, TextLength, Lines

Cat == ("a" :> "Ll") @@ ("b" :> "Ll") @@ ("A" :> "Lu") @@ ("." :> "Po") @@ ("'" :> "AP") @@ ("-" :> "HM") @@ (" " :> "Zs")
       @@ ("\n" :> "LF") @@ ("1" :> "Nd") @@ ("g" :> "Lo") @@ ("h" :> "Lo") @@ ("s" :> "SH") @@ ("p" :> "PS") @@ ("m" :> "Mn")
       @@ ("T" :> "Lt") @@ ("$" :> "Sc")
MCScript == ("g" :> "Geor") @@ ("h" :> "Hebr")
MCLower == [c \in DOMAIN Cat |-> IF c = "A" THEN "a" ELSE c]
MCUpper == ("a" :> "A") @@ ("b" :> "B") @@ ("c" :> "C")

TextItem(text) == [type |-> "text", content |-> text]
End == [type |-> "end_context", block |-> TRUE]
Inline == [type |-> "end_context", block |-> FALSE]
Block(items) == items \o <<End>>

Texts == UNION {[1 .. n -> Alphabet] : n \in 1 .. TextLength}
WordTexts == {<<"a", " ", "b">>, <<"a", "b", ".", "A">>, <<"b", "\n", "a", "b">>}

\* A text that is in two items and two blocks.
Divided == {Block(<<TextItem(<<"a">>), Inline, TextItem(SubSeq(t, 1, 2))>>) \o Block(<<TextItem(SubSeq(t, 3, 3))>>) :
                t \in [1 .. 3 -> {"a", "A", ".", "'", "-", " ", "1", "\n"}]}

Command == [dictionary |-> NoName, source |-> NoName, document |-> <<>>, mode |-> "from_document", word_mode |-> "merge",
            format |-> "none", stress |-> "as_transcribed", ignore_syllable_breaks |-> FALSE, ignore_stress |-> FALSE]

-----------------------------------------------------------------------------
(* Lines of dictionaries and what they mean.                                *)

Spoken(word, text) == [text |-> word \o <<"\t", "/">> \o text \o <<"/", "\n">>, word |-> word,
                       entry |-> PhonemesEntry(ReadPhonemes(text).phonemes)]
Said(word, as) == [text |-> word \o <<"\t", "\t">> \o as \o <<"\n">>, word |-> word, entry |-> SayAsEntry(as)]
Nothing(text) == [text |-> text, word |-> <<>>, entry |-> Null]

Line1(l) ==
    CASE l = "a" -> Spoken(<<"a">>, <<"^", "o", "u">>)
      [] l = "b" -> Spoken(<<"b">>, <<"u">>)
      [] l = "again" -> Spoken(<<"a">>, <<"u", ".", "o">>)
      [] l = "phrase" -> [Spoken(<<"b">>, <<"o">>) EXCEPT !.text = <<"\"", "a", " ", "b", "\"", "\t", "/", "o", "/", "\n">>,
                                                          !.word = <<"a", " ", "b">>]
      [] l = "says" -> Said(<<"b">>, <<"a">>)
      [] l = "chain" -> Said(<<"c">>, <<"b">>)
      [] l = "compound" -> Said(<<"a", "b">>, <<"'", "a", ".", "b">>)
      [] l = "itself" -> Said(<<"c">>, <<"c">>)
      [] l = "twice" -> Said(<<"c">>, <<"'", "c", "'", "c">>)
      [] l = "comment" -> Nothing(<<"#", " ", "/", "\n">>)
      [] l = "unreadable" -> Nothing(<<"c", "\t", "/", "x", "/", "\n">>)
      [] l = "empty" -> Nothing(<<"c", "\t", "/", "/", " ", "\n">>)
      [] l = "import" -> Nothing(<<".", "i", "\t", "f", " ", "\n">>)

MCHeader == <<".", "p", "\t", "q", "\n">>
InOrder(lines, n) == {f \in [1 .. n -> lines] : \A i, j \in 1 .. n : i # j => f[i] # f[j]}
Orders == InOrder(Lines, 1) \cup InOrder(Lines, 2) \cup InOrder({"a", "b", "chain", "says", "compound"}, 3) \cup {<<"itself">>, <<"twice">>}

CmuLine(l) ==
    CASE l = "a" -> [text |-> <<"A", " ", " ", "^", "o", "u", "\n">>, word |-> <<"a">>,
                     entry |-> PhonemesEntry(ReadPhonemes(<<"^", "o", "u">>).phonemes)]
      [] l = "context" -> [text |-> <<"A", "(", "1", ")", " ", "u", " ", "#", " ", "n", "\n">>, word |-> <<"a">>,
                           entry |-> PhonemesEntry(ReadPhonemes(<<"u">>).phonemes)]
      [] l = "comment" -> Nothing(<<";", ";", ";", " ", "A", " ", "u", "\n">>)
      [] l = "unreadable" -> Nothing(<<"B", " ", "x", "\n">>)
      [] l = "word" -> Nothing(<<"B", "\n">>)
CmuLines == {"a", "context", "comment", "unreadable", "word"}
CmuOrders == InOrder(CmuLines, 1) \cup InOrder(CmuLines, 2)

Imported == <<Line1("b")>>
MCFiles ==
    [o \in Orders |-> [format |-> "cainteoir", is |-> MCHeader \o FlattenSeq([i \in DOMAIN o |-> Line1(o[i]).text])]]
    @@ [o \in {<<"cmu">> \o f : f \in CmuOrders} |->
            [format |-> "cmudict", is |-> FlattenSeq([i \in 1 .. Len(o) - 1 |-> CmuLine(o[i + 1]).text])]]
    @@ (<<"f">> :> [format |-> "cainteoir", is |-> MCHeader \o Line1("b").text])

MCCharacters == DOMAIN Cat \cup DOMAIN MCUpper \cup {"?", "\t", "/", "^", "_", "\"", "#", "x", "i", "f", "q", "(", ")", ";", "n", "o", "u", "B", "C", "c"}

Meaning(name) ==
    LET lines == IF name[1] = "cmu" THEN [i \in 1 .. Len(name) - 1 |-> CmuLine(name[i + 1])]
                 ELSE FlattenSeq([i \in DOMAIN name |-> IF name[i] = "import" THEN Imported ELSE <<Line1(name[i])>>])
    IN  Each(LAMBDA d, line : IF line.entry = Null THEN d ELSE add_entry(d, line.word, line.entry), NoWords, lines)

\* The entries of a dictionary are the lines of its file in their order,
\* whatever is between them.
LoadedIsWritten ==
    phase \notin {"base", "error"} /\ options.dictionary \in DOMAIN Files => base_dict = Meaning(options.dictionary)

\* What is listed as a dictionary is that dictionary when it is read again.
RECURSIVE Again(_, _)
Again(d, r) ==
    With(ReadFile(r), LAMBDA q : IF q.says = "more" THEN Again(d, q)
                                 ELSE IF q.says = "entry" THEN Again(add_entry(d, q.word, q.entry), q)
                                 ELSE [of |-> d, says |-> q.says])

Listing == FlattenSeq([i \in DOMAIN printed |-> printed[i].text])
Header == <<".", "p", "\t", "i", "\n">>
ReadAgain ==
    With(IF options.format = "cmudict" THEN CmuTokensOf(Listing) ELSE FileTokensOf(Header \o Listing),
         LAMBDA all : With([createDictionaryReader(NoName) EXCEPT
                               !.format = options.format, !.mFiles = <<[tokens |-> all, mPhonemeSet |-> FALSE]>>],
                           LAMBDA r : Again(NoWords, r)))

Plain(word) == ~is_multiword_entry(word) \/ options.format = "cainteoir"
ListedReadsBack ==
    /\ phase = "done" /\ Mode = "list_entries" /\ options.format \in {"cainteoir", "cmudict"}
    /\ \A w \in DOMAIN dict : Plain(w)
    => ReadAgain = [of |-> dict, says |-> "end"]

\* A dictionary stays what it is when it is loaded, listed and read again, or
\* compared with itself.
DictionaryIsKept == LoadedIsWritten /\ ListedReadsBack /\ SameAsItself

-----------------------------------------------------------------------------
Loadable == DOMAIN Files \ {<<"f">>, <<"twice">>}
MCCases ==
    {[Command EXCEPT !.document = Block(<<TextItem(t)>>)] : t \in Texts}
    \cup {[Command EXCEPT !.document = <<TextItem(t), Inline>>] : t \in WordTexts}
    \cup {[Command EXCEPT !.document = d] : d \in Divided}
    \cup {[Command EXCEPT !.dictionary = f, !.mode = m, !.format = "cainteoir"] :
              f \in Loadable, m \in {"list_entries", "resolve_say_as_entries"}}
    \cup {[Command EXCEPT !.dictionary = f, !.mode = "list_entries", !.format = "cmudict"] : f \in Loadable}
    \cup {[Command EXCEPT !.dictionary = f, !.source = s, !.mode = m, !.ignore_syllable_breaks = TRUE] :
              f \in {<<"a", "b">>, <<"again", "says">>}, s \in {<<"again", "says">>, <<"a", "b">>, <<"nowhere">>},
              m \in {"pronounce_entries", "compare_entries", "mismatched_entries"}}
    \cup {[Command EXCEPT !.dictionary = f, !.document = Block(<<TextItem(t)>>), !.word_mode = w, !.mode = m, !.format = "cainteoir"] :
              f \in {<<"says", "compound">>, <<"b", "compound", "says">>, <<"nowhere">>}, t \in WordTexts,
              w \in {"only_in_document", "in_dictionary_and_document"}, m \in {"resolve_say_as_entries", "list_entries"}}

\* A dictionary of one say-as entry that is in itself.
RecursionCases == {[Command EXCEPT !.dictionary = <<l>>, !.mode = "resolve_say_as_entries", !.format = "cainteoir"] : l \in {"itself", "twice"}}
=============================================================================
