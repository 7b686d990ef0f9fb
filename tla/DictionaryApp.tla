--------------------------- MODULE DictionaryApp ---------------------------
(***************************************************************************)
(* The dictionary program (apps/dictionary.cpp): it reads a dictionary, or *)
(* the words of a document and what a dictionary has of them, and lists,   *)
(* resolves, pronounces or compares the entries.                           *)
(*                                                                         *)
(* The entries of a dictionary come in the order of their hashes: in any.  *)
(***************************************************************************)
EXTENDS TextReader, Dictionary, Syllables

CONSTANT Cases      \* the command lines: [dictionary, source, document, mode, word_mode, format, ...]

ASSUME ProgramAssumption ==
    /\ \A command \in Cases : command.document \in Seq(Item)
    /\ Char \cup {"?"} \subseteq Characters

VARIABLES
    options,        \* the command line
    phase,          \* "base", "source", "document", "entries", "done" or why the program ended
    reader,         \* the dictionary reader that is at work
    base_dict, src_dict, dict,
    taken,          \* the tokens of the document that were looked at
    words,          \* how many words it says it has
    remaining,      \* the words of dict whose entries are still to be written
    printed         \* what it wrote of each word, in this order

appVars == <<options, phase, reader, base_dict, src_dict, dict, taken, words, remaining, printed>>
vars == <<textVars, appVars>>

\* The mode that is in force: a document whose words are to be in a format is listed.
Mode == IF options.mode = "from_document" /\ options.format # "none" THEN "list_entries" ELSE options.mode

IsWord(type) == type \in {"word_uppercase", "word_lowercase", "word_capitalized", "word_mixedcase", "word_script"}
TextOf(token) == [i \in DOMAIN token.text |-> token.text[i].c]

Init ==
    /\ options \in Cases
    /\ TextInit(options.document)
    /\ phase = "base"
    /\ reader = createDictionaryReader(options.dictionary)
    /\ base_dict = NoWords /\ src_dict = NoWords /\ dict = NoWords
    /\ taken = 0 /\ words = 0
    /\ remaining = {} /\ printed = <<>>

-----------------------------------------------------------------------------
(* The dictionaries: add_dictionary_entries for the one and for the source. *)

ReadOn == reader' \in {ReadFile(reader)}

\* Mutant: the end of a dictionary goes by unnoticed.
AfterEnd(says) == IF says = "throw" THEN "throw" ELSE "more"
After(says) == CASE says = "end" -> "end" [] says = "throw" -> "throw" [] OTHER -> "more"

Loaded(d) == IF reader'.says = "entry" THEN add_entry(d, reader'.word, reader'.entry) ELSE d

\* What comes after the dictionary: a document, unless words are merged with it.
NeedsDocument == options.dictionary = NoName \/ options.word_mode # "merge"

LoadBase ==
    /\ phase = "base" /\ options.dictionary # NoName /\ reader.format # "none"
    /\ ReadOn
    /\ base_dict' = Loaded(base_dict)
    /\ phase' = CASE After(reader'.says) = "more" -> "base"
                  [] After(reader'.says) = "throw" -> "error"
                  [] OTHER -> IF NeedsDocument THEN "document" ELSE "source"
    /\ dict' = IF After(reader'.says) = "end" /\ options.word_mode = "merge" THEN base_dict ELSE dict
    /\ words' = Cardinality(DOMAIN dict')
    /\ UNCHANGED <<textVars, options, src_dict, taken, remaining, printed>>

NoBase ==
    /\ phase = "base"
    /\ options.dictionary = NoName \/ reader.format = "none"
    /\ phase' = IF options.dictionary = NoName THEN "document" ELSE "unsupported"
    /\ UNCHANGED <<textVars, options, reader, base_dict, src_dict, dict, taken, words, remaining, printed>>

-----------------------------------------------------------------------------
(* from_document                                                            *)

ReadDocument ==
    /\ phase = "document" /\ taken = Len(tokens) /\ mReaderState # "end"
    /\ ReadToken
    /\ UNCHANGED appVars

\* What is added for a word of the document.
FromDocument(word) ==
    LET match == Pronunciation(base_dict, word)
        said == pronounce(base_dict, word, NoRules, 0)
    IN  CASE match.type = "null" /\ options.word_mode # "in_dictionary_and_document" -> {SayAsEntry(word)}
          [] match.type = "buffer" /\ options.word_mode = "in_dictionary_and_document" /\ said.ok ->
                 {PhonemesEntry(said.phonemes)}
          [] match.type = "phonemes" /\ options.word_mode = "in_dictionary_and_document" ->
                 {Nested(lookup(base_dict, word))}
          [] OTHER -> {}

TakeToken ==
    /\ phase = "document" /\ taken < Len(tokens)
    /\ taken' = taken + 1
    /\ LET token == tokens[taken + 1]
       IN \E add \in {IF IsWord(token.type) THEN FromDocument(TextOf(token)) ELSE {}} :
           /\ dict' = IF add = {} THEN dict ELSE add_entry(dict, TextOf(token), CHOOSE entry \in add : TRUE)
           /\ words' = words + Cardinality(add)
    /\ UNCHANGED <<textVars, options, phase, reader, base_dict, src_dict, remaining, printed>>

EndOfDocument ==
    /\ phase = "document" /\ taken = Len(tokens) /\ mReaderState = "end"
    /\ phase' = "source"
    /\ UNCHANGED <<textVars, options, reader, base_dict, src_dict, dict, taken, words, remaining, printed>>

OpenSource ==
    /\ phase = "source"
    /\ IF options.source = NoName
       THEN phase' = "entries" /\ remaining' = DOMAIN dict /\ UNCHANGED reader
       ELSE /\ reader' \in {createDictionaryReader(options.source)}
            /\ phase' = IF reader'.format = "none" THEN "unsupported" ELSE "reading source"
            /\ UNCHANGED remaining
    /\ UNCHANGED <<textVars, options, base_dict, src_dict, dict, taken, words, printed>>

LoadSource ==
    /\ phase = "reading source"
    /\ ReadOn
    /\ src_dict' = Loaded(src_dict)
    /\ phase' = CASE After(reader'.says) = "more" -> phase
                  [] After(reader'.says) = "throw" -> "error"
                  [] OTHER -> "entries"
    /\ remaining' = IF phase' = "entries" THEN DOMAIN dict ELSE remaining
    /\ UNCHANGED <<textVars, options, base_dict, dict, taken, words, printed>>

-----------------------------------------------------------------------------
(* The entries.                                                             *)

\* formatDictionary: what is written of one entry of a word; "crash" when there
\* is nothing it could be said as, "throw" when the format does not have it.
Line(word, entry) ==
    LET said == pronounce(dict, word, NoRules, 0)
    IN  CASE entry.type = "phonemes" -> <<[word |-> word, text |-> write_phoneme_entry(options.format, word, entry.phonemes)]>>
          [] Mode = "resolve_say_as_entries" /\ entry.type # "phonemes" ->
                 IF said.ok THEN <<[word |-> word, text |-> write_phoneme_entry(options.format, word, said.phonemes)]>> ELSE <<>>
          [] entry.type = "buffer" /\ Mode # "resolve_say_as_entries" ->
                 IF options.format = "cmudict" THEN <<[word |-> word, text |-> <<"throw">>]>>
                 ELSE <<[word |-> word, text |-> write_say_as_entry(options.format, word, entry.word)]>>
          [] OTHER -> <<[word |-> word, text |-> <<"crash">>]>>

FormatEntry(word) ==
    /\ phase = "entries" /\ word \in remaining
    /\ Mode \in {"list_entries", "resolve_say_as_entries"}
    /\ remaining' = remaining \ {word}
    /\ \E lines \in {FlattenSeq([i \in DOMAIN dict[word] |-> Line(word, dict[word][i])])} :
       LET failed == SelectInSeq(lines, LAMBDA line : line.text \in {<<"throw">>, <<"crash">>})
       IN  /\ printed' = printed \o (IF failed = 0 THEN lines ELSE SubSeq(lines, 1, failed - 1))
           /\ phase' = IF failed = 0 THEN phase ELSE IF lines[failed].text = <<"throw">> THEN "error" ELSE "crash"
    /\ UNCHANGED <<textVars, options, reader, base_dict, src_dict, dict, taken, words>>

Same(a, b) == IF options.ignore_stress THEN a.sound = b.sound ELSE a = b

\* matches(): the two go on together, over the syllable breaks when these are
\* ignored; one of them may have a break left when the other is at its end.
Matching(a, b) ==
    LET from[i \in 1 .. Len(a) + 1, j \in 1 .. Len(b) + 1] ==
            IF i > Len(a) \/ j > Len(b) THEN i > Len(a) /\ j > Len(b)
            ELSE IF options.ignore_syllable_breaks /\ a[i] = syllable_break THEN from[i + 1, j]
            ELSE IF options.ignore_syllable_breaks /\ b[j] = syllable_break THEN from[i, j + 1]
            ELSE Same(a[i], b[j]) /\ from[i + 1, j + 1]
    IN  from[1, 1]

Variant(word) == ToSet(word) \cap {"@", "^"} # {}

\* pronounce() for one word: what the dictionary has against what the source
\* makes of it.
Compared(word) ==
    LET has == pronounce(dict, word, NoRules, 0)
        rules == pronounce(src_dict, word, NoRules, 0)
        pronounced == make_stressed(rules.phonemes, options.stress)
        match == Matching(pronounced, has.phonemes)
        Shown(text, says) == <<[word |-> word, text |-> text, says |-> says]>>
    IN  CASE options.mode # "pronounce_entries" /\ ~has.ok -> Shown(<<>>, "missing entry")
          [] (options.mode = "pronounce_entries" \/ has.ok) /\ ~rules.ok -> Shown(<<>>, "cannot pronounce")
          [] options.mode = "mismatched_entries" /\ has.ok /\ rules.ok ->
                 IF match THEN <<>> ELSE Shown(has.phonemes, "mismatched")
          [] options.mode = "compare_entries" /\ has.ok /\ rules.ok ->
                 Shown(has.phonemes, IF match THEN "matched" ELSE "mismatched")
          [] OTHER -> Shown(pronounced, "pronounced")

CompareEntry(word) ==
    /\ phase = "entries" /\ word \in remaining
    /\ Mode \in {"pronounce_entries", "compare_entries", "mismatched_entries"}
    /\ remaining' = remaining \ {word}
    /\ printed' \in {IF Variant(word) THEN printed ELSE printed \o Compared(word)}
    /\ UNCHANGED <<textVars, options, phase, reader, base_dict, src_dict, dict, taken, words>>

Done ==
    /\ phase = "entries" /\ (remaining = {} \/ Mode = "from_document")
    /\ phase' = "done"
    /\ UNCHANGED <<textVars, options, reader, base_dict, src_dict, dict, taken, words, remaining, printed>>

Next ==
    \/ LoadBase \/ NoBase
    \/ ReadDocument \/ TakeToken \/ EndOfDocument
    \/ OpenSource \/ LoadSource
    \/ \E word \in remaining : FormatEntry(word) \/ CompareEntry(word)
    \/ Done

Spec == Init /\ [][Next]_vars /\ WF_vars(Next)
-----------------------------------------------------------------------------
(* What the program is to do.                                               *)

\* What a word is said as, n entries further on.
SaidAs(word, n) ==
    LET as[k \in 0 .. n] ==
            IF k = 0 THEN word
            ELSE IF Pronunciation(dict, as[k - 1]).type = "buffer" THEN Pronunciation(dict, as[k - 1]).word ELSE as[k - 1]
    IN  as[n]

SoundsOf(phonemes) ==
    FlattenSeq([i \in DOMAIN phonemes |-> IF phonemes[i].sound = "." THEN <<>> ELSE <<phonemes[i].sound>>])

\* The first line of a word says that it has these phonemes.
SaidFirst(word, phonemes) ==
    LET lines == {i \in DOMAIN printed : printed[i].word = word}
    IN  \E i \in lines : /\ \A j \in lines : i <= j
                         /\ printed[i].text = write_phoneme_entry(options.format, word, phonemes)

\* A word that is said as another one is said like that one, however many words
\* are between, and a word of several has the sounds of its words.
ResolvedIsSaid ==
    phase = "done" /\ Mode = "resolve_say_as_entries" =>
        \A word \in DOMAIN dict :
            LET as == SaidAs(word, 5)
                is == Pronunciation(dict, as)
                mode == IF as = word THEN "hyphenated" ELSE "stressed"
                parts == WordsOf(as, mode)
                Of(part) == Pronunciation(dict, part.word)
                said == pronounce(dict, word, NoRules, 0).phonemes
            IN  /\ is.type = "phonemes" => SaidFirst(word, is.phonemes)
                /\ is.type = "null" /\ is_multiword(as, mode) /\ (\A i \in DOMAIN parts : Of(parts[i]).type = "phonemes") =>
                       /\ SaidFirst(word, said)
                       /\ SoundsOf(said) = FlattenSeq([i \in DOMAIN parts |-> SoundsOf(Of(parts[i]).phonemes)])

\* A dictionary that is compared with itself has no entry it does not match.
SameAsItself ==
    /\ Mode = "compare_entries" /\ options.source = options.dictionary
    /\ options.stress = "as_transcribed" /\ options.word_mode = "merge"
    => \A i \in DOMAIN printed : printed[i].says # "mismatched"

\* A recursion of say-as entries is found out.
RecursionIsCaught == phase = "entries" => \A word \in DOMAIN dict : ~pronounce(dict, word, NoRules, 0).deep

\* Every command line comes to its end.
ProgramEnds == <>(phase \in {"done", "error", "unsupported", "crash"})
=============================================================================
