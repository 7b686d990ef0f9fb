----------------------------- MODULE Dictionary -----------------------------
(***************************************************************************)
(* Dictionaries (dictionary/dictionary.cpp): words with the pronunciations *)
(* that were added for them, and the pronunciation of a word by looking it *)
(* up, by what it is to be said as, or by the words it is put together of. *)
(*                                                                         *)
(* A word is a sequence of characters, a pronunciation an object: phonemes,*)
(* the buffer of another word, or null.  An entry that is an array itself  *)
(* has no pronunciation: object::get of a key is null for it.              *)
(*                                                                         *)
(* The readers and writers of dictionary files (dictionary/cainteoir.cpp,  *)
(* dictionary/cmudict.cpp, dictionary/espeak.cpp): a reader is a record of *)
(* mFiles, the stack of the files it has open with the tokens that are     *)
(* left of them, and what its last read() said.  One step is one turn of   *)
(* the loop of read().                                                     *)
(***************************************************************************)
EXTENDS DataFiles

CONSTANTS
    Characters,     \* what words and files are written with
    Files,          \* the files by name: [format, is], is their text
    Sounds,         \* the sounds a phoneme set can write
    Upper,          \* toupper of a character
    MaxDepth        \* where the model gives up on a recursion that does not end

\* It gives up behind the depth of the words of what was followed as far as pronounce follows.
ASSUME DictionaryAssumption ==
    /\ \A name \in DOMAIN Files : Files[name].is \in Seq(Characters)
    /\ DOMAIN Upper \subseteq Characters
    /\ Sounds \cap {" ", "^", "_"} = {}
    /\ MaxDepth \in Nat /\ MaxDepth >= 6

Null == [type |-> "null"]
PhonemesEntry(phonemes) == [type |-> "phonemes", phonemes |-> phonemes]
SayAsEntry(word) == [type |-> "buffer", word |-> word]
Nested(entries) == [type |-> "array", entries |-> entries]

NoWords == <<>>

lookup(dict, word) == IF word \in DOMAIN dict THEN dict[word] ELSE <<>>

add_entry(dict, word, entry) ==
    [w \in DOMAIN dict \cup {word} |-> IF w = word THEN Append(lookup(dict, w), entry) ELSE dict[w]]

\* lookup(word).get(0).get("Entry::pronunciation")
Pronunciation(dict, word) ==
    LET entries == lookup(dict, word)
    IN  IF entries = <<>> \/ entries[1].type = "array" THEN Null ELSE entries[1]

-----------------------------------------------------------------------------
(* multiword_entry                                                          *)

StressOf(mode, c) ==
    CASE mode = "hyphenated" /\ c = "-" -> "as_transcribed"
      [] mode = "stressed" /\ c = "'" -> "primary"
      [] mode = "stressed" /\ c = "," -> "secondary"
      [] mode = "stressed" /\ c = "." -> "initial_unstressed"
      [] OTHER -> "none"

\* The word that begins at p: where it is and how it is stressed.  A separator
\* that is the first character belongs to the word, the next one ends it.
advance(text, mode, p) ==
    LET marked == p <= Len(text) /\ StressOf(mode, text[p]) # "none"
        ends == {q \in p + 1 .. Len(text) : StressOf(mode, text[q]) # "none"}
    IN  [first |-> IF marked THEN p + 1 ELSE p,
         next |-> IF ends = {} THEN Len(text) + 1 ELSE CHOOSE q \in ends : \A e \in ends : q <= e,
         stress |-> IF marked THEN StressOf(mode, text[p]) ELSE "as_transcribed"]

\* All the words, until there is no word left.
WordsOf(text, mode) ==
    LET from[p \in 1 .. Len(text) + 1] ==
            LET w == advance(text, mode, p)
            IN  IF w.first > Len(text) THEN <<>>
                ELSE <<[stress |-> w.stress, word |-> SubSeq(text, w.first, w.next - 1)]>> \o from[w.next]
    IN  from[1]

is_multiword(text, mode) == advance(text, mode, 1).next <= Len(text)

-----------------------------------------------------------------------------
(* pronounce                                                                *)

syllable_break == [sound |-> ".", stress |-> "unstressed"]

make_initial_stressed(phonemes, type) ==
    IF type = "as_transcribed" \/ phonemes = <<>> THEN phonemes
    ELSE [phonemes EXCEPT ![1].stress = IF type = "initial_unstressed" THEN "unstressed" ELSE type]

Failure(phonemes) == [ok |-> FALSE, phonemes |-> phonemes, deep |-> FALSE]
Success(phonemes) == [ok |-> TRUE, phonemes |-> phonemes, deep |-> FALSE]
TooDeep == [ok |-> FALSE, phonemes |-> <<>>, deep |-> TRUE]

\* What the rules make of a word; those of a dictionary on its own are none.
NoRules == <<>>
ByRules(rules, word) ==
    IF word \in DOMAIN rules THEN rules[word] ELSE Failure(<<>>)

\* One more word of several: its syllable is broken off when it has no stress.
Add(soFar, part, position, phonemes) ==
    LET broken == IF position > 1 /\ part.stress = "initial_unstressed" THEN <<syllable_break>> ELSE <<>>
    IN  IF ~phonemes.ok THEN [phonemes EXCEPT !.phonemes = <<>>]
        ELSE [soFar EXCEPT !.phonemes = @ \o broken \o make_initial_stressed(phonemes.phonemes, part.stress)]

\* Mutant: one say-as entry is followed.
TooMuchAtOnce(depth) == depth = 1
TooMuchRecursion(depth) == depth = 5

\* The words of a word of several; `said` is what they are said as.
Together(said, words, depth) ==
    LET Said(soFar, i) ==
            IF ~soFar.ok THEN soFar
            ELSE With(said[<<words[i].word, depth>>], LAMBDA p : Add(soFar, words[i], i, p))
    IN  Each(Said, Success(<<>>), [i \in DOMAIN words |-> i])

\* One call of pronounce; `said` is what its calls of itself return.
PronouncedAt(said, dict, rules, word, depth) ==
    LET mode == IF depth = 0 THEN "hyphenated" ELSE "stressed"
        entry == Pronunciation(dict, word)
    IN  IF depth > MaxDepth THEN TooDeep
        ELSE CASE entry.type = "phonemes" -> Success(entry.phonemes)
               [] entry.type = "buffer" ->
                      IF TooMuchRecursion(depth) THEN Failure(<<>>) ELSE said[<<entry.word, depth + 1>>]
               [] entry.type = "null" ->
                      IF ~is_multiword(word, mode) THEN ByRules(rules, word)
                      ELSE With(Together(said, WordsOf(word, mode), depth + 1),
                                LAMBDA all : IF all.ok \/ all.deep THEN all ELSE ByRules(rules, word))

pronounce(dict, text, rules, depth) ==
    LET said[x \in Seq(Characters) \X (0 .. MaxDepth + 1)] == PronouncedAt(said, dict, rules, x[1], x[2])
    IN  said[<<text, depth>>]

-----------------------------------------------------------------------------
(* Phonemes and their transcription: a mark of stress, then the sound.      *)

StressMark == [primary |-> "^", secondary |-> "_", unstressed |-> ""]

ReadSound(p, c) ==
    IF p.failed THEN p
    ELSE CASE c = " " -> p
           [] c = "^" -> [p EXCEPT !.stress = "primary"]
           [] c = "_" -> [p EXCEPT !.stress = "secondary"]
           [] c \in Sounds -> [p EXCEPT !.phonemes = Append(@, [sound |-> c, stress |-> p.stress]), !.stress = "unstressed"]
           [] OTHER -> [p EXCEPT !.failed = TRUE]

\* failed: the phoneme reader throws a phoneme_error.
ReadPhonemes(text) == Each(ReadSound, [phonemes |-> <<>>, stress |-> "unstressed", failed |-> FALSE], text)

Transcribed(phonemes) ==
    FlattenSeq([i \in DOMAIN phonemes |->
        (IF phonemes[i].stress = "unstressed" THEN <<>> ELSE <<StressMark[phonemes[i].stress]>>) \o <<phonemes[i].sound>>])

-----------------------------------------------------------------------------
(* cainteoir_dictionary_reader                                              *)

\* No file is named on the command line.
NoName == <<>>
NoFile == [format |-> "none", is |-> <<>>]
FileOf(name) == IF name \in DOMAIN Files THEN Files[name] ELSE NoFile

Opened(name) == [tokens |-> FileTokensOf(FileOf(name).is), mPhonemeSet |-> FALSE]

\* says: "more", "entry", "end", "throw", "phoneme_error"
Says(reader, what) == [reader EXCEPT !.says = what]
Drop(reader, n) == [reader EXCEPT !.mFiles[1].tokens = SubSeq(@, n + 1, Len(@))]
Entry(reader, word, entry) == [Says(reader, "entry") EXCEPT !.word = word, !.entry = entry]

ReadDirective(reader, directive, rest) ==
    IF rest = <<>> \/ rest[1].type # "directive_contents" THEN Drop(reader, IF rest = <<>> THEN 1 ELSE 2)
    ELSE CASE directive = <<".", "i">> ->
                  IF rest[1].is \notin DOMAIN Files THEN Says(Drop(reader, 2), "throw")
                  ELSE [Drop(reader, 2) EXCEPT !.mFiles = <<Opened(rest[1].is)>> \o @]
           [] directive = <<".", "p">> -> [Drop(reader, 2) EXCEPT !.mFiles[1].mPhonemeSet = TRUE]
           [] OTHER -> Drop(reader, 2)

ReadWord(reader, word, rest) ==
    IF rest = <<>> THEN Says(Drop(reader, 1), "throw")
    ELSE CASE rest[1].type = "text" -> Entry(Drop(reader, 2), word, SayAsEntry(rest[1].is))
           [] rest[1].type = "phonemes" ->
                  IF rest[1].is = <<>> THEN Drop(reader, 2)
                  ELSE IF ~reader.mFiles[1].mPhonemeSet THEN Says(Drop(reader, 2), "throw")
                  ELSE With(ReadPhonemes(rest[1].is),
                            LAMBDA p : IF p.failed THEN Says(Drop(reader, 2), "phoneme_error")
                                       ELSE Entry(Drop(reader, 2), word, PhonemesEntry(p.phonemes)))
           [] OTHER -> Says(Drop(reader, 2), "throw")

ReadCainteoir(reader) ==
    IF reader.mFiles = <<>> THEN Says(reader, "end")
    ELSE LET tokens == reader.mFiles[1].tokens
         IN  IF tokens = <<>> THEN [Says(reader, "more") EXCEPT !.mFiles = Tail(@)]
             ELSE CASE tokens[1].type = "directive" -> ReadDirective(Says(reader, "more"), tokens[1].is, Tail(tokens))
                    [] tokens[1].type \in {"text", "string"} -> ReadWord(Says(reader, "more"), tokens[1].is, Tail(tokens))
                    [] OTHER -> Says(Drop(reader, 1), "throw")

-----------------------------------------------------------------------------
(* cmudict_parser                                                           *)

CmuTurn(r, c) ==
    LET newline == c \in Newline
        Ends(type, state) == IF newline THEN Skip(Return(r, type, "start")) ELSE Take(r, c)
        Word(text) == Take([Go(r, "entry") EXCEPT !.match = text], c)
    IN  CASE r.state = "start" ->
                (CASE c = ";" -> Open(r, "line_comment1")
                   [] c \in {" ", "\t"} \/ newline -> Skip(r)
                   [] OTHER -> Word(<<>>))
          [] r.state = "line_comment1" ->
                (CASE c = ";" -> Skip(Go(r, "line_comment2")) [] newline -> Skip(Go(r, "start")) [] OTHER -> Word(<<";">>))
          [] r.state = "line_comment2" ->
                (CASE c = ";" -> Open(r, "line_comment") [] newline -> Skip(Go(r, "start")) [] OTHER -> Word(<<";", ";">>))
          [] r.state \in {"line_comment", "comment"} -> Ends(r.state, "start")
          [] r.state = "entry" ->
                (CASE c \in {" ", "\t"} -> Skip(Begin(Return(r, "entry", "pronunciation"), "pronunciation"))
                   [] c = "(" -> Skip(Begin(Return(r, "entry", "context"), "context"))
                   [] OTHER -> Ends("entry", "start"))
          [] r.state = "context" ->
                (CASE c = ")" -> Skip(Begin(Return(r, "context", "pronunciation"), "pronunciation"))
                   [] newline -> Skip(Go(r, "start"))
                   [] OTHER -> Take(r, c))
          [] r.state = "pronunciation" ->
                IF c = "#" THEN Skip(Begin(Return(r, "pronunciation", "comment"), "comment")) ELSE Ends("pronunciation", "start")

CmuTokensOf(text) == Each(CmuTurn, NewReader, text).tokens

\* cmudict_dictionary_reader: a word, its context and its pronunciation in this
\* order; what comes in another order is passed over.  The first of the tokens
\* that do not belong together is lost with the word.
Lowered(text) == [i \in DOMAIN text |-> IF \E c \in DOMAIN Upper : Upper[c] = text[i]
                                        THEN CHOOSE c \in DOMAIN Upper : Upper[c] = text[i] ELSE text[i]]

CmuPronounced(reader, pronunciation) ==
    With(ReadPhonemes(pronunciation),
         LAMBDA p : IF p.failed THEN Says([reader EXCEPT !.state = "start"], "phoneme_error")
                    ELSE Entry([reader EXCEPT !.state = "start"], Lowered(reader.word), PhonemesEntry(p.phonemes)))

ReadCmu(reader) ==
    LET tokens == reader.mFiles[1].tokens
        token == tokens[1]
        next == Says(Drop(reader, 1), "more")
    IN  IF tokens = <<>> THEN Says(reader, "end")
        ELSE CASE token.type = "entry" /\ reader.state \in {"start", "entry"} ->
                      [next EXCEPT !.state = "entry", !.word = token.is]
               [] token.type = "context" /\ reader.state = "entry" -> [next EXCEPT !.state = "context"]
               [] token.type = "pronunciation" /\ reader.state = "entry" -> CmuPronounced(next, token.is)
               [] token.type = "pronunciation" /\ reader.state = "context" /\ token.is # <<>> -> CmuPronounced(next, token.is)
               [] OTHER -> [next EXCEPT !.state = "start"]

-----------------------------------------------------------------------------
createDictionaryReader(name) ==
    [format |-> FileOf(name).format, state |-> "start", says |-> "more", word |-> <<>>, entry |-> Null,
     mFiles |-> <<[Opened(name) EXCEPT !.tokens = IF FileOf(name).format = "cmudict" THEN CmuTokensOf(FileOf(name).is) ELSE @]>>]

ReadFile(reader) == IF reader.format = "cmudict" THEN ReadCmu(reader) ELSE ReadCainteoir(reader)

(* The formatters: the characters they write.                               *)

is_multiword_entry(word) == " " \in ToSet(word)

\* Mutant: the word is written as it is.
Unquoted(word) == word
Quoted(word) == IF is_multiword_entry(word) THEN <<"\"">> \o word \o <<"\"">> ELSE word

Bracketed(word) == IF is_multiword_entry(word) THEN <<"(">> \o word \o <<")">> ELSE word
Uppered(word) == [i \in DOMAIN word |-> IF word[i] \in DOMAIN Upper THEN Upper[word[i]] ELSE word[i]]

EntryPhonemes(word, phonemes) == <<"\"">> \o word \o <<"\"", "=", ">", "/">> \o Transcribed(phonemes) \o <<"/", "\n">>
EntrySayAs(word, say_as) == <<"\"">> \o word \o <<"\"", "=", ">", "\"">> \o say_as \o <<"\"", "\n">>
CainteoirPhonemes(word, phonemes) == Quoted(word) \o <<"\t", "/">> \o Transcribed(phonemes) \o <<"/", "\n">>
CainteoirSayAs(word, say_as) == Quoted(word) \o <<"\t">> \o say_as \o <<"\n">>
CmuPhonemes(word, phonemes) == Uppered(word) \o <<" ", " ">> \o Transcribed(phonemes) \o <<"\n">>
EspeakPhonemes(word, phonemes) == Bracketed(word) \o <<"\t">> \o Transcribed(phonemes) \o <<"\n">>
EspeakSayAs(word, say_as) == Bracketed(word) \o <<"\t">> \o say_as \o <<"\n">>

\* createDictionaryFormatter: the lines of a format.
write_phoneme_entry(format, word, phonemes) ==
    CASE format = "none" -> EntryPhonemes(word, phonemes)
      [] format = "cainteoir" -> CainteoirPhonemes(word, phonemes)
      [] format = "cmudict" -> CmuPhonemes(word, phonemes)
      [] format = "espeak" -> EspeakPhonemes(word, phonemes)

\* A cmudict formatter throws instead.
write_say_as_entry(format, word, say_as) ==
    CASE format = "none" -> EntrySayAs(word, say_as)
      [] format = "cainteoir" -> CainteoirSayAs(word, say_as)
      [] format = "espeak" -> EspeakSayAs(word, say_as)
=============================================================================
