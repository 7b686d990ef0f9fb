----------------------------- MODULE PhonemeSets -----------------------------
(***************************************************************************)
(* Transcription schemes: phoneme_file_reader and what the schemes make of *)
(* a phoneme file (phoneme/phoneme_file_reader.cpp), and the readers and   *)
(* writers of the features, ipa, arpabet and espeak types                  *)
(* (phoneme/*_phonemeset.cpp).                                             *)
(*                                                                         *)
(* A phoneme is a function from fields to values.  Texts are sequences of  *)
(* lexemes: characters, and in a file and between braces the abbreviation  *)
(* of a feature, a directive and the digits of a code point.  The length   *)
(* limits of the buffers for a transcription are left out.                 *)
(***************************************************************************)
EXTENDS Once, SequencesExt

CONSTANTS
    Features,       \* the [field, value] of each abbreviation
    Unicode,        \* the character of the digits of a code point
    PhonemeFiles    \* the .phon files by name, the parts of a name in a sequence

Fields == {Features[f].field : f \in DOMAIN Features}
None_ == "none"
Zero == [x \in Fields |-> None_]
NotRead == [x \in Fields |-> "error"]

\* phoneme::set, phoneme::get and |, on values that do not overlap.
SetFeature(p, f) == [p EXCEPT ![Features[f].field] = Features[f].value]
HasFeature(p, f) == p[Features[f].field] = Features[f].value
Get(p, mask) == [x \in Fields |-> IF x \in mask THEN p[x] ELSE None_]
Or(p, q) == [x \in Fields |-> IF q[x] = None_ THEN p[x] ELSE q[x]]

Separator_ == SetFeature(Zero, "pau")
ShortPause == SetFeature(Separator_, "est")
SyllableBreak == SetFeature(Zero, "sbr")

\* What is behind the end of a buffer.
NUL == "NUL"
CharAt(text, i) == IF i <= Len(text) THEN text[i] ELSE NUL

-----------------------------------------------------------------------------
(* Features between braces *)

\* One turn of the loop of read_explicit_feature.
FeatureLexeme(r, c) ==
    LET next == [r EXCEPT !.at = @ + 1]
    IN  CASE r.says # "more" -> r
          [] r.says = "more" /\ r.state = "begin" ->
                IF c = "{" THEN [next EXCEPT !.state = "phoneme"]
                ELSE IF c \in {NUL, " ", "\t", "\n"} THEN next ELSE [r EXCEPT !.says = "error"]
          [] r.says = "more" /\ r.state = "phoneme" ->
                IF c \in {",", "}"} THEN [r EXCEPT !.says = "error"]
                ELSE [next EXCEPT !.state = "feature", !.abbrev = c]
          [] r.says = "more" /\ r.state = "feature" ->
                CASE c \notin {",", "}"} -> [next EXCEPT !.abbrev = None_]
                  [] c \in {",", "}"} /\ r.abbrev \notin DOMAIN Features -> [r EXCEPT !.says = "error"]
                  [] OTHER -> [next EXCEPT !.phoneme = SetFeature(@, r.abbrev), !.state = "phoneme",
                                           !.says = IF c = "}" THEN "phoneme" ELSE "more"]

\* Where the text goes on after an error.
NextBrace(text, at, last) ==
    CHOOSE i \in at .. last + 1 : (i > last \/ CharAt(text, i) = "{") /\ \A j \in at .. i - 1 : CharAt(text, j) # "{"

read_explicit_feature(text, at, last) ==
    LET r == Each(FeatureLexeme, [at |-> at, state |-> "begin", abbrev |-> None_, phoneme |-> Zero, says |-> "more"],
                  [i \in 1 .. last + 1 - at |-> CharAt(text, at + i - 1)])
    IN  CASE r.says = "phoneme" -> [at |-> r.at, says |-> "phoneme", phoneme |-> r.phoneme]
          [] r.says = "error" -> [at |-> NextBrace(text, r.at, last), says |-> "error", phoneme |-> Zero]
          [] r.says = "more" -> [at |-> last + 1, says |-> IF r.state = "begin" THEN "end" ELSE "error", phoneme |-> Zero]

\* write_explicit_feature: a feature of each list, of which some are for vowels
\* and some for consonants only.
CONSTANT FeatureLists
write_explicit_feature(p) ==
    LET OfVowels == {"height", "backness", "rounded"}
        OfConsonants == {"voicing", "place", "lateral", "sibilant", "manner"}
        Listed(f) == /\ HasFeature(p, f)
                     /\ Features[f].field \in OfVowels => HasFeature(p, "vwl")
                     /\ Features[f].field \in OfConsonants => HasFeature(p, "con")
        First_(list) == LET held == SelectSeq(list, Listed) IN IF held = <<>> THEN <<>> ELSE <<Head(held)>>
        said == FlattenSeq([i \in DOMAIN FeatureLists |-> First_(FeatureLists[i])])
    IN  <<"{">> \o FlattenSeq([i \in DOMAIN said |-> IF i = 1 THEN <<said[i]>> ELSE <<",", said[i]>>]) \o <<"}">>

-----------------------------------------------------------------------------
(* phoneme_file_reader: mFiles is a stack of texts and positions.  says is  *)
(* "more" inside read(), "entry" when it returns true, "end" when it        *)
(* returns false, "error" when it throws and "endless" when it does not     *)
(* return: a file is left by finding its end, which a loop may have passed. *)

Whitespace == {" ", "\t", "\n"}
NoFeature == [feature |-> None_, context |-> None_]
NoEntry == [type |-> "primary", transcription |-> <<>>, phonemes |-> <<>>, tone_level |-> 0,
            feature |-> NoFeature, change_to |-> NoFeature, context |-> NoFeature]

context_t(name) == [text |-> PhonemeFiles[name], at |-> 1]
Top(r) == Last(r.mFiles)
Here(r) == CharAt(Top(r).text, Top(r).at)
GoTo(r, at) == [r EXCEPT !.mFiles = [@ EXCEPT ![Len(@)].at = at]]
Step(r) == GoTo(r, Top(r).at + 1)
Fails(r) == [r EXCEPT !.says = "error"]
Returns(r) == [r EXCEPT !.says = "entry", !.state = "need_transcription"]

\* The next of some characters; a loop that does not look for the end of the
\* file first stops behind it.
UpTo(r, chars) ==
    LET text == Top(r).text
        found == {i \in Top(r).at .. Len(text) : text[i] \in chars}
    IN  GoTo(r, IF found = {} THEN Len(text) + 2 ELSE CHOOSE i \in found : \A j \in found : i <= j)
Past(r, chars) ==
    LET text == Top(r).text
    IN  GoTo(r, CHOOSE i \in Top(r).at .. Len(text) + 1 :
                    /\ i > Len(text) \/ text[i] \notin chars
                    /\ \A j \in Top(r).at .. i - 1 : text[j] \in chars)

\* read_feature: a feature with its context into a member of the entry.
ReadFeatureInto(r, member) ==
    LET Feature(s, context) ==
            With(Here(s), LAMBDA c :
                IF c \in DOMAIN Features THEN [Step(s) EXCEPT !.entry = (member :> [feature |-> c, context |-> context]) @@ @]
                ELSE Fails(s))
        Marked(s, c) == Feature(IF c \in {"?", "="} THEN Step(s) ELSE s, IF c \in {"?", "="} THEN c ELSE None_)
    IN  With(Past(r, {"\t", " "}), LAMBDA s : Marked(s, Here(s)))

\* The phonemes between two positions.
RECURSIVE PhonemesIn(_, _, _)
PhonemesIn(text, at, last) ==
    LET read == read_explicit_feature(text, at, last)
    IN  IF at > last \/ read.says = "end" THEN <<>>
        ELSE IF read.says = "error" THEN <<NotRead>>
        ELSE <<read.phoneme>> \o PhonemesIn(text, read.at, last)

PhonemeGroup(r) ==
    With(UpTo(Step(r), {"/"}), LAMBDA closing :
    With(PhonemesIn(Top(r).text, Top(r).at + 1, Top(closing).at - 1), LAMBDA phonemes :
        IF r.state # "have_transcription" \/ NotRead \in ToSet(phonemes) THEN Fails(r)
        ELSE Returns([Step(closing) EXCEPT !.entry.phonemes = phonemes, !.entry.type = "primary"])))

\* "> =nzd", "? vwl > =nzd" and "> stp => imp".
Combiner(r) ==
    LET Entry(read) == IF read.says = "error" THEN read ELSE Returns(read)
        Change(arrow) ==
            IF Here(arrow) = "=" /\ Here(Step(arrow)) = ">" /\ Top(arrow).at + 2 <= Len(Top(arrow).text)
            THEN With(ReadFeatureInto(Step(Step(arrow)), "change_to"), LAMBDA change : Entry(change))
            ELSE Fails(arrow)
        Behind(read) ==
            IF read.says = "error" \/ read.entry.feature.context # None_ THEN Entry(read)
            ELSE With(Past(read, {"\t", " "}), LAMBDA arrow : Change(arrow))
    IN  IF r.state \notin {"have_transcription", "have_context"} THEN Fails(r)
        ELSE With(ReadFeatureInto([Step(r) EXCEPT !.entry.type = IF Here(r) = "<" THEN "before" ELSE "after"], "feature"), LAMBDA read : Behind(read))

Levels == ("1" :> 1) @@ ("2" :> 2) @@ ("3" :> 3) @@ ("4" :> 4) @@ ("5" :> 5)
Tone(r) ==
    LET level == Step(r)
    IN  IF r.state # "have_transcription" \/ Here(level) \notin DOMAIN Levels THEN Fails(r)
        ELSE Returns([Step(level) EXCEPT !.entry.type = "tone", !.entry.tone_level = Levels[Here(level)]])

\* A directive and what it is about, which only tabs may be between.
Directive(r) ==
    LET definition == Past(Step(r), {"\t"})
        value == Here(definition)
        after == IF value \in Whitespace \cup {NUL} THEN definition ELSE Step(definition)
    IN  CASE Here(r) = ".import" ->
                IF <<value>> \in DOMAIN PhonemeFiles THEN [after EXCEPT !.mFiles = Append(@, context_t(<<value>>))] ELSE Fails(r)
          [] Here(r) = ".type" -> [after EXCEPT !.phoneme_type = value]

\* A transcription goes on to the next blank, one that is not there included.
Transcription(r) ==
    LET end == UpTo(r, Whitespace)
        written == SubSeq(Top(r).text, Top(r).at, Top(end).at - 1)
        Char(s, c) ==
            CASE s.escape = "no" -> IF c = "\\" THEN [s EXCEPT !.escape = "yes"] ELSE [s EXCEPT !.text = Append(@, c)]
              [] s.escape = "yes" -> IF c = "u" THEN [s EXCEPT !.escape = "u"] ELSE [text |-> Append(s.text, c), escape |-> "no"]
              [] s.escape = "u" -> [text |-> Append(s.text, Unicode[c]), escape |-> "no"]
    IN  [end EXCEPT !.state = "have_transcription",
                    !.entry.transcription = IF Top(end).at > Len(Top(end).text) + 1 THEN @
                                            ELSE Each(Char, [text |-> <<>>, escape |-> "no"], written).text]

FileTurn(r) ==
    LET c == Here(r)
    IN  CASE r.mFiles = <<>> -> [r EXCEPT !.says = "end"]
          [] r.mFiles # <<>> /\ Top(r).at = Len(Top(r).text) + 1 -> [r EXCEPT !.mFiles = Front(@)]
          [] r.mFiles # <<>> /\ Top(r).at > Len(Top(r).text) + 1 -> [r EXCEPT !.says = "endless"]
          [] OTHER ->
                CASE c = "#" -> UpTo(r, {"\n"})
                  [] c \in Whitespace -> Step(r)
                  [] c = "/" -> PhonemeGroup(r)
                  [] c = "?" -> IF r.state = "have_transcription"
                                THEN [ReadFeatureInto(r, "context") EXCEPT !.state = "have_context"] ELSE Fails(r)
                  [] c \in {"<", ">"} -> Combiner(r)
                  [] c = "^" -> Tone(r)
                  [] c \in {".import", ".type"} -> Directive(r)
                  [] OTHER -> CASE r.state = "prelude" -> Returns(r)
                                [] r.state = "need_transcription" -> Transcription(r)
                                [] OTHER -> Fails(r)

RECURSIVE ReadEntry(_)
ReadEntry(r) == IF r.says = "more" THEN ReadEntry(FileTurn(r)) ELSE r

\* read(): the members keep their values but for the three features.
ReadFile(r) ==
    ReadEntry([r EXCEPT !.says = "more", !.entry.feature = NoFeature, !.entry.change_to = NoFeature, !.entry.context = NoFeature])

\* The constructor, whose read() stops where the definitions begin.
phoneme_file_reader(name) ==
    With(ReadFile([mFiles |-> <<context_t(name)>>, state |-> "prelude", phoneme_type |-> None_, entry |-> NoEntry, says |-> "more"]),
         LAMBDA r : IF r.phoneme_type = None_ /\ r.says \in {"entry", "end"} THEN Fails(r) ELSE r)

\* The entries a scheme is made from.
RECURSIVE EntriesFrom(_)
EntriesFrom(r) ==
    With(ReadFile(r), LAMBDA next :
        IF next.says = "entry" THEN With(EntriesFrom(next), LAMBDA rest : [rest EXCEPT !.entries = <<next.entry>> \o @])
        ELSE [says |-> next.says, entries |-> <<>>])

-----------------------------------------------------------------------------
(* transcription_reader and transcription_writer (ipa, kirshenbaum)         *)

In(feature, p) == feature.context = None_ \/ HasFeature(p, feature.feature)
NoItem == [type |-> "none", phoneme |-> Zero, tone |-> 0, rules |-> <<>>]
TonesStart == <<"ts1", "ts2", "ts3", "ts4", "ts5">>
TonesMiddle == <<"tm1", "tm2", "tm3", "tm4", "tm5">>
TonesEnd == <<"te1", "te2", "te3", "te4", "te5">>

\* A transcription can be a modifier of several kinds: the rules add up.
InsertTranscription(items, e) ==
    LET old == IF e.transcription \in DOMAIN items THEN items[e.transcription] ELSE NoItem
        rule == IF e.feature.context = "=" THEN [feature |-> e.feature.feature, context1 |-> e.context, context2 |-> NoFeature]
                ELSE [feature |-> e.change_to.feature, context1 |-> e.feature, context2 |-> e.context]
        item == CASE e.type = "primary" -> [NoItem EXCEPT !.type = "primary", !.phoneme = Head(e.phonemes)]
                  [] e.type = "tone" -> [NoItem EXCEPT !.type = "tone", !.tone = e.tone_level]
                  [] OTHER -> [old EXCEPT !.type = e.type, !.rules = Append(@, rule)]
    IN  (e.transcription :> item) @@ items
transcription_reader(entries) == Each(InsertTranscription, <<>>, entries)

\* A node of a trie.
IsNode(items, path) == \E key \in DOMAIN items : IsPrefix(path, key)

\* next_match: the longest transcription; at the end of the text the start of
\* one is nothing at all, and not an error.
next_match(items, text, at) ==
    LET Ahead(n) == SubSeq(text, at, at + n - 1)
        found == {n \in 1 .. Len(text) + 1 - at : Ahead(n) \in DOMAIN items}
        n == CHOOSE n \in found : \A o \in found : o <= n
    IN  CASE found # {} -> [at |-> at + n, item |-> items[Ahead(n)]]
          [] found = {} /\ IsNode(items, Ahead(Len(text) + 1 - at)) -> [at |-> Len(text) + 1, item |-> NoItem]
          [] OTHER -> [at |-> at, item |-> [NoItem EXCEPT !.type = "error"]]

\* The first rule of a mark that fits the phoneme.
Mark_(p, item, at, pos) ==
    LET fits == SelectSeq(item.rules, LAMBDA rule : In(rule.context1, p) /\ In(rule.context2, p))
    IN  IF fits = <<>> THEN [phoneme |-> p, pos |-> pos] ELSE [phoneme |-> SetFeature(p, Head(fits).feature), pos |-> at]

WithTones(p, tones) ==
    LET n == Len(tones)
        start == SetFeature(p, TonesStart[tones[1]])
        middle == IF n = 3 THEN SetFeature(start, TonesMiddle[tones[2]]) ELSE start
    IN  IF n > 1 THEN SetFeature(middle, TonesEnd[tones[n]]) ELSE middle

RECURSIVE ReadTranscription(_, _, _)
ReadTranscription(items, text, r) ==
    LET match == next_match(items, text, r.at)
        type == match.item.type
        marked == Mark_(r.phoneme, match.item, match.at, r.pos)
        Goes(s) == ReadTranscription(items, text, [s EXCEPT !.at = match.at])
        Says(what, at) == [r EXCEPT !.says = what, !.at = at]
    IN  CASE r.state = "before" /\ type = "error" -> Says("error", match.at + 1)
          [] r.state = "before" /\ type \in {"after", "tone"} -> Says("error", match.at)
          [] r.state = "before" /\ type = "none" -> Says("end", r.at)
          [] r.state = "before" /\ type = "primary" ->
                Goes([r EXCEPT !.phoneme = Or(@, match.item.phoneme), !.state = "after", !.pos = match.at])
          [] r.state = type /\ type \in {"before", "after"} -> Goes([r EXCEPT !.phoneme = marked.phoneme, !.pos = marked.pos])
          [] r.state = "after" /\ type = "tone" ->
                Goes([r EXCEPT !.tones = <<match.item.tone>>, !.pos = match.at, !.state = "tone"])
          [] r.state = "tone" /\ type = "tone" ->
                IF Len(r.tones) = 3 THEN Says("throws", match.at)
                ELSE Goes([r EXCEPT !.tones = Append(@, match.item.tone), !.pos = match.at])
          [] r.state = "after" /\ type \notin {"after", "tone"} -> Says("phoneme", r.pos)
          [] r.state = "tone" /\ type # "tone" -> [Says("phoneme", r.pos) EXCEPT !.phoneme = WithTones(@, r.tones)]

\* The transcription of a phoneme, the rules for marks, and the tones.
transcription_writer(entries) ==
    LET Primary(table, e) == IF e.type = "primary" THEN (Head(e.phonemes) :> e.transcription) @@ table ELSE table
        Tones_(table, e) == IF e.type = "tone" THEN (e.tone_level :> e.transcription) @@ table ELSE table
        Combined(type, sets) == SelectSeq(entries, LAMBDA e : e.type = type /\ (e.feature.context = "=") = sets)
    IN  [phonemes |-> Each(Primary, <<>>, entries), tones |-> Each(Tones_, <<>>, entries),
         before |-> Combined("before", TRUE), after |-> Combined("after", TRUE), modifiers |-> Combined("after", FALSE)]

Main == {"type", "place", "manner", "lateral", "sibilant", "voicing", "rounded", "height", "backness", "diacritized"}
\* What is looked up, less at each attempt.
Masks ==
    LET most == Main \cup {"rhoticized", "phonation", "coarticulation", "articulation", "length"}
    IN  <<most \cup {"syllabicity"}, most, most \ {"length"}, most \ {"length", "coarticulation"}, Main>>

\* A phoneme that has no transcription is changed until one is found.
Lookup(writer, p) ==
    LET Modify(s, rule) ==
            IF s.phoneme \in DOMAIN writer.phonemes \/ ~In(rule.context, s.phoneme) \/ ~In(rule.change_to, s.phoneme) THEN s
            ELSE [phoneme |-> SetFeature(s.phoneme, rule.feature.feature), append |-> s.append \o rule.transcription]
    IN  Each(Modify, [phoneme |-> p, append |-> <<>>], writer.modifiers)

WriteTranscription(writer, p) ==
    LET Found(i) == Lookup(writer, Get(p, Masks[i]))
        known == {i \in DOMAIN Masks : Found(i).phoneme \in DOMAIN writer.phonemes}
        i == CHOOSE i \in known : \A j \in known : i <= j
        rest == Get(p, (Fields \ Masks[i]) \cup {"type"})
        Marks(rules) == FlattenSeq([k \in DOMAIN rules |->
                            IF In(rules[k].context, rest) /\ HasFeature(rest, rules[k].feature.feature) THEN rules[k].transcription ELSE <<>>])
        Tone_(names) == IF \E l \in 1 .. 5 : HasFeature(rest, names[l])
                        THEN writer.tones[CHOOSE l \in 1 .. 5 : HasFeature(rest, names[l])] ELSE <<>>
    IN  IF known = {} THEN [ok |-> FALSE, text |-> <<>>]
        ELSE [ok |-> TRUE,
              text |-> Marks(writer.before) \o writer.phonemes[Found(i).phoneme] \o Marks(writer.after) \o Found(i).append
                           \o Tone_(TonesStart) \o Tone_(TonesMiddle) \o Tone_(TonesEnd)]

-----------------------------------------------------------------------------
(* A scheme: createPhonemeReader and createPhonemeWriter                    *)

\* What the entries of a file of a type may be.
Fits(type, e) ==
    CASE type \in {"ipa", "kirshenbaum"} -> e.type # "primary" \/ Len(e.phonemes) = 1
      [] type \in {"arpabet", "festvox"} -> e.type = "primary" /\ Len(e.phonemes) \in 1 .. 2
      [] type = "espeak" -> e.type = "primary"
      [] OTHER -> FALSE

phonemeset(name) ==
    IF name = <<"features">> THEN [type |-> "features", says |-> "end", entries |-> <<>>]
    ELSE IF name \notin DOMAIN PhonemeFiles THEN [type |-> None_, says |-> "error", entries |-> <<>>]
    ELSE With(phoneme_file_reader(name), LAMBDA r :
         With(IF r.says = "error" THEN [says |-> "error", entries |-> <<>>] ELSE EntriesFrom(r), LAMBDA f :
            [type |-> r.phoneme_type, entries |-> f.entries,
             says |-> IF \A i \in DOMAIN f.entries : Fits(r.phoneme_type, f.entries[i]) THEN f.says ELSE "error"]))

\* For each transcription its phonemes, and for phonemes their transcription.
trie_reader(entries) == Each(LAMBDA t, e : (e.transcription :> e.phonemes) @@ t, <<>>, entries)
trie_writer(entries) == Each(LAMBDA t, e : IF e.phonemes = <<>> THEN t ELSE (e.phonemes :> e.transcription) @@ t, <<>>, entries)

CONSTANT SchemeNames
Scheme(name) ==
    With(phonemeset(name), LAMBDA set :
        IF set.says # "end" THEN [type |-> set.type, says |-> set.says]
        ELSE IF set.type \in {"ipa", "kirshenbaum"}
             THEN [type |-> set.type, says |-> "end",
                   reader |-> transcription_reader(set.entries), writer |-> transcription_writer(set.entries)]
             ELSE [type |-> set.type, says |-> "end", reader |-> trie_reader(set.entries), writer |-> trie_writer(set.entries)])
Schemes == FoldSet(LAMBDA name, table : (name :> Scheme(name)) @@ table, <<>>, SchemeNames)

\* The tables of the reader and the writer, the ones of other languages included.
VARIABLE tables
TablesOf(name) ==
    With(Schemes, LAMBDA of :
        [n \in IF of[name].type = "espeak" THEN {m \in SchemeNames : Head(m) = "espeak"} ELSE {name} |-> of[n]])

\* espeak_reader::switch_language: the file of each language, read when it is
\* first used.  What is behind a hyphen does not belong to the language.
UpToRegion(language) == SubSeq(language, 1, CHOOSE n \in 0 .. Len(language) :
    /\ \A i \in 1 .. n : language[i] # "-"
    /\ n < Len(language) => language[n + 1] = "-")
SwitchLanguage(r, language) ==
    LET s == [r EXCEPT !.mActive = language]
        name == <<"espeak">> \o language
    IN  CASE r.mActive = language \/ language \in DOMAIN r.mPhonemes -> s
          [] OTHER -> IF name \notin DOMAIN tables \/ tables[name].says # "end" THEN [s EXCEPT !.says = "throws"]
                      ELSE [s EXCEPT !.mPhonemes = (language :> name) @@ @]

-----------------------------------------------------------------------------
(* arpabet and espeak: tries of transcriptions and of phonemes              *)

Stressed(p, mark) ==
    CASE mark \in {"1", "'"} -> SetFeature(p, "st1")
      [] mark \in {"2", ","} -> SetFeature(p, "st2")
      [] OTHER -> p
Base(p) == [p EXCEPT !["stress"] = None_]
ItemAt(items, path, nothing) == IF path \in DOMAIN items THEN items[path] ELSE nothing

CONSTANT ArpabetLetters
\* arpabet_reader::parse: one turn of its loop.
ArpabetTurn(items, text, r) ==
    LET c == CharAt(text, r.at)
        next == [r EXCEPT !.at = @ + 1]
        ended == r.at > Len(text)
        letter == ~ended /\ c \in ArpabetLetters
        stress == ~ended /\ c \in {"0", "1", "2"}
        two == ItemAt(items, r.mPosition, <<Zero, Zero>>)
    IN  CASE r.mState = "need_phoneme" ->
                CASE ended -> [r EXCEPT !.says = "end"]
                  [] letter -> [r EXCEPT !.mState = "parsing_phoneme"]
                  [] c \in {" ", "\t"} -> next
                  [] c = "\n" -> [next EXCEPT !.phoneme = Separator_, !.says = "phoneme"]
                  [] OTHER -> [next EXCEPT !.says = "error"]
          [] r.mState = "parsing_phoneme" ->
                CASE stress -> [next EXCEPT !.mStress = c]
                  [] letter /\ ~(c = "-" /\ r.mPosition # <<>>) ->
                        IF IsNode(items, Append(r.mPosition, c)) THEN [next EXCEPT !.mPosition = Append(@, c)]
                        ELSE [r EXCEPT !.mState = "error", !.says = "error"]
                  [] OTHER -> [r EXCEPT !.mState = "emitting_phoneme1"]
          [] r.mState = "error" ->
                CASE ended -> [r EXCEPT !.says = "end"]
                  [] ~ended /\ c \in Whitespace -> [r EXCEPT !.mPosition = <<>>, !.mStress = None_, !.mState = "need_phoneme"]
                  [] OTHER -> next
          [] r.mState = "emitting_phoneme1" ->
                [r EXCEPT !.phoneme = Stressed(two[1], r.mStress), !.mStress = None_, !.mState = "emitting_phoneme2", !.says = "phoneme"]
          [] r.mState = "emitting_phoneme2" ->
                LET s == [r EXCEPT !.mPosition = <<>>, !.mState = "need_phoneme"]
                IN  IF Len(two) = 2 THEN [s EXCEPT !.phoneme = two[2], !.says = "phoneme"] ELSE s

\* espeak_reader::parse, with the trie of each language that was used.
EspeakTurn(items, text, r) ==
    LET c == CharAt(text, r.at)
        next == [r EXCEPT !.at = @ + 1]
        ended == r.at > Len(text)
        Gives(p) == [next EXCEPT !.phoneme = p, !.says = "phoneme"]
        phonemes == ItemAt(items, r.mPosition, <<>>)
        path == Append(r.mPosition, c)
    IN  CASE ended /\ r.mState \notin {"parsing_phoneme", "emitting_phoneme"} -> [r EXCEPT !.says = "end"]
          [] ~ended /\ r.mState = "start_of_line" ->
                CASE c = " " -> [next EXCEPT !.mState = "need_phoneme"]
                  [] c = "_" -> [next EXCEPT !.mState = "parsing_pause_at_start_of_line"]
                  [] OTHER -> [r EXCEPT !.mState = "need_phoneme"]
          [] ~ended /\ r.mState = "need_phoneme" ->
                CASE c = " " -> Gives(ShortPause)
                  [] c = "\n" -> [Gives(Separator_) EXCEPT !.mState = "start_of_line"]
                  [] c \in {"'", ","} -> [next EXCEPT !.mStress = c]
                  [] c = "_" -> [next EXCEPT !.mState = "parsing_pause"]
                  [] c = "|" -> Gives(SyllableBreak)
                  [] c = "(" -> [next EXCEPT !.mState = "parsing_language_switch"]
                  [] OTHER -> [r EXCEPT !.mState = "parsing_phoneme"]
          [] ~ended /\ r.mState = "parsing_pause_at_start_of_line" ->
                [IF c \in {":", "!"} THEN next ELSE r EXCEPT !.mState = "start_of_line"]
          [] ~ended /\ r.mState = "parsing_pause" -> [IF c \in {":", "!", "|"} THEN next ELSE r EXCEPT !.mState = "need_phoneme"]
          [] r.mState = "parsing_phoneme" ->
                CASE ended \/ c \in {" ", "(", "\n", "'", ","} -> [r EXCEPT !.mState = "emitting_phoneme"]
                  [] ~ended /\ IsNode(items, path) -> [next EXCEPT !.mPosition = path, !.match = @ \/ path \in DOMAIN items]
                  [] OTHER -> IF r.match THEN [r EXCEPT !.mState = "emitting_phoneme"] ELSE [next EXCEPT !.says = "error"]
          [] ~ended /\ r.mState = "parsing_language_switch" ->
                IF c = ")" THEN [SwitchLanguage(next, UpToRegion(r.language)) EXCEPT !.mPosition = <<>>, !.mState = "need_phoneme"]
                ELSE [next EXCEPT !.language = Append(@, c)]
          [] r.mState = "emitting_phoneme" ->
                IF r.mIndex = Len(phonemes)
                THEN [r EXCEPT !.mStress = None_, !.mIndex = 0, !.mPosition = <<>>, !.mState = "need_phoneme"]
                ELSE [r EXCEPT !.phoneme = IF r.mIndex = 0 THEN Stressed(phonemes[1], r.mStress) ELSE phonemes[r.mIndex + 1],
                               !.mIndex = @ + 1, !.says = "phoneme"]

\* arpabet_writer: output_phoneme and write.
ArpabetOutput(set, w) ==
    LET space == IF w.mNeedSpace THEN <<" ">> ELSE <<>>
        said == CASE w.mStress = None_ /\ set.type = "arpabet" /\ ~w.mIsSchwa -> <<"0">>
                  [] w.mStress = "primary" -> <<"1">>
                  [] w.mStress = "secondary" -> <<"2">>
                  [] OTHER -> <<>>
    IN  IF w.mPosition \notin DOMAIN set.writer THEN [w EXCEPT !.text = @ \o space, !.mNeedSpace = TRUE, !.says = "throws"]
        ELSE [w EXCEPT !.text = @ \o space \o set.writer[w.mPosition] \o said, !.mNeedSpace = TRUE, !.mIsSchwa = FALSE,
                       !.mState = "need_phoneme"]

IsSchwa(p) == HasFeature(p, "mid") /\ HasFeature(p, "cnt") /\ HasFeature(p, "unr") /\ p["length"] = None_

RECURSIVE ArpabetWrite(_, _, _)
ArpabetWrite(set, w, p) ==
    LET vowel == HasFeature(p, "vwl")
        path == Append(w.mPosition, p)
        s == [w EXCEPT !.mIsSchwa = IF vowel THEN IsSchwa(p) ELSE @, !.mStress = IF vowel THEN p["stress"] ELSE "no"]
        t == [w EXCEPT !.mIsSchwa = FALSE, !.mState = "output_phoneme"]
    IN  CASE w.says = "throws" -> w
          [] w.says # "throws" /\ w.mState = "need_phoneme" ->
                CASE p = Separator_ -> [w EXCEPT !.mState = "have_separator"]
                  [] p # Separator_ /\ IsNode(set.writer, <<Base(p)>>) -> [s EXCEPT !.mPosition = <<Base(p)>>, !.mState = "have_phoneme"]
                  [] OTHER -> s
          [] w.says # "throws" /\ w.mState = "have_phoneme" ->
                IF IsNode(set.writer, path) THEN [t EXCEPT !.mPosition = path] ELSE ArpabetWrite(set, t, p)
          [] w.says # "throws" /\ w.mState = "have_separator" ->
                ArpabetWrite(set, [w EXCEPT !.text = Append(@, "\n"), !.mNeedSpace = FALSE, !.mIsSchwa = FALSE, !.mState = "need_phoneme"], p)
          [] w.says # "throws" /\ w.mState = "output_phoneme" -> ArpabetWrite(set, ArpabetOutput(set, w), p)

\* espeak_writer
EspeakOutput(set, w) ==
    LET said == CASE w.mStress = "primary" -> <<"'">> [] w.mStress = "secondary" -> <<",">> [] OTHER -> <<>>
    IN  [w EXCEPT !.mState = "need_phoneme",
                  !.text = IF w.mPosition \in DOMAIN set.writer THEN @ \o said \o set.writer[w.mPosition] ELSE @]

EspeakWrite(set, w, p) ==
    LET path == Append(w.mPosition, p)
        s == IF w.mState = "have_phoneme" THEN EspeakOutput(set, w) ELSE w
        Puts(c) == [s EXCEPT !.text = Append(@, c)]
    IN  CASE w.mState = "have_phoneme" /\ IsNode(set.writer, path) -> [w EXCEPT !.mPosition = path]
          [] OTHER -> CASE p = Separator_ -> Puts("\n")
                        [] p = ShortPause -> Puts(" ")
                        [] p = SyllableBreak -> Puts("|")
                        [] OTHER -> IF IsNode(set.writer, <<Base(p)>>)
                                    THEN [s EXCEPT !.mStress = p["stress"], !.mPosition = <<Base(p)>>, !.mState = "have_phoneme"]
                                    ELSE [s EXCEPT !.mStress = p["stress"]]

-----------------------------------------------------------------------------
(* phoneme_reader and phoneme_writer of a scheme                            *)

NewReader(name) ==
    With(tables[name].type = "espeak", LAMBDA espeak :
        [at |-> 1, text |-> <<>>, phoneme |-> Zero, says |-> "more", mPosition |-> <<>>, mStress |-> None_, mIndex |-> 0,
         mState |-> IF espeak THEN "start_of_line" ELSE "need_phoneme", match |-> FALSE, language |-> <<>>,
         mActive |-> UpToRegion(Tail(name)),
         mPhonemes |-> IF espeak THEN (UpToRegion(Tail(name)) :> name) ELSE <<>>])

\* A reset() that leaves the state of the parser.
ResetTextOnly(name, r, text) == [r EXCEPT !.at = 1, !.text = text]

\* phonemeset_reader::reset, with the initialize() of the type.
ResetReader(name, r, text) ==
    LET s == [r EXCEPT !.at = 1, !.text = text]
        OfType(type) ==
            CASE type \in {"arpabet", "festvox"} -> [s EXCEPT !.mPosition = <<>>, !.mState = "need_phoneme"]
              [] type = "espeak" -> [SwitchLanguage(s, Tail(name)) EXCEPT !.mPosition = <<>>, !.mState = "start_of_line"]
              [] OTHER -> s
    IN  With(tables[name].type, LAMBDA type : OfType(type))

RECURSIVE Turns(_, _)
Turns(set, r) ==
    IF r.says # "more" THEN r
    ELSE Turns(set, IF set.type = "espeak" THEN EspeakTurn(tables[r.mPhonemes[r.mActive]].reader, r.text, r)
                    ELSE ArpabetTurn(set.reader, r.text, r))

\* phonemeset_reader::read
ReadNext(name, r) ==
    LET features == read_explicit_feature(r.text, r.at, Len(r.text))
        Said(said) == [r EXCEPT !.at = said.at, !.says = said.says, !.phoneme = said.phoneme]
        Of(set) ==
            IF set.type \in {"arpabet", "festvox", "espeak"}
            THEN Turns(set, [r EXCEPT !.says = "more", !.match = FALSE, !.language = <<>>])
            ELSE IF set.type = "features" \/ (set.type = "kirshenbaum" /\ CharAt(r.text, r.at) = "{") THEN With(features, LAMBDA said : Said(said))
            ELSE With(ReadTranscription(set.reader, r.text, [at |-> r.at, pos |-> r.at, state |-> "before", phoneme |-> Zero,
                                                             tones |-> <<>>, says |-> "more"]), LAMBDA said : Said(said))
    IN  With(tables[name], LAMBDA set : Of(set))

NewWriter ==
    [mPosition |-> <<>>, mState |-> "need_phoneme",
     mStress |-> "no", mNeedSpace |-> FALSE, mIsSchwa |-> FALSE, text |-> <<>>, says |-> "true"]

WriteNext(name, w, p) ==
    LET features == [w EXCEPT !.text = @ \o write_explicit_feature(p)]
        Transcribed_(set, said) ==
            IF said.ok THEN [w EXCEPT !.text = @ \o said.text, !.says = "true"]
            ELSE IF set.type = "ipa" THEN [w EXCEPT !.says = "false"] ELSE features
        Of(set) ==
            CASE set.type = "features" -> features
              [] set.type \in {"ipa", "kirshenbaum"} ->
                    With(WriteTranscription(set.writer, p), LAMBDA said : Transcribed_(set, said))
              [] set.type \in {"arpabet", "festvox"} -> ArpabetWrite(set, w, p)
              [] set.type = "espeak" -> EspeakWrite(set, w, p)
    IN  With(tables[name], LAMBDA set : Of(set))

FlushWriter(name, w) ==
    LET Of(set) ==
            CASE set.type \in {"arpabet", "festvox"} /\ w.mState \in {"have_phoneme", "output_phoneme"} ->
                    [ArpabetOutput(set, w) EXCEPT !.mNeedSpace = FALSE]
              [] set.type = "espeak" /\ w.mState = "have_phoneme" -> EspeakOutput(set, w)
              [] OTHER -> w
    IN  With(tables[name], LAMBDA set : Of(set))

-----------------------------------------------------------------------------
(* A client that writes phonemes, and reads with one reader first another   *)
(* text and then the one that it wrote.                                     *)

CONSTANTS Unwritten, Others     \* by scheme, what is to be written and what is read first
VARIABLES scheme, unwritten, written, setWriter, unread, setReader, readBack, setPhase
setVars == <<tables, scheme, unwritten, written, setWriter, unread, setReader, readBack, setPhase>>

SetInit ==
    /\ scheme \in SchemeNames /\ tables = TablesOf(scheme)
    /\ unwritten \in Unwritten[scheme] /\ unread \in {<<other>> : other \in Others[scheme]}
    /\ written = <<>> /\ readBack = <<>>
    /\ setPhase = CASE tables[scheme].says = "end" -> "write" [] tables[scheme].says = "error" -> "refused" [] OTHER -> "endless"
    /\ setWriter = IF setPhase = "write" THEN NewWriter ELSE <<>>
    /\ setReader = IF setPhase = "write" THEN NewReader(scheme) ELSE <<>>

\* A phoneme that the writer says it cannot write is left out.
WriteAPhoneme ==
    /\ setPhase = "write" /\ unwritten # <<>>
    /\ setWriter' = WriteNext(scheme, setWriter, Head(unwritten))
    /\ unwritten' = Tail(unwritten)
    /\ written' = IF setWriter'.says = "true" THEN Append(written, Head(unwritten)) ELSE written
    /\ setPhase' = IF setWriter'.says = "throws" THEN "failed" ELSE setPhase
    /\ UNCHANGED <<tables, scheme, unread, setReader, readBack>>

FlushPhonemes ==
    /\ setPhase = "write" /\ unwritten = <<>>
    /\ setWriter' = FlushWriter(scheme, setWriter)
    /\ unread' = Append(unread, setWriter'.text)
    /\ setPhase' = IF setWriter'.says = "throws" THEN "failed" ELSE "open"
    /\ UNCHANGED <<tables, scheme, unwritten, written, setReader, readBack>>

OpenText ==
    /\ setPhase = "open" /\ unread # <<>>
    /\ setReader' = ResetReader(scheme, setReader, Head(unread))
    /\ unread' = Tail(unread) /\ readBack' = <<>> /\ setPhase' = "read"
    /\ UNCHANGED <<tables, scheme, unwritten, written, setWriter>>

\* An error is reported, and the client reads on.
ReadAPhoneme ==
    /\ setPhase = "read"
    /\ setReader' = ReadNext(scheme, setReader)
    /\ readBack' = CASE setReader'.says = "phoneme" -> Append(readBack, setReader'.phoneme)
                  [] setReader'.says = "error" -> Append(readBack, NotRead)
                  [] OTHER -> readBack
    /\ setPhase' = CASE setReader'.says = "end" -> IF unread = <<>> THEN "done" ELSE "open"
                     [] setReader'.says = "throws" -> "failed"
                     [] OTHER -> "read"
    /\ UNCHANGED <<tables, scheme, unwritten, written, setWriter, unread>>

SetNext == WriteAPhoneme \/ FlushPhonemes \/ OpenText \/ ReadAPhoneme

\* What a scheme writes its reader reads back, phoneme for phoneme, whatever
\* the same reader was given before.
TranscriptionsReadBack == setPhase = "done" => readBack = written
=============================================================================
