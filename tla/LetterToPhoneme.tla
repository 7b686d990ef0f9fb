--------------------------- MODULE LetterToPhoneme ---------------------------
(***************************************************************************)
(* The reader of phonemes that a language file gives: the constructors of  *)
(* ruleset (tts/letter_to_phoneme.cpp) and of its rewriter                 *)
(* (tts/lexical_rewrite_rules.cpp) walk the sections of the file, reset    *)
(* takes a word and each read() delivers one phoneme of it.                *)
(*                                                                         *)
(* A client reads a word until read() returns false or throws; the words   *)
(* are Words, and MaxWords of them are read.                               *)
(***************************************************************************)
EXTENDS LanguageCompiler

CONSTANTS
    Words,          \* the words a client has
    MaxWords,       \* how many it reads
    LocaleMatches   \* the locales of conditions that the client's locale is a subtag of

ASSUME WordsAssumption == Words \subseteq Seq(UNION {ToSet(word) : word \in Words})

VARIABLES
    at,             \* where the walk through the file is
    lang,           \* what it found
    loaded,         \* "no", "yes" or why it failed
    mBuffer,        \* the word after the rewriting
    mCurrent,       \* where the next rule is sought
    phonemes,       \* the phonemes of the last rule that are still to be delivered
    phoneme,        \* the phoneme read() delivered last
    reading,        \* "idle", "reading", "end" or "throw"
    spans,          \* the rules of this word: [from, to, phonemes, ahead, rest]
    count           \* the words that were begun

loaderVars == <<at, lang, loaded>>
readerVars == <<mBuffer, mCurrent, phonemes, phoneme, reading, spans, count>>
vars == <<compilerVars, loaderVars, readerVars>>

Init ==
    /\ CompilerInit
    /\ at = 0
    /\ lang = [classes |-> NoEntries, rewrite |-> NoEntries, l2p |-> NoEntries, flags |-> {}, boundary |-> " "]
    /\ loaded = "no"
    /\ mBuffer = <<>> /\ mCurrent = 1 /\ phonemes = <<>> /\ phoneme = "unspecified"
    /\ reading = "idle" /\ spans = <<>> /\ count = 0

-----------------------------------------------------------------------------
(* The constructors.                                                        *)

RulesOfShort(rows) ==
    LET end == SelectInSeq(rows, LAMBDA row : StringAt(file, row[1]) = <<>>)
    IN  [i \in 1 .. end - 2 |-> Parts(StringAt(file, rows[i][1])) @@ [value |-> StringAt(file, rows[i][2])]]

\* The rules of a group, up to the one without a pattern.
RulesOf(rows) ==
    LET end == SelectInSeq(rows, LAMBDA row : StringAt(file, row[1]) = <<>>)
    IN  [i \in 1 .. end - 1 |-> Parts(StringAt(file, rows[i][1])) @@ [value |-> StringAt(file, rows[i][2])]]

FlagsOf(s) ==
    LET Set(flags, i) ==
            IF StringAt(file, s.rows[i][1]) \notin LocaleMatches THEN flags
            ELSE IF s.of[i].set THEN flags \cup {Flags[s.of[i].c]} ELSE flags \ {Flags[s.of[i].c]}
    IN  Each(Set, lang.flags, [i \in 1 .. s.entries |-> i])

Entry(magic) == CASE magic = "CND" -> <<5, 6>> [] magic = "CLS" -> <<6, 4>> [] magic = "DIC" -> <<5, 8>> [] OTHER -> <<6, 8>>

\* Where the walk goes on behind a section, and what the language is with it.
BehindSection(s) ==
    IF s.magic = "LANGDB" THEN at + 17
    ELSE IF s.magic = "STR" THEN s.next
    ELSE at + Entry(s.magic)[1] + (s.entries % 65536) * Entry(s.magic)[2]

WithSection(s) ==
    CASE s.magic = "LANGDB" -> [lang EXCEPT !.boundary = s.boundary]
      [] s.magic = "CND" -> [lang EXCEPT !.flags = FlagsOf(s)]
      [] s.magic = "CLS" -> [lang EXCEPT !.classes = (s.of :> [i \in DOMAIN s.rows |-> StringAt(file, s.rows[i][1])]) @@ @]
      [] s.magic = "LRR" -> [lang EXCEPT !.rewrite = (s.of :> RulesOf(s.rows)) @@ @]
      [] s.magic = "L2P" -> [lang EXCEPT !.l2p = (s.of :> RulesOf(s.rows)) @@ @]
      [] OTHER -> lang

LoadSection ==
    /\ compiled = "yes" /\ loaded = "no"
    /\ at < file.size
    /\ UNCHANGED <<compilerVars, readerVars>>
    /\ IF at \notin DOMAIN file.sections
       THEN loaded' = "unsupported section in the language file" /\ UNCHANGED <<at, lang>>
       ELSE /\ at' = BehindSection(file.sections[at])
            /\ lang' = WithSection(file.sections[at])
            /\ UNCHANGED loaded

\* What the reader uses of the file is in lang from here on.
LoadEnd ==
    /\ compiled = "yes" /\ loaded = "no"
    /\ at >= file.size
    /\ loaded' = "yes"
    /\ file' = NewFile
    /\ UNCHANGED <<source, next, section, part, lastRule, item, db, compiled, at, lang, readerVars>>

-----------------------------------------------------------------------------
(* The reader.                                                              *)

Reset(word) ==
    /\ loaded = "yes"
    /\ reading # "reading"
    /\ count < MaxWords
    /\ mBuffer' = rewrite(lang, word)
    /\ mCurrent' = 1
    /\ phonemes' = <<>>
    /\ phoneme' = "unspecified"
    /\ reading' = "reading"
    /\ spans' = <<>>
    /\ count' = count + 1
    /\ UNCHANGED <<compilerVars, loaderVars>>

\* read() with phonemes of the last rule left.
ReadPhoneme ==
    /\ reading = "reading"
    /\ phonemes # <<>>
    /\ phoneme' = Head(phonemes)
    /\ phonemes' = Tail(phonemes)
    /\ UNCHANGED <<compilerVars, loaderVars, mBuffer, mCurrent, reading, spans, count>>

NextMatchForgetting == next_match(lang, mBuffer, mCurrent, "unspecified", FALSE)
NextMatch == next_match(lang, mBuffer, mCurrent, phoneme, FALSE)

\* read() when they are used up: the next rule, which may have no phonemes.
ReadMatch ==
    /\ reading = "reading"
    /\ phonemes = <<>>
    /\ LET match == NextMatch
       IN  IF match.kind = "match"
           THEN /\ mCurrent' = match.next
                /\ phonemes' = match.phonemes
                /\ spans' = Append(spans, [from |-> mCurrent, to |-> match.next, previous |-> phoneme,
                                           phonemes |-> match.phonemes, ahead |-> match.ahead])
                /\ UNCHANGED reading
           ELSE /\ reading' = match.kind
                /\ UNCHANGED <<mCurrent, phonemes, spans>>
    /\ UNCHANGED <<compilerVars, loaderVars, mBuffer, phoneme, count>>

Next ==
    \/ Compile /\ UNCHANGED <<loaderVars, readerVars>>
    \/ LoadSection \/ LoadEnd
    \/ \E word \in Words : Reset(word)
    \/ ReadPhoneme \/ ReadMatch

Spec == Init /\ [][Next]_vars /\ WF_vars(Compile /\ UNCHANGED <<loaderVars, readerVars>>)
             /\ WF_vars(LoadSection \/ LoadEnd) /\ WF_vars(ReadPhoneme \/ ReadMatch)
-----------------------------------------------------------------------------
(* What a reader is to do.                                                  *)

\* A language whose rules are sequences of elements that begin with the letter
\* their group is of, and whose pronunciation rules stand for letters.
IsSequence(s) == s \in Seq(ToSet(s))

WellGrouped(groups) ==
    \A c \in DOMAIN groups :
        /\ IsSequence(groups[c]) /\ Kind(c) = "letter"
        /\ \A rule \in ToSet(groups[c]) :
               /\ IsSequence(rule.context) /\ IsSequence(rule.right) /\ IsSequence(rule.value)
               /\ rule.context # <<>> /\ Head(rule.context) = c

PlainLanguage(l) ==
    /\ WellGrouped(l.rewrite) /\ WellGrouped(l.l2p)
    /\ \A c \in DOMAIN l.l2p : \A rule \in ToSet(l.l2p[c]) :
           /\ \A e \in ToSet(rule.context) : Kind(e) = "letter"
           /\ ToSet(rule.value) \subseteq Phonemes
    /\ \A c \in DOMAIN l.classes : IsSequence(l.classes[c]) /\ \A s \in ToSet(l.classes[c]) : IsSequence(s)

\* A rule spoke the letters from `first` on: they are its context, and what was
\* said are its phonemes.
Spoken(span, first) ==
    /\ mBuffer[first] # lang.boundary /\ \A p \in span.from .. first - 1 : mBuffer[p] = lang.boundary
    /\ \E rule \in ToSet(lang.l2p[mBuffer[first]]) :
           rule.context = SubSeq(mBuffer, first, span.to - 1) /\ rule.value = span.phonemes

\* Every letter of a word that was read to its end belongs to one rule, and what
\* it says is what that rule gives for exactly those letters: the contexts a rule
\* looks at are not swallowed, and no letter is passed over but boundaries.
EveryLetterPronounced ==
    reading = "end" =>
        /\ \A p \in 1 .. Len(mBuffer) :
               mBuffer[p] # lang.boundary => \E i \in 1 .. Len(spans) : p \in spans[i].from .. spans[i].to - 1
        /\ \A i \in 1 .. Len(spans) : \E first \in spans[i].from .. spans[i].to - 1 : Spoken(spans[i], first)

Following(i) == FlattenSeq([j \in 1 .. Len(spans) - i |-> spans[i + j].phonemes])

\* The phonemes that a rule was chosen for, because they come next, do come next.
LookAheadIsAsRead ==
    reading = "end" => \A i \in 1 .. Len(spans) : IsPrefix(spans[i].ahead, Following(i))

\* The same for the rules of at most one phoneme.
AheadComesTrue ==
    reading = "end" =>
        \A i \in 1 .. Len(spans) : Len(spans[i].phonemes) <= 1 => IsPrefix(spans[i].ahead, Following(i))

\* A word that was begun is read to its end.
WordEnds == reading = "reading" ~> reading = "end"
=============================================================================
