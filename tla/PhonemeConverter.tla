-------------------------- MODULE PhonemeConverter --------------------------
(***************************************************************************)
(* The phoneme converter (apps/phoneme-converter.cpp): it reads a          *)
(* transcription up to a separator through an accent converter, goes on    *)
(* after what cannot be read, and places the stress before it prints.      *)
(***************************************************************************)
EXTENDS Syllables, FiniteSets, FiniteSetsExt

-----------------------------------------------------------------------------
(***************************************************************************)
(* The phoneme-to-phoneme converter (phoneme/phoneme_to_phoneme.cpp): it   *)
(* reads phonemes from another reader and replaces the longest sequence    *)
(* its rules have.  What it read too far it keeps and reads again.         *)
(*                                                                         *)
(* A rule is a sequence of sounds and its replacement; the trie the code   *)
(* searches is the set of the rules' prefixes.  The stress stands for all  *)
(* the prosody of a phoneme: no rule looks at it.                          *)
(***************************************************************************)

CONSTANTS
    Sound,          \* ipa::main, ipa::diacritics and ipa::length of a phoneme
    Stress,         \* ipa::stress and the tones
    Rules,          \* the rules: sequence of sounds -> sequence of phonemes
    Unreadable,     \* what the source throws phoneme_error at
    Transcribed          \* the transcriptions that may be read

Phoneme == [sound : Sound, stress : Stress]

ASSUME AccentAssumption ==
    /\ DOMAIN Rules \subseteq Seq(Sound) \ {<<>>}
    /\ Rules \in [DOMAIN Rules -> Seq(Phoneme)]
    /\ Transcribed \subseteq Seq(Phoneme \cup {Unreadable})
    /\ "unspecified" \notin Stress         \* ipa::unspecified is outside of the mask

VARIABLES
    input, source,          \* the transcription, and what mPhonemes has left of it
    mReadQueue,
    mCurrent,               \* what is left of a replacement: mCurrentPhoneme to mLastPhoneme
    mInitialPhonemeProsody, \* a stress, or "unspecified"
    reading,                \* read(): where it is, and its local variables
    returned                \* what its last call returned

accentVars == <<input, source, mReadQueue, mCurrent, mInitialPhonemeProsody, reading, returned>>

Idle == [pc |-> "idle", entry |-> <<>>, match |-> <<>>, read_queue |-> <<>>]
At(pc) == [Idle EXCEPT !.pc = pc]

Result(kind) == [kind |-> kind, phonemes |-> <<>>]
True(phoneme) == [kind |-> "true", phonemes |-> <<phoneme>>]

AccentInit ==
    /\ input \in Transcribed /\ source = input
    /\ mReadQueue = <<>> /\ mCurrent = <<>>
    /\ mInitialPhonemeProsody = "unspecified"
    /\ reading = Idle /\ returned = Result("none")

-----------------------------------------------------------------------------
(* next_phoneme *)

Available == mReadQueue # <<>> \/ (source # <<>> /\ Head(source) # Unreadable)
NextPhoneme == IF mReadQueue # <<>> THEN Head(mReadQueue) ELSE Head(source)
QueueAfter == IF mReadQueue # <<>> THEN Tail(mReadQueue) ELSE <<>>
SourceAfter == IF mReadQueue # <<>> THEN source ELSE Tail(source)

Exhausted == mReadQueue = <<>> /\ source = <<>>

-----------------------------------------------------------------------------
(* read *)

InTrie(sounds) == \E rule \in DOMAIN Rules : IsPrefix(sounds, rule)

\* The next phoneme of a replacement; the first has the prosody of the first
\* phoneme that was matched.
Replace ==
    /\ reading.pc = "enter" /\ mCurrent # <<>>
    /\ returned' = True([Head(mCurrent) EXCEPT !.stress =
                          IF mInitialPhonemeProsody = "unspecified" THEN @ ELSE mInitialPhonemeProsody])
    /\ mInitialPhonemeProsody' = "unspecified"
    /\ mCurrent' = Tail(mCurrent)
    /\ reading' = Idle
    /\ UNCHANGED <<input, source, mReadQueue>>

StartMatch ==
    /\ reading.pc = "enter" /\ mCurrent = <<>>
    /\ reading' = At("match")
    /\ UNCHANGED <<input, source, mReadQueue, mCurrent, mInitialPhonemeProsody, returned>>

Initial == IF reading.entry = <<>> THEN NextPhoneme.stress ELSE mInitialPhonemeProsody

Extended == Append(reading.entry, NextPhoneme.sound)

\* Mutant: what was read ahead is kept when a longer rule matches.
ExtendKeeping ==
    /\ reading.pc = "match" /\ Available
    /\ InTrie(Extended)
    /\ source' = SourceAfter /\ mReadQueue' = QueueAfter
    /\ mInitialPhonemeProsody' = Initial
    /\ reading' = [reading EXCEPT !.entry = Extended,
                                  !.match = IF Extended \in DOMAIN Rules THEN Extended ELSE @,
                                  !.read_queue = IF Extended \in DOMAIN Rules THEN @ ELSE Append(@, NextPhoneme)]
    /\ UNCHANGED <<input, mCurrent, returned>>

\* A phoneme some rule goes on with.
Extend ==
    /\ reading.pc = "match" /\ Available
    /\ InTrie(Extended)
    /\ source' = SourceAfter /\ mReadQueue' = QueueAfter
    /\ mInitialPhonemeProsody' = Initial
    /\ reading' = IF Extended \in DOMAIN Rules
                  THEN [reading EXCEPT !.entry = Extended, !.match = Extended, !.read_queue = <<>>]
                  ELSE [reading EXCEPT !.entry = Extended, !.read_queue = Append(@, NextPhoneme)]
    /\ UNCHANGED <<input, mCurrent, returned>>

\* A match is replaced; without one the first phoneme is read as it is.
AfterMatch ==
    IF reading.match # <<>>
    THEN mCurrent' = Rules[reading.match] /\ reading' = At("enter")
    ELSE reading' = At("unmatched") /\ UNCHANGED mCurrent

\* No rule goes on with this phoneme: everything read since the match is
\* queued, behind what the queue still holds.
Mismatch ==
    /\ reading.pc = "match" /\ Available
    /\ ~InTrie(Extended)
    /\ source' = SourceAfter
    /\ mReadQueue' = QueueAfter \o reading.read_queue \o <<NextPhoneme>>
    /\ mInitialPhonemeProsody' = Initial
    /\ AfterMatch
    /\ UNCHANGED <<input, returned>>

\* The input ends within a rule: what was read since the match is queued.
EndOfInput ==
    /\ reading.pc = "match" /\ Exhausted
    /\ mReadQueue' = reading.read_queue
    /\ AfterMatch
    /\ UNCHANGED <<input, source, mInitialPhonemeProsody, returned>>

Unmatched ==
    /\ reading.pc = "unmatched"
    /\ IF Exhausted
       THEN returned' = Result("false") /\ UNCHANGED <<source, mReadQueue>>
       ELSE returned' = True(NextPhoneme) /\ source' = SourceAfter /\ mReadQueue' = QueueAfter
    /\ reading' = Idle
    /\ UNCHANGED <<input, mCurrent, mInitialPhonemeProsody>>

\* A phoneme_error of the source goes through read() to the caller; the match
\* and the phonemes in the local queue are gone.
Throw ==
    /\ reading.pc = "match" /\ mReadQueue = <<>>
    /\ source # <<>> /\ Head(source) = Unreadable
    /\ source' = Tail(source)
    /\ reading' = Idle /\ returned' = Result("throw")
    /\ UNCHANGED <<input, mReadQueue, mCurrent, mInitialPhonemeProsody>>

ReadConverted == Replace \/ StartMatch \/ Extend \/ Mismatch \/ EndOfInput \/ Unmatched \/ Throw

-----------------------------------------------------------------------------

\* The rules at the start of s, and the longest of them.
Matching(s) == {rule \in DOMAIN Rules : IsPrefix(rule, [i \in 1 .. Len(s) |-> s[i].sound])}
Longest(s) == CHOOSE rule \in Matching(s) : \A other \in Matching(s) : Len(other) <= Len(rule)

Replacement(rule, stress) ==
    [i \in 1 .. Len(Rules[rule]) |->
        IF i = 1 THEN [Rules[rule][1] EXCEPT !.stress = stress] ELSE Rules[rule][i]]

\* What a converter should make of s: from the left, the longest rule each time.
Rewritten(s) ==
    LET from[i \in 1 .. Len(s) + 1] ==
            LET rest == SubSeq(s, i, Len(s))
            IN  IF i > Len(s) THEN <<>>
                ELSE IF Matching(rest) = {} THEN <<s[i]>> \o from[i + 1]
                ELSE Replacement(Longest(rest), s[i].stress) \o from[i + Len(Longest(rest))]
    IN  from[1]
-----------------------------------------------------------------------------

CONSTANT Separator      \* the sound that ends a chunk

ASSUME ConverterAssumption == ClassOf \in [Sound -> Class] /\ Separator \in Sound

VARIABLES
    stress,         \* --vowel-stress, --syllable-stress or neither
    aPhonemes,      \* the phonemes of the chunk that is being read
    printed,        \* the chunks, as read and as printed
    exited

converterVars == <<accentVars, stress, aPhonemes, printed, exited>>

ConverterInit ==
    /\ AccentInit
    /\ stress \in {"as_transcribed", "vowel", "syllable"}
    /\ aPhonemes = <<>> /\ printed = <<>> /\ exited = FALSE

-----------------------------------------------------------------------------
\* A call of read(), whose state nothing else changes.
CallRead ==
    /\ reading.pc # "idle"
    /\ ReadConverted
    /\ UNCHANGED <<stress, aPhonemes, printed, exited>>

ReadAgain ==
    /\ reading' = At("enter") /\ returned' = Result("none")
    /\ UNCHANGED <<input, source, mReadQueue, mCurrent, mInitialPhonemeProsody, stress, exited>>

Waiting == reading.pc = "idle" /\ ~exited

\* The first call, and the call after what could not be read.
FirstRead ==
    /\ Waiting /\ returned.kind \in {"none", "throw"}
    /\ ReadAgain
    /\ UNCHANGED <<aPhonemes, printed>>

\* A phoneme; a separator ends the chunk, which is printed.
PhonemeRead ==
    /\ Waiting /\ returned.kind = "true"
    /\ IF returned.phonemes[1].sound = Separator
       THEN printed' = Append(printed, aPhonemes \o returned.phonemes) /\ aPhonemes' = <<>>
       ELSE aPhonemes' = aPhonemes \o returned.phonemes /\ UNCHANGED printed
    /\ ReadAgain

\* The end; a chunk that it cut short is printed, and read() called once more.
EndRead ==
    /\ Waiting /\ returned.kind = "false"
    /\ IF aPhonemes = <<>>
       THEN exited' = TRUE /\ UNCHANGED <<accentVars, stress, aPhonemes, printed>>
       ELSE printed' = Append(printed, aPhonemes) /\ aPhonemes' = <<>> /\ ReadAgain

\* What main() prints of a chunk.
Written(c) == make_stressed(printed[c], stress)

ConverterNext == CallRead \/ FirstRead \/ PhonemeRead \/ EndRead

-----------------------------------------------------------------------------

\* A rule that fails after two phonemes or more has a shorter one before it.
PrefixesAreRules == \A rule \in DOMAIN Rules : \A n \in 2 .. Len(rule) : SubSeq(rule, 1, n) \in DOMAIN Rules

\* What was read until now, without the places where chunks were cut.
Converted == FlattenSeq(printed)

Errors == {i \in 1 .. Len(input) : input[i] = Unreadable}
AfterErrors == IF Errors = {} THEN input ELSE SubSeq(input, Max(Errors) + 1, Len(input))

\* The longest rule is applied from the left, whatever was read too far and
\* read again and wherever chunks are cut; after something that cannot be read
\* the rest is converted as if nothing had come before it.
AccentIsApplied ==
    exited => IF Errors = {} THEN Converted = Rewritten(input)
                             ELSE IsSuffix(Rewritten(AfterErrors), Converted)

Nuclei(phonemes) == {k \in 1 .. Len(phonemes) : ClassOf[phonemes[k].sound] = "vowel"}

\* Syllables follow each other without overlap, each has its nucleus before its
\* coda, every vowel is in one, the only vowel of it, and no boundary parts an
\* affricate.
SyllablesPartition ==
    exited => \A c \in 1 .. Len(printed) :
        LET phonemes == printed[c]
            syllables == SyllablesOf(phonemes)
            inside(k, s) == s.onset <= k /\ k < s.end
        IN  /\ \A i \in 1 .. Len(syllables) :
                   LET s == syllables[i]
                   IN  /\ s.onset <= s.nucleus /\ s.nucleus < s.coda /\ s.coda <= s.end
                       /\ i > 1 => syllables[i - 1].end <= s.onset
                       /\ Cardinality({k \in Nuclei(phonemes) : inside(k, s)}) <= 1
                       /\ s.end <= Len(phonemes) => ClassOf[phonemes[s.end - 1].sound] # "joined"
            /\ \A k \in Nuclei(phonemes) : \E i \in 1 .. Len(syllables) : inside(k, syllables[i])

\* Placing the stress moves it within its syllable and changes nothing else;
\* moved to the vowels and back it is where it was moved to directly.
StressStaysInSyllable ==
    exited => \A c \in 1 .. Len(printed) :
        LET before == printed[c]
            after == Written(c)
            Stressed(phonemes, s) == {k \in s.onset .. s.end - 1 : phonemes[k].stress # "unstressed"}
        IN  /\ \A i \in 1 .. Len(SyllablesOf(before)) :
                   LET s == SyllablesOf(before)[i]
                   IN  Stressed(after, s) = {} <=> Stressed(before, s) = {}
            /\ \A k \in 1 .. Len(before) : after[k].sound = before[k].sound
            /\ make_syllable_stressed(make_vowel_stressed(before)) = make_syllable_stressed(before)

\* What is printed has the syllables and the stresses of what was read.
SyllablesKeepStress == SyllablesPartition /\ StressStaysInSyllable

\* The converter comes to the end of its input.
Exits == <>exited
=============================================================================
