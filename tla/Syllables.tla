----------------------------- MODULE Syllables -----------------------------
(***************************************************************************)
(* The syllable reader and the placement of stress                         *)
(* (phoneme/phoneme_stress.cpp).  A syllable is a record of positions: its *)
(* onset, its nucleus, its coda and its end, which is the position after   *)
(* its last phoneme.                                                       *)
(***************************************************************************)
EXTENDS Integers, Sequences, SequencesExt

CONSTANT ClassOf        \* the class of each sound, one of Class

Class == {"vowel", "glide", "consonant", "joined", "break"}

-----------------------------------------------------------------------------
(* syllable_reader_t::read                                                  *)

\* The local variables when read() starts at position p.
Started(p) ==
    [state |-> "start", onset |-> p, nucleus |-> p, coda |-> p, end |-> p, coda_start |-> p, found |-> FALSE]

\* Where the coda begins and ends when a vowel follows at position k.  One
\* consonant, or the last of several, is the onset of the next syllable; an
\* affricate after the nucleus stays with it.
Coda(s, k) ==
    CASE s.state = "nucleus" -> [coda |-> k, end |-> k]
      [] s.state \in {"coda_start", "coda_start_affricate"} -> [coda |-> s.coda_start, end |-> s.coda_start]
      [] s.state = "coda" -> [coda |-> s.coda_start - 1, end |-> s.coda_start]
      [] s.state = "coda_affricate" -> [coda |-> s.coda_start - 1, end |-> s.coda_start + 1]

BeforeNucleus(s) == s.state \in {"start", "onset"}

Vowel(s, k, class) ==
    IF BeforeNucleus(s) THEN [s EXCEPT !.state = "nucleus", !.nucleus = k]
    ELSE IF s.state = "nucleus" /\ class = "glide" THEN s
    ELSE [s EXCEPT !.coda = Coda(s, k).coda, !.end = Coda(s, k).end, !.found = TRUE]

Break(s, k) ==
    IF BeforeNucleus(s) THEN [s EXCEPT !.onset = k, !.coda_start = k]
    ELSE [s EXCEPT !.coda = Coda(s, k).coda, !.end = k, !.found = TRUE]

Consonant(s, k, class) ==
    CASE s.state = "start" -> [s EXCEPT !.state = "onset", !.onset = k]
      [] s.state = "nucleus" ->
             [s EXCEPT !.state = IF class = "joined" THEN "coda_start_affricate" ELSE "coda_start", !.coda_start = k]
      [] s.state = "coda_start" -> [s EXCEPT !.state = "coda", !.coda_start = k]
      [] s.state = "coda_start_affricate" -> [s EXCEPT !.state = "coda_affricate", !.coda_start = k]
      [] s.state \in {"onset", "coda", "coda_affricate"} -> s

ReadPhoneme(s, k, class) ==
    IF s.found THEN s
    ELSE CASE class \in {"vowel", "glide"} -> Vowel(s, k, class)
           [] class \in {"consonant", "joined"} -> Consonant(s, k, class)
           [] class = "break" -> Break(s, k)

\* The syllable that begins at or after p; found is what read() returns.
ReadSyllable(phonemes, p) ==
    LET last == Len(phonemes) + 1
        after[k \in p - 1 .. Len(phonemes)] ==
            IF k < p THEN Started(p) ELSE ReadPhoneme(after[k - 1], k, ClassOf[phonemes[k].sound])
        s == after[Len(phonemes)]
    IN  IF s.found \/ s.state \in {"start", "onset", "coda_start_affricate"}
        THEN s
        ELSE [s EXCEPT !.coda = Coda(s, last).coda, !.end = last, !.found = TRUE]

\* All that read() finds, one after the other.
SyllablesOf(phonemes) ==
    LET from[p \in 1 .. Len(phonemes) + 1] ==
            LET s == ReadSyllable(phonemes, p) IN IF s.found THEN <<s>> \o from[s.end] ELSE <<>>
    IN  from[1]

-----------------------------------------------------------------------------
(* make_stressed *)

\* Mutant: the stress is copied.
CopyStress(phonemes, p, q) == [phonemes EXCEPT ![q].stress = phonemes[p].stress]

MoveStress(phonemes, p, q) ==
    IF phonemes[p].stress = "unstressed" THEN phonemes
    ELSE [phonemes EXCEPT ![p].stress = "unstressed", ![q].stress = phonemes[p].stress]

make_vowel_stressed(phonemes) ==
    LET syllables == SyllablesOf(phonemes)
        after[i \in 0 .. Len(syllables)] ==
            IF i = 0 THEN phonemes ELSE MoveStress(after[i - 1], syllables[i].onset, syllables[i].nucleus)
    IN  after[Len(syllables)]

make_syllable_stressed(phonemes) ==
    LET syllables == SyllablesOf(phonemes)
        after[i \in 0 .. Len(syllables)] ==
            IF i = 0 THEN phonemes ELSE MoveStress(after[i - 1], syllables[i].nucleus, syllables[i].onset)
    IN  after[Len(syllables)]

make_stressed(phonemes, type) ==
    CASE type = "as_transcribed" -> phonemes
      [] type = "vowel" -> make_vowel_stressed(phonemes)
      [] type = "syllable" -> make_syllable_stressed(phonemes)
=============================================================================
