---------------------------- MODULE ConverterProofs ---------------------------
(***************************************************************************)
(* Theorems on the phoneme converter: the syllables of what it prints, the *)
(* placement of the stress, and the rules of the accent.                   *)
(***************************************************************************)
EXTENDS PhonemeConverter, Induction, SequenceTheorems

ClassAt(phonemes, k) == ClassOf[phonemes[k].sound]

(* What is joined to the next phoneme is followed by a consonant. *)
WellJoined(phonemes) ==
    \A k \in 1 .. Len(phonemes) :
        ClassAt(phonemes, k) = "joined" => k < Len(phonemes) /\ ClassAt(phonemes, k + 1) = "consonant"

-----------------------------------------------------------------------------
(* The syllable that read() finds.                                          *)

Voiced(phonemes, k) == ClassAt(phonemes, k) \in {"vowel", "glide"}

NoVowel(phonemes, a, b) == \A j \in a .. b : ClassAt(phonemes, j) # "vowel"
NothingVoiced(phonemes, a, b) == \A j \in a .. b : ~Voiced(phonemes, j)

ReadStates == {"start", "onset", "nucleus", "coda_start", "coda_start_affricate", "coda", "coda_affricate"}
SyllableType ==
    [state : ReadStates, onset : Nat, nucleus : Nat, coda : Nat, end : Nat, coda_start : Nat, found : BOOLEAN]

(* Where read() is after the phoneme at k, when it began at p. *)
AtNucleus(phonemes, p, k, s) ==
    /\ p <= s.onset /\ s.onset <= s.nucleus /\ s.nucleus <= k
    /\ Voiced(phonemes, s.nucleus)
    /\ NothingVoiced(phonemes, p, s.nucleus - 1) /\ NoVowel(phonemes, s.nucleus + 1, k)

AtCoda(phonemes, k, s) ==
    CASE s.state = "nucleus" -> Voiced(phonemes, k)
      [] s.state \in {"coda_start", "coda_start_affricate"} ->
             /\ s.coda_start = k /\ s.nucleus < k /\ Voiced(phonemes, k - 1)
             /\ ClassAt(phonemes, k) = (IF s.state = "coda_start" THEN "consonant" ELSE "joined")
      [] s.state \in {"coda", "coda_affricate"} ->
             /\ s.nucleus + 2 <= s.coda_start /\ s.coda_start <= k
             /\ ClassAt(phonemes, s.coda_start - 1) = (IF s.state = "coda" THEN "consonant" ELSE "joined")

Reads(phonemes, p, k, s) ==
    /\ s \in SyllableType /\ ~s.found
    /\ BeforeNucleus(s) => /\ p <= s.onset /\ (s.onset = p \/ s.onset <= k)
                           /\ NothingVoiced(phonemes, p, k)
    /\ ~BeforeNucleus(s) => AtNucleus(phonemes, p, k, s) /\ AtCoda(phonemes, k, s)

(* A syllable: the vowels from p to its end are its nucleus or none, and its *)
(* end parts nothing that is joined. *)
IsSyllable(phonemes, p, s) ==
    /\ s \in SyllableType
    /\ p <= s.onset /\ s.onset <= s.nucleus /\ s.nucleus < s.coda /\ s.coda <= s.end /\ s.end <= Len(phonemes) + 1
    /\ \A k \in p .. s.end - 1 : k # s.nucleus => ClassAt(phonemes, k) # "vowel"
    /\ s.end <= Len(phonemes) => ClassAt(phonemes, s.end - 1) # "joined"


Phonemes == Seq(Phoneme)

LEMMA ClassFacts ==
    ASSUME NEW phonemes \in Phonemes
    PROVE  /\ Len(phonemes) \in Nat
           /\ \A k \in 1 .. Len(phonemes) : ClassAt(phonemes, k) \in Class
<1>1. \A k \in 1 .. Len(phonemes) : phonemes[k].sound \in Sound
  <2>1. \A k \in 1 .. Len(phonemes) : phonemes[k] \in Phoneme
    BY DEF Phonemes
  <2>2. \A x \in Phoneme : x.sound \in Sound
    BY DEF Phoneme
  <2> QED
    BY <2>1, <2>2
<1> QED
  BY <1>1, ConverterAssumption DEF ClassAt, Phonemes

(* A syllable is found when its coda is known. *)
LEMMA Ends ==
    ASSUME NEW phonemes \in Phonemes, NEW p \in 1 .. Len(phonemes) + 1, NEW k \in 1 .. Len(phonemes) + 1,
           NEW s \in SyllableType, AtNucleus(phonemes, p, k - 1, s), NEW coda \in Nat, NEW end \in Nat,
           s.nucleus < coda, coda <= end, end <= k,
           end <= Len(phonemes) => ClassAt(phonemes, end - 1) # "joined"
    PROVE  IsSyllable(phonemes, p, [s EXCEPT !.coda = coda, !.end = end, !.found = TRUE])
<1> DEFINE t == [s EXCEPT !.coda = coda, !.end = end, !.found = TRUE]
<1>1. t \in SyllableType /\ t.onset = s.onset /\ t.nucleus = s.nucleus /\ t.coda = coda /\ t.end = end
  BY DEF SyllableType
<1>2. Len(phonemes) \in Nat /\ s.nucleus \in Nat /\ s.onset \in Nat
  BY ClassFacts DEF SyllableType
<1>3. p <= s.onset /\ s.onset <= s.nucleus
  BY DEF AtNucleus
<1> HIDE DEF t
<1>4. ASSUME NEW j \in p .. end - 1, j # s.nucleus
      PROVE  ClassAt(phonemes, j) # "vowel"
  <2>1. j \in p .. s.nucleus - 1 \/ j \in s.nucleus + 1 .. k - 1
    BY <1>2, <1>4
  <2> QED
    BY <2>1 DEF AtNucleus, NothingVoiced, NoVowel, Voiced
<1>5. IsSyllable(phonemes, p, t)
  BY <1>1, <1>2, <1>3, <1>4 DEF IsSyllable
<1> QED
  BY <1>5 DEF t

(* What is changed while it is not found. *)
LEMMA StillReads ==
    ASSUME NEW s \in SyllableType, ~s.found, NEW state \in ReadStates, NEW onset \in Nat, NEW nucleus \in Nat, NEW coda_start \in Nat
    PROVE  LET t == [s EXCEPT !.state = state, !.onset = onset, !.nucleus = nucleus, !.coda_start = coda_start]
           IN  /\ t \in SyllableType /\ ~t.found
               /\ t.state = state /\ t.onset = onset /\ t.nucleus = nucleus /\ t.coda_start = coda_start
BY DEF SyllableType

(* Where the coda is when a vowel or a break follows, or nothing. *)
LEMMA CodaIs ==
    ASSUME NEW phonemes \in Phonemes, WellJoined(phonemes),
           NEW p \in 1 .. Len(phonemes) + 1, NEW k \in p .. Len(phonemes) + 1,
           NEW s, Reads(phonemes, p, k - 1, s), ~BeforeNucleus(s),
           k <= Len(phonemes) => ClassAt(phonemes, k) # "consonant"
    PROVE  /\ Coda(s, k).coda \in Nat /\ Coda(s, k).end \in Nat
           /\ s.nucleus < Coda(s, k).coda /\ Coda(s, k).coda <= Coda(s, k).end /\ Coda(s, k).end <= k
           /\ Coda(s, k).end <= Len(phonemes) => ClassAt(phonemes, Coda(s, k).end - 1) # "joined"
<1>1. /\ s \in SyllableType /\ AtNucleus(phonemes, p, k - 1, s) /\ AtCoda(phonemes, k - 1, s)
      /\ s.nucleus \in Nat /\ s.coda_start \in Nat /\ p <= s.nucleus /\ s.nucleus <= k - 1
      /\ Len(phonemes) \in Nat
  <2>1. s \in SyllableType /\ AtNucleus(phonemes, p, k - 1, s) /\ AtCoda(phonemes, k - 1, s)
    BY DEF Reads
  <2> QED
    BY <2>1, ClassFacts DEF AtNucleus, SyllableType
<1>2. CASE s.state = "nucleus"
  <2>1. Voiced(phonemes, k - 1)
    BY <1>1, <1>2 DEF AtCoda
  <2>2. Coda(s, k) = [coda |-> k, end |-> k]
    BY <1>2 DEF Coda
  <2> QED
    BY <1>1, <2>1, <2>2 DEF Voiced
<1>3. CASE s.state \in {"coda_start", "coda_start_affricate"}
  <2>1. s.coda_start = k - 1 /\ s.nucleus < k - 1 /\ Voiced(phonemes, (k - 1) - 1)
    BY <1>1, <1>3 DEF AtCoda
  <2>2. Coda(s, k) = [coda |-> s.coda_start, end |-> s.coda_start]
    BY <1>3 DEF Coda
  <2> QED
    BY <1>1, <2>1, <2>2 DEF Voiced
<1>4. CASE s.state = "coda"
  <2>1. s.nucleus + 2 <= s.coda_start /\ s.coda_start <= k - 1 /\ ClassAt(phonemes, s.coda_start - 1) = "consonant"
    BY <1>1, <1>4 DEF AtCoda
  <2>2. Coda(s, k) = [coda |-> s.coda_start - 1, end |-> s.coda_start]
    BY <1>4 DEF Coda
  <2> QED
    BY <1>1, <2>1, <2>2
<1>5. CASE s.state = "coda_affricate"
  <2>1. s.nucleus + 2 <= s.coda_start /\ s.coda_start <= k - 1 /\ ClassAt(phonemes, s.coda_start - 1) = "joined"
    BY <1>1, <1>5 DEF AtCoda
  <2>2. Coda(s, k) = [coda |-> s.coda_start - 1, end |-> s.coda_start + 1]
    BY <1>5 DEF Coda
  <2>3. ClassAt(phonemes, s.coda_start) = "consonant"
    <3>1. s.coda_start - 1 \in 1 .. Len(phonemes) /\ (s.coda_start - 1) + 1 = s.coda_start
      BY SMTT(30), <1>1, <2>1
    <3> QED
      BY <2>1, <3>1 DEF WellJoined
  <2>4. (s.coda_start + 1) - 1 = s.coda_start
    BY <1>1
  <2> QED
    BY SMTT(30), <1>1, <2>1, <2>2, <2>3, <2>4
<1>6. s.state \in ReadStates \ {"start", "onset"}
  BY <1>1 DEF SyllableType, BeforeNucleus
<1> QED
  BY <1>2, <1>3, <1>4, <1>5, <1>6 DEF ReadStates

(* One phoneme more. *)
LEMMA ReadOne ==
    ASSUME NEW phonemes \in Phonemes, WellJoined(phonemes),
           NEW p \in 1 .. Len(phonemes) + 1, NEW k \in p .. Len(phonemes),
           NEW s, Reads(phonemes, p, k - 1, s)
    PROVE  LET t == ReadPhoneme(s, k, ClassAt(phonemes, k))
           IN  IF t.found THEN IsSyllable(phonemes, p, t) ELSE Reads(phonemes, p, k, t)
<1> DEFINE class == ClassAt(phonemes, k)
           t == ReadPhoneme(s, k, class)
<1>1. /\ s \in SyllableType /\ ~s.found /\ s.onset \in Nat /\ s.nucleus \in Nat /\ s.coda_start \in Nat
      /\ s.state \in ReadStates /\ Len(phonemes) \in Nat /\ class \in Class
      /\ p \in Nat /\ k \in Nat /\ 1 <= p /\ p <= k /\ k <= Len(phonemes) /\ k - 1 \in Nat
  BY ClassFacts DEF Reads, SyllableType
<1>2. CASE BeforeNucleus(s)
  <2>1. p <= s.onset /\ s.onset <= k /\ NothingVoiced(phonemes, p, k - 1)
    BY <1>1, <1>2 DEF Reads
  <2>2. CASE class \in {"vowel", "glide"}
    <3>1. t = [s EXCEPT !.state = "nucleus", !.nucleus = k]
      BY <1>1, <1>2, <2>2 DEF ReadPhoneme, Vowel
    <3>2. /\ t \in SyllableType /\ ~t.found /\ t.state = "nucleus" /\ t.nucleus = k /\ t.onset = s.onset
      BY <1>1, <3>1 DEF SyllableType, ReadStates
    <3>3. AtNucleus(phonemes, p, k, t)
      BY <1>1, <2>1, <2>2, <3>2 DEF AtNucleus, Voiced, NoVowel
    <3> HIDE DEF t
    <3> QED
      BY <2>2, <3>2, <3>3 DEF Reads, AtCoda, BeforeNucleus, Voiced, t
  <2>3. CASE class \in {"consonant", "joined"}
    <3>1. t = IF s.state = "start" THEN [s EXCEPT !.state = "onset", !.onset = k] ELSE s
      BY <1>1, <1>2, <2>3 DEF ReadPhoneme, Consonant, BeforeNucleus
    <3>2. t \in SyllableType /\ ~t.found /\ BeforeNucleus(t) /\ p <= t.onset /\ t.onset <= k
      <4>1. CASE s.state = "start"
        <5>1. t = [s EXCEPT !.state = "onset", !.onset = k]
          BY <3>1, <4>1
        <5>2. t \in SyllableType /\ ~t.found /\ t.state = "onset" /\ t.onset = k
          BY <1>1, <5>1 DEF SyllableType, ReadStates
        <5> QED
          BY <1>1, <5>2 DEF BeforeNucleus
      <4>2. CASE s.state # "start"
        BY <1>1, <1>2, <2>1, <3>1, <4>2
      <4> QED
        BY <4>1, <4>2
    <3>3. NothingVoiced(phonemes, p, k)
      BY <2>1, <2>3 DEF NothingVoiced, Voiced
    <3> HIDE DEF t
    <3> QED
      BY <3>2, <3>3 DEF Reads, t
  <2>4. CASE class = "break"
    <3>1. t = [s EXCEPT !.onset = k, !.coda_start = k]
      BY <1>1, <1>2, <2>4 DEF ReadPhoneme, Break
    <3>2. t \in SyllableType /\ ~t.found /\ BeforeNucleus(t) /\ p <= t.onset /\ t.onset <= k
      <4>1. t \in SyllableType /\ ~t.found /\ t.state = s.state /\ t.onset = k
        BY <1>1, <3>1 DEF SyllableType
      <4> QED
        BY <1>1, <1>2, <4>1 DEF BeforeNucleus
    <3>3. NothingVoiced(phonemes, p, k)
      BY <2>1, <2>4 DEF NothingVoiced, Voiced
    <3> HIDE DEF t
    <3> QED
      BY <3>2, <3>3 DEF Reads, t
  <2> QED
    BY <1>1, <2>2, <2>3, <2>4 DEF Class
<1>3. CASE ~BeforeNucleus(s)
  <2>1. /\ AtNucleus(phonemes, p, k - 1, s) /\ AtCoda(phonemes, k - 1, s)
        /\ p <= s.onset /\ s.onset <= s.nucleus /\ s.nucleus <= k - 1 /\ Voiced(phonemes, s.nucleus)
        /\ NothingVoiced(phonemes, p, s.nucleus - 1) /\ NoVowel(phonemes, s.nucleus + 1, k - 1)
    BY <1>3 DEF Reads, AtNucleus
  <2>2. class # "vowel" => NoVowel(phonemes, s.nucleus + 1, k)
    BY <1>1, <2>1 DEF NoVowel
  <2>3. CASE class = "glide" /\ s.state = "nucleus"
    <3>1. t = s
      BY <1>1, <1>3, <2>3 DEF ReadPhoneme, Vowel
    <3>2. AtNucleus(phonemes, p, k, s) /\ AtCoda(phonemes, k, s)
      BY <1>1, <2>1, <2>2, <2>3 DEF AtNucleus, AtCoda, Voiced
    <3> HIDE DEF t
    <3> QED
      BY <1>1, <1>3, <3>1, <3>2 DEF Reads, t
  <2>4. CASE class \in {"vowel", "glide"} /\ ~(class = "glide" /\ s.state = "nucleus")
    <3>1. t = [s EXCEPT !.coda = Coda(s, k).coda, !.end = Coda(s, k).end, !.found = TRUE]
      BY <1>1, <1>3, <2>4 DEF ReadPhoneme, Vowel
    <3>2. /\ Coda(s, k).coda \in Nat /\ Coda(s, k).end \in Nat
          /\ s.nucleus < Coda(s, k).coda /\ Coda(s, k).coda <= Coda(s, k).end /\ Coda(s, k).end <= k
          /\ Coda(s, k).end <= Len(phonemes) => ClassAt(phonemes, Coda(s, k).end - 1) # "joined"
      <4>1. k \in p .. Len(phonemes) + 1 /\ class # "consonant"
        BY <1>1, <2>4
      <4> QED
        BY <1>3, <4>1, CodaIs
    <3>3. IsSyllable(phonemes, p, [s EXCEPT !.coda = Coda(s, k).coda, !.end = Coda(s, k).end, !.found = TRUE])
      <4>1. k \in 1 .. Len(phonemes) + 1
        BY <1>1
      <4> QED
        BY <1>1, <2>1, <3>2, <4>1, Ends
    <3>4. t.found
      BY <1>1, <3>1 DEF SyllableType
    <3> HIDE DEF t
    <3> QED
      BY <3>1, <3>3, <3>4 DEF t
  <2>5. CASE class = "break"
    <3>1. t = [s EXCEPT !.coda = Coda(s, k).coda, !.end = k, !.found = TRUE]
      BY <1>1, <1>3, <2>5 DEF ReadPhoneme, Break
    <3>2. /\ Coda(s, k).coda \in Nat /\ s.nucleus < Coda(s, k).coda /\ Coda(s, k).coda <= k
      <4>1. /\ Coda(s, k).coda \in Nat /\ Coda(s, k).end \in Nat
            /\ s.nucleus < Coda(s, k).coda /\ Coda(s, k).coda <= Coda(s, k).end /\ Coda(s, k).end <= k
        BY <1>1, <1>3, <2>5, CodaIs
      <4> QED
        BY <4>1
    <3>3. ClassAt(phonemes, k - 1) # "joined"
      <4>1. k - 1 \in 1 .. Len(phonemes) /\ (k - 1) + 1 = k
        BY <1>1, <2>1
      <4> QED
        BY <2>5, <4>1 DEF WellJoined
    <3>4. IsSyllable(phonemes, p, [s EXCEPT !.coda = Coda(s, k).coda, !.end = k, !.found = TRUE])
      <4>1. k \in 1 .. Len(phonemes) + 1 /\ k <= k
        BY <1>1
      <4> QED
        BY <1>1, <2>1, <3>2, <3>3, <4>1, Ends
    <3>5. t.found
      BY <1>1, <3>1 DEF SyllableType
    <3> HIDE DEF t
    <3> QED
      BY <3>1, <3>4, <3>5 DEF t
  <2>6. CASE class \in {"consonant", "joined"}
    <3>1. CASE s.state = "nucleus"
      <4>1. t = [s EXCEPT !.state = IF class = "joined" THEN "coda_start_affricate" ELSE "coda_start", !.coda_start = k]
        BY <1>1, <2>6, <3>1 DEF ReadPhoneme, Consonant
      <4>2. /\ t \in SyllableType /\ ~t.found /\ t.nucleus = s.nucleus /\ t.onset = s.onset /\ t.coda_start = k
            /\ t.state = (IF class = "joined" THEN "coda_start_affricate" ELSE "coda_start")
        BY <1>1, <4>1 DEF SyllableType, ReadStates
      <4>3. AtNucleus(phonemes, p, k, t)
        BY <1>1, <2>1, <2>2, <2>6, <4>2 DEF AtNucleus
      <4>4. Voiced(phonemes, k - 1)
        BY <2>1, <3>1 DEF AtCoda
      <4>5. AtCoda(phonemes, k, t)
        BY <1>1, <2>1, <2>6, <4>2, <4>4 DEF AtCoda
      <4> HIDE DEF t
      <4> QED
        BY <4>2, <4>3, <4>5 DEF Reads, BeforeNucleus, t
    <3>2. CASE s.state \in {"coda_start", "coda_start_affricate"}
      <4>1. t = [s EXCEPT !.state = IF s.state = "coda_start" THEN "coda" ELSE "coda_affricate", !.coda_start = k]
        BY <1>1, <2>6, <3>2 DEF ReadPhoneme, Consonant
      <4>2. /\ t \in SyllableType /\ ~t.found /\ t.nucleus = s.nucleus /\ t.onset = s.onset /\ t.coda_start = k
            /\ t.state = (IF s.state = "coda_start" THEN "coda" ELSE "coda_affricate")
        BY <1>1, <4>1 DEF SyllableType, ReadStates
      <4>3. AtNucleus(phonemes, p, k, t)
        BY <1>1, <2>1, <2>2, <2>6, <4>2 DEF AtNucleus
      <4>4. /\ s.nucleus < k - 1
            /\ ClassAt(phonemes, k - 1) = (IF s.state = "coda_start" THEN "consonant" ELSE "joined")
        BY <2>1, <3>2 DEF AtCoda
      <4>5. AtCoda(phonemes, k, t)
        BY <1>1, <2>1, <3>2, <4>2, <4>4 DEF AtCoda
      <4> HIDE DEF t
      <4> QED
        BY <3>2, <4>2, <4>3, <4>5 DEF Reads, BeforeNucleus, t
    <3>3. CASE s.state \in {"coda", "coda_affricate"}
      <4>1. t = s
        BY <1>1, <2>6, <3>3 DEF ReadPhoneme, Consonant
      <4>2. AtNucleus(phonemes, p, k, s)
        BY <1>1, <2>1, <2>2, <2>6 DEF AtNucleus
      <4>3. AtCoda(phonemes, k, s)
        <5>1. /\ s.nucleus + 2 <= s.coda_start /\ s.coda_start <= k - 1
              /\ ClassAt(phonemes, s.coda_start - 1) = (IF s.state = "coda" THEN "consonant" ELSE "joined")
          BY <2>1, <3>3 DEF AtCoda
        <5>2. s.coda_start <= k
          BY <1>1, <5>1
        <5> QED
          BY <3>3, <5>1, <5>2 DEF AtCoda
      <4> HIDE DEF t
      <4> QED
        BY <1>1, <1>3, <4>1, <4>2, <4>3 DEF Reads, t
    <3> QED
      BY <1>1, <1>3, <3>1, <3>2, <3>3 DEF ReadStates, BeforeNucleus
  <2> QED
    BY <1>1, <2>3, <2>4, <2>5, <2>6 DEF Class
<1> QED
  BY <1>2, <1>3

LEMMA ReadBegins ==
    ASSUME NEW phonemes \in Phonemes, NEW p \in 1 .. Len(phonemes) + 1
    PROVE  Reads(phonemes, p, p - 1, Started(p))
<1>1. p \in Nat
  BY ClassFacts
<1>2. Started(p) \in SyllableType
  BY <1>1 DEF Started, SyllableType, ReadStates
<1>3. ~Started(p).found /\ Started(p).state = "start" /\ Started(p).onset = p
  BY DEF Started
<1>4. NothingVoiced(phonemes, p, p - 1)
  BY <1>1 DEF NothingVoiced
<1> QED
  BY <1>1, <1>2, <1>3, <1>4 DEF Reads, BeforeNucleus

(* What the loop of read() holds after the phoneme at k. *)
ReadOf(phonemes, p, k, s) == IF s.found THEN IsSyllable(phonemes, p, s) ELSE Reads(phonemes, p, k, s)

IsRead(phonemes, p, f) ==
    f = [k \in p - 1 .. Len(phonemes) |->
            IF k < p THEN Started(p) ELSE ReadPhoneme(f[k - 1], k, ClassOf[phonemes[k].sound])]

LEMMA ReadOfStep ==
    ASSUME NEW phonemes \in Phonemes, WellJoined(phonemes),
           NEW p \in 1 .. Len(phonemes) + 1, NEW k \in p .. Len(phonemes), NEW s, ReadOf(phonemes, p, k - 1, s)
    PROVE  LET t == ReadPhoneme(s, k, ClassAt(phonemes, k)) IN ReadOf(phonemes, p, k, t) /\ t \in SyllableType
<1> DEFINE t == ReadPhoneme(s, k, ClassAt(phonemes, k))
<1>1. ReadOf(phonemes, p, k, t)
  <2>1. CASE s.found
    BY <2>1 DEF ReadOf, ReadPhoneme
  <2>2. CASE ~s.found
    BY <2>2, ReadOne DEF ReadOf
  <2> QED
    BY <2>1, <2>2
<1> HIDE DEF t
<1>2. t \in SyllableType
  BY <1>1 DEF ReadOf, IsSyllable, Reads
<1> QED
  BY <1>1, <1>2 DEF t

LEMMA ReadExists ==
    ASSUME NEW phonemes \in Phonemes, WellJoined(phonemes), NEW p \in 1 .. Len(phonemes) + 1
    PROVE  \E f : IsRead(phonemes, p, f)
<1> DEFINE N == Len(phonemes) - (p - 1)
           T(q) == ReadPhoneme(q[2], q[1] + (p - 1), ClassAt(phonemes, q[1] + (p - 1)))
           F == [q \in (1 .. N) \X SyllableType |-> IF T(q) \in SyllableType THEN T(q) ELSE Started(p)]
<1>1. N \in Nat /\ p \in Nat /\ 1 <= p /\ Len(phonemes) \in Nat
  BY ClassFacts
<1>2. Started(p) \in SyllableType /\ Reads(phonemes, p, p - 1, Started(p)) /\ ~Started(p).found
  BY ReadBegins DEF Reads
<1>3. F \in Steps(N, SyllableType)
  BY <1>2 DEF Steps
<1>4. \A i \in 1 .. N, s \in SyllableType :
          F[<<i, s>>] = LET t == ReadPhoneme(s, i + (p - 1), ClassAt(phonemes, i + (p - 1)))
                        IN  IF t \in SyllableType THEN t ELSE Started(p)
  BY <1>1
<1> HIDE DEF N, F, T
<1>5. PICK g \in [0 .. N -> SyllableType] : IsRecursion(g, N, Started(p), F)
  BY <1>1, <1>2, <1>3, RecursionTo
<1> DEFINE S == {i \in 0 .. N : ReadOf(phonemes, p, i + (p - 1), g[i])}
<1>6. ASSUME NEW i \in 0 .. N - 1, ReadOf(phonemes, p, i + (p - 1), g[i])
      PROVE  /\ ReadOf(phonemes, p, (i + 1) + (p - 1), g[i + 1])
             /\ g[i + 1] = ReadPhoneme(g[i], (i + 1) + (p - 1), ClassAt(phonemes, (i + 1) + (p - 1)))
  <2>1. i + 1 \in 1 .. N /\ (i + 1) - 1 = i /\ g[i] \in SyllableType
    BY <1>1
  <2>2. g[i + 1] = F[<<i + 1, g[i]>>]
    BY <1>5, <2>1 DEF IsRecursion
  <2> DEFINE k == (i + 1) + (p - 1)
             t == ReadPhoneme(g[i], k, ClassAt(phonemes, k))
  <2>3. k \in p .. Len(phonemes) /\ k - 1 = i + (p - 1)
    BY <1>1, <2>1 DEF N
  <2>4. ReadOf(phonemes, p, k, t) /\ t \in SyllableType
    <3>1. ReadOf(phonemes, p, k - 1, g[i])
      BY <1>6, <2>3
    <3> HIDE DEF k, t
    <3> QED
      BY <2>3, <3>1, ReadOfStep DEF t
  <2>5. g[i + 1] = t
    BY <1>4, <2>1, <2>2, <2>4
  <2> QED
    BY <2>4, <2>5
<1>7. \A i \in 0 .. N : ReadOf(phonemes, p, i + (p - 1), g[i])
  <2>1. Inductive(S, N)
    <3>1. 0 \in S
      <4>1. g[0] = Started(p) /\ 0 + (p - 1) = p - 1 /\ 0 \in 0 .. N
        BY <1>1, <1>5 DEF IsRecursion
      <4> QED
        BY <1>2, <4>1 DEF ReadOf
    <3>2. ASSUME NEW i \in 0 .. N - 1, i \in S
          PROVE  i + 1 \in S
      <4>1. i + 1 \in 0 .. N
        BY <1>1
      <4> QED
        BY <1>6, <3>2, <4>1
    <3> HIDE DEF S
    <3> QED
      BY <3>1, <3>2 DEF Inductive
  <2>2. \A i \in 0 .. N : i \in S
    <3> HIDE DEF S
    <3> QED
      BY <1>1, <2>1, InductionTo
  <2> QED
    BY <2>2
<1> DEFINE f == [k \in p - 1 .. Len(phonemes) |-> g[k - (p - 1)]]
<1>8. ASSUME NEW k \in p - 1 .. Len(phonemes)
      PROVE  f[k] = IF k < p THEN Started(p) ELSE ReadPhoneme(f[k - 1], k, ClassOf[phonemes[k].sound])
  <2>1. k - (p - 1) \in 0 .. N
    BY <1>1 DEF N
  <2>2. CASE k < p
    <3>1. k - (p - 1) = 0
      BY <1>1, <2>2
    <3> QED
      BY <1>5, <2>2, <3>1 DEF IsRecursion
  <2>3. CASE ~(k < p)
    <3> DEFINE i == k - p
    <3>1. /\ i \in 0 .. N - 1 /\ i + 1 = k - (p - 1) /\ (i + 1) + (p - 1) = k /\ i \in 0 .. N
          /\ k - 1 \in p - 1 .. Len(phonemes) /\ i = (k - 1) - (p - 1)
      BY <1>1, <2>1, <2>3
    <3>2. f[k - 1] = g[i] /\ f[k] = g[i + 1]
      BY <3>1
    <3>3. g[i + 1] = ReadPhoneme(g[i], k, ClassAt(phonemes, k))
      <4> HIDE DEF i
      <4> QED
        BY <1>6, <1>7, <3>1
    <3> HIDE DEF i, f
    <3> QED
      BY <2>3, <3>2, <3>3 DEF ClassAt
  <2> QED
    BY <2>2, <2>3
<1>9. IsRead(phonemes, p, f)
  BY <1>8 DEF IsRead
<1> QED
  BY <1>9

(* Whatever the phonemes are, the syllable that read() finds from p on has a  *)
(* nucleus and a coda in their order, no vowel of it and none before it is    *)
(* another's, and when it finds none there is no vowel left.                  *)
LEMMA SyllableIs ==
    ASSUME NEW phonemes \in Phonemes, WellJoined(phonemes), NEW p \in 1 .. Len(phonemes) + 1
    PROVE  LET s == ReadSyllable(phonemes, p)
           IN  IF s.found THEN IsSyllable(phonemes, p, s) ELSE NoVowel(phonemes, p, Len(phonemes))
<1> DEFINE n == Len(phonemes)
           after == CHOOSE f : IsRead(phonemes, p, f)
<1>1. n \in Nat /\ p \in Nat /\ 1 <= p /\ p <= n + 1
  BY ClassFacts
<1>2. IsRead(phonemes, p, after)
  BY ReadExists
<1>3. ReadSyllable(phonemes, p) =
          LET s == after[n] IN
          IF s.found \/ s.state \in {"start", "onset", "coda_start_affricate"} THEN s
          ELSE [s EXCEPT !.coda = Coda(s, n + 1).coda, !.end = n + 1, !.found = TRUE]
  BY DEF ReadSyllable, IsRead
<1> HIDE DEF after
<1>4. \A k \in p - 1 .. n : after[k] = IF k < p THEN Started(p) ELSE ReadPhoneme(after[k - 1], k, ClassAt(phonemes, k))
  BY <1>2 DEF IsRead, ClassAt
<1>5. ReadOf(phonemes, p, n, after[n])
  <2> DEFINE N == n - (p - 1)
             S == {i \in 0 .. N : ReadOf(phonemes, p, i + (p - 1), after[i + (p - 1)])}
  <2>1. N \in Nat /\ N + (p - 1) = n
    BY <1>1
  <2>2. 0 \in S
    <3>1. 0 + (p - 1) = p - 1 /\ p - 1 \in p - 1 .. n /\ p - 1 < p /\ 0 \in 0 .. N
      BY <1>1, <2>1
    <3>2. after[p - 1] = Started(p) /\ ~Started(p).found
      BY <1>4, <3>1 DEF Started
    <3>3. ReadOf(phonemes, p, p - 1, after[p - 1])
      BY <3>2, ReadBegins DEF ReadOf
    <3> QED
      BY <3>1, <3>3
  <2>3. ASSUME NEW i \in 0 .. N - 1, i \in S
        PROVE  i + 1 \in S
    <3> DEFINE k == (i + 1) + (p - 1)
    <3>1. k \in p .. n /\ k \in p - 1 .. n /\ ~(k < p) /\ k - 1 = i + (p - 1) /\ i + 1 \in 0 .. N
      BY <1>1, <2>1
    <3>2. ReadOf(phonemes, p, k - 1, after[k - 1])
      BY <2>3, <3>1
    <3>3. after[k] = ReadPhoneme(after[k - 1], k, ClassAt(phonemes, k))
      BY <1>4, <3>1
    <3>4. ReadOf(phonemes, p, k, after[k])
      <4> HIDE DEF k
      <4> QED
        BY <3>1, <3>2, <3>3, ReadOfStep
    <3> QED
      BY <3>1, <3>4
  <2>4. N \in S
    <3>1. N \in 0 .. N
      BY <2>1
    <3> HIDE DEF S, N
    <3> QED
      BY <2>1, <2>2, <2>3, <3>1, InductionTo DEF Inductive
  <2> QED
    BY <2>1, <2>4
<1> DEFINE s == after[n]
<1>6. CASE s.found
  BY <1>3, <1>5, <1>6 DEF ReadOf
<1>7. CASE ~s.found
  <2>1. Reads(phonemes, p, n, s) /\ s \in SyllableType /\ s.state \in ReadStates
    BY <1>5, <1>7 DEF ReadOf, Reads, SyllableType
  <2> HIDE DEF s
  <2>2. CASE s.state \in {"start", "onset"}
    <3>1. ReadSyllable(phonemes, p) = s
      BY <1>3, <2>2 DEF s
    <3>2. NothingVoiced(phonemes, p, n)
      BY <2>1, <2>2 DEF Reads, BeforeNucleus
    <3> QED
      BY <1>7, <3>1, <3>2 DEF NothingVoiced, NoVowel, Voiced
  <2>3. CASE s.state = "coda_start_affricate"
    <3>1. AtNucleus(phonemes, p, n, s) /\ AtCoda(phonemes, n, s)
      BY <2>1, <2>3 DEF Reads, BeforeNucleus
    <3>2. ClassAt(phonemes, n) = "joined" /\ n \in 1 .. n
      BY <1>1, <2>1, <2>3, <3>1 DEF AtCoda, AtNucleus, SyllableType
    <3> QED
      BY <1>1, <3>2 DEF WellJoined
  <2>4. CASE s.state \notin {"start", "onset", "coda_start_affricate"}
    <3>1. ReadSyllable(phonemes, p) = [s EXCEPT !.coda = Coda(s, n + 1).coda, !.end = n + 1, !.found = TRUE]
      BY <1>3, <1>7, <2>4 DEF s
    <3>2. ~BeforeNucleus(s)
      BY <2>4 DEF BeforeNucleus
    <3>3. /\ n + 1 \in p .. n + 1 /\ n + 1 \in 1 .. n + 1 /\ (n + 1) - 1 = n /\ n + 1 \in Nat /\ ~(n + 1 <= n)
      BY <1>1
    <3>4. /\ Coda(s, n + 1).coda \in Nat /\ Coda(s, n + 1).end \in Nat
          /\ s.nucleus < Coda(s, n + 1).coda /\ Coda(s, n + 1).coda <= Coda(s, n + 1).end /\ Coda(s, n + 1).end <= n + 1
      <4>1. Reads(phonemes, p, (n + 1) - 1, s)
        BY <2>1, <3>3
      <4> QED
        BY <3>2, <3>3, <4>1, CodaIs
    <3>5. AtNucleus(phonemes, p, (n + 1) - 1, s)
      BY <2>1, <3>2, <3>3 DEF Reads
    <3>6. Coda(s, n + 1).coda <= n + 1
      BY <1>1, <3>4
    <3>7. IsSyllable(phonemes, p, [s EXCEPT !.coda = Coda(s, n + 1).coda, !.end = n + 1, !.found = TRUE])
      <4>1. PICK k \in 1 .. n + 1 : k = n + 1 /\ k \in Nat
        BY <3>3
      <4>2. PICK c \in Nat : c = Coda(s, n + 1).coda
        BY <3>4
      <4>3. /\ s \in SyllableType /\ AtNucleus(phonemes, p, k - 1, s) /\ s.nucleus < c /\ c <= k /\ k <= k
            /\ (k <= Len(phonemes) => ClassAt(phonemes, k - 1) # "joined")
        BY <2>1, <3>3, <3>4, <3>5, <3>6, <4>1, <4>2
      <4>4. IsSyllable(phonemes, p, [s EXCEPT !.coda = c, !.end = k, !.found = TRUE])
        BY <4>1, <4>3, Ends
      <4> QED
        BY <4>1, <4>2, <4>4
    <3>8. [s EXCEPT !.coda = Coda(s, n + 1).coda, !.end = n + 1, !.found = TRUE].found
      BY <2>1 DEF SyllableType
    <3> QED
      BY <3>1, <3>7, <3>8
  <2> QED
    BY <2>2, <2>3, <2>4
<1> QED
  BY <1>6, <1>7

-----------------------------------------------------------------------------
(* The syllables, one after the other.                                      *)

AfterEnd(p, t, i) == IF i = 0 THEN p ELSE t[i].end

Follows(phonemes, p, t) ==
    /\ t \in Seq(SyllableType)
    /\ \A i \in 1 .. Len(t) : IsSyllable(phonemes, AfterEnd(p, t, i - 1), t[i])
    /\ NoVowel(phonemes, AfterEnd(p, t, Len(t)), Len(phonemes))

FirstFound(phonemes, p, f) ==
    LET s == ReadSyllable(phonemes, p) IN IF s.found THEN <<s>> \o f[s.end] ELSE <<>>

IsFound(phonemes, a, f) == f = [p \in a .. Len(phonemes) + 1 |-> FirstFound(phonemes, p, f)]

(* A syllable is not empty. *)
LEMMA SyllableEnds ==
    ASSUME NEW phonemes \in Phonemes, WellJoined(phonemes), NEW p \in 1 .. Len(phonemes) + 1,
           ReadSyllable(phonemes, p).found
    PROVE  /\ ReadSyllable(phonemes, p).end \in p + 1 .. Len(phonemes) + 1
           /\ ReadSyllable(phonemes, p) \in SyllableType
           /\ IsSyllable(phonemes, p, ReadSyllable(phonemes, p))
<1> DEFINE s == ReadSyllable(phonemes, p)
<1>1. IsSyllable(phonemes, p, s)
  BY SyllableIs
<1>2. p \in Nat /\ Len(phonemes) \in Nat
  BY ClassFacts
<1> HIDE DEF s
<1>3. /\ s \in SyllableType /\ s.onset \in Nat /\ s.nucleus \in Nat /\ s.coda \in Nat /\ s.end \in Nat
      /\ p <= s.onset /\ s.onset <= s.nucleus /\ s.nucleus < s.coda /\ s.coda <= s.end /\ s.end <= Len(phonemes) + 1
  BY <1>1 DEF IsSyllable, SyllableType
<1>4. s.end \in p + 1 .. Len(phonemes) + 1
  BY <1>2, <1>3
<1> QED
  BY <1>1, <1>3, <1>4 DEF s

LEMMA FoundExists ==
    ASSUME NEW phonemes \in Phonemes, WellJoined(phonemes)
    PROVE  \E f : IsFound(phonemes, 1, f)
<1> DEFINE n == Len(phonemes)
           S == {m \in 0 .. n : \E f : IsFound(phonemes, (n + 1) - m, f)}
<1>1. n \in Nat
  BY ClassFacts
<1>2. 0 \in S
  <2> DEFINE f == [p \in n + 1 .. n + 1 |-> <<>>]
  <2>1. ASSUME NEW p \in n + 1 .. n + 1
        PROVE  FirstFound(phonemes, p, f) = <<>>
    <3>1. p \in 1 .. n + 1 /\ p = n + 1
      BY <1>1
    <3>2. ~ReadSyllable(phonemes, p).found
      BY <1>1, <3>1, SyllableEnds
    <3> QED
      BY <3>2 DEF FirstFound
  <2>2. IsFound(phonemes, n + 1, f)
    BY <2>1 DEF IsFound
  <2>3. (n + 1) - 0 = n + 1 /\ 0 \in 0 .. n
    BY <1>1
  <2> QED
    BY <2>2, <2>3
<1>3. ASSUME NEW m \in 0 .. n - 1, m \in S
      PROVE  m + 1 \in S
  <2>1. PICK f : IsFound(phonemes, (n + 1) - m, f)
    BY <1>3
  <2>0. PICK a \in 1 .. n : a = n - m /\ a \in Nat
    BY <1>1, <1>3
  <2> DEFINE g == [p \in a .. n + 1 |-> IF p = a THEN FirstFound(phonemes, a, f) ELSE f[p]]
  <2>2. /\ (n + 1) - m = a + 1 /\ (n + 1) - (m + 1) = a /\ m + 1 \in 0 .. n
        /\ a \in a .. n + 1 /\ \A p \in a + 1 .. n + 1 : p \in a .. n + 1 /\ p # a
    BY <1>1, <2>0
  <2>3. \A p \in a + 1 .. n + 1 : g[p] = f[p] /\ f[p] = FirstFound(phonemes, p, f)
    BY <2>1, <2>2 DEF IsFound
  <2>4. ASSUME NEW p \in a .. n + 1
        PROVE  FirstFound(phonemes, p, f) = FirstFound(phonemes, p, g)
    <3>1. p \in 1 .. n + 1 /\ p \in Nat /\ a <= p
      BY <1>1, <2>0
    <3>2. CASE ReadSyllable(phonemes, p).found
      <4>1. ReadSyllable(phonemes, p).end \in p + 1 .. n + 1
        BY <3>1, <3>2, SyllableEnds
      <4>2. ReadSyllable(phonemes, p).end \in a + 1 .. n + 1
        BY <1>1, <2>0, <3>1, <4>1
      <4> HIDE DEF g
      <4> QED
        BY <2>3, <4>2 DEF FirstFound
    <3>3. CASE ~ReadSyllable(phonemes, p).found
      BY <3>3 DEF FirstFound
    <3> QED
      BY <3>2, <3>3
  <2>5. ASSUME NEW p \in a .. n + 1
        PROVE  g[p] = FirstFound(phonemes, p, g)
    <3>1. CASE p = a
      <4>1. g[p] = FirstFound(phonemes, p, f)
        BY <3>1
      <4> HIDE DEF g
      <4> QED
        BY <2>4, <4>1
    <3>2. CASE p # a
      <4>1. p \in a + 1 .. n + 1
        BY <1>1, <2>0, <3>2
      <4>2. g[p] = FirstFound(phonemes, p, f)
        BY <2>3, <4>1
      <4> HIDE DEF g
      <4> QED
        BY <2>4, <4>2
    <3> QED
      BY <3>1, <3>2
  <2>6. g = [p \in a .. n + 1 |-> FirstFound(phonemes, p, g)]
    <3>1. g = [p \in a .. n + 1 |-> g[p]]
      OBVIOUS
    <3> HIDE DEF g
    <3> QED
      BY <2>5, <3>1
  <2>7. IsFound(phonemes, a, g)
    <3> HIDE DEF g
    <3> QED
      BY <2>6 DEF IsFound
  <2> QED
    BY <2>2, <2>7
<1>4. n \in S
  <2>1. n \in 0 .. n
    BY <1>1
  <2> HIDE DEF S, n
  <2> QED
    BY <1>1, <1>2, <1>3, <2>1, InductionTo DEF Inductive
<1>5. (n + 1) - n = 1
  BY <1>1
<1> QED
  BY <1>4, <1>5

(* The syllable before others. *)
LEMMA FollowsOne ==
    ASSUME NEW phonemes \in Phonemes, NEW p \in 1 .. Len(phonemes) + 1, NEW s, IsSyllable(phonemes, p, s),
           NEW t, Follows(phonemes, s.end, t)
    PROVE  Follows(phonemes, p, <<s>> \o t)
<1> DEFINE u == <<s>> \o t
<1>1. t \in Seq(SyllableType) /\ s \in SyllableType /\ Len(t) \in Nat
  BY DEF Follows, IsSyllable
<1>2. /\ u \in Seq(SyllableType) /\ Len(u) = Len(t) + 1 /\ u[1] = s
      /\ \A i \in 1 .. Len(t) : u[i + 1] = t[i]
  BY <1>1
<1> HIDE DEF u
<1>3. ASSUME NEW i \in 0 .. Len(t)
      PROVE  AfterEnd(p, u, i + 1) = AfterEnd(s.end, t, i)
  <2>1. i + 1 # 0 /\ (i # 0 => i \in 1 .. Len(t)) /\ (i = 0 => i + 1 = 1)
    BY <1>1
  <2> QED
    BY <1>2, <2>1 DEF AfterEnd
<1>4. ASSUME NEW i \in 1 .. Len(u)
      PROVE  IsSyllable(phonemes, AfterEnd(p, u, i - 1), u[i])
  <2>1. CASE i = 1
    <3>1. AfterEnd(p, u, i - 1) = p
      BY <2>1 DEF AfterEnd
    <3> QED
      BY <1>2, <2>1, <3>1
  <2>2. CASE i # 1
    <3> DEFINE j == i - 1
    <3>1. j \in 1 .. Len(t) /\ i = j + 1 /\ j - 1 \in 0 .. Len(t) /\ (j - 1) + 1 = j
      <4>1. i \in 2 .. Len(t) + 1
        BY <1>1, <1>2, <2>2
      <4> QED
        BY <1>1, <4>1
    <3> HIDE DEF j
    <3>2. IsSyllable(phonemes, AfterEnd(s.end, t, j - 1), t[j])
      BY <3>1 DEF Follows
    <3>3. AfterEnd(p, u, j) = AfterEnd(s.end, t, j - 1) /\ u[i] = t[j]
      BY <1>2, <1>3, <3>1
    <3> QED
      BY <3>2, <3>3 DEF j
  <2> QED
    BY <2>1, <2>2
<1>5. NoVowel(phonemes, AfterEnd(p, u, Len(u)), Len(phonemes))
  <2>1. Len(t) \in 0 .. Len(t)
    BY <1>1
  <2>2. AfterEnd(p, u, Len(u)) = AfterEnd(s.end, t, Len(t))
    BY <1>2, <1>3, <2>1
  <2> QED
    BY <2>2 DEF Follows
<1> QED
  BY <1>2, <1>4, <1>5 DEF Follows, u

LEMMA FollowsNone ==
    ASSUME NEW phonemes \in Phonemes, NEW p, NoVowel(phonemes, p, Len(phonemes))
    PROVE  Follows(phonemes, p, <<>>)
BY DEF Follows, AfterEnd

(* All that read() finds. *)
LEMMA SyllablesFollow ==
    ASSUME NEW phonemes \in Phonemes, WellJoined(phonemes)
    PROVE  Follows(phonemes, 1, SyllablesOf(phonemes))
<1> DEFINE n == Len(phonemes)
           from == CHOOSE f : IsFound(phonemes, 1, f)
           S == {m \in 0 .. n : \A p \in (n + 1) - m .. n + 1 : Follows(phonemes, p, from[p])}
<1>1. n \in Nat
  BY ClassFacts
<1>2. IsFound(phonemes, 1, from)
  BY FoundExists
<1>3. SyllablesOf(phonemes) = from[1]
  BY DEF SyllablesOf, IsFound, FirstFound
<1> HIDE DEF from
<1>4. \A p \in 1 .. n + 1 : from[p] = FirstFound(phonemes, p, from)
  BY <1>2 DEF IsFound
<1>5. ASSUME NEW p \in 1 .. n + 1, \A q \in p + 1 .. n + 1 : Follows(phonemes, q, from[q])
      PROVE  Follows(phonemes, p, from[p])
  <2> DEFINE s == ReadSyllable(phonemes, p)
  <2>1. CASE s.found
    <3>1. s.end \in p + 1 .. n + 1 /\ IsSyllable(phonemes, p, s)
      BY <2>1, SyllableEnds
    <3>2. from[p] = <<s>> \o from[s.end]
      BY <1>4, <2>1 DEF FirstFound
    <3> HIDE DEF s
    <3> QED
      BY <1>5, <3>1, <3>2, FollowsOne
  <2>2. CASE ~s.found
    <3>1. NoVowel(phonemes, p, n)
      BY <2>2, SyllableIs
    <3>2. from[p] = <<>>
      BY <1>4, <2>2 DEF FirstFound
    <3> QED
      BY <3>1, <3>2, FollowsNone
  <2> QED
    BY <2>1, <2>2
<1>6. 0 \in S
  <2>1. 0 \in 0 .. n /\ n + 1 \in 1 .. n + 1 /\ \A p \in (n + 1) - 0 .. n + 1 : p = n + 1
    BY <1>1
  <2>2. \A q \in (n + 1) + 1 .. n + 1 : Follows(phonemes, q, from[q])
    BY <1>1
  <2>3. Follows(phonemes, n + 1, from[n + 1])
    BY <1>5, <2>1, <2>2
  <2> QED
    BY <2>1, <2>3
<1>7. ASSUME NEW m \in 0 .. n - 1, m \in S
      PROVE  m + 1 \in S
  <2>1. /\ n - m \in 1 .. n + 1 /\ (n - m) + 1 = (n + 1) - m /\ (n + 1) - (m + 1) = n - m /\ m + 1 \in 0 .. n
        /\ \A p \in n - m .. n + 1 : p = n - m \/ p \in (n + 1) - m .. n + 1
    BY <1>1
  <2>2. Follows(phonemes, n - m, from[n - m])
    BY <1>5, <1>7, <2>1
  <2> QED
    BY <1>7, <2>1, <2>2
<1>8. n \in S
  <2>1. n \in 0 .. n
    BY <1>1
  <2> HIDE DEF S, n
  <2> QED
    BY <1>1, <1>6, <1>7, <2>1, InductionTo DEF Inductive
<1>9. 1 \in (n + 1) - n .. n + 1
  BY <1>1
<1> QED
  BY <1>3, <1>8, <1>9

(* Where the syllables lie. *)
LEMMA SyllablesLie ==
    ASSUME NEW phonemes \in Phonemes, NEW t, Follows(phonemes, 1, t)
    PROVE  /\ Len(t) \in Nat /\ Len(phonemes) \in Nat
           /\ \A i \in 1 .. Len(t) :
                  /\ t[i] \in SyllableType /\ AfterEnd(1, t, i - 1) \in Nat
                  /\ t[i].onset \in Nat /\ t[i].nucleus \in Nat /\ t[i].coda \in Nat /\ t[i].end \in Nat
                  /\ 1 <= AfterEnd(1, t, i - 1) /\ AfterEnd(1, t, i - 1) <= t[i].onset /\ t[i].onset <= t[i].nucleus
                  /\ t[i].nucleus < t[i].coda /\ t[i].coda <= t[i].end /\ t[i].end <= Len(phonemes) + 1
           /\ \A i, j \in 1 .. Len(t) : i < j => t[i].end <= t[j].onset
<1>1. Len(t) \in Nat /\ Len(phonemes) \in Nat /\ t \in Seq(SyllableType)
  BY ClassFacts DEF Follows
<1>2. ASSUME NEW i \in 1 .. Len(t)
      PROVE  /\ t[i] \in SyllableType
             /\ t[i].onset \in Nat /\ t[i].nucleus \in Nat /\ t[i].coda \in Nat /\ t[i].end \in Nat
             /\ AfterEnd(1, t, i - 1) <= t[i].onset /\ t[i].onset <= t[i].nucleus
             /\ t[i].nucleus < t[i].coda /\ t[i].coda <= t[i].end /\ t[i].end <= Len(phonemes) + 1
  <2>1. IsSyllable(phonemes, AfterEnd(1, t, i - 1), t[i])
    BY DEF Follows
  <2> QED
    BY <2>1 DEF IsSyllable, SyllableType
<1> DEFINE S == {j \in 0 .. Len(t) : AfterEnd(1, t, j) \in Nat /\ 1 <= AfterEnd(1, t, j)
                                     /\ \A i \in 1 .. j : t[i].end <= AfterEnd(1, t, j)}
<1>3. \A j \in 0 .. Len(t) : j \in S
  <2>1. 0 \in S
    BY <1>1 DEF AfterEnd
  <2>2. ASSUME NEW j \in 0 .. Len(t) - 1, j \in S
        PROVE  j + 1 \in S
    <3>1. j + 1 \in 1 .. Len(t) /\ (j + 1) - 1 = j /\ j + 1 # 0 /\ j + 1 \in 0 .. Len(t)
          /\ \A i \in 1 .. j + 1 : i \in 1 .. j \/ i = j + 1
      BY <1>1
    <3>2. AfterEnd(1, t, j + 1) = t[j + 1].end
      BY <3>1 DEF AfterEnd
    <3>3. /\ t[j + 1].onset \in Nat /\ t[j + 1].nucleus \in Nat /\ t[j + 1].coda \in Nat /\ t[j + 1].end \in Nat
          /\ AfterEnd(1, t, j) <= t[j + 1].onset /\ t[j + 1].onset <= t[j + 1].nucleus
          /\ t[j + 1].nucleus < t[j + 1].coda /\ t[j + 1].coda <= t[j + 1].end
      BY <1>2, <3>1
    <3>4. /\ AfterEnd(1, t, j) \in Nat /\ 1 <= AfterEnd(1, t, j)
          /\ \A i \in 1 .. j : t[i].end <= AfterEnd(1, t, j)
      BY <2>2
    <3>5. AfterEnd(1, t, j) <= t[j + 1].end
      BY <3>3, <3>4
    <3>6. \A i \in 1 .. j : t[i].end <= t[j + 1].end
      <4> TAKE i \in 1 .. j
      <4>1. i \in 1 .. Len(t)
        BY <1>1
      <4>2. t[i].end \in Nat
        BY <1>2, <4>1
      <4> QED
        BY <3>3, <3>4, <3>5, <4>2
    <3> QED
      BY <3>1, <3>2, <3>3, <3>4, <3>5, <3>6
  <2> HIDE DEF S
  <2> QED
    BY <1>1, <2>1, <2>2, InductionTo DEF Inductive
<1>4. ASSUME NEW i \in 1 .. Len(t)
      PROVE  AfterEnd(1, t, i - 1) \in Nat /\ 1 <= AfterEnd(1, t, i - 1)
  <2>1. i - 1 \in 0 .. Len(t)
    BY <1>1
  <2> QED
    BY <1>3, <2>1
<1>5. ASSUME NEW i \in 1 .. Len(t), NEW j \in 1 .. Len(t), i < j
      PROVE  t[i].end <= t[j].onset
  <2>1. j - 1 \in 0 .. Len(t) /\ i \in 1 .. j - 1
    BY <1>1, <1>5
  <2>2. t[i].end <= AfterEnd(1, t, j - 1)
    BY <1>3, <2>1
  <2>3. AfterEnd(1, t, j - 1) <= t[j].onset /\ t[j].onset \in Nat /\ t[i].end \in Nat /\ AfterEnd(1, t, j - 1) \in Nat
    BY <1>2, <1>4
  <2> QED
    BY <2>2, <2>3
<1> QED
  BY <1>1, <1>2, <1>4, <1>5

(* No vowel but the nucleus is in a syllable, and each is in one. *)
LEMMA OneNucleus ==
    ASSUME NEW phonemes \in Phonemes, NEW t, Follows(phonemes, 1, t)
    PROVE  /\ \A i \in 1 .. Len(t) : Cardinality({k \in Nuclei(phonemes) : t[i].onset <= k /\ k < t[i].end}) <= 1
           /\ \A k \in Nuclei(phonemes) : \E i \in 1 .. Len(t) : t[i].onset <= k /\ k < t[i].end
<1>1. /\ Len(t) \in Nat /\ Len(phonemes) \in Nat
      /\ \A i \in 1 .. Len(t) :
             /\ AfterEnd(1, t, i - 1) \in Nat
             /\ t[i].onset \in Nat /\ t[i].nucleus \in Nat /\ t[i].coda \in Nat /\ t[i].end \in Nat
             /\ 1 <= AfterEnd(1, t, i - 1) /\ AfterEnd(1, t, i - 1) <= t[i].onset /\ t[i].onset <= t[i].nucleus
             /\ t[i].nucleus < t[i].coda /\ t[i].coda <= t[i].end
  BY SyllablesLie
<1>2. ASSUME NEW i \in 1 .. Len(t), NEW k \in AfterEnd(1, t, i - 1) .. t[i].end - 1, k \in Nuclei(phonemes)
      PROVE  k = t[i].nucleus
  <2>1. IsSyllable(phonemes, AfterEnd(1, t, i - 1), t[i])
    BY DEF Follows
  <2>2. ClassAt(phonemes, k) = "vowel"
    BY <1>2 DEF Nuclei, ClassAt
  <2> QED
    BY <2>1, <2>2 DEF IsSyllable
<1>3. ASSUME NEW i \in 1 .. Len(t)
      PROVE  Cardinality({k \in Nuclei(phonemes) : t[i].onset <= k /\ k < t[i].end}) <= 1
  <2> DEFINE I == {k \in Nuclei(phonemes) : t[i].onset <= k /\ k < t[i].end}
  <2>1. I \subseteq {t[i].nucleus}
    <3> SUFFICES ASSUME NEW k \in I
                 PROVE  k = t[i].nucleus
      OBVIOUS
    <3>1. k \in Nat /\ k \in Nuclei(phonemes) /\ t[i].onset <= k /\ k < t[i].end
      BY DEF Nuclei
    <3>2. k \in AfterEnd(1, t, i - 1) .. t[i].end - 1
      BY <1>1, <3>1
    <3> QED
      BY <1>2, <3>1, <3>2
  <2>2. IsFiniteSet({t[i].nucleus}) /\ Cardinality({t[i].nucleus}) = 1
    BY FS_Singleton
  <2> HIDE DEF I
  <2>3. Cardinality(I) <= Cardinality({t[i].nucleus})
    BY <2>1, <2>2, FS_Subset
  <2> QED
    BY <2>2, <2>3 DEF I
<1>4. ASSUME NEW k \in Nuclei(phonemes)
      PROVE  \E i \in 1 .. Len(t) : t[i].onset <= k /\ k < t[i].end
  <2> DEFINE B == {i \in 1 .. Len(t) : k < t[i].end}
  <2>1. k \in 1 .. Len(phonemes) /\ k \in Nat /\ 1 <= k /\ ClassAt(phonemes, k) = "vowel"
    BY DEF Nuclei, ClassAt
  <2>2. B # {}
    <3> SUFFICES ASSUME \A i \in 1 .. Len(t) : ~(k < t[i].end)
                 PROVE  FALSE
      OBVIOUS
    <3>1. AfterEnd(1, t, Len(t)) \in Nat /\ AfterEnd(1, t, Len(t)) <= k
      <4>1. CASE Len(t) = 0
        BY <2>1, <4>1 DEF AfterEnd
      <4>2. CASE Len(t) # 0
        <5>1. Len(t) \in 1 .. Len(t)
          BY <1>1, <4>2
        <5>2. AfterEnd(1, t, Len(t)) = t[Len(t)].end /\ t[Len(t)].end \in Nat
          BY <1>1, <4>2, <5>1 DEF AfterEnd
        <5> QED
          BY <2>1, <5>1, <5>2
      <4> QED
        BY <4>1, <4>2
    <3>2. k \in AfterEnd(1, t, Len(t)) .. Len(phonemes)
      BY <2>1, <3>1
    <3> QED
      BY <2>1, <3>2 DEF Follows, NoVowel
  <2>3. PICK i \in B : \A j \in B : i <= j
    <3>1. B \in SUBSET Nat
      OBVIOUS
    <3> HIDE DEF B
    <3> QED
      BY <2>2, <3>1, LeastNumber
  <2>4. i \in 1 .. Len(t) /\ k < t[i].end /\ i \in Nat
    OBVIOUS
  <2>5. AfterEnd(1, t, i - 1) <= k
    <3>1. CASE i = 1
      BY <2>1, <3>1 DEF AfterEnd
    <3>2. CASE i # 1
      <4>1. i - 1 \in 1 .. Len(t) /\ ~(i <= i - 1) /\ i - 1 # 0
        BY <1>1, <2>4, <3>2
      <4>2. ~(k < t[i - 1].end) /\ t[i - 1].end \in Nat
        BY <1>1, <2>3, <4>1
      <4> QED
        BY <2>1, <4>1, <4>2 DEF AfterEnd
    <3> QED
      BY <3>1, <3>2
  <2> HIDE DEF B
  <2>6. k \in AfterEnd(1, t, i - 1) .. t[i].end - 1
    BY <1>1, <2>1, <2>4, <2>5
  <2>7. k = t[i].nucleus
    BY <1>2, <2>4, <2>6
  <2> QED
    BY <1>1, <2>4, <2>7
<1> QED
  BY <1>3, <1>4

(* What is printed has the syllables of SyllablesPartition. *)
Parted(phonemes) ==
    LET syllables == SyllablesOf(phonemes)
        inside(k, s) == s.onset <= k /\ k < s.end
    IN  /\ \A i \in 1 .. Len(syllables) :
               LET s == syllables[i]
               IN  /\ s.onset <= s.nucleus /\ s.nucleus < s.coda /\ s.coda <= s.end
                   /\ i > 1 => syllables[i - 1].end <= s.onset
                   /\ Cardinality({k \in Nuclei(phonemes) : inside(k, s)}) <= 1
                   /\ s.end <= Len(phonemes) => ClassOf[phonemes[s.end - 1].sound] # "joined"
        /\ \A k \in Nuclei(phonemes) : \E i \in 1 .. Len(syllables) : inside(k, syllables[i])

LEMMA IsParted ==
    ASSUME NEW phonemes \in Phonemes, WellJoined(phonemes)
    PROVE  Parted(phonemes)
<1> DEFINE t == SyllablesOf(phonemes)
<1>1. Follows(phonemes, 1, t)
  BY SyllablesFollow
<1> HIDE DEF t
<1>2. /\ Len(t) \in Nat
      /\ \A i \in 1 .. Len(t) :
             t[i].onset <= t[i].nucleus /\ t[i].nucleus < t[i].coda /\ t[i].coda <= t[i].end
      /\ \A i, j \in 1 .. Len(t) : i < j => t[i].end <= t[j].onset
  BY <1>1, SyllablesLie
<1>3. /\ \A i \in 1 .. Len(t) : Cardinality({k \in Nuclei(phonemes) : t[i].onset <= k /\ k < t[i].end}) <= 1
      /\ \A k \in Nuclei(phonemes) : \E i \in 1 .. Len(t) : t[i].onset <= k /\ k < t[i].end
  BY <1>1, OneNucleus
<1>4. \A i \in 1 .. Len(t) : t[i].end <= Len(phonemes) => ClassOf[phonemes[t[i].end - 1].sound] # "joined"
  BY <1>1 DEF Follows, IsSyllable, ClassAt
<1>5. \A i \in 1 .. Len(t) : i > 1 => t[i - 1].end <= t[i].onset
  <2> TAKE i \in 1 .. Len(t)
  <2> SUFFICES ASSUME i > 1
               PROVE  t[i - 1].end <= t[i].onset
    OBVIOUS
  <2>1. i - 1 \in 1 .. Len(t) /\ i - 1 < i
    BY <1>2
  <2> QED
    BY <1>2, <2>1
<1> QED
  BY <1>2, <1>3, <1>4, <1>5 DEF Parted, t

-----------------------------------------------------------------------------
(* The placement of the stress.                                             *)

SameSounds(x, y) == Len(x) = Len(y) /\ \A k \in 1 .. Len(x) : x[k].sound = y[k].sound

(* Syllables are a matter of sounds. *)
LEMMA SameSyllables ==
    ASSUME NEW x, NEW y, SameSounds(x, y), Len(x) \in Nat
    PROVE  SyllablesOf(x) = SyllablesOf(y)
<1>1. ASSUME NEW p \in 1 .. Len(x) + 1
      PROVE  ReadSyllable(x, p) = ReadSyllable(y, p)
  <2> DEFINE AfterX(f) == IsRead(x, p, f)
             AfterY(f) == IsRead(y, p, f)
  <2>1. ASSUME NEW f
        PROVE  AfterX(f) <=> AfterY(f)
    <3>1. \A k \in p - 1 .. Len(x) :
              (IF k < p THEN Started(p) ELSE ReadPhoneme(f[k - 1], k, ClassOf[x[k].sound]))
                  = (IF k < p THEN Started(p) ELSE ReadPhoneme(f[k - 1], k, ClassOf[y[k].sound]))
      <4> TAKE k \in p - 1 .. Len(x)
      <4>1. CASE k < p
        BY <4>1
      <4>2. CASE ~(k < p)
        <5>1. k \in 1 .. Len(x)
          BY <4>2
        <5> QED
          BY <4>2, <5>1 DEF SameSounds
      <4> QED
        BY <4>1, <4>2
    <3> QED
      BY <3>1 DEF IsRead, SameSounds
  <2>2. (CHOOSE f : AfterX(f)) = (CHOOSE f : AfterY(f))
    <3> HIDE DEF AfterX, AfterY
    <3> QED
      BY <2>1
  <2>3. (CHOOSE f : IsRead(x, p, f)) = (CHOOSE f : IsRead(y, p, f))
    BY <2>2
  <2> DEFINE Found(s, n) ==
               IF s.found \/ s.state \in {"start", "onset", "coda_start_affricate"} THEN s
               ELSE [s EXCEPT !.coda = Coda(s, n + 1).coda, !.end = n + 1, !.found = TRUE]
  <2>4. /\ ReadSyllable(x, p) = Found((CHOOSE f : IsRead(x, p, f))[Len(x)], Len(x))
        /\ ReadSyllable(y, p) = Found((CHOOSE f : IsRead(y, p, f))[Len(y)], Len(y))
    BY DEF ReadSyllable, IsRead
  <2>5. Len(x) = Len(y)
    BY DEF SameSounds
  <2> HIDE DEF Found
  <2> QED
    BY <2>3, <2>4, <2>5
<1> DEFINE OfX(f) == IsFound(x, 1, f)
           OfY(f) == IsFound(y, 1, f)
<1>2. ASSUME NEW f
      PROVE  OfX(f) <=> OfY(f)
  <2>1. \A p \in 1 .. Len(x) + 1 : FirstFound(x, p, f) = FirstFound(y, p, f)
    BY <1>1 DEF FirstFound
  <2> QED
    BY <2>1 DEF IsFound, SameSounds
<1>3. (CHOOSE f : OfX(f)) = (CHOOSE f : OfY(f))
  <2> HIDE DEF OfX, OfY
  <2> QED
    BY <1>2
<1>4. (CHOOSE f : IsFound(x, 1, f)) = (CHOOSE f : IsFound(y, 1, f))
  BY <1>3
<1>5. SyllablesOf(x) = (CHOOSE f : IsFound(x, 1, f))[1] /\ SyllablesOf(y) = (CHOOSE f : IsFound(y, 1, f))[1]
  BY DEF SyllablesOf, IsFound, FirstFound
<1> QED
  BY <1>4, <1>5

(* The phonemes while their stress is placed: MoveStress for pairs of places, *)
(* of which no two have a place in common. *)
SomePhoneme == [sound : Sound, stress : Stress \cup {"unstressed"}]

Disjoint(a, b, N) ==
    \A i, j \in 1 .. N : i # j => a[i] # a[j] /\ a[i] # b[j] /\ b[i] # b[j]

Moved(x, a, b, i, y) ==
    /\ y \in [1 .. Len(x) -> SomePhoneme]
    /\ \A k \in 1 .. Len(x) : y[k].sound = x[k].sound
    /\ \A k \in 1 .. Len(x) : (\A j \in 1 .. i : k # a[j] /\ k # b[j]) => y[k] = x[k]
    /\ \A j \in 1 .. i :
           /\ y[b[j]].stress = IF x[a[j]].stress = "unstressed" THEN x[b[j]].stress ELSE x[a[j]].stress
           /\ a[j] # b[j] => y[a[j]].stress = "unstressed"

MovedTo(n, y, p, q, z) ==
    /\ z \in [1 .. n -> SomePhoneme]
    /\ \A k \in 1 .. n : z[k].sound = y[k].sound
    /\ \A k \in 1 .. n : k # p /\ k # q => z[k] = y[k]
    /\ z[q].stress = IF y[p].stress = "unstressed" THEN y[q].stress ELSE y[p].stress
    /\ p # q => z[p].stress = "unstressed"

LEMMA MoveType ==
    ASSUME NEW n \in Nat, NEW y \in [1 .. n -> SomePhoneme], NEW p \in 1 .. n, NEW q \in 1 .. n
    PROVE  MovedTo(n, y, p, q, MoveStress(y, p, q))
<1> USE DEF MovedTo
<1>1. /\ y[p] \in SomePhoneme /\ y[q] \in SomePhoneme
      /\ y[p].stress \in Stress \cup {"unstressed"}
  BY DEF SomePhoneme
<1>2. CASE y[p].stress = "unstressed"
  BY <1>2 DEF MoveStress
<1>3. CASE y[p].stress # "unstressed"
  <2> DEFINE v == [y EXCEPT ![p].stress = "unstressed"]
             z == [y EXCEPT ![p].stress = "unstressed", ![q].stress = y[p].stress]
  <2>1. MoveStress(y, p, q) = z
    BY <1>3 DEF MoveStress
  <2>2. /\ \A k \in 1 .. n : y[k] \in SomePhoneme
        /\ \A x \in SomePhoneme, w \in Stress \cup {"unstressed"} :
               [x EXCEPT !.stress = w] \in SomePhoneme /\ [x EXCEPT !.stress = w].stress = w
               /\ [x EXCEPT !.stress = w].sound = x.sound
    BY DEF SomePhoneme
  <2>3. v = [k \in 1 .. n |-> IF k = p THEN [y[k] EXCEPT !.stress = "unstressed"] ELSE y[k]]
    OBVIOUS
  <2>4. z = [k \in 1 .. n |-> IF k = q THEN [v[k] EXCEPT !.stress = y[p].stress] ELSE v[k]]
    OBVIOUS
  <2>5. \A k \in 1 .. n : v[k] \in SomePhoneme /\ v[k].sound = y[k].sound
    BY <2>2, <2>3
  <2>6. v[p].stress = "unstressed" /\ \A k \in 1 .. n : k # p => v[k] = y[k]
    BY <1>1, <2>2, <2>3
  <2> HIDE DEF v, z
  <2>7. \A k \in 1 .. n : z[k] \in SomePhoneme /\ z[k].sound = y[k].sound
    BY <1>1, <2>2, <2>4, <2>5
  <2>8. z[q].stress = y[p].stress /\ \A k \in 1 .. n : k # q => z[k] = v[k]
    BY <1>1, <2>2, <2>4, <2>5
  <2>9. z \in [1 .. n -> SomePhoneme]
    BY <2>4, <2>7
  <2> QED
    BY <1>3, <2>1, <2>6, <2>7, <2>8, <2>9
<1> QED
  BY <1>2, <1>3

LEMMA MovedOne ==
    ASSUME NEW x, NEW n \in Nat, n = Len(x), NEW N \in Nat,
           NEW a \in [1 .. N -> 1 .. n], NEW b \in [1 .. N -> 1 .. n], Disjoint(a, b, N),
           NEW i \in 0 .. N - 1, NEW y, Moved(x, a, b, i, y)
    PROVE  Moved(x, a, b, i + 1, MoveStress(y, a[i + 1], b[i + 1]))
<1> DEFINE p == a[i + 1]
           q == b[i + 1]
           z == MoveStress(y, p, q)
<1>1. /\ i + 1 \in 1 .. N /\ p \in 1 .. n /\ q \in 1 .. n
      /\ \A j \in 1 .. i : j \in 1 .. N /\ j # i + 1
      /\ \A j \in 1 .. i + 1 : j \in 1 .. i \/ j = i + 1
      /\ \A j \in 1 .. i : j \in 1 .. i + 1
      /\ i + 1 \in 1 .. i + 1
  OBVIOUS
<1>2. \A j \in 1 .. i : /\ a[j] \in 1 .. n /\ b[j] \in 1 .. n
                        /\ p # a[j] /\ p # b[j] /\ q # b[j] /\ q # a[j]
  BY <1>1 DEF Disjoint
<1>3. y \in [1 .. n -> SomePhoneme]
  BY DEF Moved
<1> HIDE DEF p, q, z
<1>4. /\ z \in [1 .. n -> SomePhoneme]
      /\ \A k \in 1 .. n : z[k].sound = y[k].sound
      /\ \A k \in 1 .. n : k # p /\ k # q => z[k] = y[k]
      /\ z[q].stress = IF y[p].stress = "unstressed" THEN y[q].stress ELSE y[p].stress
      /\ p # q => z[p].stress = "unstressed"
  <2>1. n \in Nat /\ p \in 1 .. n /\ q \in 1 .. n
    BY <1>1
  <2>2. MovedTo(n, y, p, q, MoveStress(y, p, q))
    BY <1>3, <2>1, MoveType
  <2> QED
    BY <2>2 DEF z, MovedTo
<1>5. y[p] = x[p] /\ y[q] = x[q]
  BY <1>1, <1>2 DEF Moved
<1>6. ASSUME NEW j \in 1 .. i + 1
      PROVE  /\ z[b[j]].stress = IF x[a[j]].stress = "unstressed" THEN x[b[j]].stress ELSE x[a[j]].stress
             /\ a[j] # b[j] => z[a[j]].stress = "unstressed"
  <2>1. CASE j = i + 1
    BY <1>4, <1>5, <2>1 DEF p, q
  <2>2. CASE j \in 1 .. i
    <3>1. z[a[j]] = y[a[j]] /\ z[b[j]] = y[b[j]]
      BY <1>2, <1>4, <2>2
    <3> QED
      BY <2>2, <3>1 DEF Moved
  <2> QED
    BY <1>1, <2>1, <2>2
<1>7. ASSUME NEW k \in 1 .. n, \A j \in 1 .. i + 1 : k # a[j] /\ k # b[j]
      PROVE  z[k] = x[k]
  <2>1. k # p /\ k # q
    BY <1>1, <1>7 DEF p, q
  <2>2. y[k] = x[k]
    BY <1>1, <1>7 DEF Moved
  <2> QED
    BY <1>4, <2>1, <2>2
<1>8. \A k \in 1 .. n : z[k].sound = x[k].sound
  BY <1>4 DEF Moved
<1>9. Moved(x, a, b, i + 1, z)
  BY <1>4, <1>6, <1>7, <1>8 DEF Moved
<1> QED
  BY <1>9 DEF p, q, z

IsPlaced(x, a, b, N, f) ==
    f = [i \in 0 .. N |-> IF i = 0 THEN x ELSE MoveStress(f[i - 1], a[i], b[i])]

(* The recursion over the syllables. *)
LEMMA PlacedIs ==
    ASSUME NEW x, NEW n \in Nat, n = Len(x), x \in [1 .. n -> SomePhoneme], NEW N \in Nat,
           NEW a \in [1 .. N -> 1 .. n], NEW b \in [1 .. N -> 1 .. n], Disjoint(a, b, N)
    PROVE  Moved(x, a, b, N, (CHOOSE f : IsPlaced(x, a, b, N, f))[N])
<1> DEFINE X == [1 .. n -> SomePhoneme]
           F == [r \in (1 .. N) \X X |-> MoveStress(r[2], a[r[1]], b[r[1]])]
<1>1. F \in Steps(N, X)
  <2>1. \A r \in (1 .. N) \X X : MoveStress(r[2], a[r[1]], b[r[1]]) \in X
    <3> TAKE r \in (1 .. N) \X X
    <3>1. r[2] \in X /\ a[r[1]] \in 1 .. n /\ b[r[1]] \in 1 .. n
      OBVIOUS
    <3> HIDE DEF X
    <3> QED
      BY <3>1, MoveType DEF X, MovedTo
  <2> HIDE DEF X
  <2> QED
    BY <2>1 DEF Steps
<1>2. \A i \in 1 .. N, y \in X : F[<<i, y>>] = MoveStress(y, a[i], b[i])
  OBVIOUS
<1> HIDE DEF F, X
<1>3. PICK g \in [0 .. N -> X] : IsRecursion(g, N, x, F)
  BY <1>1, RecursionTo DEF X
<1>4. \A i \in 1 .. N : g[i] = MoveStress(g[i - 1], a[i], b[i])
  <2> TAKE i \in 1 .. N
  <2>1. g[i - 1] \in X /\ g[i] = F[<<i, g[i - 1]>>]
    <3>1. i - 1 \in 0 .. N
      OBVIOUS
    <3> QED
      BY <1>3, <3>1 DEF IsRecursion
  <2> QED
    BY <1>2, <2>1
<1>5. IsPlaced(x, a, b, N, g)
  <2>1. \A i \in 0 .. N : g[i] = IF i = 0 THEN x ELSE MoveStress(g[i - 1], a[i], b[i])
    <3> TAKE i \in 0 .. N
    <3>1. CASE i = 0
      BY <1>3, <3>1 DEF IsRecursion
    <3>2. CASE i # 0
      <4>1. i \in 1 .. N
        BY <3>2
      <4> QED
        BY <1>4, <3>2, <4>1
    <3> QED
      BY <3>1, <3>2
  <2> QED
    BY <2>1 DEF IsPlaced
<1> DEFINE f == CHOOSE h : IsPlaced(x, a, b, N, h)
<1>6. IsPlaced(x, a, b, N, f)
  BY <1>5
<1> HIDE DEF f
<1> DEFINE S == {i \in 0 .. N : Moved(x, a, b, i, f[i])}
<1>7. 0 \in S
  <2>1. f[0] = x /\ 0 \in 0 .. N
    BY <1>6 DEF IsPlaced
  <2>2. Moved(x, a, b, 0, x)
    BY DEF Moved
  <2> QED
    BY <2>1, <2>2
<1>8. ASSUME NEW i \in 0 .. N - 1, i \in S
      PROVE  i + 1 \in S
  <2>1. i + 1 \in 0 .. N /\ i + 1 # 0 /\ (i + 1) - 1 = i
    OBVIOUS
  <2>2. f[i + 1] = MoveStress(f[i], a[i + 1], b[i + 1])
    BY <1>6, <2>1 DEF IsPlaced
  <2>3. Moved(x, a, b, i, f[i])
    BY <1>8
  <2>4. Moved(x, a, b, i + 1, MoveStress(f[i], a[i + 1], b[i + 1]))
    BY <2>3, MovedOne
  <2> QED
    BY <2>1, <2>2, <2>4
<1>9. N \in S
  <2>1. N \in 0 .. N
    OBVIOUS
  <2> HIDE DEF S
  <2> QED
    BY <1>7, <1>8, <2>1, InductionTo DEF Inductive
<1> QED
  BY <1>9 DEF f

Onsets(t) == [i \in 1 .. Len(t) |-> t[i].onset]
NucleiOf(t) == [i \in 1 .. Len(t) |-> t[i].nucleus]

LEMMA VowelPlaced ==
    ASSUME NEW x, NEW n \in Nat, n = Len(x), x \in [1 .. n -> SomePhoneme],
           NEW t, t = SyllablesOf(x), Len(t) \in Nat,
           Onsets(t) \in [1 .. Len(t) -> 1 .. n], NucleiOf(t) \in [1 .. Len(t) -> 1 .. n],
           Disjoint(Onsets(t), NucleiOf(t), Len(t))
    PROVE  Moved(x, Onsets(t), NucleiOf(t), Len(t), make_vowel_stressed(x))
<1> DEFINE Placed(f) == IsPlaced(x, Onsets(t), NucleiOf(t), Len(t), f)
           Made(f) == f = [i \in 0 .. Len(t) |-> IF i = 0 THEN x ELSE MoveStress(f[i - 1], t[i].onset, t[i].nucleus)]
<1>1. ASSUME NEW f
      PROVE  Placed(f) <=> Made(f)
  <2>1. \A i \in 0 .. Len(t) :
            (IF i = 0 THEN x ELSE MoveStress(f[i - 1], Onsets(t)[i], NucleiOf(t)[i]))
                = (IF i = 0 THEN x ELSE MoveStress(f[i - 1], t[i].onset, t[i].nucleus))
    <3> TAKE i \in 0 .. Len(t)
    <3>1. CASE i = 0
      BY <3>1
    <3>2. CASE i # 0
      <4>1. i \in 1 .. Len(t)
        BY <3>2
      <4> QED
        BY <3>2, <4>1 DEF Onsets, NucleiOf
    <3> QED
      BY <3>1, <3>2
  <2> QED
    BY <2>1 DEF IsPlaced
<1>2. (CHOOSE f : Placed(f)) = (CHOOSE f : Made(f))
  <2> HIDE DEF Placed, Made
  <2> QED
    BY <1>1
<1>3. make_vowel_stressed(x) = (CHOOSE f : Made(f))[Len(t)]
  BY DEF make_vowel_stressed
<1> HIDE DEF Made
<1>4. make_vowel_stressed(x) = (CHOOSE f : IsPlaced(x, Onsets(t), NucleiOf(t), Len(t), f))[Len(t)]
  BY <1>2, <1>3
<1> QED
  BY ZenonT(60), <1>4, PlacedIs

LEMMA SyllablePlaced ==
    ASSUME NEW x, NEW n \in Nat, n = Len(x), x \in [1 .. n -> SomePhoneme],
           NEW t, t = SyllablesOf(x), Len(t) \in Nat,
           Onsets(t) \in [1 .. Len(t) -> 1 .. n], NucleiOf(t) \in [1 .. Len(t) -> 1 .. n],
           Disjoint(NucleiOf(t), Onsets(t), Len(t))
    PROVE  Moved(x, NucleiOf(t), Onsets(t), Len(t), make_syllable_stressed(x))
<1> DEFINE Placed(f) == IsPlaced(x, NucleiOf(t), Onsets(t), Len(t), f)
           Made(f) == f = [i \in 0 .. Len(t) |-> IF i = 0 THEN x ELSE MoveStress(f[i - 1], t[i].nucleus, t[i].onset)]
<1>1. ASSUME NEW f
      PROVE  Placed(f) <=> Made(f)
  <2>1. \A i \in 0 .. Len(t) :
            (IF i = 0 THEN x ELSE MoveStress(f[i - 1], NucleiOf(t)[i], Onsets(t)[i]))
                = (IF i = 0 THEN x ELSE MoveStress(f[i - 1], t[i].nucleus, t[i].onset))
    <3> TAKE i \in 0 .. Len(t)
    <3>1. CASE i = 0
      BY <3>1
    <3>2. CASE i # 0
      <4>1. i \in 1 .. Len(t)
        BY <3>2
      <4> QED
        BY <3>2, <4>1 DEF Onsets, NucleiOf
    <3> QED
      BY <3>1, <3>2
  <2> QED
    BY <2>1 DEF IsPlaced
<1>2. (CHOOSE f : Placed(f)) = (CHOOSE f : Made(f))
  <2> HIDE DEF Placed, Made
  <2> QED
    BY <1>1
<1>3. make_syllable_stressed(x) = (CHOOSE f : Made(f))[Len(t)]
  BY DEF make_syllable_stressed
<1> HIDE DEF Made
<1>4. make_syllable_stressed(x) = (CHOOSE f : IsPlaced(x, NucleiOf(t), Onsets(t), Len(t), f))[Len(t)]
  BY <1>2, <1>3
<1> QED
  BY ZenonT(60), <1>4, PlacedIs

(* No two syllables have a place in common. *)
LEMMA Places ==
    ASSUME NEW phonemes \in Phonemes, NEW t, Follows(phonemes, 1, t)
    PROVE  /\ Onsets(t) \in [1 .. Len(t) -> 1 .. Len(phonemes)]
           /\ NucleiOf(t) \in [1 .. Len(t) -> 1 .. Len(phonemes)]
           /\ Disjoint(Onsets(t), NucleiOf(t), Len(t)) /\ Disjoint(NucleiOf(t), Onsets(t), Len(t))
           /\ \A i, j \in 1 .. Len(t) : i # j =>
                  \A k \in t[i].onset .. t[i].end - 1 : k # Onsets(t)[j] /\ k # NucleiOf(t)[j]
<1>1. /\ Len(t) \in Nat /\ Len(phonemes) \in Nat
      /\ \A i \in 1 .. Len(t) :
             /\ t[i].onset \in Nat /\ t[i].nucleus \in Nat /\ t[i].coda \in Nat /\ t[i].end \in Nat
             /\ 1 <= t[i].onset /\ t[i].onset <= t[i].nucleus /\ t[i].nucleus < t[i].end /\ t[i].end <= Len(phonemes) + 1
      /\ \A i, j \in 1 .. Len(t) : i < j => t[i].end <= t[j].onset
  <2>1. /\ Len(t) \in Nat /\ Len(phonemes) \in Nat
        /\ \A i \in 1 .. Len(t) :
               /\ AfterEnd(1, t, i - 1) \in Nat
               /\ t[i].onset \in Nat /\ t[i].nucleus \in Nat /\ t[i].coda \in Nat /\ t[i].end \in Nat
               /\ 1 <= AfterEnd(1, t, i - 1) /\ AfterEnd(1, t, i - 1) <= t[i].onset /\ t[i].onset <= t[i].nucleus
               /\ t[i].nucleus < t[i].coda /\ t[i].coda <= t[i].end /\ t[i].end <= Len(phonemes) + 1
        /\ \A i, j \in 1 .. Len(t) : i < j => t[i].end <= t[j].onset
    BY SyllablesLie
  <2>2. ASSUME NEW i \in 1 .. Len(t)
        PROVE  1 <= t[i].onset /\ t[i].nucleus < t[i].end
    <3>1. /\ AfterEnd(1, t, i - 1) \in Nat
          /\ t[i].onset \in Nat /\ t[i].nucleus \in Nat /\ t[i].coda \in Nat /\ t[i].end \in Nat
          /\ 1 <= AfterEnd(1, t, i - 1) /\ AfterEnd(1, t, i - 1) <= t[i].onset
          /\ t[i].nucleus < t[i].coda /\ t[i].coda <= t[i].end
      BY <2>1
    <3> QED
      BY <3>1
  <2> QED
    BY <2>1, <2>2
<1>2. \A i \in 1 .. Len(t) : t[i].onset \in 1 .. Len(phonemes) /\ t[i].nucleus \in 1 .. Len(phonemes)
  <2> TAKE i \in 1 .. Len(t)
  <2> QED
    BY <1>1
<1>3. /\ Onsets(t) \in [1 .. Len(t) -> 1 .. Len(phonemes)] /\ NucleiOf(t) \in [1 .. Len(t) -> 1 .. Len(phonemes)]
      /\ \A i \in 1 .. Len(t) : Onsets(t)[i] = t[i].onset /\ NucleiOf(t)[i] = t[i].nucleus
  BY <1>2 DEF Onsets, NucleiOf
<1>4. ASSUME NEW i \in 1 .. Len(t), NEW j \in 1 .. Len(t), i # j, NEW k \in t[i].onset .. t[i].end - 1
      PROVE  k # t[j].onset /\ k # t[j].nucleus
  <2>1. /\ t[i].onset \in Nat /\ t[i].end \in Nat /\ t[j].onset \in Nat /\ t[j].nucleus \in Nat /\ t[j].end \in Nat
        /\ t[j].onset <= t[j].nucleus /\ t[j].nucleus < t[j].end
    BY <1>1
  <2>2. CASE i < j
    <3>1. t[i].end <= t[j].onset
      BY <1>1, <2>2
    <3> QED
      BY <2>1, <3>1
  <2>3. CASE j < i
    <3>1. t[j].end <= t[i].onset
      BY <1>1, <2>3
    <3> QED
      BY <2>1, <3>1
  <2>4. i < j \/ j < i
    BY <1>4
  <2> QED
    BY <2>2, <2>3, <2>4
<1>5. ASSUME NEW i \in 1 .. Len(t)
      PROVE  t[i].onset \in t[i].onset .. t[i].end - 1 /\ t[i].nucleus \in t[i].onset .. t[i].end - 1
  BY <1>1
<1>6. \A i, j \in 1 .. Len(t) : i # j =>
          t[i].onset # t[j].onset /\ t[i].onset # t[j].nucleus /\ t[i].nucleus # t[j].nucleus /\ t[i].nucleus # t[j].onset
  BY <1>4, <1>5
<1>7. Disjoint(Onsets(t), NucleiOf(t), Len(t)) /\ Disjoint(NucleiOf(t), Onsets(t), Len(t))
  BY ZenonT(60), <1>3, <1>6 DEF Disjoint
<1>8. \A i, j \in 1 .. Len(t) : i # j =>
          \A k \in t[i].onset .. t[i].end - 1 : k # Onsets(t)[j] /\ k # NucleiOf(t)[j]
  BY <1>3, <1>4
<1> QED
  BY <1>3, <1>7, <1>8

Stressed(phonemes, s) == {k \in s.onset .. s.end - 1 : phonemes[k].stress # "unstressed"}

(* Moved from the one of these places to the other, it is in the syllable as *)
(* it was. *)
LEMMA StressKept ==
    ASSUME NEW phonemes \in Phonemes, NEW t, Follows(phonemes, 1, t), NEW a, NEW b,
           (a = Onsets(t) /\ b = NucleiOf(t)) \/ (a = NucleiOf(t) /\ b = Onsets(t)),
           NEW y, Moved(phonemes, a, b, Len(t), y)
    PROVE  \A i \in 1 .. Len(t) : Stressed(y, t[i]) = {} <=> Stressed(phonemes, t[i]) = {}
<1> SUFFICES ASSUME NEW i \in 1 .. Len(t)
             PROVE  Stressed(y, t[i]) = {} <=> Stressed(phonemes, t[i]) = {}
  OBVIOUS
<1> DEFINE R == t[i].onset .. t[i].end - 1
<1>1. a[i] \in R /\ b[i] \in R /\ R \subseteq 1 .. Len(phonemes)
  <2>1. /\ Len(t) \in Nat /\ Len(phonemes) \in Nat
        /\ AfterEnd(1, t, i - 1) \in Nat
        /\ t[i].onset \in Nat /\ t[i].nucleus \in Nat /\ t[i].coda \in Nat /\ t[i].end \in Nat
        /\ 1 <= AfterEnd(1, t, i - 1) /\ AfterEnd(1, t, i - 1) <= t[i].onset /\ t[i].onset <= t[i].nucleus
        /\ t[i].nucleus < t[i].coda /\ t[i].coda <= t[i].end /\ t[i].end <= Len(phonemes) + 1
    BY SyllablesLie
  <2>2. t[i].onset \in R /\ t[i].nucleus \in R /\ R \subseteq 1 .. Len(phonemes)
    BY <2>1
  <2>3. Onsets(t)[i] = t[i].onset /\ NucleiOf(t)[i] = t[i].nucleus
    BY DEF Onsets, NucleiOf
  <2> HIDE DEF R
  <2> QED
    BY <2>2, <2>3
<1>2. \A k \in R : k # a[i] /\ k # b[i] => y[k] = phonemes[k]
  <2> TAKE k \in R
  <2> SUFFICES ASSUME k # a[i], k # b[i]
               PROVE  y[k] = phonemes[k]
    OBVIOUS
  <2>1. \A j \in 1 .. Len(t) : i # j => k # Onsets(t)[j] /\ k # NucleiOf(t)[j]
    BY Places
  <2>2. \A j \in 1 .. Len(t) : k # a[j] /\ k # b[j]
    BY <2>1
  <2> HIDE DEF R
  <2> QED
    BY <1>1, <2>2 DEF Moved
<1>3. /\ y[b[i]].stress = IF phonemes[a[i]].stress = "unstressed" THEN phonemes[b[i]].stress ELSE phonemes[a[i]].stress
      /\ a[i] # b[i] => y[a[i]].stress = "unstressed"
  BY DEF Moved
<1> HIDE DEF R
<1>4. ASSUME NEW k \in R, phonemes[k].stress # "unstressed"
      PROVE  \E l \in R : y[l].stress # "unstressed"
  <2>1. CASE k \in {a[i], b[i]}
    BY <1>1, <1>3, <1>4, <2>1
  <2>2. CASE k \notin {a[i], b[i]}
    BY <1>2, <1>4, <2>2
  <2> QED
    BY <2>1, <2>2
<1>5. ASSUME NEW k \in R, y[k].stress # "unstressed"
      PROVE  \E l \in R : phonemes[l].stress # "unstressed"
  <2>1. CASE k = b[i]
    BY <1>1, <1>3, <1>5, <2>1
  <2>2. CASE k = a[i] /\ k # b[i]
    BY <1>3, <1>5, <2>2
  <2>3. CASE k # a[i] /\ k # b[i]
    BY <1>2, <1>5, <2>3
  <2> QED
    BY <2>1, <2>2, <2>3
<1> QED
  BY <1>4, <1>5 DEF Stressed, R

(* No syllable has a stress at its onset and another at its nucleus. *)
StressedOnce(phonemes) ==
    LET t == SyllablesOf(phonemes)
    IN  \A i \in 1 .. Len(t) :
            \/ phonemes[t[i].onset].stress = "unstressed"
            \/ phonemes[t[i].nucleus].stress = "unstressed"
            \/ phonemes[t[i].onset].stress = phonemes[t[i].nucleus].stress
OnceAt(x, a, b, N) ==
    \A i \in 1 .. N : \/ x[a[i]].stress = "unstressed"
                      \/ x[b[i]].stress = "unstressed"
                      \/ x[a[i]].stress = x[b[i]].stress

(* Moved to the nuclei and back to the onsets, the stress is where it is moved *)
(* to directly. *)
LEMMA BackAgain ==
    ASSUME NEW x, NEW v, NEW w, NEW z, NEW N \in Nat, NEW n \in Nat, n = Len(x), n = Len(v),
           NEW a \in [1 .. N -> 1 .. n], NEW b \in [1 .. N -> 1 .. n],
           Moved(x, a, b, N, v), Moved(x, b, a, N, w), Moved(v, b, a, N, z), OnceAt(x, a, b, N)
    PROVE  z = w
<1>1. w \in [1 .. n -> SomePhoneme] /\ z \in [1 .. n -> SomePhoneme]
  BY DEF Moved
<1>2. ASSUME NEW k \in 1 .. n
      PROVE  z[k] = w[k]
  <2>1. z[k].sound = w[k].sound
    BY DEF Moved
  <2>2. z[k].stress = w[k].stress
    <3>1. CASE \A j \in 1 .. N : k # a[j] /\ k # b[j]
      BY <3>1 DEF Moved
    <3>2. ASSUME NEW i \in 1 .. N, k = a[i] \/ k = b[i]
          PROVE  z[k].stress = w[k].stress
      <4>1. /\ v[b[i]].stress = IF x[a[i]].stress = "unstressed" THEN x[b[i]].stress ELSE x[a[i]].stress
            /\ a[i] # b[i] => v[a[i]].stress = "unstressed"
        BY DEF Moved
      <4>2. /\ w[a[i]].stress = IF x[b[i]].stress = "unstressed" THEN x[a[i]].stress ELSE x[b[i]].stress
            /\ a[i] # b[i] => w[b[i]].stress = "unstressed"
        BY DEF Moved
      <4>3. /\ z[a[i]].stress = IF v[b[i]].stress = "unstressed" THEN v[a[i]].stress ELSE v[b[i]].stress
            /\ a[i] # b[i] => z[b[i]].stress = "unstressed"
        BY DEF Moved
      <4> QED
        BY <3>2, <4>1, <4>2, <4>3 DEF OnceAt
    <3> QED
      BY <3>1, <3>2
  <2>3. z[k] \in SomePhoneme /\ w[k] \in SomePhoneme
    BY <1>1
  <2> QED
    BY <2>1, <2>2, <2>3 DEF SomePhoneme
<1> QED
  BY <1>1, <1>2

(* Placing the stress of what is printed. *)
Kept(before, after) ==
    /\ \A i \in 1 .. Len(SyllablesOf(before)) :
           LET s == SyllablesOf(before)[i]
           IN  Stressed(after, s) = {} <=> Stressed(before, s) = {}
    /\ \A k \in 1 .. Len(before) : after[k].sound = before[k].sound
    /\ make_syllable_stressed(make_vowel_stressed(before)) = make_syllable_stressed(before)

LEMMA IsKept ==
    ASSUME NEW x \in Phonemes, WellJoined(x), StressedOnce(x),
           NEW type \in {"as_transcribed", "vowel", "syllable"}
    PROVE  Kept(x, make_stressed(x, type))
<1> DEFINE t == SyllablesOf(x)
           n == Len(x)
           v == make_vowel_stressed(x)
           w == make_syllable_stressed(x)
<1>1. n \in Nat /\ x \in [1 .. n -> SomePhoneme]
  <2>1. Phoneme \subseteq SomePhoneme
    BY DEF Phoneme, SomePhoneme
  <2>2. x \in [1 .. n -> Phoneme] /\ n \in Nat
    BY DEF Phonemes
  <2> QED
    BY <2>1, <2>2
<1>2. Follows(x, 1, t)
  BY SyllablesFollow
<1>3. Len(t) \in Nat
  BY <1>2 DEF Follows
<1>4. /\ Onsets(t) \in [1 .. Len(t) -> 1 .. n] /\ NucleiOf(t) \in [1 .. Len(t) -> 1 .. n]
      /\ Disjoint(Onsets(t), NucleiOf(t), Len(t)) /\ Disjoint(NucleiOf(t), Onsets(t), Len(t))
  <2> HIDE DEF t
  <2> QED
    BY <1>2, Places
<1>5. Moved(x, Onsets(t), NucleiOf(t), Len(t), v)
  BY <1>1, <1>3, <1>4, VowelPlaced
<1>6. Moved(x, NucleiOf(t), Onsets(t), Len(t), w)
  BY <1>1, <1>3, <1>4, SyllablePlaced
<1>7. v \in [1 .. n -> SomePhoneme] /\ Len(v) = n /\ SameSounds(x, v)
  <2>1. v \in [1 .. n -> SomePhoneme] /\ \A k \in 1 .. n : v[k].sound = x[k].sound
    <3> HIDE DEF v, t
    <3> QED
      BY <1>5 DEF Moved
  <2> HIDE DEF v
  <2>2. Len(v) = n
    <3>1. v \in Seq(SomePhoneme)
      BY <1>1, <2>1
    <3> QED
      BY <1>1, <2>1, <3>1
  <2> QED
    BY <1>1, <2>1, <2>2 DEF SameSounds
<1>8. SyllablesOf(v) = t
  <2> HIDE DEF v
  <2> QED
    BY <1>1, <1>7, SameSyllables
<1>9. Moved(v, NucleiOf(t), Onsets(t), Len(t), make_syllable_stressed(v))
  <2> HIDE DEF v
  <2>1. t = SyllablesOf(v) /\ n = Len(v)
    BY <1>7, <1>8
  <2> HIDE DEF t
  <2> QED
    BY <1>1, <1>3, <1>4, <1>7, <2>1, SyllablePlaced
<1>10. OnceAt(x, Onsets(t), NucleiOf(t), Len(t))
  BY DEF StressedOnce, Onsets, NucleiOf, OnceAt
<1>11. make_syllable_stressed(v) = w
  <2>1. /\ n = Len(x) /\ n = Len(v) /\ n \in Nat /\ Len(t) \in Nat
        /\ Onsets(t) \in [1 .. Len(t) -> 1 .. n] /\ NucleiOf(t) \in [1 .. Len(t) -> 1 .. n]
    BY <1>1, <1>3, <1>4, <1>7
  <2> HIDE DEF v, w, t, n
  <2> QED
    BY <2>1, <1>5, <1>6, <1>9, <1>10, BackAgain
<1>12. /\ \A i \in 1 .. Len(t) : Stressed(v, t[i]) = {} <=> Stressed(x, t[i]) = {}
       /\ \A i \in 1 .. Len(t) : Stressed(w, t[i]) = {} <=> Stressed(x, t[i]) = {}
       /\ \A k \in 1 .. n : v[k].sound = x[k].sound /\ w[k].sound = x[k].sound
  <2> HIDE DEF v, w, t
  <2>1. \A i \in 1 .. Len(t) : Stressed(v, t[i]) = {} <=> Stressed(x, t[i]) = {}
    BY <1>2, <1>5, StressKept
  <2>2. \A i \in 1 .. Len(t) : Stressed(w, t[i]) = {} <=> Stressed(x, t[i]) = {}
    BY <1>2, <1>6, StressKept
  <2> QED
    BY <1>5, <1>6, <2>1, <2>2 DEF Moved
<1>13. make_stressed(x, type) \in {x, v, w}
  BY DEF make_stressed
<1> DEFINE y == make_stressed(x, type)
<1>14. /\ \A i \in 1 .. Len(t) : Stressed(y, t[i]) = {} <=> Stressed(x, t[i]) = {}
       /\ \A k \in 1 .. n : y[k].sound = x[k].sound
  <2> HIDE DEF v, w, t, y
  <2> QED
    BY <1>12, <1>13 DEF y
<1> QED
  BY <1>11, <1>14 DEF Kept

-----------------------------------------------------------------------------
(* What the converter holds are phonemes; when nothing matched, the phoneme *)
(* that read() returns is in the queue.                                     *)
Readable == Phoneme \cup {Unreadable}

ReadingType ==
    [pc : {"idle", "enter", "match", "unmatched"}, entry : Seq(Sound), match : {<<>>} \cup DOMAIN Rules,
     read_queue : Seq(Phoneme)]

AccentInv ==
    /\ source \in Seq(Readable) /\ mReadQueue \in Seq(Phoneme) /\ mCurrent \in Seq(Phoneme)
    /\ mInitialPhonemeProsody \in Stress \cup {"unspecified"}
    /\ reading \in ReadingType
    /\ returned \in [kind : {"none", "true", "false", "throw"}, phonemes : Seq(Phoneme)]
    /\ reading.pc = "unmatched" => mReadQueue # <<>> \/ source = <<>>

ChunksInv ==
    /\ stress \in {"as_transcribed", "vowel", "syllable"}
    /\ aPhonemes \in Seq(Phoneme) /\ printed \in Seq(Seq(Phoneme))

LEMMA ReturnsTyped ==
    /\ \A phoneme \in Phoneme :
           True(phoneme) \in [kind : {"none", "true", "false", "throw"}, phonemes : Seq(Phoneme)]
    /\ \A kind \in {"none", "false", "throw"} :
           Result(kind) \in [kind : {"none", "true", "false", "throw"}, phonemes : Seq(Phoneme)]
    /\ \A pc \in {"idle", "enter", "match", "unmatched"} : At(pc) \in ReadingType /\ At(pc).pc = pc
    /\ Idle \in ReadingType /\ Idle.pc = "idle"
<1>1. Idle \in ReadingType /\ Idle.pc = "idle"
  BY DEF Idle, ReadingType
<1>2. ASSUME NEW pc \in {"idle", "enter", "match", "unmatched"}
      PROVE  At(pc) \in ReadingType /\ At(pc).pc = pc
  BY <1>1 DEF At, ReadingType
<1>3. ASSUME NEW phoneme \in Phoneme
      PROVE  True(phoneme) \in [kind : {"none", "true", "false", "throw"}, phonemes : Seq(Phoneme)]
  BY DEF True
<1>4. ASSUME NEW kind \in {"none", "false", "throw"}
      PROVE  Result(kind) \in [kind : {"none", "true", "false", "throw"}, phonemes : Seq(Phoneme)]
  BY DEF Result
<1> QED
  BY <1>1, <1>2, <1>3, <1>4

LEMMA NextTyped ==
    ASSUME AccentInv, mReadQueue # <<>> \/ (source # <<>> /\ Head(source) \in Phoneme)
    PROVE  /\ NextPhoneme \in Phoneme /\ NextPhoneme.sound \in Sound /\ NextPhoneme.stress \in Stress
           /\ QueueAfter \in Seq(Phoneme) /\ SourceAfter \in Seq(Readable)
<1>1. source \in Seq(Readable) /\ mReadQueue \in Seq(Phoneme)
  BY DEF AccentInv
<1>2. NextPhoneme \in Phoneme
  BY <1>1 DEF NextPhoneme
<1>3. QueueAfter \in Seq(Phoneme)
  BY <1>1 DEF QueueAfter
<1>4. SourceAfter \in Seq(Readable)
  BY <1>1 DEF SourceAfter
<1> QED
  BY <1>2, <1>3, <1>4 DEF Phoneme

LEMMA AvailableTyped ==
    ASSUME AccentInv, Available
    PROVE  mReadQueue # <<>> \/ (source # <<>> /\ Head(source) \in Phoneme)
<1>1. source # <<>> => Head(source) \in Readable
  BY DEF AccentInv
<1> QED
  BY <1>1 DEF Available, Readable

LEMMA AfterMatchTyped ==
    ASSUME AccentInv, AfterMatch
    PROVE  /\ mCurrent' \in Seq(Phoneme) /\ reading' \in ReadingType
           /\ reading'.pc \in {"enter", "unmatched"}
<1>1. reading.match \in {<<>>} \cup DOMAIN Rules /\ mCurrent \in Seq(Phoneme)
  BY DEF AccentInv, ReadingType
<1>2. CASE reading.match # <<>>
  <2>1. mCurrent' = Rules[reading.match] /\ reading' = At("enter")
    BY <1>2 DEF AfterMatch
  <2> QED
    BY <1>1, <1>2, <2>1, AccentAssumption, ReturnsTyped
<1>3. CASE reading.match = <<>>
  <2>1. mCurrent' = mCurrent /\ reading' = At("unmatched")
    BY <1>3 DEF AfterMatch
  <2> QED
    BY <1>1, <2>1, ReturnsTyped
<1> QED
  BY <1>2, <1>3

LEMMA ReadTyped ==
    ASSUME AccentInv, ReadConverted
    PROVE  AccentInv'
<1> DEFINE ReturnedType == [kind : {"none", "true", "false", "throw"}, phonemes : Seq(Phoneme)]
<1>1. /\ source \in Seq(Readable) /\ mReadQueue \in Seq(Phoneme) /\ mCurrent \in Seq(Phoneme)
      /\ mInitialPhonemeProsody \in Stress \cup {"unspecified"}
      /\ reading \in ReadingType /\ returned \in ReturnedType
      /\ reading.pc = "unmatched" => mReadQueue # <<>> \/ source = <<>>
      /\ reading.entry \in Seq(Sound) /\ reading.read_queue \in Seq(Phoneme)
      /\ reading.match \in {<<>>} \cup DOMAIN Rules
  BY DEF AccentInv, ReadingType
<1>2. CASE Replace
  <2> DEFINE p == [Head(mCurrent) EXCEPT !.stress =
                      IF mInitialPhonemeProsody = "unspecified" THEN @ ELSE mInitialPhonemeProsody]
  <2>1. Head(mCurrent) \in Phoneme /\ Tail(mCurrent) \in Seq(Phoneme)
    BY <1>1, <1>2 DEF Replace
  <2>2. p \in Phoneme
    BY <1>1, <2>1 DEF Phoneme
  <2>3. returned' = True(p) /\ mInitialPhonemeProsody' = "unspecified" /\ mCurrent' = Tail(mCurrent) /\ reading' = Idle
        /\ source' = source /\ mReadQueue' = mReadQueue
    BY <1>2 DEF Replace
  <2> HIDE DEF p
  <2> QED
    BY <1>1, <2>1, <2>2, <2>3, ReturnsTyped DEF AccentInv
<1>3. CASE StartMatch
  BY <1>1, <1>3, ReturnsTyped DEF StartMatch, AccentInv
<1>4. CASE Extend \/ Mismatch
  <2>1. /\ NextPhoneme \in Phoneme /\ NextPhoneme.sound \in Sound /\ NextPhoneme.stress \in Stress
        /\ QueueAfter \in Seq(Phoneme) /\ SourceAfter \in Seq(Readable)
    BY <1>4, NextTyped, AvailableTyped DEF Extend, Mismatch
  <2>2. Extended \in Seq(Sound)
    BY <1>1, <2>1 DEF Extended
  <2>3. Initial \in Stress \cup {"unspecified"}
    BY <1>1, <2>1 DEF Initial
  <2>4. CASE Extend
    <3>1. /\ source' = SourceAfter /\ mReadQueue' = QueueAfter /\ mInitialPhonemeProsody' = Initial
          /\ mCurrent' = mCurrent /\ returned' = returned /\ reading.pc = "match"
          /\ reading' = IF Extended \in DOMAIN Rules
                        THEN [reading EXCEPT !.entry = Extended, !.match = Extended, !.read_queue = <<>>]
                        ELSE [reading EXCEPT !.entry = Extended, !.read_queue = Append(@, NextPhoneme)]
      BY <2>4 DEF Extend
    <3>2. Append(reading.read_queue, NextPhoneme) \in Seq(Phoneme) /\ <<>> \in Seq(Phoneme)
      BY <1>1, <2>1
    <3>3. reading' \in ReadingType /\ reading'.pc = "match"
      <4>1. CASE Extended \in DOMAIN Rules
        BY <1>1, <2>2, <3>1, <3>2, <4>1 DEF ReadingType
      <4>2. CASE Extended \notin DOMAIN Rules
        BY <1>1, <2>2, <3>1, <3>2, <4>2 DEF ReadingType
      <4> QED
        BY <4>1, <4>2
    <3> QED
      BY <1>1, <2>1, <2>3, <3>1, <3>3 DEF AccentInv
  <2>5. CASE Mismatch
    <3>1. /\ source' = SourceAfter /\ mReadQueue' = QueueAfter \o reading.read_queue \o <<NextPhoneme>>
          /\ mInitialPhonemeProsody' = Initial /\ AfterMatch /\ returned' = returned
      BY <2>5 DEF Mismatch
    <3>2. mCurrent' \in Seq(Phoneme) /\ reading' \in ReadingType
      BY <3>1, AfterMatchTyped
    <3>3. mReadQueue' \in Seq(Phoneme) /\ mReadQueue' # <<>>
      <4>1. QueueAfter \o reading.read_queue \in Seq(Phoneme)
        BY <1>1, <2>1
      <4> QED
        BY <2>1, <3>1, <4>1
    <3> QED
      BY <1>1, <2>1, <2>3, <3>1, <3>2, <3>3 DEF AccentInv
  <2> QED
    BY <1>4, <2>4, <2>5
<1>5. CASE EndOfInput
  <2>1. /\ mReadQueue' = reading.read_queue /\ AfterMatch /\ source = <<>> /\ source' = source
        /\ mInitialPhonemeProsody' = mInitialPhonemeProsody /\ returned' = returned
    BY <1>5 DEF EndOfInput, Exhausted
  <2>2. mCurrent' \in Seq(Phoneme) /\ reading' \in ReadingType
    BY <2>1, AfterMatchTyped
  <2> QED
    BY <1>1, <2>1, <2>2 DEF AccentInv
<1>6. CASE Unmatched
  <2>1. /\ reading' = Idle /\ mCurrent' = mCurrent /\ mInitialPhonemeProsody' = mInitialPhonemeProsody
        /\ reading.pc = "unmatched"
    BY <1>6 DEF Unmatched
  <2>2. source' \in Seq(Readable) /\ mReadQueue' \in Seq(Phoneme) /\ returned' \in ReturnedType
    <3>1. CASE Exhausted
      <4>1. returned' = Result("false") /\ source' = source /\ mReadQueue' = mReadQueue
        BY <1>6, <3>1 DEF Unmatched
      <4> QED
        BY <1>1, <4>1, ReturnsTyped
    <3>2. CASE ~Exhausted
      <4>1. returned' = True(NextPhoneme) /\ source' = SourceAfter /\ mReadQueue' = QueueAfter
        BY <1>6, <3>2 DEF Unmatched
      <4>2. mReadQueue # <<>>
        BY <1>1, <2>1, <3>2 DEF Exhausted
      <4> QED
        BY <4>1, <4>2, NextTyped, ReturnsTyped
    <3> QED
      BY <3>1, <3>2
  <2> QED
    BY <1>1, <2>1, <2>2, ReturnsTyped DEF AccentInv
<1>7. CASE Throw
  <2>1. /\ source # <<>> /\ source' = Tail(source) /\ reading' = Idle /\ returned' = Result("throw")
        /\ mReadQueue' = mReadQueue /\ mCurrent' = mCurrent /\ mInitialPhonemeProsody' = mInitialPhonemeProsody
    BY <1>7 DEF Throw
  <2>2. Tail(source) \in Seq(Readable)
    BY <1>1, <2>1
  <2> QED
    BY <1>1, <2>1, <2>2, ReturnsTyped DEF AccentInv
<1> QED
  BY <1>2, <1>3, <1>4, <1>5, <1>6, <1>7 DEF ReadConverted

LEMMA AgainTyped ==
    ASSUME AccentInv, ReadAgain
    PROVE  AccentInv' /\ stress' = stress
BY ReturnsTyped DEF AccentInv, ReadAgain

(* The converter holds phonemes, and prints sequences of them. *)
LEMMA ConverterTyped == ConverterInit /\ [][ConverterNext]_converterVars => [](AccentInv /\ ChunksInv)
<1>1. ASSUME ConverterInit
      PROVE  AccentInv /\ ChunksInv
  <2>1. source \in Seq(Readable)
    BY <1>1, AccentAssumption DEF ConverterInit, AccentInit, Readable
  <2>2. <<>> \in Seq(Phoneme) /\ <<>> \in Seq(Seq(Phoneme))
    OBVIOUS
  <2> QED
    BY <1>1, <2>1, <2>2, ReturnsTyped DEF ConverterInit, AccentInit, AccentInv, ChunksInv
<1>2. ASSUME AccentInv, ChunksInv, [ConverterNext]_converterVars
      PROVE  AccentInv' /\ ChunksInv'
  <2>1. CASE CallRead
    <3>1. AccentInv'
      BY <1>2, <2>1, ReadTyped DEF CallRead
    <3>2. ChunksInv'
      BY <1>2, <2>1 DEF CallRead, ChunksInv
    <3> QED
      BY <3>1, <3>2
  <2>2. CASE FirstRead
    <3>1. AccentInv' /\ stress' = stress
      BY <1>2, <2>2, AgainTyped DEF FirstRead
    <3>2. ChunksInv'
      BY <1>2, <2>2, <3>1 DEF FirstRead, ChunksInv
    <3> QED
      BY <3>1, <3>2
  <2>3. CASE PhonemeRead
    <3>1. AccentInv' /\ stress' = stress
      BY <1>2, <2>3, AgainTyped DEF PhonemeRead
    <3>2. aPhonemes \o returned.phonemes \in Seq(Phoneme)
      <4>1. returned.phonemes \in Seq(Phoneme) /\ aPhonemes \in Seq(Phoneme)
        BY <1>2 DEF AccentInv, ChunksInv
      <4> QED
        BY <4>1
    <3>3. aPhonemes' \in Seq(Phoneme) /\ printed' \in Seq(Seq(Phoneme))
      <4>1. CASE returned.phonemes[1].sound = Separator
        <5>1. printed' = Append(printed, aPhonemes \o returned.phonemes) /\ aPhonemes' = <<>>
          BY <2>3, <4>1 DEF PhonemeRead
        <5> QED
          BY <1>2, <3>2, <5>1 DEF ChunksInv
      <4>2. CASE returned.phonemes[1].sound # Separator
        <5>1. aPhonemes' = aPhonemes \o returned.phonemes /\ printed' = printed
          BY <2>3, <4>2 DEF PhonemeRead
        <5> QED
          BY <1>2, <3>2, <5>1 DEF ChunksInv
      <4> QED
        BY <4>1, <4>2
    <3> QED
      BY <1>2, <3>1, <3>3 DEF ChunksInv
  <2>4. CASE EndRead
    <3>1. CASE aPhonemes = <<>>
      <4>1. UNCHANGED <<accentVars, stress, aPhonemes, printed>>
        BY <2>4, <3>1 DEF EndRead
      <4> QED
        BY <1>2, <4>1 DEF AccentInv, ChunksInv, accentVars
    <3>2. CASE aPhonemes # <<>>
      <4>1. printed' = Append(printed, aPhonemes) /\ aPhonemes' = <<>> /\ ReadAgain
        BY <2>4, <3>2 DEF EndRead
      <4>2. AccentInv' /\ stress' = stress
        BY <1>2, <4>1, AgainTyped
      <4> QED
        BY <1>2, <4>1, <4>2 DEF ChunksInv
    <3> QED
      BY <3>1, <3>2
  <2>5. CASE UNCHANGED converterVars
    BY <1>2, <2>5 DEF AccentInv, ChunksInv, converterVars, accentVars
  <2> QED
    BY <1>2, <2>1, <2>2, <2>3, <2>4, <2>5 DEF ConverterNext
<1> QED
  BY <1>1, <1>2, PTL

(* In every chunk what is joined is joined to a consonant, and no syllable has *)
(* two different stresses. *)
Proper == \A c \in 1 .. Len(printed) : WellJoined(printed[c]) /\ StressedOnce(printed[c])

(* However long the transcription, whatever the rules of the accent and       *)
(* wherever the chunks are cut: the syllables of each chunk that is Proper    *)
(* follow each other without overlap, each has one vowel at most and every    *)
(* vowel is in one, no boundary parts an affricate, and the stress is moved   *)
(* within its syllable (syllable_reader_t::read, make_stressed).              *)
THEOREM SyllablesKeepTheStress ==
    ConverterInit /\ [][ConverterNext]_converterVars => [](Proper => SyllablesKeepStress)
<1>1. ASSUME ChunksInv, Proper
      PROVE  SyllablesKeepStress
  <2>1. ASSUME NEW c \in 1 .. Len(printed)
        PROVE  Parted(printed[c]) /\ Kept(printed[c], make_stressed(printed[c], stress))
    <3>1. printed[c] \in Phonemes /\ WellJoined(printed[c]) /\ StressedOnce(printed[c])
      BY <1>1 DEF ChunksInv, Proper, Phonemes
    <3>2. stress \in {"as_transcribed", "vowel", "syllable"}
      BY <1>1 DEF ChunksInv
    <3> QED
      BY <3>1, <3>2, IsParted, IsKept
  <2>2. SyllablesPartition
    BY <2>1 DEF SyllablesPartition, Parted
  <2>3. StressStaysInSyllable
    BY <2>1 DEF StressStaysInSyllable, Kept, Written, Stressed
  <2> QED
    BY <2>2, <2>3 DEF SyllablesKeepStress
<1> QED
  BY <1>1, ConverterTyped, PTL

-----------------------------------------------------------------------------
(* The longest of the rules, applied from the left.                         *)

Applies(rule, s) ==
    rule \in DOMAIN Rules /\ Len(rule) <= Len(s) /\ \A i \in 1 .. Len(rule) : rule[i] = s[i].sound

LEMMA PhonemeAt ==
    ASSUME NEW s \in Phonemes
    PROVE  /\ Len(s) \in Nat
           /\ \A i \in 1 .. Len(s) : s[i] \in Phoneme /\ s[i].sound \in Sound /\ s[i].stress \in Stress
<1>1. Len(s) \in Nat /\ \A i \in 1 .. Len(s) : s[i] \in Phoneme
  BY DEF Phonemes
<1>2. \A x \in Phoneme : x.sound \in Sound /\ x.stress \in Stress
  BY DEF Phoneme
<1> QED
  BY <1>1, <1>2

LEMMA RuleFacts ==
    ASSUME NEW rule \in DOMAIN Rules
    PROVE  rule \in Seq(Sound) /\ Len(rule) \in Nat /\ Len(rule) > 0 /\ Rules[rule] \in Seq(Phoneme)
<1>1. rule \in Seq(Sound) /\ rule # <<>> /\ Rules[rule] \in Seq(Phoneme)
  BY AccentAssumption
<1> QED
  BY <1>1, EmptySeq

LEMMA PrefixIs ==
    ASSUME NEW X, NEW r \in Seq(X), NEW s \in Seq(X)
    PROVE  IsPrefix(r, s) <=> Len(r) <= Len(s) /\ \A i \in 1 .. Len(r) : r[i] = s[i]
<1>1. Len(r) \in Nat /\ Len(s) \in Nat
  OBVIOUS
<1>2. CASE Len(r) <= Len(s)
  <2>1. /\ SubSeq(r, 1, Len(r)) \in Seq(X) /\ Len(SubSeq(r, 1, Len(r))) = Len(r)
        /\ \A i \in 1 .. Len(r) : SubSeq(r, 1, Len(r))[i] = r[i]
    BY <1>1
  <2>2. /\ SubSeq(s, 1, Len(r)) \in Seq(X) /\ Len(SubSeq(s, 1, Len(r))) = Len(r)
        /\ \A i \in 1 .. Len(r) : SubSeq(s, 1, Len(r))[i] = s[i]
    BY <1>1, <1>2
  <2>3. SubSeq(r, 1, Len(r)) = SubSeq(s, 1, Len(r)) <=> \A i \in 1 .. Len(r) : r[i] = s[i]
    <3> DEFINE u == SubSeq(r, 1, Len(r))
               v == SubSeq(s, 1, Len(r))
    <3>1. ASSUME \A i \in 1 .. Len(r) : r[i] = s[i]
          PROVE  u = v
      <4>1. \A i \in 1 .. Len(u) : u[i] = v[i]
        BY <2>1, <2>2, <3>1
      <4> HIDE DEF u, v
      <4> QED
        BY <2>1, <2>2, <4>1, SeqEqual DEF u, v
    <3> QED
      BY <2>1, <2>2, <3>1
  <2> QED
    BY <1>2, <2>3 DEF IsPrefix
<1> QED
  BY <1>2 DEF IsPrefix

LEMMA MatchingIs ==
    ASSUME NEW s \in Phonemes, NEW rule
    PROVE  rule \in Matching(s) <=> Applies(rule, s)
<1> DEFINE t == [i \in 1 .. Len(s) |-> s[i].sound]
<1>1. t \in Seq(Sound) /\ Len(t) = Len(s) /\ Len(s) \in Nat /\ \A i \in 1 .. Len(s) : t[i] = s[i].sound
  <2>1. Len(s) \in Nat /\ \A i \in 1 .. Len(s) : s[i].sound \in Sound
    BY PhonemeAt
  <2> QED
    BY <2>1
<1>2. ASSUME rule \in DOMAIN Rules
      PROVE  IsPrefix(rule, t) <=> Applies(rule, s)
  <2>1. rule \in Seq(Sound) /\ Len(rule) \in Nat
    BY <1>2, RuleFacts
  <2> HIDE DEF t
  <2>2. IsPrefix(rule, t) <=> Len(rule) <= Len(t) /\ \A i \in 1 .. Len(rule) : rule[i] = t[i]
    BY <1>1, <2>1, PrefixIs
  <2>3. Len(rule) <= Len(s) => \A i \in 1 .. Len(rule) : t[i] = s[i].sound
    BY <1>1, <2>1
  <2> QED
    BY <1>1, <1>2, <2>2, <2>3 DEF Applies
<1> QED
  BY <1>2 DEF Matching, Applies

IsLongest(rule, s) == Applies(rule, s) /\ \A other : Applies(other, s) => Len(other) <= Len(rule)

LEMMA LongestUnique ==
    ASSUME NEW s \in Phonemes, NEW r, NEW q, IsLongest(r, s), IsLongest(q, s)
    PROVE  r = q
<1>1. r \in Seq(Sound) /\ q \in Seq(Sound) /\ Len(r) \in Nat /\ Len(q) \in Nat
  BY RuleFacts DEF IsLongest, Applies
<1>2. Len(r) <= Len(q) /\ Len(q) <= Len(r)
  BY DEF IsLongest
<1>3. Len(r) = Len(q)
  BY <1>1, <1>2
<1>4. \A i \in 1 .. Len(r) : r[i] = q[i]
  BY <1>3 DEF IsLongest, Applies
<1> QED
  BY <1>1, <1>3, <1>4, SeqEqual

LEMMA LongestIs ==
    ASSUME NEW s \in Phonemes
    PROVE  /\ \A r : IsLongest(r, s) => Longest(s) = r
           /\ Matching(s) # {} => IsLongest(Longest(s), s)
<1> DEFINE M == Matching(s)
<1>1. \A r : r \in M /\ (\A other \in M : Len(other) <= Len(r)) <=> IsLongest(r, s)
  BY MatchingIs DEF IsLongest
<1>2. Longest(s) = CHOOSE r \in M : \A other \in M : Len(other) <= Len(r)
  BY DEF Longest
<1>3. \A r \in M : Len(r) \in Nat /\ Len(r) <= Len(s)
  BY MatchingIs, RuleFacts DEF Applies
<1> HIDE DEF M
<1>4. ASSUME M # {}
      PROVE  \E r \in M : \A other \in M : Len(other) <= Len(r)
  <2>0. Len(s) \in Nat
    BY DEF Phonemes
  <2> DEFINE S == {Len(s) - Len(r) : r \in M}
  <2>1. S \in SUBSET Nat /\ S # {}
    BY <1>3, <1>4, <2>0
  <2>2. PICK x \in S : \A y \in S : x <= y
    <3> HIDE DEF S
    <3> QED
      BY <2>1, LeastNumber
  <2>3. PICK r \in M : x = Len(s) - Len(r)
    BY <2>2
  <2>4. ASSUME NEW other \in M
        PROVE  Len(other) <= Len(r)
    <3>1. x <= Len(s) - Len(other)
      BY <2>2
    <3> QED
      BY <1>3, <2>0, <2>3, <3>1
  <2> QED
    BY <2>4
<1>5. ASSUME NEW r, IsLongest(r, s)
      PROVE  Longest(s) = r
  <2>1. r \in M /\ \A other \in M : Len(other) <= Len(r)
    BY <1>1, <1>5
  <2>2. IsLongest(Longest(s), s)
    BY <1>1, <1>2, <2>1
  <2> QED
    BY <1>5, <2>2, LongestUnique
<1>6. ASSUME M # {}
      PROVE  IsLongest(Longest(s), s)
  BY <1>1, <1>2, <1>4, <1>6
<1> QED
  BY <1>5, <1>6 DEF M

(* The first step: a phoneme that no rule begins with, or a replacement. *)
Rest(s, i) == SubSeq(s, i, Len(s))
Piece(s, i) == IF Matching(Rest(s, i)) = {} THEN <<s[i]>> ELSE Replacement(Longest(Rest(s, i)), s[i].stress)
Behind(s, i) == IF Matching(Rest(s, i)) = {} THEN i + 1 ELSE i + Len(Longest(Rest(s, i)))

LEMMA RestIs ==
    ASSUME NEW s \in Phonemes, NEW i \in 1 .. Len(s) + 1
    PROVE  /\ Rest(s, i) \in Phonemes /\ Len(Rest(s, i)) = Len(s) + 1 - i
           /\ \A j \in 1 .. Len(s) + 1 - i : Rest(s, i)[j] = s[i + j - 1]
BY DEF Rest, Phonemes

LEMMA ReplacementTyped ==
    ASSUME NEW rule \in DOMAIN Rules, NEW st \in Stress
    PROVE  Replacement(rule, st) \in Phonemes
<1>1. Rules[rule] \in Seq(Phoneme)
  BY RuleFacts
<1>2. ASSUME NEW i \in 1 .. Len(Rules[rule])
      PROVE  (IF i = 1 THEN [Rules[rule][1] EXCEPT !.stress = st] ELSE Rules[rule][i]) \in Phoneme
  <2>1. Rules[rule][i] \in Phoneme
    BY <1>1
  <2> QED
    BY <2>1 DEF Phoneme
<1>3. Len(Rules[rule]) \in Nat
  BY <1>1
<1> QED
  BY <1>2, <1>3 DEF Replacement, Phonemes

LEMMA PieceTyped ==
    ASSUME NEW s \in Phonemes, NEW i \in 1 .. Len(s)
    PROVE  Piece(s, i) \in Phonemes /\ Behind(s, i) \in i + 1 .. Len(s) + 1
<1>1. Len(s) \in Nat /\ s[i] \in Phoneme /\ s[i].stress \in Stress
  BY PhonemeAt
<1>2. CASE Matching(Rest(s, i)) = {}
  <2>1. <<s[i]>> \in Phonemes
    BY <1>1 DEF Phonemes
  <2> QED
    BY <1>1, <1>2, <2>1 DEF Piece, Behind
<1>3. CASE Matching(Rest(s, i)) # {}
  <2>0. Rest(s, i) \in Phonemes /\ Len(Rest(s, i)) = Len(s) + 1 - i
    <3>1. i \in 1 .. Len(s) + 1
      BY <1>1
    <3> QED
      BY <3>1, RestIs
  <2>1. Applies(Longest(Rest(s, i)), Rest(s, i))
    BY <1>3, <2>0, LongestIs DEF IsLongest
  <2>2. /\ Longest(Rest(s, i)) \in DOMAIN Rules /\ Len(Longest(Rest(s, i))) \in Nat
        /\ Len(Longest(Rest(s, i))) > 0 /\ Len(Longest(Rest(s, i))) <= Len(s) + 1 - i
    BY <2>0, <2>1, RuleFacts DEF Applies
  <2>3. Piece(s, i) \in Phonemes
    BY <1>1, <1>3, <2>2, ReplacementTyped DEF Piece
  <2> QED
    BY <1>1, <1>3, <2>2, <2>3 DEF Behind
<1> QED
  BY <1>2, <1>3

Whither(s) == [i \in 1 .. Len(s) |-> Behind(s, i)]
Prepend(s) == [q \in (1 .. Len(s)) \X Phonemes |-> Piece(s, q[1]) \o q[2]]

Rewrites(s, f) == f[Len(s) + 1] = <<>> /\ \A i \in 1 .. Len(s) : f[i] = Piece(s, i) \o f[Behind(s, i)]

LEMMA RewriteTyped ==
    ASSUME NEW s \in Phonemes
    PROVE  Len(s) \in Nat /\ Whither(s) \in Onward(Len(s)) /\ Prepend(s) \in Steps(Len(s), Phonemes) /\ <<>> \in Phonemes
<1>1. Len(s) \in Nat /\ <<>> \in Phonemes
  BY DEF Phonemes
<1>2. Whither(s) \in Onward(Len(s))
  <2>1. \A i \in 1 .. Len(s) : Behind(s, i) \in 2 .. Len(s) + 1 /\ i < Behind(s, i)
    <3> TAKE i \in 1 .. Len(s)
    <3>1. Behind(s, i) \in i + 1 .. Len(s) + 1
      BY PieceTyped
    <3> QED
      BY <1>1, <3>1
  <2> QED
    BY <2>1 DEF Whither, Onward
<1>3. Prepend(s) \in Steps(Len(s), Phonemes)
  <2>1. ASSUME NEW q \in (1 .. Len(s)) \X Phonemes
        PROVE  Piece(s, q[1]) \o q[2] \in Phonemes
    <3>1. Piece(s, q[1]) \in Phonemes /\ q[2] \in Phonemes
      BY PieceTyped
    <3> QED
      BY <3>1 DEF Phonemes
  <2> QED
    BY <2>1 DEF Prepend, Steps
<1> QED
  BY <1>1, <1>2, <1>3
LEMMA RewritesSame ==
    ASSUME NEW s \in Phonemes, NEW f, NEW g, Rewrites(s, f), Rewrites(s, g)
    PROVE  \A i \in 1 .. Len(s) + 1 : f[i] = g[i]
<1>1. Len(s) \in Nat /\ Whither(s) \in Onward(Len(s))
  BY RewriteTyped
<1>2. f[Len(s) + 1] = g[Len(s) + 1]
  BY DEF Rewrites
<1>3. ASSUME NEW i \in 1 .. Len(s), f[Whither(s)[i]] = g[Whither(s)[i]]
      PROVE  f[i] = g[i]
  <2>1. Whither(s)[i] = Behind(s, i)
    BY DEF Whither
  <2> QED
    BY <1>3, <2>1 DEF Rewrites
<1> QED
  BY <1>1, <1>2, <1>3, OnwardSame

LEMMA RewrittenIs ==
    ASSUME NEW s \in Phonemes
    PROVE  \E f \in [1 .. Len(s) + 1 -> Phonemes] : Rewrites(s, f) /\ Rewritten(s) = f[1]
<1> DEFINE n == Len(s)
           IsFrom(f) == f = [i \in 1 .. Len(s) + 1 |->
                                LET rest == SubSeq(s, i, Len(s))
                                IN  IF i > Len(s) THEN <<>>
                                    ELSE IF Matching(rest) = {} THEN <<s[i]>> \o f[i + 1]
                                    ELSE Replacement(Longest(rest), s[i].stress) \o f[i + Len(Longest(rest))]]
           g == CHOOSE f : IsFrom(f)
<1>1. n \in Nat /\ Whither(s) \in Onward(n) /\ Prepend(s) \in Steps(n, Phonemes) /\ <<>> \in Phonemes
  BY RewriteTyped
<1>2. PICK f \in [1 .. n + 1 -> Phonemes] : IsOnward(f, n, Whither(s), <<>>, Prepend(s))
  <2> HIDE DEF n
  <2> QED
    BY <1>1, OnwardExists
<1>3. \A i \in 1 .. n : Whither(s)[i] = Behind(s, i) /\ Behind(s, i) \in 1 .. n + 1 /\ i \in 1 .. n + 1
  <2> TAKE i \in 1 .. n
  <2>1. Behind(s, i) \in i + 1 .. n + 1
    BY PieceTyped
  <2> QED
    BY <1>1, <2>1 DEF Whither
<1>4. \A i \in 1 .. n, x \in Phonemes : Prepend(s)[<<i, x>>] = Piece(s, i) \o x
  BY DEF Prepend
<1>5. Rewrites(s, f)
  <2>1. ASSUME NEW i \in 1 .. n
        PROVE  f[i] = Piece(s, i) \o f[Behind(s, i)]
    <3>1. f[i] = Prepend(s)[<<i, f[Behind(s, i)]>>]
      BY <1>2, <1>3 DEF IsOnward
    <3>2. f[Behind(s, i)] \in Phonemes
      BY <1>2, <1>3
    <3> QED
      BY <1>4, <3>1, <3>2
  <2> QED
    BY <1>2, <2>1 DEF Rewrites, IsOnward
<1>6. IsFrom(f)
  <2>1. ASSUME NEW i \in 1 .. n + 1
        PROVE  f[i] = LET rest == SubSeq(s, i, Len(s))
                      IN  IF i > Len(s) THEN <<>>
                          ELSE IF Matching(rest) = {} THEN <<s[i]>> \o f[i + 1]
                          ELSE Replacement(Longest(rest), s[i].stress) \o f[i + Len(Longest(rest))]
    <3>1. CASE i > n
      <4>1. i = n + 1 /\ f[n + 1] = <<>>
        BY <1>1, <1>5, <3>1 DEF Rewrites
      <4> QED
        BY <3>1, <4>1
    <3>2. CASE ~(i > n)
      <4>1. i \in 1 .. n
        BY <1>1, <3>2
      <4>2. f[i] = Piece(s, i) \o f[Behind(s, i)]
        BY <1>5, <4>1 DEF Rewrites
      <4> QED
        BY <3>2, <4>2 DEF Piece, Behind, Rest
    <3> QED
      BY <3>1, <3>2
  <2>2. f = [i \in 1 .. n + 1 |-> f[i]]
    BY <1>2
  <2> QED
    BY <2>1, <2>2
<1>7. IsFrom(g)
  <2> HIDE DEF IsFrom
  <2> QED
    BY <1>6
<1>8. Rewritten(s) = g[1]
  BY DEF Rewritten
<1> HIDE DEF g
<1>9. Rewrites(s, g)
  <2>1. \A i \in 1 .. n + 1 :
            g[i] = LET rest == SubSeq(s, i, Len(s))
                   IN  IF i > Len(s) THEN <<>>
                       ELSE IF Matching(rest) = {} THEN <<s[i]>> \o g[i + 1]
                       ELSE Replacement(Longest(rest), s[i].stress) \o g[i + Len(Longest(rest))]
    BY <1>7
  <2>2. g[n + 1] = <<>>
    <3>1. n + 1 \in 1 .. n + 1 /\ n + 1 > n
      BY <1>1
    <3> QED
      BY <2>1, <3>1
  <2>3. ASSUME NEW i \in 1 .. n
        PROVE  g[i] = Piece(s, i) \o g[Behind(s, i)]
    <3>1. i \in 1 .. n + 1 /\ ~(i > n)
      BY <1>1
    <3> QED
      BY <2>1, <3>1 DEF Piece, Behind, Rest
  <2> QED
    BY <2>2, <2>3 DEF Rewrites
<1>10. g[1] = f[1]
  <2>1. 1 \in 1 .. n + 1
    BY <1>1
  <2> HIDE DEF IsFrom
  <2> QED
    BY <1>5, <1>9, <2>1, RewritesSame
<1> QED
  BY <1>2, <1>5, <1>8, <1>10
(* What is made of the rest of a sequence is the rest of what is made of it. *)
LEMMA RewriteRest ==
    ASSUME NEW s \in Phonemes, NEW f, Rewrites(s, f), NEW k \in 1 .. Len(s) + 1
    PROVE  Rewritten(Rest(s, k)) = f[k]
<1> DEFINE n == Len(s)
           r == Rest(s, k)
           m == n + 1 - k
           g == [j \in 1 .. m + 1 |-> f[j + k - 1]]
<1>1. n \in Nat /\ m \in Nat /\ k \in Nat /\ 1 <= k /\ k <= n + 1
  BY PhonemeAt
<1>2. r \in Phonemes /\ Len(r) = m /\ \A j \in 1 .. m : r[j] = s[j + k - 1]
  <2>1. \A j \in 1 .. m : k + j - 1 = j + k - 1
    BY <1>1
  <2> QED
    BY <2>1, RestIs
<1> HIDE DEF r
<1>3. ASSUME NEW j \in 1 .. m + 1
      PROVE  Rest(r, j) = Rest(s, j + k - 1)
  <2>1. j + k - 1 \in 1 .. n + 1 /\ j \in 1 .. Len(r) + 1
    BY <1>1, <1>2
  <2>2. /\ Rest(r, j) \in Phonemes /\ Len(Rest(r, j)) = m + 1 - j
        /\ \A i \in 1 .. m + 1 - j : Rest(r, j)[i] = r[j + i - 1]
    BY <1>2, <2>1, RestIs
  <2>3. /\ Rest(s, j + k - 1) \in Phonemes /\ Len(Rest(s, j + k - 1)) = n + 1 - (j + k - 1)
        /\ \A i \in 1 .. n + 1 - (j + k - 1) : Rest(s, j + k - 1)[i] = s[(j + k - 1) + i - 1]
    BY <2>1, RestIs
  <2>4. n + 1 - (j + k - 1) = m + 1 - j
    BY <1>1
  <2>5. ASSUME NEW i \in 1 .. m + 1 - j
        PROVE  Rest(r, j)[i] = Rest(s, j + k - 1)[i]
    <3>1. j + i - 1 \in 1 .. m /\ (j + i - 1) + k - 1 = (j + k - 1) + i - 1
      BY <1>1
    <3>2. r[j + i - 1] = s[(j + k - 1) + i - 1]
      BY <1>2, <3>1
    <3> QED
      BY <2>2, <2>3, <2>4, <3>2
  <2> QED
    BY <2>2, <2>3, <2>4, <2>5, SeqEqual DEF Phonemes
<1>4. g[m + 1] = <<>>
  <2>1. m + 1 \in 1 .. m + 1 /\ (m + 1) + k - 1 = n + 1
    BY <1>1
  <2> QED
    BY <2>1 DEF Rewrites
<1>5. ASSUME NEW j \in 1 .. m
      PROVE  g[j] = Piece(r, j) \o g[Behind(r, j)]
  <2>1. /\ j + k - 1 \in 1 .. n /\ j \in 1 .. m + 1 /\ j \in 1 .. Len(r)
    BY <1>1, <1>2
  <2>2. Rest(r, j) = Rest(s, j + k - 1) /\ r[j] = s[j + k - 1]
    BY <1>2, <1>3, <2>1
  <2>3. Piece(r, j) = Piece(s, j + k - 1)
    BY <2>2 DEF Piece
  <2>4. Behind(r, j) \in j + 1 .. m + 1
    BY <1>2, <2>1, PieceTyped
  <2>5. Behind(s, j + k - 1) = Behind(r, j) + k - 1
    <3>1. CASE Matching(Rest(r, j)) = {}
      BY <1>1, <2>2, <3>1 DEF Behind
    <3>2. CASE Matching(Rest(r, j)) # {}
      <4>1. Len(Longest(Rest(r, j))) \in Nat
        BY <1>2, <2>1, <3>2, RestIs, LongestIs, RuleFacts DEF IsLongest, Applies
      <4> QED
        BY <1>1, <2>2, <3>2, <4>1 DEF Behind
    <3> QED
      BY <3>1, <3>2
  <2>6. Behind(r, j) \in 1 .. m + 1
    BY <1>1, <2>4
  <2>7. g[j] = f[j + k - 1] /\ g[Behind(r, j)] = f[Behind(r, j) + k - 1]
    BY <2>1, <2>6
  <2>8. f[j + k - 1] = Piece(s, j + k - 1) \o f[Behind(s, j + k - 1)]
    BY <2>1 DEF Rewrites
  <2> HIDE DEF g
  <2> QED
    BY <2>3, <2>5, <2>7, <2>8
<1>6. g[1] = f[k]
  BY <1>1
<1> HIDE DEF g
<1>7. Rewrites(r, g)
  BY <1>2, <1>4, <1>5 DEF Rewrites
<1>8. PICK h : Rewrites(r, h) /\ Rewritten(r) = h[1]
  BY <1>2, RewrittenIs
<1>9. 1 \in 1 .. Len(r) + 1
  BY <1>1, <1>2
<1>10. h[1] = g[1]
  BY <1>2, <1>7, <1>8, <1>9, RewritesSame
<1> QED
  BY <1>6, <1>8, <1>10 DEF r

LEMMA RestOfAll ==
    ASSUME NEW s \in Phonemes
    PROVE  Rest(s, 1) = s
BY SubSeqFull DEF Rest, Phonemes

LEMMA RewrittenStep ==
    ASSUME NEW s \in Phonemes, s # <<>>
    PROVE  Rewritten(s) = Piece(s, 1) \o Rewritten(Rest(s, Behind(s, 1)))
<1>1. PICK f : Rewrites(s, f) /\ Rewritten(s) = f[1]
  BY RewrittenIs
<1>2. 1 \in 1 .. Len(s) /\ 1 \in 1 .. Len(s) + 1 /\ Len(s) \in Nat
  BY DEF Phonemes
<1>3. Behind(s, 1) \in 1 + 1 .. Len(s) + 1
  BY <1>2, PieceTyped
<1>4. Behind(s, 1) \in 1 .. Len(s) + 1
  BY <1>2, <1>3
<1>5. Rewritten(Rest(s, Behind(s, 1))) = f[Behind(s, 1)]
  BY <1>1, <1>4, RewriteRest
<1> QED
  BY <1>1, <1>2, <1>5 DEF Rewrites

LEMMA RewrittenTyped ==
    ASSUME NEW s \in Phonemes
    PROVE  Rewritten(s) \in Phonemes
<1>1. 1 \in 1 .. Len(s) + 1
  BY PhonemeAt
<1> QED
  BY <1>1, RewrittenIs

LEMMA RewriteNothing == Rewritten(<<>>) = <<>>
<1>1. <<>> \in Phonemes /\ Len(<<>>) = 0
  BY DEF Phonemes
<1>2. PICK f : Rewrites(<<>>, f) /\ Rewritten(<<>>) = f[1]
  BY <1>1, RewrittenIs
<1>3. f[0 + 1] = <<>>
  BY <1>1, <1>2 DEF Rewrites
<1> QED
  BY <1>2, <1>3

(* A phoneme that no rule begins with stays as it is. *)
LEMMA RewriteNone ==
    ASSUME NEW s \in Phonemes, s # <<>>, Matching(s) = {}
    PROVE  Rewritten(s) = <<Head(s)>> \o Rewritten(Tail(s))
<1>1. Rest(s, 1) = s
  BY RestOfAll
<1>2. Piece(s, 1) = <<s[1]>> /\ Behind(s, 1) = 2
  BY <1>1 DEF Piece, Behind
<1>3. Rest(s, 2) = Tail(s) /\ Head(s) = s[1]
  BY TailIsSubSeq DEF Rest, Phonemes
<1> QED
  BY <1>2, <1>3, RewrittenStep

(* The longest rule that m is the beginning of is replaced. *)
LEMMA RewriteLongest ==
    ASSUME NEW m \in Phonemes, NEW r \in Phonemes, NEW rule, IsLongest(rule, m \o r), Len(rule) = Len(m)
    PROVE  Rewritten(m \o r) = Replacement(rule, m[1].stress) \o Rewritten(r)
<1> DEFINE s == m \o r
<1>1. /\ s \in Phonemes /\ Len(s) = Len(m) + Len(r) /\ Len(m) \in Nat /\ Len(r) \in Nat
      /\ \A i \in 1 .. Len(m) + Len(r) : s[i] = IF i <= Len(m) THEN m[i] ELSE r[i - Len(m)]
  BY ConcatProperties DEF Phonemes
<1>2. Len(rule) > 0 /\ Len(m) > 0
  BY RuleFacts DEF IsLongest, Applies
<1>3. s[1] = m[1] /\ s # <<>>
  <2>1. 1 \in 1 .. Len(m) + Len(r) /\ 1 <= Len(m)
    BY <1>1, <1>2
  <2> HIDE DEF s
  <2>2. s[1] = m[1]
    BY <1>1, <2>1
  <2>3. Len(s) > 0
    BY <1>1, <1>2
  <2> QED
    BY <2>2, <2>3
<1>4. Rest(s, Len(m) + 1) = r
  <2> HIDE DEF s
  <2>1. Len(m) + 1 \in 1 .. Len(s) + 1
    BY <1>1
  <2>2. /\ Rest(s, Len(m) + 1) \in Phonemes /\ Len(Rest(s, Len(m) + 1)) = Len(s) + 1 - (Len(m) + 1)
        /\ \A j \in 1 .. Len(s) + 1 - (Len(m) + 1) : Rest(s, Len(m) + 1)[j] = s[(Len(m) + 1) + j - 1]
    BY <1>1, <2>1, RestIs
  <2>3. Len(s) + 1 - (Len(m) + 1) = Len(r)
    BY <1>1
  <2>4. ASSUME NEW j \in 1 .. Len(r)
        PROVE  Rest(s, Len(m) + 1)[j] = r[j]
    <3>1. /\ (Len(m) + 1) + j - 1 \in 1 .. Len(m) + Len(r) /\ ~((Len(m) + 1) + j - 1 <= Len(m))
          /\ ((Len(m) + 1) + j - 1) - Len(m) = j
      BY <1>1
    <3> QED
      BY <1>1, <2>2, <2>3, <3>1
  <2> QED
    BY <2>2, <2>3, <2>4, SeqEqual DEF Phonemes
<1> HIDE DEF s
<1>5. Longest(s) = rule /\ Matching(s) # {} /\ Rest(s, 1) = s
  BY <1>1, LongestIs, MatchingIs, RestOfAll DEF IsLongest, s
<1>6. Piece(s, 1) = Replacement(rule, m[1].stress) /\ Behind(s, 1) = 1 + Len(m)
  BY <1>3, <1>5 DEF Piece, Behind
<1>7. 1 + Len(m) = Len(m) + 1
  BY <1>1
<1>8. Rewritten(s) = Replacement(rule, m[1].stress) \o Rewritten(r)
  BY <1>1, <1>3, <1>4, <1>6, <1>7, RewrittenStep
<1> QED
  BY <1>8 DEF s

-----------------------------------------------------------------------------
(* What a match comes to.                                                    *)

SoundsAre(m, entry) == Len(m) = Len(entry) /\ \A i \in 1 .. Len(m) : m[i].sound = entry[i]

NoneLonger(m, r) == \A rule : Applies(rule, m \o r) => Len(rule) <= Len(m)

LEMMA MatchEnds ==
    ASSUME NEW m \in Phonemes, NEW r \in Phonemes, NEW entry \in Seq(Sound), SoundsAre(m, entry), NoneLonger(m, r)
    PROVE  /\ entry \in DOMAIN Rules => IsLongest(entry, m \o r)
           /\ entry \notin DOMAIN Rules /\ Len(m) <= 1 => Matching(m \o r) = {}
<1> DEFINE s == m \o r
<1>1. /\ s \in Phonemes /\ Len(s) = Len(m) + Len(r) /\ Len(m) \in Nat /\ Len(r) \in Nat
      /\ \A i \in 1 .. Len(m) : s[i] = m[i]
  <2>1. /\ s \in Phonemes /\ Len(s) = Len(m) + Len(r) /\ Len(m) \in Nat /\ Len(r) \in Nat
        /\ \A i \in 1 .. Len(m) + Len(r) : s[i] = IF i <= Len(m) THEN m[i] ELSE r[i - Len(m)]
    BY ConcatProperties DEF Phonemes
  <2>2. \A i \in 1 .. Len(m) : i \in 1 .. Len(m) + Len(r) /\ i <= Len(m)
    BY <2>1
  <2> QED
    BY <2>1, <2>2
<1> HIDE DEF s
<1>2. Len(m) = Len(entry) /\ \A i \in 1 .. Len(m) : m[i].sound = entry[i]
  BY DEF SoundsAre
<1>3. ASSUME entry \in DOMAIN Rules
      PROVE  IsLongest(entry, s)
  <2>1. Len(entry) <= Len(s)
    BY <1>1, <1>2
  <2>2. Applies(entry, s)
    BY <1>1, <1>2, <1>3, <2>1 DEF Applies
  <2> QED
    BY <1>2, <2>2 DEF IsLongest, NoneLonger, s
<1>4. ASSUME entry \notin DOMAIN Rules, Len(m) <= 1, NEW rule, Applies(rule, s)
      PROVE  FALSE
  <2>1. rule \in Seq(Sound) /\ Len(rule) \in Nat /\ Len(rule) > 0 /\ Len(rule) <= Len(m)
    BY <1>4, RuleFacts DEF NoneLonger, Applies, s
  <2>0. Len(m) \in Nat /\ Len(m) <= 1
    BY <1>1, <1>4
  <2>2. Len(rule) = 1 /\ Len(m) = 1
    <3>1. \A a, b \in Nat : a > 0 /\ a <= b /\ b <= 1 => a = 1 /\ b = 1
      OBVIOUS
    <3> QED
      BY <2>0, <2>1, <3>1, Zenon
  <2>3. \A i \in 1 .. Len(rule) : rule[i] = entry[i]
    BY <1>1, <1>2, <1>4, <2>2 DEF Applies
  <2>4. rule = entry
    BY <1>2, <2>1, <2>2, <2>3, SeqEqual
  <2> QED
    BY <1>4, <2>4 DEF Applies
<1>5. ASSUME entry \notin DOMAIN Rules, Len(m) <= 1
      PROVE  Matching(s) = {}
  BY <1>1, <1>4, <1>5, MatchingIs
<1> QED
  BY <1>3, <1>5 DEF s

(* A sound that no rule goes on with. *)
LEMMA NoRuleGoesOn ==
    ASSUME NEW m \in Phonemes, NEW x \in Phoneme, NEW r \in Phonemes, NEW entry \in Seq(Sound), SoundsAre(m, entry),
           ~InTrie(Append(entry, x.sound))
    PROVE  NoneLonger(m, <<x>> \o r)
<1> SUFFICES ASSUME NEW rule, Applies(rule, m \o (<<x>> \o r)), ~(Len(rule) <= Len(m))
             PROVE  FALSE
  BY DEF NoneLonger
<1> DEFINE s == m \o (<<x>> \o r)
           t == Append(entry, x.sound)
<1>1. Len(m) \in Nat /\ Len(r) \in Nat /\ rule \in DOMAIN Rules /\ rule \in Seq(Sound) /\ Len(rule) \in Nat /\ x.sound \in Sound
  BY RuleFacts DEF Applies, Phonemes, Phoneme
<1>2. /\ <<x>> \o r \in Phonemes /\ Len(<<x>> \o r) = 1 + Len(r) /\ (<<x>> \o r)[1] = x
  BY DEF Phonemes
<1>3. /\ Len(s) = Len(m) + 1 + Len(r) /\ s[Len(m) + 1] = x /\ \A i \in 1 .. Len(m) : s[i] = m[i]
  <2> DEFINE u == <<x>> \o r
  <2> HIDE DEF u
  <2>1. /\ Len(m \o u) = Len(m) + Len(u)
        /\ \A i \in 1 .. Len(m) + Len(u) : (m \o u)[i] = IF i <= Len(m) THEN m[i] ELSE u[i - Len(m)]
    BY <1>2, ConcatProperties DEF Phonemes, u
  <2>2. Len(u) = 1 + Len(r) /\ u[1] = x
    BY <1>2 DEF u
  <2>3. Len(m) + 1 \in 1 .. Len(m) + Len(u) /\ ~(Len(m) + 1 <= Len(m)) /\ Len(m) + 1 - Len(m) = 1
    BY <1>1, <2>2
  <2>4. \A i \in 1 .. Len(m) : i \in 1 .. Len(m) + Len(u) /\ i <= Len(m)
    BY <1>1, <2>2
  <2>5. Len(m) + Len(u) = Len(m) + 1 + Len(r)
    BY <1>1, <2>2
  <2> QED
    BY <2>1, <2>2, <2>3, <2>4, <2>5 DEF u
<1> HIDE DEF s
<1>4. Len(entry) = Len(m) /\ \A i \in 1 .. Len(m) : m[i].sound = entry[i]
  BY DEF SoundsAre
<1>5. /\ t \in Seq(Sound) /\ Len(t) = Len(m) + 1 /\ t[Len(m) + 1] = x.sound
      /\ \A i \in 1 .. Len(m) : t[i] = entry[i]
  BY <1>1, <1>4, AppendProperties
<1> HIDE DEF t
<1>6. Len(m) + 1 <= Len(rule)
  BY <1>1
<1>7. \A i \in 1 .. Len(t) : t[i] = rule[i]
  <2> TAKE i \in 1 .. Len(t)
  <2>1. i \in 1 .. Len(rule)
    BY <1>1, <1>5, <1>6
  <2>2. rule[i] = s[i].sound
    BY <2>1 DEF Applies, s
  <2>3. i \in 1 .. Len(m) \/ i = Len(m) + 1
    BY <1>1, <1>5
  <2> QED
    BY <1>3, <1>4, <1>5, <2>2, <2>3
<1>8. IsPrefix(t, rule)
  BY <1>1, <1>5, <1>6, <1>7, PrefixIs
<1> QED
  BY <1>1, <1>8 DEF InTrie, t

LEMMA NothingGoesOn ==
    ASSUME NEW m \in Phonemes
    PROVE  NoneLonger(m, <<>>)
<1>1. m \o <<>> = m
  BY ConcatEmptySeq DEF Phonemes
<1> QED
  BY <1>1 DEF NoneLonger, Applies

(* What is left of a replacement, the stress put in. *)
CurrentOf(current, prosody) ==
    IF current = <<>> THEN <<>>
    ELSE <<[Head(current) EXCEPT !.stress = IF prosody = "unspecified" THEN @ ELSE prosody]>> \o Tail(current)

LEMMA CurrentTyped ==
    ASSUME NEW current \in Phonemes, NEW prosody \in Stress \cup {"unspecified"}
    PROVE  CurrentOf(current, prosody) \in Phonemes
<1>1. CASE current = <<>>
  BY <1>1 DEF CurrentOf, Phonemes
<1>2. CASE current # <<>>
  <2>1. Head(current) \in Phoneme /\ Tail(current) \in Phonemes
    BY <1>2, HeadTailProperties DEF Phonemes
  <2> DEFINE x == [Head(current) EXCEPT !.stress = IF prosody = "unspecified" THEN @ ELSE prosody]
  <2>2. x \in Phoneme
    BY <2>1 DEF Phoneme
  <2> HIDE DEF x
  <2>3. <<x>> \o Tail(current) \in Phonemes
    BY <2>1, <2>2 DEF Phonemes
  <2> QED
    BY <1>2, <2>3 DEF CurrentOf, x
<1> QED
  BY <1>1, <1>2

LEMMA CurrentStarts ==
    ASSUME NEW rule \in DOMAIN Rules, NEW st \in Stress
    PROVE  CurrentOf(Rules[rule], st) = Replacement(rule, st)
<1> DEFINE c == Rules[rule]
<1>1. c \in Seq(Phoneme) /\ Len(c) \in Nat
  BY RuleFacts
<1>2. Replacement(rule, st) \in Phonemes /\ Len(Replacement(rule, st)) = Len(c)
      /\ \A i \in 1 .. Len(c) : Replacement(rule, st)[i] = IF i = 1 THEN [c[1] EXCEPT !.stress = st] ELSE c[i]
  <2>1. Replacement(rule, st) \in Phonemes
    BY ReplacementTyped
  <2> QED
    BY <1>1, <2>1 DEF Replacement
<1> HIDE DEF c
<1>3. st # "unspecified" /\ st \in Stress \cup {"unspecified"}
  BY AccentAssumption
<1>4. CurrentOf(c, st) \in Phonemes
  BY <1>1, <1>3, CurrentTyped DEF Phonemes
<1>5. Len(CurrentOf(c, st)) = Len(c) /\ \A i \in 1 .. Len(c) : CurrentOf(c, st)[i] = IF i = 1 THEN [c[1] EXCEPT !.stress = st] ELSE c[i]
  <2>1. CASE c = <<>>
    BY <2>1 DEF CurrentOf
  <2>2. CASE c # <<>>
    <3>1. Tail(c) \in Seq(Phoneme) /\ Len(Tail(c)) = Len(c) - 1 /\ \A i \in 1 .. Len(Tail(c)) : Tail(c)[i] = c[i + 1]
      BY <1>1, <2>2, HeadTailProperties
    <3> DEFINE x == [c[1] EXCEPT !.stress = st]
               u == Tail(c)
    <3>2. x \in Phoneme /\ Head(c) = c[1]
      <4>1. c[1] \in Phoneme
        BY <1>1, <2>2
      <4> QED
        BY <4>1 DEF Phoneme
    <3>3. CurrentOf(c, st) = <<x>> \o u
      BY <1>3, <2>2, <3>2 DEF CurrentOf
    <3> HIDE DEF x, u
    <3>4. /\ Len(<<x>> \o u) = 1 + Len(u) /\ (<<x>> \o u)[1] = x
          /\ \A i \in 1 .. Len(u) : (<<x>> \o u)[i + 1] = u[i]
      BY <3>1, <3>2 DEF u
    <3>5. ASSUME NEW i \in 1 .. Len(c), i # 1
          PROVE  (<<x>> \o u)[i] = c[i]
      <4>1. i - 1 \in 1 .. Len(u) /\ (i - 1) + 1 = i
        BY <1>1, <3>1, <3>5 DEF u
      <4>2. (<<x>> \o u)[(i - 1) + 1] = u[i - 1]
        BY <3>4, <4>1
      <4>3. u[i - 1] = c[(i - 1) + 1]
        BY <3>1, <4>1 DEF u
      <4> QED
        BY <4>1, <4>2, <4>3
    <3>6. 1 + Len(u) = Len(c)
      BY <1>1, <3>1 DEF u
    <3> QED
      BY <3>3, <3>4, <3>5, <3>6 DEF x
  <2> QED
    BY <2>1, <2>2
<1> QED
  BY <1>2, <1>4, <1>5, SeqEqual DEF Phonemes, c

-----------------------------------------------------------------------------
(* The converter.  m is what was read since the last replacement.           *)

Clean(s) == \A i \in 1 .. Len(s) : s[i] # Unreadable

Taken(m) ==
    /\ m \in Phonemes /\ SoundsAre(m, reading.entry)
    /\ m # <<>> => m[1].stress = mInitialPhonemeProsody
    /\ reading.match = <<>> => m = reading.read_queue /\ Len(m) <= 1 /\ reading.entry \notin DOMAIN Rules
    /\ reading.match # <<>> => reading.match = reading.entry /\ reading.read_queue = <<>>

(* One sequence and then another. *)
Then(a, b) == a \o b

Out == Then(Converted, Then(aPhonemes, returned.phonemes))
Left(m) == Then(CurrentOf(mCurrent, mInitialPhonemeProsody), Rewritten(Then(m, Then(mReadQueue, source))))

(* What was printed, after p, and what is left are the conversion. *)
After(p, m) ==
    /\ p \in Phonemes /\ (Errors = {} => p = <<>>) /\ AfterErrors \in Phonemes
    /\ Then(p, Rewritten(AfterErrors)) = Then(Out, Left(m))

QueueInv ==
    /\ Len(mReadQueue) <= IF reading.pc = "unmatched" THEN 2 ELSE 1
    /\ mCurrent # <<>> => reading.pc \in {"idle", "enter"}
    /\ reading.pc # "match" => reading.entry = <<>> /\ reading.match = <<>> /\ reading.read_queue = <<>>
    /\ reading.pc = "unmatched" /\ Clean(source) => Matching(Then(mReadQueue, source)) = {}

ReturnInv ==
    /\ Converted \in Phonemes
    /\ reading.pc # "idle" => returned.kind = "none"
    /\ returned.kind # "true" => returned.phonemes = <<>>
    /\ returned.kind = "false" => mReadQueue = <<>> /\ source = <<>> /\ mCurrent = <<>>
    /\ exited => returned.kind = "false" /\ aPhonemes = <<>>

SourceInv ==
    /\ input \in Transcribed /\ Len(source) <= Len(input)
    /\ \A i \in 1 .. Len(source) : source[i] = input[Len(input) - Len(source) + i]

TakenInv == \E m : Taken(m) /\ (Clean(source) => \E p : After(p, m))

ConvertInv == QueueInv /\ ReturnInv /\ SourceInv /\ TakenInv

LEMMA CleanTyped ==
    ASSUME NEW s \in Seq(Readable), Clean(s)
    PROVE  s \in Phonemes
<1>1. Len(s) \in Nat /\ s \in [1 .. Len(s) -> Readable]
  OBVIOUS
<1>2. \A i \in 1 .. Len(s) : s[i] \in Phoneme
  BY <1>1 DEF Clean, Readable
<1> QED
  BY <1>1, <1>2 DEF Phonemes

LEMMA HeadThenTail ==
    ASSUME NEW X, NEW s \in Seq(X), s # <<>>
    PROVE  s = <<Head(s)>> \o Tail(s)
<1> DEFINE x == Head(s)
           u == Tail(s)
<1>1. x \in X /\ x = s[1] /\ u \in Seq(X) /\ Len(u) = Len(s) - 1 /\ Len(s) \in Nat /\ Len(u) \in Nat
      /\ \A i \in 1 .. Len(u) : u[i] = s[i + 1]
  BY HeadTailProperties
<1> HIDE DEF x, u
<1> DEFINE v == <<x>> \o u
<1>2. v \in Seq(X) /\ Len(v) = 1 + Len(u) /\ v[1] = x /\ \A i \in 1 .. Len(u) : v[i + 1] = u[i]
  BY <1>1
<1> HIDE DEF v
<1>3. ASSUME NEW i \in 1 .. Len(s)
      PROVE  s[i] = v[i]
  <2>1. CASE i = 1
    BY <1>1, <1>2, <2>1
  <2>2. CASE i # 1
    <3>1. i - 1 \in 1 .. Len(u) /\ (i - 1) + 1 = i
      BY <1>1, <2>2
    <3> QED
      BY <1>1, <1>2, <3>1
  <2> QED
    BY <2>1, <2>2
<1>4. Len(s) = Len(v)
  BY <1>1, <1>2
<1> QED
  BY <1>2, <1>3, <1>4, SeqEqual DEF v, x, u

(* The phoneme that is read next. *)
LEMMA NextIs ==
    ASSUME AccentInv, mReadQueue # <<>> \/ (source # <<>> /\ Head(source) \in Phoneme /\ Head(source) # Unreadable)
    PROVE  /\ Then(mReadQueue, source) = Then(<<NextPhoneme>>, Then(QueueAfter, SourceAfter))
           /\ Len(mReadQueue) <= 1 => QueueAfter = <<>>
           /\ Len(mReadQueue) <= 2 => Len(QueueAfter) <= 1
           /\ Clean(SourceAfter) => Clean(source)
           /\ SourceAfter = source \/ (source # <<>> /\ SourceAfter = Tail(source))
<1>1. source \in Seq(Readable) /\ mReadQueue \in Seq(Phoneme) /\ mReadQueue \in Seq(Readable)
  <2>1. source \in Seq(Readable) /\ mReadQueue \in Seq(Phoneme) /\ Phoneme \subseteq Readable
    BY DEF AccentInv, Readable
  <2> QED
    BY <2>1, SeqMonotonic
<1>2. CASE mReadQueue # <<>>
  <2> DEFINE x == Head(mReadQueue)
             u == Tail(mReadQueue)
  <2>1. NextPhoneme = x /\ QueueAfter = u /\ SourceAfter = source
    BY <1>2 DEF NextPhoneme, QueueAfter, SourceAfter
  <2>2. x \in Readable /\ u \in Seq(Readable) /\ Len(u) = Len(mReadQueue) - 1 /\ Len(mReadQueue) \in Nat /\ Len(u) \in Nat
        /\ \A i \in 1 .. Len(u) : u[i] = mReadQueue[i + 1]
    BY <1>1, <1>2, HeadTailProperties
  <2>3. mReadQueue = <<x>> \o u
    BY <1>1, <1>2, HeadThenTail
  <2> HIDE DEF x, u
  <2>4. <<x>> \in Seq(Readable)
    BY <2>2
  <2>5. (<<x>> \o u) \o source = <<x>> \o (u \o source)
    BY <1>1, <2>2, <2>4, ConcatAssociative
  <2>6. Len(mReadQueue) <= 1 => u = <<>>
    <3>1. Len(mReadQueue) <= 1 => Len(u) = 0
      BY <2>2
    <3> QED
      BY <2>2, <3>1, EmptySeq
  <2>7. Len(mReadQueue) <= 2 => Len(u) <= 1
    BY <2>2
  <2> QED
    BY <2>1, <2>3, <2>5, <2>6, <2>7 DEF Then
<1>3. CASE mReadQueue = <<>>
  <2> DEFINE x == Head(source)
             u == Tail(source)
  <2>1. NextPhoneme = x /\ QueueAfter = <<>> /\ SourceAfter = u /\ source # <<>> /\ x # Unreadable
    BY <1>3 DEF NextPhoneme, QueueAfter, SourceAfter
  <2>2. x \in Readable /\ u \in Seq(Readable) /\ Len(u) = Len(source) - 1 /\ Len(source) \in Nat /\ Len(u) \in Nat
        /\ \A i \in 1 .. Len(u) : u[i] = source[i + 1]
    BY <1>1, <2>1, HeadTailProperties
  <2>3. x = source[1]
    OBVIOUS
  <2>5. \A i \in 1 .. Len(source) : i = 1 \/ (i - 1 \in 1 .. Len(u) /\ (i - 1) + 1 = i)
    BY <2>2
  <2>7. source = <<x>> \o u
    BY <1>1, <2>1, HeadThenTail
  <2> HIDE DEF x, u
  <2>8. Clean(u) => Clean(source)
    BY <2>1, <2>2, <2>3, <2>5 DEF Clean
  <2>9. <<>> \o source = source /\ <<>> \o u = u
    BY <1>1, <2>2, ConcatEmptySeq
  <2>10. Len(<<>>) <= 1
    OBVIOUS
  <2> QED
    BY <1>3, <2>1, <2>7, <2>8, <2>9, <2>10 DEF Then, u
<1> QED
  BY <1>2, <1>3

(* The source is what the input has left. *)
LEMMA SourceStep ==
    ASSUME SourceInv, source \in Seq(Readable), input' = input,
           source' = source \/ (source # <<>> /\ source' = Tail(source))
    PROVE  SourceInv'
<1>0. input \in Seq(Readable) /\ Len(input) \in Nat /\ Len(source) \in Nat
  BY AccentAssumption DEF SourceInv, Readable
<1>1. CASE source' = source
  BY <1>1 DEF SourceInv
<1>2. CASE source # <<>> /\ source' = Tail(source)
  <2>1. /\ Len(source') = Len(source) - 1 /\ Len(source') \in Nat
        /\ \A i \in 1 .. Len(source') : source'[i] = source[i + 1]
    BY <1>2, HeadTailProperties
  <2>2. ASSUME NEW i \in 1 .. Len(source')
        PROVE  source'[i] = input[Len(input) - Len(source') + i]
    <3>1. i + 1 \in 1 .. Len(source) /\ Len(input) - Len(source) + (i + 1) = Len(input) - Len(source') + i
      BY <1>0, <2>1
    <3> QED
      BY <2>1, <3>1 DEF SourceInv
  <2>3. Len(source') <= Len(input)
    BY <1>0, <2>1 DEF SourceInv
  <2> QED
    BY <2>2, <2>3 DEF SourceInv
<1> QED
  BY <1>1, <1>2

LEMMA CurrentUnspecified ==
    ASSUME NEW current \in Phonemes
    PROVE  CurrentOf(current, "unspecified") = current
<1>1. CASE current = <<>>
  BY <1>1 DEF CurrentOf
<1>2. CASE current # <<>>
  <2>1. Head(current) \in Phoneme
    BY <1>2, HeadTailProperties DEF Phonemes
  <2>2. [Head(current) EXCEPT !.stress = @] = Head(current)
    BY <2>1 DEF Phoneme
  <2>3. CurrentOf(current, "unspecified") = <<Head(current)>> \o Tail(current)
    BY <1>2, <2>2 DEF CurrentOf
  <2> QED
    BY <1>2, <2>3, HeadThenTail DEF Phonemes
<1> QED
  BY <1>1, <1>2

(* Where the parts of a sequence are put does not matter. *)
LEMMA Regrouped ==
    \A a, b, c \in Phonemes :
        /\ Then(Then(a, b), c) = Then(a, Then(b, c)) /\ Then(a, b) \in Phonemes
        /\ Then(a, <<>>) = a /\ Then(<<>>, a) = a /\ <<>> \in Phonemes
BY ConcatAssociative, ConcatProperties, ConcatEmptySeq DEF Phonemes, Then

(* Nothing is taken before and after a match. *)
LEMMA NothingTaken ==
    ASSUME NEW pc \in {"idle", "enter", "match", "unmatched"}, reading' = At(pc)
    PROVE  /\ Taken(<<>>)' /\ reading'.pc = pc
           /\ reading'.entry = <<>> /\ reading'.match = <<>> /\ reading'.read_queue = <<>>
<1>1. reading'.pc = pc /\ reading'.entry = <<>> /\ reading'.match = <<>> /\ reading'.read_queue = <<>>
  BY DEF At, Idle
<1>2. <<>> \in Phonemes /\ Len(<<>>) = 0 /\ <<>> \notin DOMAIN Rules
  BY AccentAssumption DEF Phonemes
<1> QED
  BY <1>1, <1>2 DEF Taken, SoundsAre

LEMMA IdleIsAt == Idle = At("idle")
BY DEF Idle, At

LEMMA TakenIsNothing ==
    ASSUME QueueInv, reading.pc # "match", NEW m, Taken(m)
    PROVE  m = <<>>
<1>1. m \in Phonemes /\ Len(m) = Len(reading.entry) /\ reading.entry = <<>>
  BY DEF Taken, SoundsAre, QueueInv
<1> QED
  BY <1>1, EmptySeq DEF Phonemes

LEMMA Carried ==
    ASSUME NEW p, NEW m, NEW q, After(p, m), input' = input, Then(Out', Left(q)') = Then(Out, Left(m))
    PROVE  After(p, q)'
BY DEF After, Errors, AfterErrors

LEMMA OutTyped ==
    ASSUME AccentInv, ChunksInv, ReturnInv
    PROVE  Out \in Phonemes /\ aPhonemes \in Phonemes /\ returned.phonemes \in Phonemes /\ Converted \in Phonemes
<1>1. aPhonemes \in Phonemes /\ returned.phonemes \in Phonemes /\ Converted \in Phonemes
  BY DEF AccentInv, ChunksInv, ReturnInv, Phonemes
<1> QED
  BY <1>1, Regrouped DEF Out

LEMMA AfterMatchLeft ==
    ASSUME AccentInv, NEW m, Taken(m), mCurrent = <<>>, AfterMatch, NEW r \in Phonemes, NoneLonger(m, r)
    PROVE  IF reading.match # <<>>
           THEN Then(CurrentOf(mCurrent', mInitialPhonemeProsody), Rewritten(r)) = Rewritten(Then(m, r))
           ELSE Matching(Then(m, r)) = {}
<1>1. reading.entry \in Seq(Sound) /\ reading.match \in {<<>>} \cup DOMAIN Rules
  BY DEF AccentInv, ReadingType
<1>2. m \in Phonemes /\ SoundsAre(m, reading.entry)
  BY DEF Taken
<1>3. CASE reading.match # <<>>
  <2>1. reading.match = reading.entry /\ reading.entry \in DOMAIN Rules /\ mCurrent' = Rules[reading.entry]
    BY <1>1, <1>3 DEF Taken, AfterMatch
  <2>2. IsLongest(reading.entry, m \o r)
    BY <1>1, <1>2, <2>1, MatchEnds
  <2>3. Len(reading.entry) = Len(m) /\ Len(reading.entry) > 0
    BY <1>2, <2>1, RuleFacts DEF SoundsAre
  <2>4. m # <<>> /\ 1 \in 1 .. Len(m)
    BY <1>2, <2>3 DEF Phonemes
  <2>5. m[1].stress = mInitialPhonemeProsody /\ m[1].stress \in Stress
    BY <1>2, <2>4, PhonemeAt DEF Taken
  <2>6. Rewritten(m \o r) = Replacement(reading.entry, m[1].stress) \o Rewritten(r)
    BY <1>2, <2>2, <2>3, RewriteLongest
  <2>7. CurrentOf(mCurrent', mInitialPhonemeProsody) = Replacement(reading.entry, m[1].stress)
    BY <2>1, <2>5, CurrentStarts
  <2> QED
    BY <1>3, <2>6, <2>7 DEF Then
<1>4. CASE reading.match = <<>>
  <2>1. Len(m) <= 1 /\ reading.entry \notin DOMAIN Rules
    BY <1>4 DEF Taken
  <2>2. Matching(m \o r) = {}
    BY <1>1, <1>2, <2>1, MatchEnds
  <2> QED
    BY <1>4, <2>2 DEF Then
<1> QED
  BY <1>3, <1>4

(* The assumptions of a step of read(). *)
InRead ==
    /\ AccentInv /\ ChunksInv /\ ConvertInv
    /\ AccentInv' /\ input' = input /\ UNCHANGED <<stress, aPhonemes, printed, exited>>
    /\ reading.pc # "idle"

LEMMA ReadsFacts ==
    ASSUME InRead
    PROVE  /\ AccentInv /\ ChunksInv /\ QueueInv /\ ReturnInv /\ SourceInv /\ TakenInv /\ AccentInv'
           /\ input' = input /\ aPhonemes' = aPhonemes /\ exited' = exited /\ Converted' = Converted
           /\ aPhonemes \in Phonemes /\ Converted \in Phonemes /\ Out \in Phonemes
           /\ ~exited /\ returned.kind = "none" /\ returned.phonemes = <<>>
           /\ source \in Seq(Readable) /\ mReadQueue \in Phonemes /\ mCurrent \in Phonemes
           /\ source' \in Seq(Readable) /\ mReadQueue' \in Phonemes /\ mCurrent' \in Phonemes
           /\ mInitialPhonemeProsody \in Stress \cup {"unspecified"} /\ mInitialPhonemeProsody' \in Stress \cup {"unspecified"}
           /\ reading.entry \in Seq(Sound) /\ reading.match \in {<<>>} \cup DOMAIN Rules /\ reading.read_queue \in Phonemes
<1>1. /\ AccentInv /\ ChunksInv /\ QueueInv /\ ReturnInv /\ SourceInv /\ TakenInv /\ AccentInv'
      /\ input' = input /\ aPhonemes' = aPhonemes /\ exited' = exited /\ printed' = printed /\ reading.pc # "idle"
  BY DEF InRead, ConvertInv
<1>2. Converted' = Converted
  BY <1>1 DEF Converted
<1>3. aPhonemes \in Phonemes /\ Converted \in Phonemes /\ Out \in Phonemes
  BY <1>1, OutTyped
<1>4. ~exited /\ returned.kind = "none" /\ returned.phonemes = <<>>
  BY <1>1 DEF ReturnInv
<1>5. /\ source \in Seq(Readable) /\ mReadQueue \in Phonemes /\ mCurrent \in Phonemes
      /\ source' \in Seq(Readable) /\ mReadQueue' \in Phonemes /\ mCurrent' \in Phonemes
      /\ mInitialPhonemeProsody \in Stress \cup {"unspecified"} /\ mInitialPhonemeProsody' \in Stress \cup {"unspecified"}
      /\ reading \in ReadingType
  BY <1>1 DEF AccentInv, Phonemes
<1>6. /\ reading.entry \in Seq(Sound) /\ reading.match \in {<<>>} \cup DOMAIN Rules /\ reading.read_queue \in Phonemes
  BY <1>5 DEF ReadingType, Phonemes
<1> QED
  BY <1>1, <1>2, <1>3, <1>4, <1>5, <1>6

(* What was not returned is what returns. *)
LEMMA OutIs ==
    ASSUME AccentInv, ChunksInv, ReturnInv, Converted' = Converted, aPhonemes' = aPhonemes, returned'.phonemes = returned.phonemes
    PROVE  Out' = Out
BY DEF Out

LEMMA RewrittenLeft ==
    ASSUME NEW c, NEW m \in Phonemes, NEW s \in Phonemes
    PROVE  /\ Then(CurrentOf(<<>>, c), Rewritten(Then(m, s))) = Rewritten(Then(m, s))
           /\ Rewritten(Then(m, s)) \in Phonemes
<1>1. Then(m, s) \in Phonemes
  BY Regrouped
<1>2. Rewritten(Then(m, s)) \in Phonemes
  BY <1>1, RewrittenTyped
<1>3. CurrentOf(<<>>, c) = <<>>
  BY DEF CurrentOf
<1> QED
  BY <1>2, <1>3, Regrouped

(* A clean source and the queue are phonemes. *)
LEMMA LeftTyped ==
    ASSUME NEW q \in Phonemes, NEW s \in Seq(Readable), Clean(s)
    PROVE  s \in Phonemes /\ Then(q, s) \in Phonemes
BY CleanTyped, Regrouped

LEMMA ReplaceHolds ==
    ASSUME InRead, Replace
    PROVE  ConvertInv'
<1> DEFINE y == [Head(mCurrent) EXCEPT !.stress =
                   IF mInitialPhonemeProsody = "unspecified" THEN @ ELSE mInitialPhonemeProsody]
<1>1. /\ reading.pc = "enter" /\ mCurrent # <<>> /\ returned' = True(y) /\ mInitialPhonemeProsody' = "unspecified"
      /\ mCurrent' = Tail(mCurrent) /\ reading' = Idle /\ source' = source /\ mReadQueue' = mReadQueue
  BY DEF Replace
<1>2. /\ QueueInv /\ ReturnInv /\ SourceInv /\ TakenInv /\ input' = input /\ ~exited' /\ exited' = exited
      /\ Converted' = Converted /\ aPhonemes' = aPhonemes /\ returned.phonemes = <<>>
      /\ Converted \in Phonemes /\ aPhonemes \in Phonemes /\ mCurrent \in Phonemes /\ mReadQueue \in Phonemes
      /\ source \in Seq(Readable)
  BY ReadsFacts
<1>3. CurrentOf(mCurrent, mInitialPhonemeProsody) = <<y>> \o Tail(mCurrent)
  BY <1>1 DEF CurrentOf
<1>4. y \in Phoneme
  <2>1. Head(mCurrent) \in Phoneme /\ mInitialPhonemeProsody \in Stress \cup {"unspecified"}
    BY <1>1, <1>2, ReadsFacts, HeadTailProperties DEF Phonemes
  <2> QED
    BY <2>1 DEF Phoneme
<1> HIDE DEF y
<1>5. returned'.kind = "true" /\ returned'.phonemes = <<y>> /\ <<y>> \in Phonemes
  BY <1>1, <1>4 DEF True, Phonemes
<1>6. Tail(mCurrent) \in Phonemes
  BY <1>1, <1>2, HeadTailProperties DEF Phonemes
<1>7. Taken(<<>>)' /\ reading'.pc = "idle" /\ reading'.entry = <<>> /\ reading'.match = <<>> /\ reading'.read_queue = <<>>
  BY <1>1, IdleIsAt, NothingTaken
<1>8. QueueInv'
  BY <1>1, <1>2, <1>7 DEF QueueInv
<1>9. ReturnInv'
  BY <1>2, <1>5, <1>7 DEF ReturnInv
<1>10. SourceInv'
  BY <1>1, <1>2, SourceStep
<1>11. ASSUME Clean(source)', NEW p, After(p, <<>>)
       PROVE  After(p, <<>>)'
  <2> DEFINE z == <<y>>
             u == Tail(mCurrent)
             d == Rewritten(Then(<<>>, Then(mReadQueue, source)))
  <2>1. Then(mReadQueue, source) \in Phonemes /\ <<>> \in Phonemes
    BY <1>1, <1>2, <1>11, LeftTyped DEF Clean, Phonemes
  <2>2. d \in Phonemes
    BY <2>1, RewrittenLeft
  <2>3. z \in Phonemes /\ u \in Phonemes /\ Converted \in Phonemes /\ aPhonemes \in Phonemes
    BY <1>2, <1>5, <1>6
  <2>4. Left(<<>>) = Then(Then(z, u), d)
    BY <1>3 DEF Left, Then
  <2>5. Left(<<>>)' = Then(u, d)
    <3>1. CurrentOf(mCurrent', mInitialPhonemeProsody') = u
      BY <1>1, <1>6, CurrentUnspecified
    <3> QED
      BY <1>1, <3>1 DEF Left
  <2>6. Out = Then(Converted, Then(aPhonemes, <<>>)) /\ Out' = Then(Converted, Then(aPhonemes, z))
    BY <1>2, <1>5 DEF Out
  <2> HIDE DEF d, z, u
  <2>7. Then(Out', Left(<<>>)') = Then(Out, Left(<<>>))
    BY <2>2, <2>3, <2>4, <2>5, <2>6, Regrouped
  <2> QED
    BY <1>2, <1>11, <2>7, Carried
<1>12. PICK m : Taken(m) /\ (Clean(source) => \E p : After(p, m))
  BY <1>2 DEF TakenInv
<1>13. m = <<>>
  BY <1>1, <1>2, <1>12, TakenIsNothing
<1>14. Clean(source)' => Clean(source)
  BY <1>1 DEF Clean
<1>15. TakenInv'
  BY <1>7, <1>11, <1>12, <1>13, <1>14 DEF TakenInv
<1> QED
  BY <1>8, <1>9, <1>10, <1>15 DEF ConvertInv

LEMMA StartMatchHolds ==
    ASSUME InRead, StartMatch
    PROVE  ConvertInv'
<1>1. /\ reading.pc = "enter" /\ mCurrent = <<>> /\ returned' = returned /\ mInitialPhonemeProsody' = mInitialPhonemeProsody
      /\ mCurrent' = <<>> /\ reading' = At("match") /\ source' = source /\ mReadQueue' = mReadQueue
  BY DEF StartMatch
<1>2. /\ QueueInv /\ ReturnInv /\ SourceInv /\ TakenInv /\ input' = input /\ exited' = exited
      /\ Converted' = Converted /\ aPhonemes' = aPhonemes /\ returned.kind = "none"
      /\ source \in Seq(Readable)
  BY ReadsFacts
<1>7. Taken(<<>>)' /\ reading'.pc = "match" /\ reading'.entry = <<>> /\ reading'.match = <<>> /\ reading'.read_queue = <<>>
  BY <1>1, NothingTaken
<1>8. QueueInv'
  BY <1>1, <1>2, <1>7 DEF QueueInv
<1>9. ReturnInv'
  BY <1>1, <1>2 DEF ReturnInv
<1>10. SourceInv'
  BY <1>1, <1>2, SourceStep
<1>11. Then(Out', Left(<<>>)') = Then(Out, Left(<<>>))
  BY <1>1, <1>2 DEF Out, Left
<1>12. PICK m : Taken(m) /\ (Clean(source) => \E p : After(p, m))
  BY <1>2 DEF TakenInv
<1>13. m = <<>>
  BY <1>1, <1>2, <1>12, TakenIsNothing
<1>14. Clean(source)' => Clean(source)
  BY <1>1 DEF Clean
<1>15. \A p : After(p, <<>>) => After(p, <<>>)'
  BY <1>2, <1>11, Carried
<1>16. TakenInv'
  BY <1>7, <1>12, <1>13, <1>14, <1>15 DEF TakenInv
<1> QED
  BY <1>8, <1>9, <1>10, <1>16 DEF ConvertInv

(* The end of a match: ahead is what was read and belongs to no rule. *)
Matched(ahead) ==
    /\ InRead /\ reading.pc = "match" /\ AfterMatch
    /\ ahead \in Phonemes /\ Len(ahead) <= 1
    /\ mReadQueue' = Then(reading.read_queue, ahead)
    /\ Then(mReadQueue, source) = Then(ahead, source')
    /\ source' = source \/ (source # <<>> /\ source' = Tail(source))
    /\ Clean(source)' => Clean(source)
    /\ \A m : Taken(m) /\ Clean(source)' => NoneLonger(m, Then(ahead, source'))
    /\ reading.match # <<>> => mInitialPhonemeProsody' = mInitialPhonemeProsody
    /\ returned' = returned

LEMMA MatchHolds ==
    ASSUME NEW ahead, Matched(ahead)
    PROVE  ConvertInv'
<1>1. /\ reading.pc = "match" /\ AfterMatch /\ ahead \in Phonemes /\ Len(ahead) <= 1
      /\ mReadQueue' = Then(reading.read_queue, ahead) /\ Then(mReadQueue, source) = Then(ahead, source')
      /\ (source' = source \/ (source # <<>> /\ source' = Tail(source))) /\ (Clean(source)' => Clean(source))
      /\ \A m : Taken(m) /\ Clean(source)' => NoneLonger(m, Then(ahead, source'))
      /\ reading.match # <<>> => mInitialPhonemeProsody' = mInitialPhonemeProsody
      /\ returned' = returned /\ InRead
  BY DEF Matched
<1>2. /\ AccentInv /\ QueueInv /\ ReturnInv /\ SourceInv /\ TakenInv /\ input' = input /\ exited' = exited
      /\ Converted' = Converted /\ aPhonemes' = aPhonemes /\ returned.kind = "none" /\ ~exited
      /\ returned.phonemes = <<>> /\ Converted \in Phonemes /\ aPhonemes \in Phonemes /\ Out \in Phonemes
      /\ source \in Seq(Readable) /\ source' \in Seq(Readable) /\ reading.read_queue \in Phonemes
  BY <1>1, ReadsFacts
<1>3. mCurrent = <<>>
  BY <1>1, <1>2 DEF QueueInv
<1>4. PICK m : Taken(m) /\ (Clean(source) => \E p : After(p, m))
  BY <1>2 DEF TakenInv
<1>5. m \in Phonemes /\ <<>> \in Phonemes
  BY <1>4 DEF Taken, Phonemes
<1>6. SourceInv'
  BY <1>1, <1>2, SourceStep
<1>7. ReturnInv'
  BY <1>1, <1>2 DEF ReturnInv
<1>8. Out' = Out
  BY <1>1, <1>2 DEF Out
<1> DEFINE r == Then(ahead, source')
<1>9. Clean(source)' => r \in Phonemes /\ NoneLonger(m, r)
  <2>1. Clean(source)' => Clean(source')
    BY DEF Clean
  <2> QED
    BY <1>1, <1>2, <1>4, <2>1, LeftTyped
<1> HIDE DEF r
<1>10. CASE reading.match # <<>>
  <2>1. reading' = At("enter") /\ reading.read_queue = <<>>
    BY <1>1, <1>4, <1>10 DEF AfterMatch, Taken
  <2>2. Taken(<<>>)' /\ reading'.pc = "enter" /\ reading'.entry = <<>> /\ reading'.match = <<>> /\ reading'.read_queue = <<>>
    BY <2>1, NothingTaken
  <2>3. mReadQueue' = ahead
    BY <1>1, <2>1, Regrouped
  <2>4. QueueInv'
    BY <1>1, <2>2, <2>3 DEF QueueInv
  <2>5. ASSUME Clean(source)', NEW p, After(p, m)
        PROVE  After(p, <<>>)'
    <3>1. r \in Phonemes /\ NoneLonger(m, r)
      BY <1>9, <2>5
    <3>2. Then(CurrentOf(mCurrent', mInitialPhonemeProsody), Rewritten(r)) = Rewritten(Then(m, r))
      BY <1>1, <1>2, <1>3, <1>4, <1>10, <3>1, AfterMatchLeft
    <3>3. Left(<<>>)' = Then(CurrentOf(mCurrent', mInitialPhonemeProsody), Rewritten(r))
      <4>1. Then(mReadQueue', source') = r /\ Then(<<>>, r) = r /\ mInitialPhonemeProsody' = mInitialPhonemeProsody
        BY <1>1, <1>10, <2>3, <3>1, Regrouped DEF r
      <4> QED
        BY <4>1 DEF Left
    <3>4. Left(m) = Rewritten(Then(m, r))
      BY <1>1, <1>3, <1>5, <3>1, RewrittenLeft DEF Left, r
    <3> QED
      BY <1>2, <1>8, <2>5, <3>2, <3>3, <3>4, Carried
  <2>6. TakenInv'
    BY <1>1, <1>4, <2>2, <2>5 DEF TakenInv
  <2> QED
    BY <1>6, <1>7, <2>4, <2>6 DEF ConvertInv
<1>11. CASE reading.match = <<>>
  <2>1. reading' = At("unmatched") /\ mCurrent' = <<>> /\ reading.read_queue = m /\ Len(m) <= 1
    BY <1>1, <1>3, <1>4, <1>11 DEF AfterMatch, Taken
  <2>2. Taken(<<>>)' /\ reading'.pc = "unmatched" /\ reading'.entry = <<>> /\ reading'.match = <<>> /\ reading'.read_queue = <<>>
    BY <2>1, NothingTaken
  <2>3. mReadQueue' = Then(m, ahead) /\ Len(mReadQueue') <= 2
    <3>1. Len(Then(m, ahead)) = Len(m) + Len(ahead) /\ Len(m) \in Nat /\ Len(ahead) \in Nat
      BY <1>1, <1>5, ConcatProperties DEF Then, Phonemes
    <3>2. \A a, b \in Nat : a <= 1 /\ b <= 1 => a + b <= 2
      OBVIOUS
    <3>3. mReadQueue' = Then(m, ahead)
      BY <1>1, <2>1
    <3> QED
      BY <1>1, <2>1, <3>1, <3>2, <3>3, Zenon
  <2>4. Clean(source)' => r \in Phonemes /\ Matching(Then(m, r)) = {} /\ Then(mReadQueue', source') = Then(m, r)
    <3> SUFFICES ASSUME Clean(source)'
                 PROVE  r \in Phonemes /\ Matching(Then(m, r)) = {} /\ Then(mReadQueue', source') = Then(m, r)
      OBVIOUS
    <3>1. r \in Phonemes /\ NoneLonger(m, r)
      BY <1>9
    <3>2. Matching(Then(m, r)) = {}
      BY <1>1, <1>2, <1>3, <1>4, <1>11, <3>1, AfterMatchLeft
    <3>3. source' \in Phonemes
      BY <1>2, CleanTyped DEF Clean
    <3>4. Then(Then(m, ahead), source') = Then(m, r)
      BY <1>1, <1>5, <3>3, Regrouped DEF r
    <3> QED
      BY <2>3, <3>1, <3>2, <3>4
  <2>5. QueueInv'
    <3>1. Clean(source)' => Matching(Then(mReadQueue', source')) = {}
      BY <2>4
    <3> QED
      BY <2>1, <2>2, <2>3, <3>1 DEF QueueInv
  <2>6. ASSUME Clean(source)', NEW p, After(p, m)
        PROVE  After(p, <<>>)'
    <3>1. r \in Phonemes /\ Then(mReadQueue', source') = Then(m, r)
      BY <2>4, <2>6
    <3>2. Then(m, r) \in Phonemes /\ Then(<<>>, Then(m, r)) = Then(m, r)
      BY <1>5, <3>1, Regrouped
    <3>3. Left(<<>>)' = Rewritten(Then(m, r))
      <4>1. Left(<<>>)' = Then(CurrentOf(<<>>, mInitialPhonemeProsody'), Rewritten(Then(m, r)))
        BY <2>1, <3>1, <3>2 DEF Left
      <4> QED
        BY <1>5, <3>1, <4>1, RewrittenLeft
    <3>4. Left(m) = Rewritten(Then(m, r))
      BY <1>1, <1>3, <1>5, <3>1, RewrittenLeft DEF Left, r
    <3> QED
      BY <1>2, <1>8, <2>6, <3>3, <3>4, Carried
  <2>7. TakenInv'
    BY <1>1, <1>4, <2>2, <2>6 DEF TakenInv
  <2> QED
    BY <1>6, <1>7, <2>5, <2>7 DEF ConvertInv
<1> QED
  BY <1>10, <1>11

(* What is available is a phoneme, the next one. *)
LEMMA AvailableIs ==
    ASSUME AccentInv, QueueInv, reading.pc = "match", Available
    PROVE  /\ Then(mReadQueue, source) = Then(<<NextPhoneme>>, SourceAfter)
           /\ QueueAfter = <<>>
           /\ Clean(SourceAfter) => Clean(source)
           /\ SourceAfter = source \/ (source # <<>> /\ SourceAfter = Tail(source))
           /\ NextPhoneme \in Phoneme /\ NextPhoneme.sound \in Sound /\ NextPhoneme.stress \in Stress
           /\ SourceAfter \in Seq(Readable)
<1>1. mReadQueue # <<>> \/ (source # <<>> /\ Head(source) \in Phoneme /\ Head(source) # Unreadable)
  BY AvailableTyped DEF Available
<1>2. Len(mReadQueue) <= 1
  BY DEF QueueInv
<1>3. /\ Then(mReadQueue, source) = Then(<<NextPhoneme>>, Then(QueueAfter, SourceAfter)) /\ QueueAfter = <<>>
      /\ Clean(SourceAfter) => Clean(source)
      /\ SourceAfter = source \/ (source # <<>> /\ SourceAfter = Tail(source))
  BY <1>1, <1>2, NextIs
<1>4. /\ NextPhoneme \in Phoneme /\ NextPhoneme.sound \in Sound /\ NextPhoneme.stress \in Stress
      /\ SourceAfter \in Seq(Readable)
  BY <1>1, NextTyped
<1>5. Then(<<>>, SourceAfter) = SourceAfter
  BY <1>4, ConcatEmptySeq DEF Then
<1> QED
  BY <1>3, <1>4, <1>5

LEMMA MismatchHolds ==
    ASSUME InRead, Mismatch
    PROVE  ConvertInv'
<1>1. /\ reading.pc = "match" /\ Available /\ ~InTrie(Extended) /\ source' = SourceAfter
      /\ mReadQueue' = QueueAfter \o reading.read_queue \o <<NextPhoneme>> /\ mInitialPhonemeProsody' = Initial
      /\ AfterMatch /\ returned' = returned
  BY DEF Mismatch
<1>2. AccentInv /\ QueueInv /\ reading.entry \in Seq(Sound) /\ reading.read_queue \in Phonemes /\ TakenInv
  BY ReadsFacts
<1>3. /\ Then(mReadQueue, source) = Then(<<NextPhoneme>>, SourceAfter) /\ QueueAfter = <<>>
      /\ Clean(SourceAfter) => Clean(source)
      /\ SourceAfter = source \/ (source # <<>> /\ SourceAfter = Tail(source))
      /\ NextPhoneme \in Phoneme /\ NextPhoneme.sound \in Sound /\ NextPhoneme.stress \in Stress
      /\ SourceAfter \in Seq(Readable)
  BY <1>1, <1>2, AvailableIs
<1> DEFINE ahead == <<NextPhoneme>>
<1>4. ahead \in Phonemes /\ Len(ahead) <= 1
  BY <1>3 DEF Phonemes
<1>5. mReadQueue' = Then(reading.read_queue, ahead)
  <2>1. <<>> \o reading.read_queue = reading.read_queue
    BY <1>2 DEF Phonemes
  <2> QED
    BY <1>1, <1>3, <2>1 DEF Then
<1>6. ASSUME NEW m, Taken(m), Clean(source)'
      PROVE  NoneLonger(m, Then(ahead, source'))
  <2>1. m \in Phonemes /\ SoundsAre(m, reading.entry)
    BY <1>6 DEF Taken
  <2>2. SourceAfter \in Phonemes
    <3>1. Clean(SourceAfter)
      BY <1>1, <1>6 DEF Clean
    <3> QED
      BY <1>3, <3>1, CleanTyped
  <2>3. ~InTrie(Append(reading.entry, NextPhoneme.sound))
    BY <1>1 DEF Extended
  <2>4. NoneLonger(m, <<NextPhoneme>> \o SourceAfter)
    BY <1>2, <1>3, <2>1, <2>2, <2>3, NoRuleGoesOn
  <2> QED
    BY <1>1, <2>4 DEF Then
<1>7. ASSUME reading.match # <<>>
      PROVE  mInitialPhonemeProsody' = mInitialPhonemeProsody
  <2>1. PICK m : Taken(m)
    BY <1>2 DEF TakenInv
  <2>2. reading.entry # <<>>
    BY <1>7, <2>1 DEF Taken
  <2> QED
    BY <1>1, <2>2 DEF Initial
<1>8. Clean(source)' => Clean(source)
  BY <1>1, <1>3 DEF Clean
<1>9. Matched(ahead)
  <2> HIDE DEF ahead
  <2> QED
    BY <1>1, <1>3, <1>4, <1>5, <1>6, <1>7, <1>8 DEF Matched, ahead
<1> QED
  BY <1>9, MatchHolds

LEMMA EndOfInputHolds ==
    ASSUME InRead, EndOfInput
    PROVE  ConvertInv'
<1>1. /\ reading.pc = "match" /\ mReadQueue = <<>> /\ source = <<>> /\ mReadQueue' = reading.read_queue
      /\ AfterMatch /\ source' = source /\ mInitialPhonemeProsody' = mInitialPhonemeProsody /\ returned' = returned
  BY DEF EndOfInput, Exhausted
<1>2. reading.read_queue \in Phonemes /\ <<>> \in Phonemes /\ Len(<<>>) <= 1
  BY ReadsFacts DEF Phonemes
<1>3. Then(<<>>, <<>>) = <<>> /\ Then(reading.read_queue, <<>>) = reading.read_queue
  BY <1>2, Regrouped
<1>4. \A m : Taken(m) => NoneLonger(m, <<>>)
  BY NothingGoesOn DEF Taken
<1>5. Clean(source)' => Clean(source)
  BY <1>1 DEF Clean
<1>6. Matched(<<>>)
  BY <1>1, <1>2, <1>3, <1>4, <1>5 DEF Matched
<1> QED
  BY <1>6, MatchHolds

LEMMA LongerIsRule ==
    ASSUME PrefixesAreRules, NEW entry \in Seq(Sound), InTrie(entry), Len(entry) >= 2
    PROVE  entry \in DOMAIN Rules
<1>1. PICK rule \in DOMAIN Rules : IsPrefix(entry, rule)
  BY DEF InTrie
<1>2. rule \in Seq(Sound) /\ Len(rule) \in Nat /\ Len(entry) \in Nat
  BY RuleFacts
<1>3. Len(entry) <= Len(rule) /\ \A i \in 1 .. Len(entry) : entry[i] = rule[i]
  BY <1>1, <1>2, PrefixIs
<1>4. Len(entry) \in 2 .. Len(rule)
  BY <1>2, <1>3
<1>5. SubSeq(rule, 1, Len(entry)) \in DOMAIN Rules
  BY <1>4 DEF PrefixesAreRules
<1>6. SubSeq(rule, 1, Len(entry)) = entry
  <2> DEFINE u == SubSeq(rule, 1, Len(entry))
  <2>1. u \in Seq(Sound) /\ Len(u) = Len(entry) /\ \A i \in 1 .. Len(entry) : u[i] = rule[i]
    BY <1>2, <1>3
  <2> HIDE DEF u
  <2>2. u = entry
    BY <1>3, <2>1, SeqEqual
  <2> QED
    BY <2>2 DEF u
<1> QED
  BY <1>5, <1>6

LEMMA ExtendHolds ==
    ASSUME PrefixesAreRules, InRead, Extend
    PROVE  ConvertInv'
<1>1. /\ reading.pc = "match" /\ Available /\ InTrie(Extended) /\ source' = SourceAfter /\ mReadQueue' = QueueAfter
      /\ mInitialPhonemeProsody' = Initial /\ mCurrent' = mCurrent /\ returned' = returned
      /\ reading' = IF Extended \in DOMAIN Rules
                    THEN [reading EXCEPT !.entry = Extended, !.match = Extended, !.read_queue = <<>>]
                    ELSE [reading EXCEPT !.entry = Extended, !.read_queue = Append(@, NextPhoneme)]
  BY DEF Extend
<1>2. /\ AccentInv /\ QueueInv /\ ReturnInv /\ SourceInv /\ TakenInv /\ input' = input /\ exited' = exited
      /\ Converted' = Converted /\ aPhonemes' = aPhonemes /\ returned.kind = "none"
      /\ source \in Seq(Readable) /\ source' \in Seq(Readable)
      /\ reading.entry \in Seq(Sound) /\ reading.read_queue \in Phonemes /\ reading \in ReadingType
  BY ReadsFacts DEF AccentInv
<1>3. /\ Then(mReadQueue, source) = Then(<<NextPhoneme>>, SourceAfter) /\ QueueAfter = <<>>
      /\ Clean(SourceAfter) => Clean(source)
      /\ SourceAfter = source \/ (source # <<>> /\ SourceAfter = Tail(source))
      /\ NextPhoneme \in Phoneme /\ NextPhoneme.sound \in Sound /\ NextPhoneme.stress \in Stress
  BY <1>1, <1>2, AvailableIs
<1>4. mCurrent = <<>>
  BY <1>1, <1>2 DEF QueueInv
<1>5. PICK m : Taken(m) /\ (Clean(source) => \E p : After(p, m))
  BY <1>2 DEF TakenInv
<1>6. m \in Phonemes /\ SoundsAre(m, reading.entry) /\ Len(m) \in Nat
  BY <1>5 DEF Taken, Phonemes
<1>7. PICK x \in Phoneme : x = NextPhoneme
  BY <1>3
<1>8. <<x>> \in Phonemes /\ <<>> \in Phonemes
  BY DEF Phonemes
<1> DEFINE q == Append(m, x)
<1>9. /\ q \in Phonemes /\ Len(q) = Len(m) + 1 /\ q[Len(m) + 1] = x /\ (\A i \in 1 .. Len(m) : q[i] = m[i])
      /\ q = Then(m, <<x>>)
  <2>1. /\ q \in Phonemes /\ Len(q) = Len(m) + 1 /\ q[Len(m) + 1] = x /\ \A i \in 1 .. Len(m) : q[i] = m[i]
    BY <1>6, AppendProperties DEF Phonemes
  <2>2. q = m \o <<x>>
    BY <1>6 DEF Phonemes
  <2> QED
    BY <2>1, <2>2 DEF Then
<1> HIDE DEF q
<1>10. /\ Extended \in Seq(Sound) /\ Len(Extended) = Len(m) + 1 /\ Extended[Len(m) + 1] = x.sound
       /\ \A i \in 1 .. Len(m) : Extended[i] = m[i].sound
  <2>1. Len(reading.entry) = Len(m) /\ \A i \in 1 .. Len(m) : m[i].sound = reading.entry[i]
    BY <1>6 DEF SoundsAre
  <2>2. x.sound \in Sound /\ Extended = Append(reading.entry, x.sound)
    BY <1>3, <1>7 DEF Extended
  <2> QED
    BY <1>2, <2>1, <2>2, AppendProperties
<1>11. SoundsAre(q, Extended)
  <2>1. \A i \in 1 .. Len(m) + 1 : i \in 1 .. Len(m) \/ i = Len(m) + 1
    BY <1>6
  <2> QED
    BY <1>9, <1>10, <2>1 DEF SoundsAre
<1>12. q[1].stress = Initial /\ q # <<>> /\ Extended # <<>>
  <2>1. CASE m = <<>>
    <3>1. reading.entry = <<>> /\ Len(m) = 0
      BY <1>2, <1>6, <2>1, EmptySeq DEF SoundsAre
    <3>2. q[1] = x
      BY <1>9, <3>1
    <3> QED
      BY <1>6, <1>7, <1>9, <1>10, <3>1, <3>2 DEF Initial
  <2>2. CASE m # <<>>
    <3>1. Len(m) > 0 /\ Len(reading.entry) = Len(m)
      BY <1>6, <2>2, EmptySeq DEF SoundsAre, Phonemes
    <3>2. 1 \in 1 .. Len(m) /\ reading.entry # <<>>
      BY <1>6, <3>1
    <3>3. m[1].stress = mInitialPhonemeProsody
      BY <1>5, <2>2 DEF Taken
    <3> QED
      BY <1>6, <1>9, <1>10, <3>1, <3>2, <3>3 DEF Initial
  <2> QED
    BY <2>1, <2>2
<1>13. Taken(q)' /\ reading'.pc = "match"
  <2>1. CASE Extended \in DOMAIN Rules
    <3>1. reading'.pc = "match" /\ reading'.entry = Extended /\ reading'.match = Extended /\ reading'.read_queue = <<>>
      BY <1>1, <1>2, <2>1 DEF ReadingType
    <3> QED
      BY <1>1, <1>9, <1>11, <1>12, <3>1 DEF Taken
  <2>2. CASE Extended \notin DOMAIN Rules
    <3>1. /\ reading'.pc = "match" /\ reading'.entry = Extended /\ reading'.match = reading.match
          /\ reading'.read_queue = Append(reading.read_queue, x)
      BY <1>1, <1>2, <1>7, <2>2 DEF ReadingType
    <3>2. Len(m) = 0
      <4>1. ~(Len(Extended) >= 2)
        BY <1>1, <1>10, <2>2, LongerIsRule
      <4> QED
        BY <1>6, <1>10, <4>1
    <3>3. m = <<>> /\ reading.entry = <<>>
      BY <1>2, <1>6, <3>2, EmptySeq DEF SoundsAre, Phonemes
    <3>4. reading.match = <<>> /\ reading.read_queue = m
      <4>1. reading.match = <<>>
        BY <1>5, <3>3 DEF Taken
      <4> QED
        BY <1>5, <4>1 DEF Taken
    <3>5. reading'.match = <<>> /\ reading'.read_queue = q /\ Len(q) <= 1
      BY <1>9, <3>1, <3>2, <3>4 DEF q
    <3> QED
      BY <1>1, <1>9, <1>11, <1>12, <2>2, <3>1, <3>5 DEF Taken
  <2> QED
    BY <2>1, <2>2
<1>14. QueueInv'
  <2>1. Len(<<>>) <= 1
    OBVIOUS
  <2> QED
    BY <1>1, <1>3, <1>4, <1>13, <2>1 DEF QueueInv
<1>15. ReturnInv'
  BY <1>1, <1>2 DEF ReturnInv
<1>16. SourceInv'
  BY <1>1, <1>2, <1>3, SourceStep
<1>17. ASSUME Clean(source)', NEW p, After(p, m)
       PROVE  After(p, q)'
  <2>1. source' \in Phonemes
    <3>1. Clean(source')
      BY <1>17 DEF Clean
    <3> QED
      BY <1>2, <3>1, CleanTyped
  <2>2. Then(m, Then(mReadQueue, source)) = Then(q, Then(mReadQueue', source'))
    <3>1. Then(mReadQueue', source') = source' /\ Then(Then(m, <<x>>), source') = Then(m, Then(<<x>>, source'))
      BY <1>1, <1>3, <1>6, <1>8, <2>1, Regrouped
    <3> QED
      BY <1>1, <1>3, <1>7, <1>9, <3>1
  <2>3. Left(m) = Then(<<>>, Rewritten(Then(m, Then(mReadQueue, source))))
    BY <1>4 DEF Left, CurrentOf
  <2>4. Left(q)' = Then(<<>>, Rewritten(Then(q, Then(mReadQueue', source'))))
    BY <1>1, <1>4 DEF Left, CurrentOf
  <2>5. Out' = Out
    BY <1>1, <1>2 DEF Out
  <2> QED
    BY <1>2, <1>17, <2>2, <2>3, <2>4, <2>5, Carried
<1>18. Clean(source)' => Clean(source)
  BY <1>1, <1>3 DEF Clean
<1>19. TakenInv'
  BY <1>5, <1>13, <1>17, <1>18 DEF TakenInv
<1> QED
  BY <1>14, <1>15, <1>16, <1>19 DEF ConvertInv

(* The end of the input: read() returns false. *)
LEMMA UnmatchedEnds ==
    ASSUME InRead, Unmatched, Exhausted
    PROVE  ConvertInv'
<1>1. /\ reading.pc = "unmatched" /\ mReadQueue = <<>> /\ source = <<>> /\ returned' = Result("false")
      /\ source' = source /\ mReadQueue' = mReadQueue
      /\ reading' = Idle /\ mCurrent' = mCurrent /\ mInitialPhonemeProsody' = mInitialPhonemeProsody
  BY DEF Unmatched, Exhausted
<1>2. /\ AccentInv /\ QueueInv /\ ReturnInv /\ SourceInv /\ TakenInv /\ input' = input /\ exited' = exited /\ ~exited
      /\ Converted' = Converted /\ aPhonemes' = aPhonemes /\ returned.kind = "none" /\ returned.phonemes = <<>>
      /\ source \in Seq(Readable) /\ Converted \in Phonemes
  BY ReadsFacts
<1>3. mCurrent = <<>>
  BY <1>1, <1>2 DEF QueueInv
<1>4. Taken(<<>>)' /\ reading'.pc = "idle" /\ reading'.entry = <<>> /\ reading'.match = <<>> /\ reading'.read_queue = <<>>
  BY <1>1, IdleIsAt, NothingTaken
<1>5. returned'.kind = "false" /\ returned'.phonemes = <<>>
  BY <1>1 DEF Result
<1>6. QueueInv'
  <2>1. Len(<<>>) <= 1
    OBVIOUS
  <2> QED
    BY <1>1, <1>3, <1>4, <2>1 DEF QueueInv
<1>7. ReturnInv'
  BY <1>1, <1>2, <1>3, <1>4, <1>5 DEF ReturnInv
<1>8. SourceInv'
  BY <1>1, <1>2, SourceStep
<1>9. Then(Out', Left(<<>>)') = Then(Out, Left(<<>>))
  BY <1>1, <1>2, <1>5 DEF Out, Left
<1>10. PICK m : Taken(m) /\ (Clean(source) => \E p : After(p, m))
  BY <1>2 DEF TakenInv
<1>11. m = <<>>
  BY <1>1, <1>2, <1>10, TakenIsNothing
<1>12. Clean(source)' => Clean(source)
  BY <1>1 DEF Clean
<1>13. \A p : After(p, <<>>) => After(p, <<>>)'
  BY <1>2, <1>9, Carried
<1>14. TakenInv'
  BY <1>4, <1>10, <1>11, <1>12, <1>13 DEF TakenInv
<1> QED
  BY <1>6, <1>7, <1>8, <1>14 DEF ConvertInv

LEMMA UnmatchedReads ==
    ASSUME InRead, Unmatched, ~Exhausted
    PROVE  ConvertInv'
<1>1. /\ reading.pc = "unmatched" /\ returned' = True(NextPhoneme) /\ source' = SourceAfter /\ mReadQueue' = QueueAfter
      /\ reading' = Idle /\ mCurrent' = mCurrent /\ mInitialPhonemeProsody' = mInitialPhonemeProsody
  BY DEF Unmatched
<1>2. /\ AccentInv /\ QueueInv /\ ReturnInv /\ SourceInv /\ TakenInv /\ input' = input /\ exited' = exited /\ ~exited
      /\ Converted' = Converted /\ aPhonemes' = aPhonemes /\ returned.kind = "none" /\ returned.phonemes = <<>>
      /\ source \in Seq(Readable) /\ source' \in Seq(Readable) /\ Converted \in Phonemes /\ aPhonemes \in Phonemes
      /\ mReadQueue' \in Phonemes
  BY ReadsFacts
<1>3. mCurrent = <<>> /\ Len(mReadQueue) <= 2
  BY <1>1, <1>2 DEF QueueInv
<1>4. mReadQueue # <<>>
  BY <1>1, <1>2 DEF AccentInv, Exhausted
<1>5. /\ Then(mReadQueue, source) = Then(<<NextPhoneme>>, Then(QueueAfter, SourceAfter)) /\ Len(QueueAfter) <= 1
      /\ NextPhoneme \in Phoneme /\ SourceAfter = source
  BY <1>2, <1>3, <1>4, NextIs, NextTyped DEF SourceAfter
<1>6. PICK x \in Phoneme : x = NextPhoneme
  BY <1>5
<1> DEFINE z == <<x>>
<1>7. z \in Phonemes /\ <<>> \in Phonemes
  BY DEF Phonemes
<1>8. returned'.kind = "true" /\ returned'.phonemes = z
  BY <1>1, <1>6 DEF True
<1>9. Taken(<<>>)' /\ reading'.pc = "idle" /\ reading'.entry = <<>> /\ reading'.match = <<>> /\ reading'.read_queue = <<>>
  BY <1>1, IdleIsAt, NothingTaken
<1>10. QueueInv'
  BY <1>1, <1>3, <1>5, <1>9 DEF QueueInv
<1>11. ReturnInv'
  BY <1>2, <1>8, <1>9 DEF ReturnInv
<1>12. SourceInv'
  BY <1>1, <1>2, <1>5, SourceStep
<1>13. Clean(source)' => Clean(source)
  BY <1>1, <1>5 DEF Clean
<1>14. ASSUME Clean(source)', NEW p, After(p, <<>>)
       PROVE  After(p, <<>>)'
  <2> DEFINE s == Then(mReadQueue, source)
             t == Then(mReadQueue', source')
  <2>1. t \in Phonemes
    <3>1. Clean(source')
      BY <1>14 DEF Clean
    <3> QED
      BY <1>2, <3>1, LeftTyped
  <2>2. s = Then(z, t)
    BY <1>1, <1>5, <1>6
  <2>3. Matching(s) = {}
    BY <1>1, <1>2, <1>13, <1>14 DEF QueueInv
  <2> HIDE DEF s, t
  <2>4. s \in Phonemes /\ s # <<>> /\ Head(s) = x /\ Tail(s) = t
    <3>1. s = <<x>> \o t
      BY <2>2 DEF Then
    <3> QED
      BY <2>1, <3>1 DEF Phonemes
  <2>5. Rewritten(s) = Then(z, Rewritten(t))
    BY <2>3, <2>4, RewriteNone DEF Then
  <2>6. Rewritten(t) \in Phonemes /\ Rewritten(s) \in Phonemes
    BY <2>1, <2>4, RewrittenTyped
  <2>7. Left(<<>>) = Rewritten(s)
    <3>1. Left(<<>>) = Then(<<>>, Rewritten(Then(<<>>, s)))
      BY <1>3 DEF Left, CurrentOf, s
    <3> QED
      BY <2>4, <2>6, <3>1, Regrouped
  <2>8. Left(<<>>)' = Rewritten(t)
    <3>1. Left(<<>>)' = Then(<<>>, Rewritten(Then(<<>>, t)))
      BY <1>1, <1>3 DEF Left, CurrentOf, t
    <3> QED
      BY <2>1, <2>6, <3>1, Regrouped
  <2>9. Out = Then(Converted, Then(aPhonemes, <<>>)) /\ Out' = Then(Converted, Then(aPhonemes, z))
    BY <1>2, <1>8 DEF Out
  <2>10. Converted \in Phonemes /\ aPhonemes \in Phonemes
    BY <1>2
  <2> HIDE DEF z
  <2>11. Then(Out', Left(<<>>)') = Then(Out, Left(<<>>))
    BY <1>7, <2>5, <2>6, <2>7, <2>8, <2>9, <2>10, Regrouped
  <2> QED
    BY <1>2, <1>14, <2>11, Carried
<1>15. PICK m : Taken(m) /\ (Clean(source) => \E p : After(p, m))
  BY <1>2 DEF TakenInv
<1>16. m = <<>>
  BY <1>1, <1>2, <1>15, TakenIsNothing
<1>17. TakenInv'
  BY <1>9, <1>13, <1>14, <1>15, <1>16 DEF TakenInv
<1> QED
  BY <1>10, <1>11, <1>12, <1>17 DEF ConvertInv

(* What cannot be read is the last error when the rest is clean. *)
LEMMA ThrowHolds ==
    ASSUME InRead, Throw
    PROVE  ConvertInv'
<1>1. /\ reading.pc = "match" /\ mReadQueue = <<>> /\ source # <<>> /\ Head(source) = Unreadable /\ source' = Tail(source)
      /\ reading' = Idle /\ returned' = Result("throw") /\ mReadQueue' = mReadQueue /\ mCurrent' = mCurrent
  BY DEF Throw
<1>2. /\ AccentInv /\ QueueInv /\ ReturnInv /\ SourceInv /\ input' = input /\ exited' = exited /\ ~exited
      /\ Converted' = Converted /\ aPhonemes' = aPhonemes /\ returned.phonemes = <<>>
      /\ source \in Seq(Readable) /\ source' \in Seq(Readable) /\ Converted \in Phonemes /\ aPhonemes \in Phonemes
      /\ Out \in Phonemes
  BY ReadsFacts
<1>3. mCurrent = <<>>
  BY <1>1, <1>2 DEF QueueInv
<1>4. Taken(<<>>)' /\ reading'.pc = "idle" /\ reading'.entry = <<>> /\ reading'.match = <<>> /\ reading'.read_queue = <<>>
  BY <1>1, IdleIsAt, NothingTaken
<1>5. returned'.kind = "throw" /\ returned'.phonemes = <<>>
  BY <1>1 DEF Result
<1>6. QueueInv'
  <2>1. Len(<<>>) <= 1
    OBVIOUS
  <2> QED
    BY <1>1, <1>3, <1>4, <2>1 DEF QueueInv
<1>7. ReturnInv'
  BY <1>2, <1>4, <1>5 DEF ReturnInv
<1>8. SourceInv'
  BY <1>1, <1>2, SourceStep
<1> DEFINE n == Len(input)
           k == Len(input) - Len(source) + 1
<1>9. /\ n \in Nat /\ Len(source) \in Nat /\ Len(source) > 0 /\ Len(source) <= n /\ k \in 1 .. n
      /\ input \in Seq(Readable)
      /\ \A i \in 1 .. Len(source) : source[i] = input[n - Len(source) + i]
  <2>1. input \in Seq(Readable) /\ n \in Nat /\ Len(source) \in Nat /\ Len(source) > 0 /\ Len(source) <= n
    BY <1>1, <1>2, AccentAssumption, EmptySeq DEF SourceInv, Readable
  <2>2. \A i \in 1 .. Len(source) : source[i] = input[n - Len(source) + i]
    BY <1>2 DEF SourceInv
  <2> QED
    BY <2>1, <2>2
<1>10. input[k] = Unreadable
  <2>1. 1 \in 1 .. Len(source) /\ n - Len(source) + 1 = k
    BY <1>9
  <2> QED
    BY <1>1, <1>9, <2>1
<1>11. /\ Len(source') = Len(source) - 1 /\ Len(source') \in Nat
       /\ \A i \in 1 .. Len(source') : source'[i] = input[k + i]
  <2>1. Len(source') = Len(source) - 1 /\ \A i \in 1 .. Len(source') : source'[i] = source[i + 1]
    BY <1>1, <1>2, HeadTailProperties
  <2>2. \A i \in 1 .. Len(source) - 1 : i + 1 \in 1 .. Len(source) /\ n - Len(source) + (i + 1) = k + i
    BY <1>9
  <2> QED
    BY <1>9, <2>1, <2>2
<1>12. Errors # {} /\ k \in Errors
  BY <1>9, <1>10 DEF Errors
<1> HIDE DEF k, n
<1>13. ASSUME Clean(source)'
       PROVE  AfterErrors = source' /\ source' \in Phonemes
  <2>1. Clean(source')
    BY <1>13 DEF Clean
  <2>2. source' \in Phonemes
    BY <1>2, <2>1, CleanTyped
  <2>3. \A y \in Errors : y \in Nat /\ k >= y
    <3> SUFFICES ASSUME NEW y \in Errors, ~(k >= y)
                 PROVE  FALSE
      BY <1>9 DEF Errors, n
    <3>1. y \in 1 .. n /\ input[y] = Unreadable
      BY DEF Errors, n
    <3>2. y - k \in 1 .. Len(source') /\ k + (y - k) = y
      BY <1>9, <1>11, <3>1 DEF k, n
    <3> QED
      BY <1>11, <2>1, <3>1, <3>2 DEF Clean
  <2>4. Max(Errors) = k
    <3>1. \A x \in Errors : (\A y \in Errors : x >= y) => x = k
      BY <1>9, <1>12, <2>3
    <3> QED
      BY <1>12, <2>3, <3>1 DEF Max
  <2>5. AfterErrors = SubSeq(input, k + 1, n)
    BY <1>12, <2>4 DEF AfterErrors, n
  <2>6. /\ SubSeq(input, k + 1, n) \in Seq(Readable) /\ Len(SubSeq(input, k + 1, n)) = Len(source')
        /\ \A i \in 1 .. Len(source') : SubSeq(input, k + 1, n)[i] = input[k + i]
    <3>1. k \in Nat /\ n = Len(input) /\ k + 1 \in 1 .. n + 1 /\ Len(source') = n - k
      BY <1>9, <1>11 DEF k, n
    <3>2. /\ SubSeq(input, k + 1, n) \in Seq(Readable) /\ Len(SubSeq(input, k + 1, n)) = n - k
          /\ \A i \in 1 .. n - k : SubSeq(input, k + 1, n)[i] = input[(k + 1) + i - 1]
      BY <1>9, <3>1
    <3>3. \A i \in 1 .. n - k : (k + 1) + i - 1 = k + i
      BY <3>1
    <3> QED
      BY <3>1, <3>2, <3>3
  <2>7. SubSeq(input, k + 1, n) = source'
    <3> DEFINE u == SubSeq(input, k + 1, n)
    <3>1. u \in Seq(Readable) /\ Len(u) = Len(source') /\ \A i \in 1 .. Len(u) : u[i] = source'[i]
      BY <1>11, <2>6
    <3> HIDE DEF u
    <3>2. u = source'
      BY <1>2, <3>1, SeqEqual
    <3> QED
      BY <3>2 DEF u
  <2> QED
    BY <2>2, <2>5, <2>7
<1>14. ASSUME Clean(source)'
       PROVE  After(Out, <<>>)'
  <2>1. AfterErrors = source' /\ source' \in Phonemes
    BY <1>13, <1>14
  <2>2. AfterErrors' = AfterErrors /\ Errors' = Errors
    BY <1>2 DEF AfterErrors, Errors
  <2>3. Left(<<>>)' = Rewritten(source')
    <3>1. Left(<<>>)' = Then(<<>>, Rewritten(Then(<<>>, Then(<<>>, source'))))
      BY <1>1, <1>3 DEF Left, CurrentOf
    <3>2. Rewritten(source') \in Phonemes
      BY <2>1, RewrittenTyped
    <3> QED
      BY <2>1, <3>1, <3>2, Regrouped
  <2>4. Out' = Out
    BY <1>2, <1>5 DEF Out
  <2> QED
    BY <1>2, <1>12, <2>1, <2>2, <2>3, <2>4 DEF After
<1>15. PICK p : p = Out
  OBVIOUS
<1>16. Out' = Out
  BY <1>2, <1>5 DEF Out
<1>17. Clean(source)' => \E q : After(q, <<>>)'
  BY <1>14, <1>15, <1>16 DEF After
<1>18. TakenInv'
  BY <1>4, <1>17 DEF TakenInv
<1> QED
  BY <1>6, <1>7, <1>8, <1>18 DEF ConvertInv

LEMMA ReadHolds ==
    ASSUME PrefixesAreRules, InRead, ReadConverted
    PROVE  ConvertInv'
BY ReplaceHolds, StartMatchHolds, ExtendHolds, MismatchHolds, EndOfInputHolds, UnmatchedEnds, UnmatchedReads, ThrowHolds
   DEF ReadConverted

(* Another call of read(): what it returned before is with the phonemes. *)
LEMMA AgainHolds ==
    ASSUME AccentInv, ChunksInv, ConvertInv, Waiting, ReadAgain, Converted' \in Phonemes,
           Then(Converted', aPhonemes') = Then(Converted, Then(aPhonemes, returned.phonemes)), aPhonemes' \in Phonemes
    PROVE  ConvertInv'
<1>1. /\ reading.pc = "idle" /\ ~exited /\ reading' = At("enter") /\ returned' = Result("none")
      /\ input' = input /\ source' = source /\ mReadQueue' = mReadQueue /\ mCurrent' = mCurrent
      /\ mInitialPhonemeProsody' = mInitialPhonemeProsody /\ exited' = exited
  BY DEF Waiting, ReadAgain
<1>2. QueueInv /\ ReturnInv /\ SourceInv /\ TakenInv /\ source \in Seq(Readable)
  BY DEF ConvertInv, AccentInv
<1>3. Taken(<<>>)' /\ reading'.pc = "enter" /\ reading'.entry = <<>> /\ reading'.match = <<>> /\ reading'.read_queue = <<>>
  BY <1>1, NothingTaken
<1>4. returned'.kind = "none" /\ returned'.phonemes = <<>>
  BY <1>1 DEF Result
<1>5. QueueInv'
  BY <1>1, <1>2, <1>3 DEF QueueInv
<1>6. ReturnInv'
  BY <1>1, <1>4 DEF ReturnInv
<1>7. SourceInv'
  BY <1>1, <1>2, SourceStep
<1>8. Out' = Out
  <2>1. Then(aPhonemes', <<>>) = aPhonemes'
    BY Regrouped
  <2> QED
    BY <1>4, <2>1 DEF Out
<1>9. Left(<<>>)' = Left(<<>>)
  BY <1>1 DEF Left
<1>10. PICK m : Taken(m) /\ (Clean(source) => \E p : After(p, m))
  BY <1>2 DEF TakenInv
<1>11. m = <<>>
  BY <1>1, <1>2, <1>10, TakenIsNothing
<1>12. Clean(source)' => Clean(source)
  BY <1>1 DEF Clean
<1>13. \A p : After(p, <<>>) => After(p, <<>>)'
  BY <1>1, <1>8, <1>9, Carried
<1>14. TakenInv'
  BY <1>3, <1>10, <1>11, <1>12, <1>13 DEF TakenInv
<1> QED
  BY <1>5, <1>6, <1>7, <1>14 DEF ConvertInv

(* A chunk that is printed is converted. *)
LEMMA ChunkConverted ==
    ASSUME printed \in Seq(Seq(Phoneme)), NEW chunk \in Seq(Phoneme), printed' = Append(printed, chunk)
    PROVE  Converted' = Then(Converted, chunk)
<1>1. /\ printed' \in Seq(Seq(Phoneme)) /\ Len(printed') = Len(printed) + 1 /\ printed'[Len(printed')] = chunk
      /\ \A i \in 1 .. Len(printed) : printed'[i] = printed[i]
  BY AppendProperties
<1>2. FlattenSeq(printed') = FlattenSeq(printed) \o printed'[Len(printed')]
  BY <1>1, FlattenStep
<1> QED
  BY <1>1, <1>2 DEF Converted, Then

LEMMA FirstReadHolds ==
    ASSUME AccentInv, ChunksInv, ConvertInv, FirstRead
    PROVE  ConvertInv'
<1>1. Waiting /\ returned.kind \in {"none", "throw"} /\ ReadAgain /\ aPhonemes' = aPhonemes /\ printed' = printed
  BY DEF FirstRead
<1>2. returned.phonemes = <<>> /\ Converted \in Phonemes /\ aPhonemes \in Phonemes
  <2>1. ReturnInv
    BY DEF ConvertInv
  <2> QED
    BY <1>1, <2>1, OutTyped DEF ReturnInv
<1>3. Converted' = Converted /\ Then(aPhonemes, <<>>) = aPhonemes
  BY <1>1, <1>2, Regrouped DEF Converted
<1> QED
  BY <1>1, <1>2, <1>3, AgainHolds

LEMMA PhonemeReadHolds ==
    ASSUME AccentInv, ChunksInv, ConvertInv, PhonemeRead
    PROVE  ConvertInv'
<1>1. Waiting /\ ReadAgain
  BY DEF PhonemeRead
<1>2. Out \in Phonemes /\ returned.phonemes \in Phonemes /\ Converted \in Phonemes /\ aPhonemes \in Phonemes /\ <<>> \in Phonemes
  <2>1. ReturnInv
    BY DEF ConvertInv
  <2> QED
    BY <2>1, OutTyped DEF Phonemes
<1> DEFINE chunk == aPhonemes \o returned.phonemes
<1>3. chunk = Then(aPhonemes, returned.phonemes) /\ chunk \in Phonemes
  BY <1>2, Regrouped DEF Then
<1>4. CASE returned.phonemes[1].sound = Separator
  <2>1. printed' = Append(printed, chunk) /\ aPhonemes' = <<>>
    BY <1>4 DEF PhonemeRead
  <2> HIDE DEF chunk
  <2>2. Converted' = Then(Converted, chunk)
    BY <1>3, <2>1, ChunkConverted DEF ChunksInv, Phonemes
  <2>3. Converted' \in Phonemes /\ Then(Converted', <<>>) = Converted'
    BY <1>2, <1>3, <2>2, Regrouped
  <2> QED
    BY <1>1, <1>2, <1>3, <2>1, <2>2, <2>3, AgainHolds
<1>5. CASE returned.phonemes[1].sound # Separator
  <2>1. aPhonemes' = chunk /\ printed' = printed
    BY <1>5 DEF PhonemeRead
  <2> HIDE DEF chunk
  <2>2. Converted' = Converted
    BY <2>1 DEF Converted
  <2> QED
    BY <1>1, <1>2, <1>3, <2>1, <2>2, AgainHolds
<1> QED
  BY <1>4, <1>5

(* Nothing but the end is new. *)
LEMMA StillHolds ==
    ASSUME ConvertInv, UNCHANGED <<accentVars, stress, aPhonemes, printed>>,
           exited' = exited \/ (returned.kind = "false" /\ aPhonemes = <<>>)
    PROVE  ConvertInv'
<1>1. /\ input' = input /\ source' = source /\ mReadQueue' = mReadQueue /\ mCurrent' = mCurrent
      /\ mInitialPhonemeProsody' = mInitialPhonemeProsody /\ reading' = reading /\ returned' = returned
      /\ aPhonemes' = aPhonemes /\ printed' = printed
  BY DEF accentVars
<1>2. QueueInv /\ ReturnInv /\ SourceInv /\ TakenInv
  BY DEF ConvertInv
<1>3. Converted' = Converted
  BY <1>1 DEF Converted
<1>4. Out' = Out
  BY <1>1, <1>3 DEF Out
<1>5. QueueInv'
  BY <1>1, <1>2 DEF QueueInv
<1>6. ReturnInv'
  BY <1>1, <1>2, <1>3 DEF ReturnInv
<1>7. SourceInv'
  BY <1>1, <1>2 DEF SourceInv
<1>8. PICK m : Taken(m) /\ (Clean(source) => \E p : After(p, m))
  BY <1>2 DEF TakenInv
<1>9. Taken(m)'
  BY <1>1, <1>8 DEF Taken
<1>10. Left(m)' = Left(m)
  BY <1>1 DEF Left
<1>11. \A p : After(p, m) => After(p, m)'
  BY <1>1, <1>4, <1>10, Carried
<1>12. Clean(source)' => Clean(source)
  BY <1>1 DEF Clean
<1>13. TakenInv'
  BY <1>8, <1>9, <1>11, <1>12 DEF TakenInv
<1> QED
  BY <1>5, <1>6, <1>7, <1>13 DEF ConvertInv

LEMMA EndReadHolds ==
    ASSUME AccentInv, ChunksInv, ConvertInv, EndRead
    PROVE  ConvertInv'
<1>1. Waiting /\ returned.kind = "false"
  BY DEF EndRead
<1>2. CASE aPhonemes = <<>>
  <2>1. UNCHANGED <<accentVars, stress, aPhonemes, printed>>
    BY <1>2 DEF EndRead
  <2> QED
    BY <1>1, <1>2, <2>1, StillHolds
<1>3. CASE aPhonemes # <<>>
  <2>1. printed' = Append(printed, aPhonemes) /\ aPhonemes' = <<>> /\ ReadAgain
    BY <1>3 DEF EndRead
  <2>2. returned.phonemes = <<>> /\ Converted \in Phonemes /\ aPhonemes \in Phonemes /\ <<>> \in Phonemes
    <3>1. ReturnInv
      BY DEF ConvertInv
    <3> QED
      BY <1>1, <3>1, OutTyped DEF ReturnInv, Phonemes
  <2>3. Converted' = Then(Converted, aPhonemes)
    BY <2>1, <2>2, ChunkConverted DEF ChunksInv
  <2>4. Converted' \in Phonemes /\ Then(Converted', <<>>) = Converted' /\ Then(aPhonemes, <<>>) = aPhonemes
    BY <2>2, <2>3, Regrouped
  <2> QED
    BY <1>1, <2>1, <2>2, <2>3, <2>4, AgainHolds
<1> QED
  BY <1>2, <1>3

LEMMA InitHolds ==
    ASSUME ConverterInit
    PROVE  ConvertInv
<1>1. /\ input \in Transcribed /\ source = input /\ mReadQueue = <<>> /\ mCurrent = <<>> /\ reading = Idle
      /\ returned = Result("none") /\ aPhonemes = <<>> /\ printed = <<>> /\ ~exited
  BY DEF ConverterInit, AccentInit
<1>2. input \in Seq(Readable) /\ Len(input) \in Nat
  BY <1>1, AccentAssumption DEF Readable
<1>3. <<>> \in Phonemes /\ Len(<<>>) = 0 /\ <<>> \notin DOMAIN Rules
  BY AccentAssumption DEF Phonemes
<1>4. returned.kind = "none" /\ returned.phonemes = <<>>
  BY <1>1 DEF Result
<1>5. reading.pc = "idle" /\ reading.entry = <<>> /\ reading.match = <<>> /\ reading.read_queue = <<>>
  BY <1>1 DEF Idle
<1>6. Converted = <<>>
  BY <1>1 DEF Converted, FlattenSeq
<1>7. QueueInv
  BY <1>1, <1>3, <1>5 DEF QueueInv
<1>8. ReturnInv
  BY <1>1, <1>3, <1>4, <1>5, <1>6 DEF ReturnInv
<1>9. SourceInv
  <2>1. Len(source) <= Len(input) /\ \A i \in 1 .. Len(source) : Len(input) - Len(source) + i = i
    BY <1>1, <1>2
  <2> QED
    BY <1>1, <2>1 DEF SourceInv
<1>10. Taken(<<>>)
  BY <1>3, <1>5 DEF Taken, SoundsAre
<1>11. ASSUME Clean(source)
       PROVE  After(<<>>, <<>>)
  <2>1. Errors = {} /\ AfterErrors = input
    BY <1>1, <1>11 DEF Errors, AfterErrors, Clean
  <2>2. input \in Phonemes
    BY <1>1, <1>2, <1>11, CleanTyped
  <2>3. Rewritten(input) \in Phonemes
    BY <2>2, RewrittenTyped
  <2>4. Left(<<>>) = Rewritten(input)
    <3>1. Left(<<>>) = Then(<<>>, Rewritten(Then(<<>>, Then(<<>>, input))))
      BY <1>1 DEF Left, CurrentOf
    <3> QED
      BY <2>2, <2>3, <3>1, Regrouped
  <2>5. Out = <<>>
    BY <1>1, <1>3, <1>4, <1>6, Regrouped DEF Out
  <2> QED
    BY <1>3, <2>1, <2>2, <2>4, <2>5 DEF After
<1> QED
  BY <1>7, <1>8, <1>9, <1>10, <1>11 DEF ConvertInv, TakenInv

LEMMA EndsWith ==
    ASSUME NEW p \in Phonemes, NEW t \in Phonemes
    PROVE  IsSuffix(t, Then(p, t))
<1> DEFINE s == Then(p, t)
           r == Reverse(t)
           q == Reverse(s)
<1>1. /\ s \in Phonemes /\ Len(s) = Len(p) + Len(t) /\ Len(p) \in Nat /\ Len(t) \in Nat
      /\ \A i \in 1 .. Len(p) + Len(t) : s[i] = IF i <= Len(p) THEN p[i] ELSE t[i - Len(p)]
  BY ConcatProperties DEF Phonemes, Then
<1> HIDE DEF s
<1>2. r \in Phonemes /\ Len(r) = Len(t) /\ \A i \in 1 .. Len(t) : r[i] = t[(Len(t) - i) + 1]
  <2>1. \A i \in 1 .. Len(t) : t[(Len(t) - i) + 1] \in Phoneme
    <3> TAKE i \in 1 .. Len(t)
    <3>1. (Len(t) - i) + 1 \in 1 .. Len(t)
      BY <1>1
    <3> QED
      BY <3>1 DEF Phonemes
  <2> QED
    BY <1>1, <2>1 DEF Reverse, Phonemes
<1>3. q \in Phonemes /\ Len(q) = Len(s) /\ \A i \in 1 .. Len(s) : q[i] = s[(Len(s) - i) + 1]
  <2>0. Len(s) \in Nat
    BY <1>1
  <2>1. \A i \in 1 .. Len(s) : s[(Len(s) - i) + 1] \in Phoneme
    <3> TAKE i \in 1 .. Len(s)
    <3>1. (Len(s) - i) + 1 \in 1 .. Len(s)
      BY <2>0
    <3> QED
      BY <1>1, <3>1 DEF Phonemes
  <2> QED
    BY <2>0, <2>1 DEF Reverse, Phonemes
<1> HIDE DEF r, q
<1>4. ASSUME NEW i \in 1 .. Len(r)
      PROVE  r[i] = q[i]
  <2>1. /\ i \in 1 .. Len(t) /\ i \in 1 .. Len(s) /\ (Len(s) - i) + 1 \in 1 .. Len(p) + Len(t)
        /\ ~((Len(s) - i) + 1 <= Len(p)) /\ ((Len(s) - i) + 1) - Len(p) = (Len(t) - i) + 1
    BY <1>1, <1>2
  <2>2. s[(Len(s) - i) + 1] = t[(Len(t) - i) + 1]
    BY <1>1, <2>1
  <2> QED
    BY <1>2, <1>3, <2>1, <2>2
<1>5. Len(r) <= Len(q)
  BY <1>1, <1>2, <1>3
<1>6. IsPrefix(r, q)
  BY <1>2, <1>3, <1>4, <1>5, PrefixIs DEF Phonemes
<1> QED
  BY <1>6 DEF IsSuffix, r, q, s

LEMMA ConvertedAtEnd ==
    ASSUME AccentInv, ChunksInv, ConvertInv
    PROVE  AccentIsApplied
<1> SUFFICES ASSUME exited
             PROVE  IF Errors = {} THEN Converted = Rewritten(input) ELSE IsSuffix(Rewritten(AfterErrors), Converted)
  BY DEF AccentIsApplied
<1>1. QueueInv /\ ReturnInv /\ TakenInv
  BY DEF ConvertInv
<1>2. /\ returned.kind = "false" /\ aPhonemes = <<>> /\ mReadQueue = <<>> /\ source = <<>> /\ mCurrent = <<>>
      /\ returned.phonemes = <<>> /\ reading.pc = "idle" /\ Converted \in Phonemes
  BY <1>1 DEF ReturnInv
<1>3. PICK m : Taken(m) /\ (Clean(source) => \E p : After(p, m))
  BY <1>1 DEF TakenInv
<1>4. m = <<>>
  BY <1>1, <1>2, <1>3, TakenIsNothing
<1>5. Clean(source)
  BY <1>2 DEF Clean
<1>6. PICK p : After(p, <<>>)
  BY <1>3, <1>4, <1>5
<1>7. <<>> \in Phonemes
  BY DEF Phonemes
<1>8. Left(<<>>) = <<>>
  <2>1. Left(<<>>) = Then(<<>>, Rewritten(Then(<<>>, Then(<<>>, <<>>))))
    BY <1>2 DEF Left, CurrentOf
  <2> QED
    BY <1>7, <2>1, Regrouped, RewriteNothing
<1>9. Out = Converted
  <2>1. Out = Then(Converted, Then(<<>>, <<>>))
    BY <1>2 DEF Out
  <2> QED
    BY <1>2, <1>7, <2>1, Regrouped
<1>10. Then(p, Rewritten(AfterErrors)) = Converted
  BY <1>2, <1>6, <1>7, <1>8, <1>9, Regrouped DEF After
<1>11. p \in Phonemes /\ AfterErrors \in Phonemes /\ Rewritten(AfterErrors) \in Phonemes
  BY <1>6, RewrittenTyped DEF After
<1>12. CASE Errors = {}
  <2>1. p = <<>> /\ AfterErrors = input
    BY <1>6, <1>12 DEF After, AfterErrors
  <2> QED
    BY <1>10, <1>11, <1>12, <2>1, Regrouped
<1>13. CASE Errors # {}
  BY <1>10, <1>11, <1>13, EndsWith
<1> QED
  BY <1>12, <1>13

(* However long the transcription, wherever its chunks are cut and whatever   *)
(* was read too far: what the converter prints is the transcription with the  *)
(* longest rule applied from the left each time, and after the last of the    *)
(* errors as if nothing had come before it                                    *)
(* (phoneme_to_phoneme_converter::read), for the accents all of whose rules'  *)
(* prefixes of two sounds and more are rules.                                 *)
THEOREM AccentsAreApplied ==
    PrefixesAreRules => (ConverterInit /\ [][ConverterNext]_converterVars => []AccentIsApplied)
<1> SUFFICES ASSUME PrefixesAreRules
             PROVE  ConverterInit /\ [][ConverterNext]_converterVars => []AccentIsApplied
  OBVIOUS
<1>1. ASSUME ConverterInit
      PROVE  ConvertInv
  BY <1>1, InitHolds
<1>2. ASSUME AccentInv, ChunksInv, ConvertInv, AccentInv', [ConverterNext]_converterVars
      PROVE  ConvertInv'
  <2>1. CASE CallRead
    <3>1. InRead /\ ReadConverted
      BY <1>2, <2>1 DEF CallRead, InRead, ReadConverted, Replace, StartMatch, Extend, Mismatch, EndOfInput, Unmatched, Throw
    <3> QED
      BY <1>2, <3>1, ReadHolds
  <2>2. CASE FirstRead
    BY <1>2, <2>2, FirstReadHolds
  <2>3. CASE PhonemeRead
    BY <1>2, <2>3, PhonemeReadHolds
  <2>4. CASE EndRead
    BY <1>2, <2>4, EndReadHolds
  <2>5. CASE UNCHANGED converterVars
    BY <1>2, <2>5, StillHolds DEF converterVars
  <2> QED
    BY <1>2, <2>1, <2>2, <2>3, <2>4, <2>5 DEF ConverterNext
<1>3. ASSUME AccentInv, ChunksInv, ConvertInv
      PROVE  AccentIsApplied
  BY <1>3, ConvertedAtEnd
<1> QED
  BY <1>1, <1>2, <1>3, ConverterTyped, PTL
=============================================================================
