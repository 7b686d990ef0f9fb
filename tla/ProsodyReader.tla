--------------------------- MODULE ProsodyReader ---------------------------
(***************************************************************************)
(* The prosody reader (synthesizer/prosody.cpp): it groups phonemes, with  *)
(* one phoneme of lookahead, into phones of one or two phonemes and gives  *)
(* each the duration the model has for it.                                 *)
(*                                                                         *)
(* A phoneme is a position in the input and has a kind; position 0 stands  *)
(* for ipa::unspecified.                                                   *)
(***************************************************************************)
EXTENDS Integers, Sequences

CONSTANTS Inputs,       \* the phoneme sequences that may be read
          Durations     \* the pairs of kinds the duration model has an entry for

Kind == {"sound", "long", "joined", "diacritized", "non_syllabic",
         "syllable_break", "separator", "pause", "unspecified"}

Mark == {"diacritized", "non_syllabic"}

ASSUME ProsodyAssumption ==
    /\ Inputs \subseteq Seq(Kind \ {"unspecified"})
    /\ Durations \subseteq Kind \X Kind

VARIABLES
    phonemes, at,       \* the input and the position of *mPhonemes
    mNeedPhoneme,
    phones,             \* what read() has returned, in order
    dropped,            \* the phones that were skipped, in order
    over                \* read() has returned false

vars == <<phonemes, at, mNeedPhoneme, phones, dropped, over>>

KindOf(p) == IF p = 0 THEN "unspecified" ELSE phonemes[p]

Init ==
    /\ phonemes \in Inputs
    /\ at = 0
    /\ mNeedPhoneme = TRUE
    /\ phones = <<>> /\ dropped = <<>>
    /\ over = FALSE

-----------------------------------------------------------------------------
\* The phoneme read() starts from: a new one, or the one it looked ahead to.
First == IF mNeedPhoneme THEN at + 1 ELSE at

\* Does the phoneme after p belong to the phone of p?
Grouped(p) ==
    /\ p < Len(phonemes)
    /\ phonemes[p] = "joined" \/ phonemes[p + 1] \in Mark

Phone(p) == [phoneme1 |-> p, phoneme2 |-> IF Grouped(p) THEN p + 1 ELSE 0]

\* The last vowel of a triphthong has nothing left to glide from.
Cleared(phone) ==
    IF phone.phoneme2 = 0 /\ KindOf(phone.phoneme1) = "non_syllabic"
    THEN "sound"
    ELSE KindOf(phone.phoneme1)

\* duration_model::lookup: pauses have a duration in every model.
HasDuration(phone) ==
    \/ <<Cleared(phone), KindOf(phone.phoneme2)>> \in Durations
    \/ phone.phoneme2 = 0 /\ KindOf(phone.phoneme1) = "pause"

Delivered(phone) ==
    \/ KindOf(phone.phoneme1) = "syllable_break"
    \/ /\ ~(phone.phoneme2 = 0 /\ KindOf(phone.phoneme1) = "separator")
       /\ HasDuration(phone)

\* Mutant: the second phoneme of a phone starts the next one, too.
SecondKept(phone) ==
    /\ at' = IF phone.phoneme1 < Len(phonemes) THEN phone.phoneme1 + 1 ELSE phone.phoneme1
    /\ mNeedPhoneme' = (phone.phoneme1 = Len(phonemes))

LookAhead(phone) ==
    /\ at' = IF phone.phoneme1 < Len(phonemes) THEN phone.phoneme1 + 1 ELSE phone.phoneme1
    /\ mNeedPhoneme' = (phone.phoneme1 = Len(phonemes) \/ phone.phoneme2 # 0)

\* One pass through read(), which calls itself when a phone is skipped.
ReadPhone ==
    /\ ~over
    /\ First <= Len(phonemes)
    /\ LET phone == Phone(First)
       IN  /\ LookAhead(phone)
           /\ IF Delivered(phone)
              THEN phones' = Append(phones, phone) /\ UNCHANGED dropped
              ELSE dropped' = Append(dropped, phone) /\ UNCHANGED phones
    /\ UNCHANGED <<phonemes, over>>

\* Mutant: the end of the source is taken for the end of the phones.
EndOfSource ==
    /\ ~over
    /\ at = Len(phonemes)
    /\ over' = TRUE
    /\ UNCHANGED <<phonemes, at, mNeedPhoneme, phones, dropped>>

\* A client reads until false.
EndOfPhonemes ==
    /\ ~over
    /\ First > Len(phonemes)
    /\ over' = TRUE
    /\ UNCHANGED <<phonemes, at, mNeedPhoneme, phones, dropped>>

Next == ReadPhone \/ EndOfPhonemes

Spec == Init /\ [][Next]_vars /\ WF_vars(Next)

-----------------------------------------------------------------------------
\* Every variable stays within its type.
PhoneType == [phoneme1 : Nat \ {0}, phoneme2 : Nat]

TypeOK ==
    /\ phonemes \in Inputs
    /\ at \in 0 .. Len(phonemes)
    /\ mNeedPhoneme \in BOOLEAN /\ over \in BOOLEAN
    /\ phones \in Seq(PhoneType) /\ dropped \in Seq(PhoneType)

PhonemesOf(phone) == {phone.phoneme1, phone.phoneme2} \ {0}
Positions(s) == UNION {PhonemesOf(s[i]) : i \in 1 .. Len(s)}

\* The phonemes that read() is done with: those up to the lookahead.
Done == 1 .. First - 1

\* No phoneme is lost and none is in two phones, whatever is grouped, skipped
\* or looked ahead to (the mNeedPhoneme flag of read()).
EveryPhonemeOnce ==
    /\ Positions(phones) \cup Positions(dropped) = Done
    /\ Positions(phones) \cap Positions(dropped) = {}
    /\ \A i \in 1 .. Len(phones) - 1 :
           \A p \in PhonemesOf(phones[i]), q \in PhonemesOf(phones[i + 1]) : p < q

\* The phones that were read, whether they were given or skipped.
PhonesIn(s) == {s[i] : i \in 1 .. Len(s)}
Read == PhonesIn(phones) \cup PhonesIn(dropped)

\* A mark begins a phone only when the phoneme before it is already the
\* second of one, as the last vowel of a triphthong.
MarksFollowTheirPhoneme ==
    \A phone \in Read :
        phonemes[phone.phoneme1] \in Mark /\ phone.phoneme1 > 1 =>
            \E other \in Read : other.phoneme2 = phone.phoneme1 - 1
=============================================================================
