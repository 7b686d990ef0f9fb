----------------------------- MODULE UnitReader -----------------------------
(***************************************************************************)
(* The unit reader (synthesizer/units.cpp) over the prosody reader: every  *)
(* phone becomes the units of a voice that it is made of, each with a      *)
(* share, in percent, of the phone's duration.                             *)
(*                                                                         *)
(* A unit is its index in the voice's unit table, from 0.  The unit reader *)
(* calls the prosody reader when it needs a phone, so the two take turns.  *)
(***************************************************************************)
EXTENDS ProsodyReader, SequencesExt

CONSTANTS
    PhonemeStarts,  \* phoneme_start of the units, in percent
    Table,          \* the voice's phoneme table: phone -> first_unit, num_units
    UInt8           \* 2^8

Entry == [first_unit : Nat, num_units : Nat]
Breaks == {"syllable_break", "pause"} \X {"unspecified"}

ASSUME UnitAssumption ==
    /\ PhonemeStarts \in Seq(0 .. 100)
    /\ DOMAIN Table \subseteq (Kind \X Kind) \ Breaks
    /\ Table \in [DOMAIN Table -> Entry]
    /\ \A p \in DOMAIN Table : Table[p].first_unit + Table[p].num_units <= Len(PhonemeStarts)
    /\ UInt8 \in Nat /\ UInt8 > 100

VARIABLES
    next,           \* the phone that mProsody gives next
    mCurrentUnit, mLastUnit, mRemainingOffset, mState,
    given,          \* what read() has returned, in order
    finished        \* read() has returned false

own == <<mCurrentUnit, mLastUnit, mRemainingOffset>>
unitVars == <<vars, next, own, mState, given, finished>>

UnitInit ==
    /\ Init /\ next = 1
    /\ mCurrentUnit = 0 /\ mLastUnit = 0
    /\ mRemainingOffset = 100
    /\ mState = "need_phoneme"
    /\ given = <<>> /\ finished = FALSE

-----------------------------------------------------------------------------
PhonemeStart(u) == PhonemeStarts[u + 1]

\* What the voice's table is searched for: phoneme1 has lost its syllabicity
\* where there was nothing to glide from.
Key(phone) == <<Cleared(phone), KindOf(phone.phoneme2)>>
NoLength(key) == IF key[1] = "long" THEN <<"sound", key[2]>> ELSE key

\* find_unit: first with the length of the phoneme, then without.
Supported(phone) == {Key(phone), NoLength(Key(phone))} \cap DOMAIN Table # {}
find_unit(phone) ==
    IF Key(phone) \in DOMAIN Table THEN Table[Key(phone)] ELSE Table[NoLength(Key(phone))]

\* Mutant: the offset that remains is that of the phone before.
FoundKeepingOffset(entry) ==
    /\ mCurrentUnit' = entry.first_unit
    /\ mLastUnit' = entry.first_unit + entry.num_units
    /\ mState' = "have_unit"
    /\ UNCHANGED mRemainingOffset

Found(entry) ==
    /\ mCurrentUnit' = entry.first_unit
    /\ mLastUnit' = entry.first_unit + entry.num_units
    /\ mRemainingOffset' = 100
    /\ mState' = "have_unit"

\* mProsody->read(), whose state nothing else changes.
CallProsody ==
    /\ mState = "need_phoneme" /\ ~finished
    /\ next > Len(phones)
    /\ Next
    /\ UNCHANGED <<next, own, mState, given, finished>>

\* A pause is kept as it is; syllable breaks and phones that the voice does
\* not have are passed over.
Unsupported(phone) ==
    /\ mState' = IF Key(phone) \in Breaks \ {<<"syllable_break", "unspecified">>}
                 THEN "have_phoneme" ELSE "need_phoneme"
    /\ UNCHANGED own

NeedPhoneme ==
    /\ mState = "need_phoneme" /\ next <= Len(phones)
    /\ IF Supported(phones[next]) THEN Found(find_unit(phones[next])) ELSE Unsupported(phones[next])
    /\ next' = next + 1
    /\ UNCHANGED <<vars, given, finished>>

EndOfProsody ==
    /\ mState = "need_phoneme" /\ ~finished
    /\ next > Len(phones) /\ over
    /\ finished' = TRUE
    /\ UNCHANGED <<vars, next, own, mState, given>>

HavePhoneme ==
    /\ mState = "have_phoneme"
    /\ given' = Append(given, [phone |-> phones[next - 1]])
    /\ mState' = "need_phoneme"
    /\ UNCHANGED <<vars, next, own, finished>>

\* mCurrentUnit already names the next unit here, whose start is taken for
\* the length of this one.
Offset(unit) == IF unit = mLastUnit THEN mRemainingOffset ELSE PhonemeStart(unit)

HaveUnit ==
    /\ mState = "have_unit"
    /\ mCurrentUnit' = mCurrentUnit + 1
    /\ LET offset == Offset(mCurrentUnit + 1)
       IN  /\ mRemainingOffset' = (mRemainingOffset - offset) % UInt8
           /\ given' = Append(given, [unit |-> mCurrentUnit, share |-> offset])
    /\ mState' = IF mCurrentUnit + 1 = mLastUnit THEN "need_phoneme" ELSE "have_unit"
    /\ UNCHANGED <<vars, next, mLastUnit, finished>>

UnitNext == CallProsody \/ NeedPhoneme \/ EndOfProsody \/ HavePhoneme \/ HaveUnit

UnitSpec == UnitInit /\ [][UnitNext]_unitVars /\ WF_unitVars(UnitNext)

-----------------------------------------------------------------------------

\* The unit that read() gives next is one of those its phone is made of: the
\* end of a phone's units is found by equality after an increment.
UnitIsOfPhoneme ==
    mState = "have_unit" =>
        mCurrentUnit < mLastUnit /\ mLastUnit = find_unit(phones[next - 1]).first_unit
                                                + find_unit(phones[next - 1]).num_units

\* A unit lasts from its start to the start of the next unit of its phone,
\* or to the end of the phone.
UnitsOf(entry) ==
    LET last == entry.first_unit + entry.num_units - 1
        end(u) == IF u = last THEN 100 ELSE PhonemeStart(u + 1)
    IN  [k \in 1 .. entry.num_units |->
            [unit |-> entry.first_unit + k - 1,
             share |-> end(entry.first_unit + k - 1) - PhonemeStart(entry.first_unit + k - 1)]]

Expected(phone) ==
    IF Supported(phone) THEN UnitsOf(find_unit(phone))
    ELSE IF Key(phone) = <<"pause", "unspecified">> THEN <<[phone |-> phone]>> ELSE <<>>

\* read() takes the start of the next unit for the length of a unit, so that
\* the shares are those of the voice for phones of one unit or two, of which
\* the first begins where the phone does.
OneUnitOrTwo ==
    \A p \in DOMAIN Table : Table[p].num_units \in {1, 2} /\ PhonemeStart(Table[p].first_unit) = 0

\* The units of every phone of the input, in order, for their shares of its
\* duration; pauses are kept.
UnitsOfPhonemes ==
    finished => given = FlattenSeq([i \in 1 .. Len(phones) |-> Expected(phones[i])])

\* A client that reads until false comes to an end, with the whole input read.
AllUnitsRead == <>(finished /\ Done = 1 .. Len(phonemes))
=============================================================================
