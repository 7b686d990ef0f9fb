---------------------------- MODULE ReaderProofs ----------------------------
(***************************************************************************)
(* Theorems about the prosody reader, the unit reader over it and, from    *)
(* "The chain of halves" on, the diphone reader: for every input,          *)
(* duration model and voice, and every sequence of phones and envelopes.   *)
(***************************************************************************)
EXTENDS UnitReader, DiphoneReader, Induction

-----------------------------------------------------------------------------
(* What a sequence of phones holds when one is appended.                    *)

LEMMA PositionsOfAppend ==
    ASSUME NEW s \in Seq(PhoneType), NEW e \in PhoneType
    PROVE  Positions(Append(s, e)) = Positions(s) \cup PhonemesOf(e)
<1> DEFINE t == Append(s, e)
<1>1. Len(s) \in Nat /\ Len(t) = Len(s) + 1
  OBVIOUS
<1>2. \A i \in 1 .. Len(s) : t[i] = s[i]
  OBVIOUS
<1>3. t[Len(s) + 1] = e
  OBVIOUS
<1>4. 1 .. Len(t) = (1 .. Len(s)) \cup {Len(s) + 1}
  BY <1>1
<1> HIDE DEF t
<1> QED
  BY <1>2, <1>3, <1>4 DEF Positions

LEMMA PhonesInAppend ==
    ASSUME NEW s \in Seq(PhoneType), NEW e \in PhoneType
    PROVE  PhonesIn(Append(s, e)) = PhonesIn(s) \cup {e}
<1> DEFINE t == Append(s, e)
<1>1. Len(s) \in Nat /\ Len(t) = Len(s) + 1
  OBVIOUS
<1>2. \A i \in 1 .. Len(s) : t[i] = s[i]
  OBVIOUS
<1>3. t[Len(s) + 1] = e
  OBVIOUS
<1>4. 1 .. Len(t) = (1 .. Len(s)) \cup {Len(s) + 1}
  BY <1>1
<1> HIDE DEF t
<1> QED
  BY <1>2, <1>3, <1>4 DEF PhonesIn

-----------------------------------------------------------------------------
(* The prosody reader.                                                      *)

ReaderType ==
    /\ TypeOK
    /\ at = 0 => mNeedPhoneme

\* Where the lookahead is, the phoneme before it is done with: either it is the
\* second of a phone, or the next one is no mark of it.
MarkInv ==
    First > 1 /\ First <= Len(phonemes) =>
        \/ mNeedPhoneme /\ \E other \in Read : other.phoneme2 = First - 1
        \/ ~mNeedPhoneme /\ phonemes[First] \notin Mark

ReaderInv == ReaderType /\ EveryPhonemeOnce /\ MarkInv /\ MarksFollowTheirPhoneme

LEMMA FirstType ==
    ASSUME ReaderType
    PROVE  Len(phonemes) \in Nat /\ First \in 1 .. Len(phonemes) + 1
<1>1. Len(phonemes) \in Nat
  BY ProsodyAssumption DEF ReaderType, TypeOK
<1> QED
  BY <1>1 DEF ReaderType, TypeOK, First

LEMMA PhoneFacts ==
    ASSUME ReaderType, First <= Len(phonemes)
    PROVE  /\ Phone(First) \in PhoneType
           /\ Phone(First).phoneme1 = First
           /\ \/ Phone(First).phoneme2 = First + 1 /\ First < Len(phonemes)
              \/ Phone(First).phoneme2 = 0 /\ ~Grouped(First)
BY FirstType DEF Phone, PhoneType, Grouped

\* The reader goes on after the last phoneme of the phone.
LEMMA LooksAhead ==
    ASSUME ReaderType, First <= Len(phonemes), LookAhead(Phone(First)), UNCHANGED phonemes
    PROVE  /\ at' \in 1 .. Len(phonemes)
           /\ mNeedPhoneme' \in BOOLEAN
           /\ First' = IF Phone(First).phoneme2 = 0 THEN First + 1 ELSE First + 2
           /\ PhonemesOf(Phone(First)) = First .. First' - 1
           /\ First' <= Len(phonemes) => mNeedPhoneme' = (Phone(First).phoneme2 # 0)
<1> DEFINE p == First
<1> DEFINE other == Phone(First).phoneme2
<1>1. p \in Nat \ {0} /\ p <= Len(phonemes) /\ Len(phonemes) \in Nat
  BY FirstType
<1>2. Phone(First).phoneme1 = p
  BY PhoneFacts
<1>3. other = 0 \/ (other = p + 1 /\ p < Len(phonemes))
  BY PhoneFacts
<1>4. at' = IF p < Len(phonemes) THEN p + 1 ELSE p
  BY <1>2 DEF LookAhead
<1>5. mNeedPhoneme' = (p = Len(phonemes) \/ other # 0)
  BY <1>2 DEF LookAhead
<1>6. First' = IF mNeedPhoneme' THEN at' + 1 ELSE at'
  BY DEF First
<1>7. PhonemesOf(Phone(First)) = {p, other} \ {0}
  BY <1>2 DEF PhonemesOf
<1> HIDE DEF p, other
<1>8. mNeedPhoneme' \in BOOLEAN
  BY <1>5
<1>9. First' = IF other = 0 THEN p + 1 ELSE p + 2
  <2>1. CASE p = Len(phonemes)
    <3>1. mNeedPhoneme' = TRUE
      BY <1>5, <2>1
    <3>2. at' = p /\ other = 0
      BY <1>1, <1>3, <1>4, <2>1
    <3> QED
      BY <1>6, <3>1, <3>2
  <2>2. CASE p < Len(phonemes) /\ other = 0
    <3>0. ~(p = Len(phonemes) \/ other # 0)
      BY <1>1, <2>2
    <3>1. mNeedPhoneme' = FALSE
      BY <1>5, <3>0, Zenon
    <3>2. at' = p + 1
      BY <1>4, <2>2
    <3> QED
      BY <1>6, <2>2, <3>1, <3>2
  <2>3. CASE p < Len(phonemes) /\ other = p + 1
    <3>0. other # 0
      BY <1>1, <2>3
    <3>1. mNeedPhoneme' = TRUE
      BY <1>5, <3>0, Zenon
    <3>2. at' = p + 1 /\ other # 0
      BY <1>1, <1>4, <2>3
    <3>3. First' = (p + 1) + 1
      BY <1>6, <3>1, <3>2
    <3> QED
      BY <1>1, <3>2, <3>3
  <2> QED
    BY <1>1, <1>3, <2>1, <2>2, <2>3
<1>10. {p, other} \ {0} = p .. First' - 1
  BY <1>1, <1>3, <1>9
<1>11. First' <= Len(phonemes) => mNeedPhoneme' = (other # 0)
  <2>1. CASE p < Len(phonemes)
    BY <1>1, <1>5, <2>1
  <2>2. CASE p = Len(phonemes)
    BY <1>1, <1>3, <1>9, <2>2
  <2> QED
    BY <1>1, <2>1, <2>2
<1>12. at' \in 1 .. Len(phonemes)
  BY <1>1, <1>4
<1> QED
  BY <1>7, <1>8, <1>9, <1>10, <1>11, <1>12 DEF p, other

LEMMA Adjacent ==
    ASSUME NEW f \in Nat \ {0}, NEW l \in Nat, f < l
    PROVE  (1 .. f - 1) \cap (f .. l - 1) = {} /\ (1 .. f - 1) \cup (f .. l - 1) = 1 .. l - 1
OBVIOUS

LEMMA ReaderInit == Init => ReaderInv
<1> SUFFICES ASSUME Init
             PROVE  ReaderInv
  OBVIOUS
<1>1. Len(phonemes) \in Nat
  BY ProsodyAssumption DEF Init
<1>2. ReaderType
  <2>1. at \in 0 .. Len(phonemes) /\ phonemes \in Inputs
    BY <1>1 DEF Init
  <2>2. phones \in Seq(PhoneType) /\ dropped \in Seq(PhoneType)
    BY DEF Init
  <2>3. mNeedPhoneme \in BOOLEAN /\ over \in BOOLEAN /\ mNeedPhoneme
    BY Zenon DEF Init
  <2> QED
    BY <2>1, <2>2, <2>3, Zenon DEF ReaderType, TypeOK
<1>3. First = 1
  BY DEF Init, First
<1>4. Positions(phones) = {} /\ Positions(dropped) = {} /\ Len(phones) = 0
  BY DEF Init, Positions
<1>5. EveryPhonemeOnce
  BY <1>3, <1>4 DEF EveryPhonemeOnce, Done
<1>6. Read = {}
  BY DEF Init, Read, PhonesIn
<1> QED
  BY <1>2, <1>3, <1>5, <1>6 DEF ReaderInv, MarkInv, MarksFollowTheirPhoneme

\* The phone has a second phoneme, which is the next.
Second(phone) == phone.phoneme2 = phone.phoneme1 + 1

\* A step of read(): one phone more, given or dropped.
LEMMA ReadPhoneKeeps ==
    ASSUME ReaderInv, ReadPhone
    PROVE  ReaderInv'
<1> DEFINE phone == Phone(First)
<1>1. ReaderType /\ First <= Len(phonemes) /\ LookAhead(phone) /\ UNCHANGED <<phonemes, over>>
  BY DEF ReaderInv, ReadPhone
<1>2. phone \in PhoneType /\ phone.phoneme1 = First
  BY <1>1, PhoneFacts
<1>3. First \in Nat \ {0} /\ Len(phonemes) \in Nat
  BY <1>1, FirstType
<1>4. PhonemesOf(phone) = First .. First' - 1 /\ First' \in {First + 1, First + 2}
  BY <1>1, LooksAhead
<1>5. \/ phones' = Append(phones, phone) /\ UNCHANGED dropped
      \/ dropped' = Append(dropped, phone) /\ UNCHANGED phones
  BY DEF ReadPhone
<1>6. phones \in Seq(PhoneType) /\ dropped \in Seq(PhoneType)
  BY <1>1 DEF ReaderType, TypeOK
<1>7. /\ \/ Second(phone) /\ First < Len(phonemes)
         \/ phone.phoneme2 = 0 /\ ~Grouped(First)
  BY <1>1, PhoneFacts DEF Second
<1>8. First' <= Len(phonemes) => mNeedPhoneme' = (phone.phoneme2 # 0)
  BY <1>1, LooksAhead
<1>9. First' = IF phone.phoneme2 = 0 THEN First + 1 ELSE First + 2
  BY <1>1, LooksAhead
<1>10. at' \in 1 .. Len(phonemes) /\ mNeedPhoneme' \in BOOLEAN
  BY <1>1, LooksAhead
<1> HIDE DEF phone
<1>11. ReaderType'
  <2>1. phones' \in Seq(PhoneType) /\ dropped' \in Seq(PhoneType)
    BY <1>2, <1>5, <1>6, SMTT(30)
  <2>2. phonemes' \in Inputs /\ over' \in BOOLEAN
    BY <1>1 DEF ReaderType, TypeOK
  <2>3. at' \in 0 .. Len(phonemes') /\ at' # 0
    BY <1>1, <1>3, <1>10
  <2> QED
    BY <1>10, <2>1, <2>2, <2>3 DEF ReaderType, TypeOK
<1>12. EveryPhonemeOnce'
  <2>1. Positions(phones) \cup Positions(dropped) = 1 .. First - 1
    BY DEF ReaderInv, EveryPhonemeOnce, Done
  <2>2. Positions(phones) \cap Positions(dropped) = {}
    BY DEF ReaderInv, EveryPhonemeOnce
  <2>3. \A i \in 1 .. Len(phones) - 1 :
            \A p \in PhonemesOf(phones[i]), q \in PhonemesOf(phones[i + 1]) : p < q
    BY DEF ReaderInv, EveryPhonemeOnce
  <2>4. First' \in Nat /\ First < First'
    <3> DEFINE f == First
    <3> DEFINE l == First'
    <3>1. f \in Nat \ {0} /\ l \in {f + 1, f + 2}
      BY <1>3, <1>4
    <3> HIDE DEF f, l
    <3>2. l \in Nat /\ f < l
      BY <3>1
    <3> QED
      BY <3>2 DEF f, l
  <2>5. /\ (1 .. First - 1) \cap PhonemesOf(phone) = {}
        /\ (1 .. First - 1) \cup PhonemesOf(phone) = 1 .. First' - 1
    BY <1>3, <1>4, <2>4, Adjacent
  <2>6. CASE phones' = Append(phones, phone) /\ UNCHANGED dropped
    <3>1. Positions(phones') = Positions(phones) \cup PhonemesOf(phone)
      BY <1>2, <1>6, <2>6, PositionsOfAppend
    <3>2. Positions(dropped') = Positions(dropped)
      BY <2>6
    <3>3. \A i \in 1 .. Len(phones') - 1 :
              \A p \in PhonemesOf(phones'[i]), q \in PhonemesOf(phones'[i + 1]) : p < q
      <4> SUFFICES ASSUME NEW i \in 1 .. Len(phones') - 1,
                          NEW p \in PhonemesOf(phones'[i]), NEW q \in PhonemesOf(phones'[i + 1])
                   PROVE  p < q
        OBVIOUS
      <4>1. Len(phones') = Len(phones) + 1 /\ Len(phones) \in Nat /\ i \in 1 .. Len(phones)
        BY <1>2, <1>6, <2>6
      <4>2. phones'[i] = phones[i]
        BY <1>2, <1>6, <2>6, <4>1
      <4>3. CASE i < Len(phones)
        <5>1. i \in 1 .. Len(phones) - 1 /\ phones'[i + 1] = phones[i + 1]
          BY <1>2, <1>6, <2>6, <4>1, <4>3
        <5> QED
          BY <2>3, <4>2, <5>1
      <4>4. CASE i = Len(phones)
        <5>1. phones'[i + 1] = phone
          BY <1>2, <1>6, <2>6, <4>1, <4>4
        <5>2. p \in Positions(phones)
          BY <4>1, <4>2 DEF Positions
        <5>3. p \in 1 .. First - 1
          BY <2>1, <5>2
        <5>4. q \in First .. First' - 1
          BY <1>4, <5>1
        <5> QED
          BY <1>3, <1>4, <5>3, <5>4
      <4> QED
        BY <4>1, <4>3, <4>4
    <3>4. Positions(phones') \cup Positions(dropped') = 1 .. First' - 1
      BY <2>1, <2>5, <3>1, <3>2
    <3>5. Positions(phones') \cap Positions(dropped') = {}
      BY <2>1, <2>2, <2>5, <3>1, <3>2
    <3> QED
      BY <3>3, <3>4, <3>5 DEF EveryPhonemeOnce, Done
  <2>7. CASE dropped' = Append(dropped, phone) /\ UNCHANGED phones
    <3>1. Positions(dropped') = Positions(dropped) \cup PhonemesOf(phone)
      BY <1>2, <1>6, <2>7, PositionsOfAppend
    <3>2. phones' = phones /\ Positions(phones') = Positions(phones)
      BY <2>7
    <3>3. Positions(phones') \cup Positions(dropped') = 1 .. First' - 1
      BY <2>1, <2>5, <3>1, <3>2
    <3>4. Positions(phones') \cap Positions(dropped') = {}
      BY <2>1, <2>2, <2>5, <3>1, <3>2
    <3> QED
      BY <2>3, <3>2, <3>3, <3>4 DEF EveryPhonemeOnce, Done
  <2> QED
    BY <1>5, <2>6, <2>7
<1>13. Read' = Read \cup {phone}
  <2>1. CASE phones' = Append(phones, phone) /\ UNCHANGED dropped
    <3>1. PhonesIn(phones') = PhonesIn(phones) \cup {phone}
      BY <1>2, <1>6, <2>1, PhonesInAppend
    <3> QED
      BY <2>1, <3>1 DEF Read
  <2>2. CASE dropped' = Append(dropped, phone) /\ UNCHANGED phones
    <3>1. PhonesIn(dropped') = PhonesIn(dropped) \cup {phone}
      BY <1>2, <1>6, <2>2, PhonesInAppend
    <3> QED
      BY <2>2, <3>1 DEF Read
  <2> QED
    BY <1>5, <2>1, <2>2
<1>14. MarkInv'
  <2> SUFFICES ASSUME First' > 1, First' <= Len(phonemes)
               PROVE  \/ mNeedPhoneme' /\ \E other \in Read' : other.phoneme2 = First' - 1
                      \/ ~mNeedPhoneme' /\ phonemes[First'] \notin Mark
    BY <1>1 DEF MarkInv
  <2>1. CASE phone.phoneme2 = 0
    <3>1. mNeedPhoneme' = FALSE
      BY <1>8, <2>1
    <3>2. First' = First + 1 /\ ~Grouped(First)
      BY <1>2, <1>3, <1>7, <1>9, <2>1 DEF Second
    <3>3. phonemes[First'] \notin Mark
      BY <1>3, <3>2 DEF Grouped
    <3> QED
      BY <3>1, <3>3
  <2>2. CASE phone.phoneme2 # 0
    <3>1. mNeedPhoneme' = TRUE
      BY <1>8, <2>2
    <3>2. phone.phoneme2 = First' - 1
      BY <1>2, <1>3, <1>7, <1>9, <2>2 DEF Second
    <3> QED
      BY <1>13, <3>1, <3>2
  <2> QED
    BY <2>1, <2>2
<1>15. MarksFollowTheirPhoneme'
  <2> SUFFICES ASSUME NEW p \in Read \cup {phone}, phonemes[p.phoneme1] \in Mark, p.phoneme1 > 1
               PROVE  \E other \in Read \cup {phone} : other.phoneme2 = p.phoneme1 - 1
    BY <1>1, <1>13 DEF MarksFollowTheirPhoneme
  <2>1. CASE p \in Read
    BY <2>1 DEF ReaderInv, MarksFollowTheirPhoneme
  <2>2. CASE p = phone
    <3>1. First > 1 /\ phonemes[First] \in Mark
      BY <1>2, <2>2
    <3>2. \E other \in Read : other.phoneme2 = First - 1
      BY <1>1, <3>1 DEF ReaderInv, MarkInv
    <3> QED
      BY <1>2, <2>2, <3>2
  <2> QED
    BY <2>1, <2>2
<1> QED
  BY <1>11, <1>12, <1>14, <1>15 DEF ReaderInv

LEMMA ReaderStutters == ReaderInv /\ UNCHANGED vars => ReaderInv'
<1> SUFFICES ASSUME ReaderInv, UNCHANGED vars
             PROVE  ReaderInv'
  OBVIOUS
<1>1. UNCHANGED <<phonemes, at, mNeedPhoneme, phones, dropped, over>>
  BY DEF vars
<1>2. First' = First /\ Read' = Read
  BY <1>1 DEF First, Read
<1>3. ReaderType'
  BY <1>1 DEF ReaderInv, ReaderType, TypeOK
<1>4. EveryPhonemeOnce'
  BY <1>1, <1>2 DEF ReaderInv, EveryPhonemeOnce, Done
<1>5. MarkInv' /\ MarksFollowTheirPhoneme'
  BY <1>1, <1>2 DEF ReaderInv, MarkInv, MarksFollowTheirPhoneme
<1> QED
  BY <1>3, <1>4, <1>5 DEF ReaderInv

LEMMA ReaderNext == ReaderInv /\ Next => ReaderInv'
<1> SUFFICES ASSUME ReaderInv, Next
             PROVE  ReaderInv'
  OBVIOUS
<1>1. CASE ReadPhone
  BY <1>1, ReadPhoneKeeps
<1>2. CASE EndOfPhonemes
  <2>1. UNCHANGED <<phonemes, at, mNeedPhoneme, phones, dropped>> /\ over' = TRUE
    BY <1>2 DEF EndOfPhonemes
  <2>2. First' = First /\ Read' = Read
    BY <2>1 DEF First, Read
  <2>3. ReaderType'
    BY <2>1 DEF ReaderInv, ReaderType, TypeOK
  <2>4. EveryPhonemeOnce'
    BY <2>1, <2>2 DEF ReaderInv, EveryPhonemeOnce, Done
  <2>5. MarkInv' /\ MarksFollowTheirPhoneme'
    BY <2>1, <2>2 DEF ReaderInv, MarkInv, MarksFollowTheirPhoneme
  <2> QED
    BY <2>3, <2>4, <2>5 DEF ReaderInv
<1> QED
  BY <1>1, <1>2 DEF Next

LEMMA ReaderUnitNext == ReaderInv /\ [UnitNext]_unitVars => ReaderInv'
<1> SUFFICES ASSUME ReaderInv, [UnitNext]_unitVars
             PROVE  ReaderInv'
  OBVIOUS
<1>1. Next \/ UNCHANGED vars
  BY DEF UnitNext, unitVars, CallProsody, NeedPhoneme, EndOfProsody, HavePhoneme, HaveUnit
<1> QED
  BY <1>1, ReaderNext, ReaderStutters

\* Read by the unit reader or by any other client that calls read() in turn, the
\* prosody reader loses no phoneme and puts none into two phones.
THEOREM PhonemesReadOnce == UnitSpec => []EveryPhonemeOnce
<1>1. UnitInit => ReaderInv
  BY ReaderInit DEF UnitInit
<1>2. ReaderInv => EveryPhonemeOnce
  BY DEF ReaderInv
<1> QED
  BY <1>1, <1>2, ReaderUnitNext, PTL DEF UnitSpec

\* A diacritic or a glide never begins a phone of its own while the phoneme that
\* it marks could take it.
THEOREM MarksStay == UnitSpec => []MarksFollowTheirPhoneme
<1>1. UnitInit => ReaderInv
  BY ReaderInit DEF UnitInit
<1>2. ReaderInv => MarksFollowTheirPhoneme
  BY DEF ReaderInv
<1> QED
  BY <1>1, <1>2, ReaderUnitNext, PTL DEF UnitSpec

-----------------------------------------------------------------------------
(* The unit reader.                                                         *)

\* The phone whose units are given is the last one that was taken.
UnitInv ==
    /\ phonemes \in Inputs /\ phones \in Seq(PhoneType)
    /\ next \in 1 .. Len(phones) + 1
    /\ mState \in {"need_phoneme", "have_phoneme", "have_unit"}
    /\ mState = "have_unit" =>
           /\ next > 1 /\ Supported(phones[next - 1])
           /\ mCurrentUnit \in Nat /\ mCurrentUnit < mLastUnit
           /\ mLastUnit = find_unit(phones[next - 1]).first_unit + find_unit(phones[next - 1]).num_units

LEMMA EntryFound ==
    ASSUME NEW phone, Supported(phone)
    PROVE  find_unit(phone) \in Entry /\ find_unit(phone) \in {Table[p] : p \in DOMAIN Table}
<1>1. Key(phone) \in DOMAIN Table \/ NoLength(Key(phone)) \in DOMAIN Table
  BY DEF Supported
<1>2. PICK p \in DOMAIN Table : find_unit(phone) = Table[p]
  BY <1>1 DEF find_unit
<1> QED
  BY <1>2, UnitAssumption

\* A phone is looked up by the kinds of its phonemes, which do not change.
LEMMA KeptLookup ==
    ASSUME NEW phone, phones'[next' - 1] = phone, phonemes' = phonemes, Supported(phone)
    PROVE  Supported(phones[next - 1])' /\ find_unit(phones[next - 1])' = find_unit(phone)
BY DEF Supported, find_unit, Key, NoLength, Cleared, KindOf

LEMMA UnitInvNext ==
    ASSUME \A p \in DOMAIN Table : Table[p].num_units > 0
    PROVE  ReaderInv /\ UnitInv /\ [UnitNext]_unitVars => UnitInv'
<1> SUFFICES ASSUME ReaderInv, UnitInv, [UnitNext]_unitVars
             PROVE  UnitInv'
  OBVIOUS
<1>1. ReaderInv'
  BY ReaderUnitNext
<1>2. phonemes' \in Inputs /\ phones' \in Seq(PhoneType)
  BY <1>1 DEF ReaderInv, ReaderType, TypeOK
<1>3. CASE CallProsody
  <2>1. mState = "need_phoneme" /\ UNCHANGED <<next, mState>> /\ Next
    BY <1>3 DEF CallProsody
  <2>2. phones' = phones \/ \E phone : phones' = Append(phones, phone)
    BY <2>1 DEF Next, ReadPhone, EndOfPhonemes
  <2>3. Len(phones) \in Nat /\ Len(phones') \in Nat /\ Len(phones) <= Len(phones')
    BY <1>2, <2>2 DEF UnitInv
  <2>4. next' \in 1 .. Len(phones') + 1
    BY <2>1, <2>3 DEF UnitInv
  <2> QED
    BY <1>2, <2>1, <2>4 DEF UnitInv
<1>4. CASE NeedPhoneme
  <2>1. /\ next <= Len(phones) /\ next' = next + 1
        /\ UNCHANGED <<phonemes, at, mNeedPhoneme, phones, dropped, over>>
    BY <1>4 DEF NeedPhoneme, vars
  <2>2. Len(phones) \in Nat /\ next \in Nat /\ next >= 1
    BY DEF UnitInv
  <2>3. next' \in 1 .. Len(phones') + 1 /\ next' > 1 /\ next' - 1 = next
    BY <2>1, <2>2
  <2>4. CASE Supported(phones[next])
    <3> DEFINE entry == find_unit(phones[next])
    <3>1. Found(entry)
      BY <1>4, <2>4 DEF NeedPhoneme
    <3>2. entry.first_unit \in Nat /\ entry.num_units \in Nat /\ entry.num_units > 0
      BY <2>4, EntryFound DEF Entry
    <3>3. phones'[next' - 1] = phones[next] /\ phonemes' = phonemes
      BY <2>1, <2>3
    <3>4. Supported(phones[next - 1])' /\ find_unit(phones[next - 1])' = entry
      BY <2>4, <3>3, KeptLookup
    <3>5. /\ mState' = "have_unit"
          /\ mCurrentUnit' = entry.first_unit /\ mLastUnit' = entry.first_unit + entry.num_units
      BY <3>1 DEF Found
    <3> HIDE DEF entry
    <3>6. mCurrentUnit' \in Nat /\ mCurrentUnit' < mLastUnit'
      BY <3>2, <3>5
    <3> QED
      BY <1>2, <2>3, <3>4, <3>5, <3>6 DEF UnitInv
  <2>5. CASE ~Supported(phones[next])
    <3>1. mState' \in {"have_phoneme", "need_phoneme"}
      BY <1>4, <2>5 DEF NeedPhoneme, Unsupported
    <3> QED
      BY <1>2, <2>3, <3>1 DEF UnitInv
  <2> QED
    BY <2>4, <2>5
<1>5. CASE EndOfProsody
  BY <1>2, <1>5 DEF EndOfProsody, UnitInv, vars
<1>6. CASE HavePhoneme
  BY <1>2, <1>6 DEF HavePhoneme, UnitInv, vars
<1>7. CASE HaveUnit
  <2>1. /\ mState = "have_unit" /\ mCurrentUnit' = mCurrentUnit + 1
        /\ mState' = IF mCurrentUnit + 1 = mLastUnit THEN "need_phoneme" ELSE "have_unit"
        /\ UNCHANGED <<phonemes, phones, next, mLastUnit>>
    BY <1>7 DEF HaveUnit, vars
  <2>2. next' \in 1 .. Len(phones') + 1
    BY <2>1 DEF UnitInv
  <2>3. CASE mCurrentUnit + 1 = mLastUnit
    BY <1>2, <2>1, <2>2, <2>3 DEF UnitInv
  <2>4. CASE mCurrentUnit + 1 # mLastUnit
    <3>1. mCurrentUnit \in Nat /\ mCurrentUnit < mLastUnit /\ next > 1
      BY <2>1 DEF UnitInv
    <3>2. find_unit(phones[next - 1]) \in Entry
      BY <2>1, EntryFound DEF UnitInv
    <3>3. mLastUnit \in Nat
      BY <2>1, <3>2 DEF UnitInv, Entry
    <3>4. mCurrentUnit' \in Nat /\ mCurrentUnit' < mLastUnit' /\ next' > 1
      BY <2>1, <2>4, <3>1, <3>3
    <3>5. Supported(phones[next - 1]) /\ phones'[next' - 1] = phones[next - 1] /\ phonemes' = phonemes
      BY <2>1 DEF UnitInv
    <3>6. Supported(phones[next - 1])' /\ find_unit(phones[next - 1])' = find_unit(phones[next - 1])
      BY <3>5, KeptLookup
    <3>7. mLastUnit' = find_unit(phones[next - 1])'.first_unit + find_unit(phones[next - 1])'.num_units
      BY <2>1, <3>6 DEF UnitInv
    <3> QED
      BY <1>2, <2>1, <2>2, <2>4, <3>4, <3>6, <3>7 DEF UnitInv
  <2> QED
    BY <2>3, <2>4
<1>8. CASE UNCHANGED unitVars
  <2>1. UNCHANGED <<phonemes, phones, next, mCurrentUnit, mLastUnit, mState>>
    BY <1>8 DEF unitVars, vars, own
  <2>2. next' \in 1 .. Len(phones') + 1
    BY <2>1 DEF UnitInv
  <2>3. CASE mState = "have_unit"
    <3>1. Supported(phones[next - 1]) /\ phones'[next' - 1] = phones[next - 1] /\ phonemes' = phonemes
      BY <2>1, <2>3 DEF UnitInv
    <3>2. Supported(phones[next - 1])' /\ find_unit(phones[next - 1])' = find_unit(phones[next - 1])
      BY <3>1, KeptLookup
    <3> QED
      BY <1>2, <2>1, <2>2, <2>3, <3>2 DEF UnitInv
  <2>4. CASE mState # "have_unit"
    BY <1>2, <2>1, <2>2, <2>4 DEF UnitInv
  <2> QED
    BY <2>3, <2>4
<1> QED
  BY <1>3, <1>4, <1>5, <1>6, <1>7, <1>8 DEF UnitNext

\* Where every entry of the voice's table has a unit, read() never goes past the
\* units of its phone: the end, which it finds by equality, is always met.
THEOREM UnitsEndWithTheirPhone ==
    ASSUME \A p \in DOMAIN Table : Table[p].num_units > 0
    PROVE  UnitSpec => []UnitIsOfPhoneme
<1>1. UnitInit => ReaderInv
  BY ReaderInit DEF UnitInit
<1>2. UnitInit => UnitInv
  <2> SUFFICES ASSUME UnitInit
               PROVE  UnitInv
    OBVIOUS
  <2>1. phonemes \in Inputs /\ phones = <<>>
    BY DEF UnitInit, Init
  <2> QED
    BY <2>1 DEF UnitInit, UnitInv
<1>3. ReaderInv /\ UnitInv /\ [UnitNext]_unitVars => UnitInv'
  BY UnitInvNext
<1>4. UnitInv => UnitIsOfPhoneme
  BY DEF UnitInv, UnitIsOfPhoneme
<1> QED
  BY <1>1, <1>2, <1>3, <1>4, ReaderUnitNext, PTL DEF UnitSpec

-----------------------------------------------------------------------------
(* What the unit reader gives.                                              *)

Item == [unit : Nat, share : Int] \cup [phone : PhoneType]

\* The units of the first n phones.
UnitsTo(n) == FlattenSeq([i \in 1 .. n |-> Expected(phones[i])])

LEMMA ShortEntry ==
    ASSUME OneUnitOrTwo, NEW phone, Supported(phone)
    PROVE  /\ find_unit(phone) \in Entry
           /\ find_unit(phone).first_unit \in Nat
           /\ find_unit(phone).num_units = 1 \/ find_unit(phone).num_units = 2
           /\ PhonemeStart(find_unit(phone).first_unit) = 0
           /\ find_unit(phone).num_units = 2 =>
                  /\ PhonemeStart(find_unit(phone).first_unit + 1) \in Int
                  /\ 0 <= PhonemeStart(find_unit(phone).first_unit + 1)
                  /\ PhonemeStart(find_unit(phone).first_unit + 1) <= 100
<1> DEFINE e == find_unit(phone)
<1>1. e \in Entry /\ e \in {Table[p] : p \in DOMAIN Table}
  BY EntryFound
<1> HIDE DEF e
<1>2. PICK p \in DOMAIN Table : e = Table[p]
  BY <1>1
<1>3. e.first_unit \in Nat /\ e.num_units \in Nat
  BY <1>1 DEF Entry
<1>4. (e.num_units = 1 \/ e.num_units = 2) /\ PhonemeStart(e.first_unit) = 0
  BY <1>2 DEF OneUnitOrTwo
<1>5. e.num_units = 2 => PhonemeStarts[e.first_unit + 2] \in 0 .. 100
  <2> DEFINE Percent == 0 .. 100
  <2>1. PhonemeStarts \in Seq(Percent) /\ e.first_unit + e.num_units <= Len(PhonemeStarts)
    BY <1>2, UnitAssumption
  <2> HIDE DEF Percent
  <2>2. e.num_units = 2 => e.first_unit + 2 \in 1 .. Len(PhonemeStarts)
    BY <1>3, <2>1
  <2>3. e.num_units = 2 => PhonemeStarts[e.first_unit + 2] \in Percent
    BY <2>1, <2>2
  <2> QED
    BY <2>3 DEF Percent
<1>6. e.num_units = 2 => PhonemeStart(e.first_unit + 1) \in 0 .. 100
  <2>1. e.first_unit + 1 + 1 = e.first_unit + 2
    BY <1>3
  <2> QED
    BY <1>5, <2>1 DEF PhonemeStart
<1>7. \A x \in 0 .. 100 : x \in Int /\ 0 <= x /\ x <= 100
  OBVIOUS
<1> QED
  BY <1>1, <1>3, <1>4, <1>6, <1>7 DEF e

LEMMA UnitsOfShort ==
    ASSUME OneUnitOrTwo, NEW phone, Supported(phone)
    PROVE  LET e == find_unit(phone)
           IN  /\ e.num_units = 1 => UnitsOf(e) = <<[unit |-> e.first_unit, share |-> 100]>>
               /\ e.num_units = 2 =>
                      UnitsOf(e) = << [unit |-> e.first_unit, share |-> PhonemeStart(e.first_unit + 1)],
                                      [unit |-> e.first_unit + 1, share |-> 100 - PhonemeStart(e.first_unit + 1)] >>
<1> DEFINE e == find_unit(phone)
           f == e.first_unit
           end(u) == IF u = f + e.num_units - 1 THEN 100 ELSE PhonemeStart(u + 1)
           of(k) == [unit |-> f + k - 1, share |-> end(f + k - 1) - PhonemeStart(f + k - 1)]
<1>1. /\ f \in Nat /\ (e.num_units = 1 \/ e.num_units = 2) /\ PhonemeStart(f) = 0
      /\ e.num_units = 2 => PhonemeStart(f + 1) \in Int
  BY ShortEntry
<1>2. UnitsOf(e) = [k \in 1 .. e.num_units |-> of(k)]
  BY DEF UnitsOf
<1> HIDE DEF e
<1>3. f + 1 - 1 = f /\ f + 2 - 1 = f + 1
  BY <1>1
<1>4. ASSUME e.num_units = 1
      PROVE  UnitsOf(e) = <<[unit |-> f, share |-> 100]>>
  <2>1. of(1) = [unit |-> f, share |-> 100]
    <3>1. end(f) - PhonemeStart(f) = 100
      BY <1>1, <1>4
    <3> QED
      BY <1>3, <3>1
  <2> HIDE DEF of
  <2>2. UnitsOf(e) = [k \in 1 .. 1 |-> of(k)]
    BY <1>2, <1>4
  <2>3. [k \in 1 .. 1 |-> of(k)] = <<of(1)>>
    OBVIOUS
  <2> QED
    BY <2>1, <2>2, <2>3
<1>5. ASSUME e.num_units = 2
      PROVE  UnitsOf(e) = << [unit |-> f, share |-> PhonemeStart(f + 1)],
                             [unit |-> f + 1, share |-> 100 - PhonemeStart(f + 1)] >>
  <2>1. of(1) = [unit |-> f, share |-> PhonemeStart(f + 1)]
    <3>1. end(f) - PhonemeStart(f) = PhonemeStart(f + 1)
      BY <1>1, <1>5
    <3> QED
      BY <1>3, <3>1
  <2>2. of(2) = [unit |-> f + 1, share |-> 100 - PhonemeStart(f + 1)]
    <3>1. end(f + 1) = 100
      BY <1>1, <1>5
    <3> QED
      BY <1>3, <3>1
  <2> HIDE DEF of
  <2>3. UnitsOf(e) = [k \in 1 .. 2 |-> of(k)]
    BY <1>2, <1>5
  <2>4. [k \in 1 .. 2 |-> of(k)] = <<of(1), of(2)>>
    OBVIOUS
  <2> QED
    BY <2>1, <2>2, <2>3, <2>4
<1> QED
  BY <1>4, <1>5 DEF e

LEMMA ShortSequences ==
    ASSUME NEW X, NEW x \in X, NEW y \in X
    PROVE  <<>> \in Seq(X) /\ <<x>> \in Seq(X) /\ <<x, y>> \in Seq(X)
  OBVIOUS

LEMMA ExpectedType ==
    ASSUME OneUnitOrTwo, NEW phone \in PhoneType
    PROVE  Expected(phone) \in Seq(Item)
<1>1. CASE Supported(phone)
  <2> DEFINE e == find_unit(phone)
  <2>1. Expected(phone) = UnitsOf(e)
    BY <1>1 DEF Expected
  <2>2. /\ e.first_unit \in Nat /\ (e.num_units = 1 \/ e.num_units = 2)
        /\ e.num_units = 2 => PhonemeStart(e.first_unit + 1) \in Int
    BY <1>1, ShortEntry
  <2>3. /\ e.num_units = 1 => UnitsOf(e) = <<[unit |-> e.first_unit, share |-> 100]>>
        /\ e.num_units = 2 =>
               UnitsOf(e) = << [unit |-> e.first_unit, share |-> PhonemeStart(e.first_unit + 1)],
                               [unit |-> e.first_unit + 1, share |-> 100 - PhonemeStart(e.first_unit + 1)] >>
    BY <1>1, UnitsOfShort
  <2> HIDE DEF e
  <2>4. \A u \in Nat, x \in Int : [unit |-> u, share |-> x] \in Item
    BY DEF Item
  <2> DEFINE f == e.first_unit
             s == PhonemeStart(f + 1)
             x == [unit |-> f, share |-> 100]
             y == [unit |-> f, share |-> s]
             z == [unit |-> f + 1, share |-> 100 - s]
  <2>5. x \in Item
    BY <2>2, <2>4
  <2>6. e.num_units = 2 => y \in Item /\ z \in Item
    BY <2>2, <2>4
  <2>7. (e.num_units = 1 => UnitsOf(e) = <<x>>) /\ (e.num_units = 2 => UnitsOf(e) = <<y, z>>)
    BY <2>3
  <2> HIDE DEF x, y, z
  <2> QED
    BY <2>1, <2>2, <2>5, <2>6, <2>7, ShortSequences
<1>2. CASE ~Supported(phone)
  <2> DEFINE x == [phone |-> phone]
  <2>1. x \in Item
    BY DEF Item
  <2>2. Expected(phone) = <<x>> \/ Expected(phone) = <<>>
    BY <1>2 DEF Expected
  <2> HIDE DEF x
  <2> QED
    BY <2>1, <2>2, ShortSequences
<1> QED
  BY <1>1, <1>2

LEMMA UnitsToStep ==
    ASSUME OneUnitOrTwo, phones \in Seq(PhoneType), NEW n \in 0 .. Len(phones) - 1
    PROVE  UnitsTo(n + 1) = UnitsTo(n) \o Expected(phones[n + 1])
<1> DEFINE ss == [i \in 1 .. n |-> Expected(phones[i])]
           tt == [i \in 1 .. n + 1 |-> Expected(phones[i])]
<1>1. n \in Nat /\ Len(phones) \in Nat /\ \A i \in 1 .. n + 1 : phones[i] \in PhoneType
  OBVIOUS
<1>2. \A i \in 1 .. n + 1 : Expected(phones[i]) \in Seq(Item)
  BY <1>1, ExpectedType
<1>3. ss \in Seq(Seq(Item)) /\ Len(ss) = n
  BY <1>1, <1>2
<1>4. tt \in Seq(Seq(Item)) /\ Len(tt) = n + 1
  BY <1>1, <1>2
<1>5. tt[n + 1] = Expected(phones[n + 1]) /\ \A i \in 1 .. n : tt[i] = ss[i]
  BY <1>1
<1> HIDE DEF ss, tt
<1>6. FlattenSeq(tt) = FlattenSeq(ss) \o tt[n + 1]
  BY <1>3, <1>4, <1>5, FlattenStep
<1> QED
  BY <1>5, <1>6 DEF UnitsTo, ss, tt

\* The units of the phones so far do not change when one more is read.
LEMMA UnitsToKept ==
    ASSUME NEW n \in Nat, UNCHANGED phonemes, \A i \in 1 .. n : phones'[i] = phones[i]
    PROVE  UnitsTo(n)' = UnitsTo(n)
<1>1. \A i \in 1 .. n : Expected(phones[i])' = Expected(phones[i])
  BY DEF Expected, Supported, find_unit, Key, NoLength, Cleared, KindOf
<1>2. [i \in 1 .. n |-> Expected(phones[i])]' = [i \in 1 .. n |-> Expected(phones[i])]
  BY <1>1
<1> QED
  BY <1>2 DEF UnitsTo

\* The units that read() has yet to give of the phone it is at, with what the
\* offset that remains must be for them.
Rest(rest) ==
    LET e == find_unit(phones[next - 1])
    IN  \/ mState = "need_phoneme" /\ rest = <<>>
        \/ mState = "have_phoneme" /\ next > 1 /\ rest = <<[phone |-> phones[next - 1]]>>
        \/ /\ mState = "have_unit" /\ next > 1 /\ Supported(phones[next - 1])
           /\ mLastUnit = e.first_unit + e.num_units
           /\ \/ mCurrentUnit = e.first_unit /\ mRemainingOffset = 100 /\ rest = UnitsOf(e)
              \/ /\ e.num_units = 2 /\ mCurrentUnit = e.first_unit + 1
                 /\ mRemainingOffset = 100 - PhonemeStart(e.first_unit + 1)
                 /\ rest = <<[unit |-> mCurrentUnit, share |-> mRemainingOffset]>>

\* What was given and what is yet to be given are the units of the phones that
\* were taken.
GivenInv ==
    /\ phonemes \in Inputs /\ phones \in Seq(PhoneType) /\ given \in Seq(Item)
    /\ next \in 1 .. Len(phones) + 1
    /\ mState \in {"need_phoneme", "have_phoneme", "have_unit"}
    /\ finished => mState = "need_phoneme" /\ next = Len(phones) + 1
    /\ \E rest \in Seq(Item) : Rest(rest) /\ UnitsTo(next - 1) = given \o rest

LEMMA GivenInit == UnitInit => GivenInv
<1> SUFFICES ASSUME UnitInit
             PROVE  GivenInv
  OBVIOUS
<1>1. /\ phonemes \in Inputs /\ phones = <<>> /\ given = <<>> /\ next = 1 /\ mState = "need_phoneme"
      /\ finished = FALSE
  BY DEF UnitInit, Init
<1>2. UnitsTo(0) = <<>>
  BY DEF UnitsTo, FlattenSeq
<1>3. Rest(<<>>)
  BY <1>1 DEF Rest
<1>4. <<>> \in Seq(Item) /\ <<>> \o <<>> = <<>>
  OBVIOUS
<1>5. UnitsTo(next - 1) = given \o <<>>
  BY <1>1, <1>2, <1>4
<1>6. next \in 1 .. Len(phones) + 1 /\ phones \in Seq(PhoneType) /\ given \in Seq(Item)
  BY <1>1
<1> QED
  BY <1>1, <1>3, <1>4, <1>5, <1>6 DEF GivenInv

\* What is yet to be given is that of the same phone.
LEMMA RestKept ==
    ASSUME UNCHANGED <<phonemes, next, mCurrentUnit, mLastUnit, mRemainingOffset, mState>>,
           next > 1 => phones'[next - 1] = phones[next - 1], NEW rest, Rest(rest)
    PROVE  Rest(rest)'
<1>1. /\ next > 1 => find_unit(phones[next - 1])' = find_unit(phones[next - 1])
      /\ next > 1 => Supported(phones[next - 1])' = Supported(phones[next - 1])
  BY DEF Supported, find_unit, Key, NoLength, Cleared, KindOf
<1>2. CASE mState = "need_phoneme"
  BY <1>2 DEF Rest
<1>3. CASE mState = "have_phoneme"
  BY <1>3 DEF Rest
<1>4. CASE mState = "have_unit"
  <2>1. next > 1
    BY <1>4 DEF Rest
  <2> QED
    BY <1>1, <1>4, <2>1 DEF Rest, UnitsOf
<1>5. mState \in {"need_phoneme", "have_phoneme", "have_unit"}
  BY DEF Rest
<1> QED
  BY <1>2, <1>3, <1>4, <1>5

LEMMA Joined ==
    ASSUME NEW X, NEW s \in Seq(X), NEW x \in X, NEW t \in Seq(X)
    PROVE  /\ s \o (<<x>> \o t) = Append(s, x) \o t
           /\ s \o <<x>> = Append(s, x) \o <<>>
           /\ s \o <<>> = s
  OBVIOUS

LEMMA GivenNext ==
    ASSUME OneUnitOrTwo
    PROVE  ReaderInv /\ GivenInv /\ [UnitNext]_unitVars => GivenInv'
<1> SUFFICES ASSUME ReaderInv, GivenInv, [UnitNext]_unitVars
             PROVE  GivenInv'
  OBVIOUS
<1>1. phonemes' \in Inputs /\ phones' \in Seq(PhoneType)
  BY ReaderUnitNext DEF ReaderInv, ReaderType, TypeOK
<1>2. /\ phones \in Seq(PhoneType) /\ Len(phones) \in Nat /\ given \in Seq(Item)
      /\ next \in Nat /\ next \in 1 .. Len(phones) + 1 /\ next >= 1
      /\ finished => mState = "need_phoneme" /\ next = Len(phones) + 1
  BY DEF GivenInv
<1>3. PICK rest \in Seq(Item) : Rest(rest) /\ UnitsTo(next - 1) = given \o rest
  BY DEF GivenInv
<1>4. CASE CallProsody
  <2>1. mState = "need_phoneme" /\ ~finished /\ Next
        /\ UNCHANGED <<next, mCurrentUnit, mLastUnit, mRemainingOffset, mState, given, finished>>
    BY <1>4 DEF CallProsody, own
  <2>2. UNCHANGED phonemes /\ (phones' = phones \/ \E phone : phones' = Append(phones, phone))
    BY <2>1 DEF Next, ReadPhone, EndOfPhonemes
  <2>3. Len(phones') \in Nat /\ Len(phones) <= Len(phones') /\ \A i \in 1 .. Len(phones) : phones'[i] = phones[i]
    BY <1>1, <1>2, <2>2, SMTT(30)
  <2>4. next' \in 1 .. Len(phones') + 1
    BY <1>2, <2>1, <2>3
  <2>5. Rest(rest)'
    BY <1>2, <1>3, <2>1, <2>2, <2>3, RestKept
  <2>6. UnitsTo(next - 1)' = given' \o rest
    <3>1. next - 1 \in Nat /\ \A i \in 1 .. next - 1 : phones'[i] = phones[i]
      BY <1>2, <2>3
    <3>2. UnitsTo(next - 1)' = UnitsTo(next - 1)
      <4> DEFINE n == next - 1
      <4>1. n \in Nat /\ n' = n /\ \A i \in 1 .. n : phones'[i] = phones[i]
        BY <2>1, <3>1
      <4> HIDE DEF n
      <4>2. [i \in 1 .. n |-> Expected(phones[i])]' = [i \in 1 .. n |-> Expected(phones[i])]
        <5>1. \A i \in 1 .. n : Expected(phones[i])' = Expected(phones[i])
          <6> SUFFICES ASSUME NEW i \in 1 .. n
                       PROVE  Expected(phones[i])' = Expected(phones[i])
            OBVIOUS
          <6>1. phonemes' = phonemes /\ phones'[i] = phones[i]
            BY <2>2, <4>1
          <6> QED
            BY <6>1 DEF Expected, UnitsOf, Supported, find_unit, Key, NoLength, Cleared, KindOf
        <5> QED
          BY <4>1, <5>1
      <4> QED
        BY <4>2 DEF UnitsTo, n
    <3> QED
      BY <1>3, <2>1, <3>2
  <2> QED
    BY <1>1, <1>2, <1>3, <2>1, <2>4, <2>5, <2>6 DEF GivenInv
<1>5. CASE NeedPhoneme
  <2> DEFINE phone == phones[next]
  <2>1. /\ mState = "need_phoneme" /\ next <= Len(phones) /\ next' = next + 1
        /\ UNCHANGED <<phonemes, phones, given, finished>>
        /\ IF Supported(phone) THEN Found(find_unit(phone)) ELSE Unsupported(phone)
    BY <1>5 DEF NeedPhoneme, vars
  <2>2. next \in 1 .. Len(phones) /\ phone \in PhoneType /\ next' - 1 = next /\ next' > 1
        /\ next' \in 1 .. Len(phones') + 1
    BY <1>2, <2>1
  <2>3. UnitsTo(next - 1) = given
    <3>1. rest = <<>>
      BY <1>3, <2>1 DEF Rest
    <3> QED
      BY <1>2, <1>3, <3>1
  <2>4. UnitsTo(next) = given \o Expected(phone)
    <3>1. next - 1 \in 0 .. Len(phones) - 1 /\ (next - 1) + 1 = next
      BY <1>2, <2>2
    <3> QED
      BY <1>2, <2>3, <3>1, UnitsToStep
  <2>5. Expected(phone) \in Seq(Item)
    BY <2>2, ExpectedType
  <2>6. UnitsTo(next - 1)' = given' \o Expected(phone)
    <3>1. [i \in 1 .. next' - 1 |-> Expected(phones[i])'] = [i \in 1 .. next |-> Expected(phones[i])]
      <4>1. \A i \in 1 .. next : Expected(phones[i])' = Expected(phones[i])
        BY <2>1 DEF Expected, Supported, find_unit, Key, NoLength, Cleared, KindOf
      <4> QED
        BY <2>2, <4>1
    <3> QED
      BY <2>1, <2>4, <3>1 DEF UnitsTo
  <2>7. phones'[next' - 1] = phone /\ phonemes' = phonemes
    BY <2>1, <2>2
  <2>8. ~finished /\ ~finished'
    BY <1>2, <2>1
  <2>9. PICK r : r = Expected(phone)
    OBVIOUS
  <2>10. mState' \in {"need_phoneme", "have_phoneme", "have_unit"} /\ Rest(r)'
    <3>1. CASE Supported(phone)
      <4> DEFINE e == find_unit(phone)
      <4>1. Supported(phones[next - 1])' /\ find_unit(phones[next - 1])' = e
        BY <2>7, <3>1, KeptLookup
      <4>2. /\ mCurrentUnit' = e.first_unit /\ mLastUnit' = e.first_unit + e.num_units
            /\ mRemainingOffset' = 100 /\ mState' = "have_unit"
        BY <2>1, <3>1 DEF Found
      <4>3. Expected(phone) = UnitsOf(e)
        BY <3>1 DEF Expected
      <4>4. UnitsOf(find_unit(phones[next - 1]))' = UnitsOf(e)
        BY <4>1 DEF UnitsOf
      <4>5. Expected(phone) = UnitsOf(find_unit(phones[next - 1]))'
        BY <4>3, <4>4
      <4> HIDE DEF e, phone
      <4> QED
        BY <2>2, <2>9, <4>1, <4>2, <4>5 DEF Rest
    <3>2. CASE ~Supported(phone) /\ Key(phone) = <<"pause", "unspecified">>
      <4>1. mState' = "have_phoneme"
        BY <2>1, <3>2 DEF Unsupported, Breaks
      <4>2. Expected(phone) = <<[phone |-> phone]>>
        BY <3>2 DEF Expected
      <4> QED
        BY <2>2, <2>7, <2>9, <4>1, <4>2 DEF Rest
    <3>3. CASE ~Supported(phone) /\ Key(phone) # <<"pause", "unspecified">>
      <4>1. Key(phone) \notin Breaks \ {<<"syllable_break", "unspecified">>}
        BY <3>3 DEF Breaks
      <4>2. mState' = "need_phoneme"
        BY <2>1, <3>3, <4>1 DEF Unsupported
      <4>3. Expected(phone) = <<>>
        BY <3>3 DEF Expected
      <4> QED
        BY <2>9, <4>2, <4>3 DEF Rest
    <3> QED
      BY <3>1, <3>2, <3>3
  <2>11. \E s \in Seq(Item) : Rest(s)' /\ UnitsTo(next - 1)' = given' \o s
    BY <2>5, <2>6, <2>10, <2>9
  <2> HIDE DEF phone
  <2> QED
    BY <1>1, <1>2, <2>1, <2>2, <2>8, <2>10, <2>11 DEF GivenInv
<1>6. CASE EndOfProsody
  <2>1. /\ mState = "need_phoneme" /\ next > Len(phones)
        /\ UNCHANGED <<phonemes, phones, next, mCurrentUnit, mLastUnit, mRemainingOffset, mState, given>>
    BY <1>6 DEF EndOfProsody, vars, own
  <2>2. Rest(rest)'
    BY <1>3, <2>1, RestKept
  <2>3. UnitsTo(next - 1)' = UnitsTo(next - 1)
    BY <2>1 DEF UnitsTo, Expected, UnitsOf, Supported, find_unit, Key, NoLength, Cleared, KindOf
  <2>4. next = Len(phones) + 1
    BY <1>2, <2>1
  <2> QED
    BY <1>1, <1>2, <1>3, <2>1, <2>2, <2>3, <2>4 DEF GivenInv
<1>7. CASE HavePhoneme
  <2> DEFINE x == [phone |-> phones[next - 1]]
  <2>1. /\ mState = "have_phoneme" /\ given' = Append(given, x) /\ mState' = "need_phoneme"
        /\ UNCHANGED <<phonemes, phones, next, finished>>
    BY <1>7 DEF HavePhoneme, vars
  <2>2. rest = <<x>> /\ next > 1
    BY <1>3, <2>1 DEF Rest
  <2>3. x \in Item
    <3>1. phones[next - 1] \in PhoneType
      BY <1>2, <2>2
    <3> QED
      BY <3>1 DEF Item
  <2> HIDE DEF x
  <2>4. given \o <<x>> = Append(given, x) \o <<>>
    BY <1>2, <2>3, Joined
  <2>5. UnitsTo(next - 1)' = UnitsTo(next - 1)
    BY <2>1 DEF UnitsTo, Expected, UnitsOf, Supported, find_unit, Key, NoLength, Cleared, KindOf
  <2>6. Rest(<<>>)' /\ <<>> \in Seq(Item) /\ UnitsTo(next - 1)' = given' \o <<>>
    BY <1>3, <2>1, <2>2, <2>4, <2>5 DEF Rest
  <2>7. ~finished /\ ~finished'
    BY <1>2, <2>1
  <2>8. given' \in Seq(Item)
    BY <1>2, <2>1, <2>3
  <2> QED
    BY <1>1, <1>2, <2>1, <2>6, <2>7, <2>8 DEF GivenInv
<1>8. CASE HaveUnit
  <2> DEFINE e == find_unit(phones[next - 1])
             offset == Offset(mCurrentUnit + 1)
             x == [unit |-> mCurrentUnit, share |-> offset]
  <2>1. /\ mState = "have_unit" /\ mCurrentUnit' = mCurrentUnit + 1
        /\ mRemainingOffset' = (mRemainingOffset - offset) % UInt8
        /\ given' = Append(given, x)
        /\ mState' = IF mCurrentUnit + 1 = mLastUnit THEN "need_phoneme" ELSE "have_unit"
        /\ UNCHANGED <<phonemes, phones, next, mLastUnit, finished>>
    BY <1>8 DEF HaveUnit, vars
  <2>2. /\ next > 1 /\ Supported(phones[next - 1])
        /\ mLastUnit = e.first_unit + e.num_units
        /\ \/ mCurrentUnit = e.first_unit /\ mRemainingOffset = 100 /\ rest = UnitsOf(e)
           \/ /\ e.num_units = 2 /\ mCurrentUnit = e.first_unit + 1
              /\ mRemainingOffset = 100 - PhonemeStart(e.first_unit + 1)
              /\ rest = <<[unit |-> mCurrentUnit, share |-> mRemainingOffset]>>
    BY <1>3, <2>1 DEF Rest
  <2>3. /\ e.first_unit \in Nat /\ (e.num_units = 1 \/ e.num_units = 2)
        /\ e.num_units = 2 =>
               /\ PhonemeStart(e.first_unit + 1) \in Int
               /\ 0 <= PhonemeStart(e.first_unit + 1)
               /\ PhonemeStart(e.first_unit + 1) <= 100
    BY <2>2, ShortEntry
  <2>4. /\ e.num_units = 1 => UnitsOf(e) = <<[unit |-> e.first_unit, share |-> 100]>>
        /\ e.num_units = 2 =>
               UnitsOf(e) = << [unit |-> e.first_unit, share |-> PhonemeStart(e.first_unit + 1)],
                               [unit |-> e.first_unit + 1, share |-> 100 - PhonemeStart(e.first_unit + 1)] >>
    BY <2>2, UnitsOfShort
  <2>5. UnitsTo(next - 1)' = UnitsTo(next - 1)
    BY <2>1 DEF UnitsTo, Expected, UnitsOf, Supported, find_unit, Key, NoLength, Cleared, KindOf
  <2>6. ~finished /\ ~finished'
    BY <1>2, <2>1
  <2>7. Supported(phones[next - 1])' /\ find_unit(phones[next - 1])' = e
    <3>1. phones'[next' - 1] = phones[next - 1] /\ phonemes' = phonemes
      BY <2>1
    <3> QED
      BY <2>2, <3>1, KeptLookup
  <2> HIDE DEF e
  <2> DEFINE next2 == << [unit |-> e.first_unit + 1, share |-> 100 - PhonemeStart(e.first_unit + 1)] >>
  <2>8. CASE mCurrentUnit + 1 = mLastUnit
    <3>1. offset = mRemainingOffset
      BY <2>8 DEF Offset
    <3>2. rest = <<x>>
      <4>1. CASE e.num_units = 1
        BY <2>2, <2>3, <2>4, <3>1, <4>1
      <4>2. CASE e.num_units = 2
        BY <2>2, <2>3, <2>8, <3>1, <4>2
      <4> QED
        BY <2>3, <4>1, <4>2
    <3>3. x \in Item
      <4>1. mCurrentUnit \in Nat /\ mRemainingOffset \in Int
        BY <2>2, <2>3
      <4> QED
        BY <3>1, <4>1 DEF Item
    <3> HIDE DEF x
    <3>4. given \o <<x>> = Append(given, x) \o <<>>
      BY <1>2, <3>3, Joined
    <3>5. Rest(<<>>)' /\ <<>> \in Seq(Item) /\ UnitsTo(next - 1)' = given' \o <<>>
      BY <1>3, <2>1, <2>5, <2>8, <3>2, <3>4 DEF Rest
    <3>6. given' \in Seq(Item)
      BY <1>2, <2>1, <3>3
    <3> QED
      BY <1>1, <1>2, <2>1, <2>6, <2>8, <3>5, <3>6 DEF GivenInv
  <2>9. CASE mCurrentUnit + 1 # mLastUnit
    <3> DEFINE y == [unit |-> e.first_unit + 1, share |-> 100 - PhonemeStart(e.first_unit + 1)]
    <3>1. e.num_units = 2 /\ mCurrentUnit = e.first_unit /\ mRemainingOffset = 100 /\ rest = UnitsOf(e)
      BY <2>2, <2>3, <2>9
    <3>2. offset = PhonemeStart(e.first_unit + 1)
      BY <2>9, <3>1 DEF Offset
    <3>3. rest = <<x, y>>
      BY <2>4, <3>1, <3>2
    <3>4. x \in Item /\ y \in Item
      <4>1. x = [unit |-> e.first_unit, share |-> PhonemeStart(e.first_unit + 1)]
        BY <3>1, <3>2
      <4> QED
        BY <2>3, <3>1, <4>1 DEF Item
    <3>5. mRemainingOffset' = 100 - PhonemeStart(e.first_unit + 1)
      <4> DEFINE r == 100 - PhonemeStart(e.first_unit + 1)
      <4>1. r \in Int /\ 0 <= r /\ r < UInt8 /\ UInt8 \in Int
        BY <2>3, <3>1, UnitAssumption
      <4>2. mRemainingOffset' = r % UInt8
        BY <2>1, <3>1, <3>2
      <4> HIDE DEF r
      <4>3. r % UInt8 = r
        BY <4>1
      <4> QED
        BY <4>2, <4>3 DEF r
    <3>6. /\ mState' = "have_unit" /\ mCurrentUnit' = e.first_unit + 1 /\ next' > 1
          /\ mLastUnit' = e.first_unit + e.num_units
      BY <2>1, <2>2, <2>9, <3>1
    <3>7. y = [unit |-> mCurrentUnit', share |-> mRemainingOffset']
      BY <3>5, <3>6
    <3> HIDE DEF y
    <3>8. PICK r : r = <<y>>
      OBVIOUS
    <3>9. Rest(r)'
      BY <2>7, <3>1, <3>5, <3>6, <3>7, <3>8 DEF Rest
    <3> HIDE DEF x
    <3>10. <<x, y>> = <<x>> \o <<y>> /\ <<y>> \in Seq(Item)
      BY <3>4
    <3>11. given \o (<<x>> \o <<y>>) = Append(given, x) \o <<y>>
      <4> HIDE DEF Item
      <4>1. given \in Seq(Item) /\ <<y>> \in Seq(Item) /\ x \in Item
        BY <1>2, <3>4, <3>10
      <4> QED
        BY <4>1, Joined
    <3>12. UnitsTo(next - 1)' = given' \o <<y>>
      BY <1>3, <2>1, <2>5, <3>3, <3>10, <3>11
    <3>13. \E s \in Seq(Item) : Rest(s)' /\ UnitsTo(next - 1)' = given' \o s
      BY <3>9, <3>10, <3>12, <3>8
    <3>14. given' \in Seq(Item)
      BY <1>2, <2>1, <3>4
    <3> QED
      BY <1>1, <1>2, <2>1, <2>6, <3>6, <3>13, <3>14 DEF GivenInv
  <2> QED
    BY <2>8, <2>9
<1>9. CASE UNCHANGED unitVars
  <2>1. UNCHANGED <<phonemes, phones, next, mCurrentUnit, mLastUnit, mRemainingOffset, mState, given, finished>>
    BY <1>9 DEF unitVars, vars, own
  <2>2. Rest(rest)'
    BY <1>3, <2>1, RestKept
  <2>3. UnitsTo(next - 1)' = UnitsTo(next - 1)
    BY <2>1 DEF UnitsTo, Expected, UnitsOf, Supported, find_unit, Key, NoLength, Cleared, KindOf
  <2> QED
    BY <1>2, <1>3, <2>1, <2>2, <2>3 DEF GivenInv
<1> QED
  BY <1>4, <1>5, <1>6, <1>7, <1>8, <1>9 DEF UnitNext

\* For a voice whose phones are of one unit or two, of which the first begins
\* where the phone does, read() gives the units of every phone in order, each
\* for its share of the phone, and keeps the pauses.
THEOREM UnitsAreThePhones ==
    ASSUME OneUnitOrTwo
    PROVE  UnitSpec => []UnitsOfPhonemes
<1>1. UnitInit => ReaderInv
  BY ReaderInit DEF UnitInit
<1>2. GivenInv => UnitsOfPhonemes
  <2> SUFFICES ASSUME GivenInv, finished
               PROVE  given = UnitsTo(Len(phones))
    BY DEF UnitsOfPhonemes, UnitsTo
  <2>1. PICK rest \in Seq(Item) : Rest(rest) /\ UnitsTo(next - 1) = given \o rest
    BY DEF GivenInv
  <2>2. mState = "need_phoneme" /\ next = Len(phones) + 1 /\ Len(phones) \in Nat /\ given \in Seq(Item)
    BY DEF GivenInv
  <2>3. rest = <<>>
    BY <2>1, <2>2 DEF Rest
  <2>4. next - 1 = Len(phones) /\ given \o <<>> = given
    BY <2>2
  <2> QED
    BY <2>1, <2>3, <2>4
<1> QED
  BY <1>1, <1>2, GivenInit, GivenNext, ReaderUnitNext, PTL DEF UnitSpec

-----------------------------------------------------------------------------
(* The chain of halves.                                                     *)

IsSeq(s) == s \in Seq({s[i] : i \in 1 .. Len(s)})

LEMMA AppendKeeps ==
    ASSUME NEW s, IsSeq(s), NEW e
    PROVE  /\ IsSeq(Append(s, e))
           /\ Len(s) \in Nat /\ Len(Append(s, e)) = Len(s) + 1
           /\ \A i \in 1 .. Len(s) : Append(s, e)[i] = s[i]
           /\ Append(s, e)[Len(s) + 1] = e
<1> DEFINE S == {s[i] : i \in 1 .. Len(s)} \cup {e}
           t == Append(s, e)
<1>1. s \in Seq(S) /\ e \in S
  <2>1. {s[i] : i \in 1 .. Len(s)} \subseteq S
    OBVIOUS
  <2> QED
    BY <2>1 DEF IsSeq
<1> HIDE DEF S
<1>2. /\ Len(s) \in Nat /\ Len(t) = Len(s) + 1
      /\ \A i \in 1 .. Len(s) : t[i] = s[i]
      /\ t[Len(s) + 1] = e
      /\ t \in Seq(S)
  BY <1>1
<1> HIDE DEF t
<1>3. t \in Seq({t[i] : i \in 1 .. Len(t)})
  BY <1>2
<1> QED
  BY <1>2, <1>3 DEF IsSeq, t

\* The diphones so far are a chain to the phone before the next one, and its
\* half is the one that is kept.
ChainInv ==
    /\ Len(mPhones) \in Nat /\ nextPhone \in 1 .. Len(mPhones) + 1
    /\ mLastDiphone \in BOOLEAN
    /\ mLastDiphone => nextPhone = Len(mPhones) + 1
    /\ atEnd => mLastDiphone
    /\ IsSeq(diphones)
    /\ Len(diphones) = IF mLastDiphone THEN nextPhone ELSE nextPhone - 1
    /\ second.of = IF mLastDiphone THEN 0 ELSE nextPhone - 1
    /\ \A i \in 1 .. Len(diphones) :
           /\ diphones[i].first.of = i - 1
           /\ diphones[i].second.of = IF i > Len(mPhones) THEN 0 ELSE i
           /\ i > 1 => diphones[i].first = diphones[i - 1].second
    /\ diphones # <<>> => second = diphones[Len(diphones)].second

LEMMA ChainInit == DiphoneInit => ChainInv
<1> SUFFICES ASSUME DiphoneInit
             PROVE  ChainInv
  OBVIOUS
<1>1. mPhones \in Seq(SpokenPhone)
  BY DiphoneAssumption DEF DiphoneInit
<1>2. Len(mPhones) \in Nat
  BY <1>1
<1>3. diphones = <<>> /\ IsSeq(diphones) /\ Len(diphones) = 0
  BY DEF DiphoneInit, IsSeq
<1>4. nextPhone = 1 /\ mLastDiphone \in BOOLEAN /\ ~mLastDiphone /\ ~atEnd /\ second.of = 0
  BY DEF DiphoneInit, Pause
<1>5. \A i \in 1 .. Len(diphones) : FALSE
  BY <1>3
<1>6. nextPhone \in 1 .. Len(mPhones) + 1 /\ second.of = nextPhone - 1 /\ Len(diphones) = nextPhone - 1
  BY <1>2, <1>3, <1>4
<1>7. ~(diphones # <<>>)
  BY <1>3
<1> QED
  BY <1>2, <1>3, <1>4, <1>5, <1>6, <1>7 DEF ChainInv

\* A diphone of the half that is kept and the next one makes the chain longer.
LEMMA ChainGrows ==
    ASSUME ChainInv, ~mLastDiphone, NEW half, NEW env,
           UNCHANGED mPhones,
           diphones' = Given(second, half, env), second' = half,
           \/ nextPhone <= Len(mPhones) /\ nextPhone' = nextPhone + 1 /\ half.of = nextPhone /\ UNCHANGED <<mLastDiphone, atEnd>>
           \/ nextPhone > Len(mPhones) /\ UNCHANGED nextPhone /\ half.of = 0 /\ mLastDiphone' = TRUE /\ UNCHANGED atEnd
    PROVE  ChainInv'
<1> DEFINE d == [first |-> second, second |-> half, envelope |-> env]
<1>1. diphones' = Append(diphones, d)
  BY DEF Given
<1>2. /\ IsSeq(diphones') /\ Len(diphones) \in Nat /\ Len(diphones') = Len(diphones) + 1
      /\ \A i \in 1 .. Len(diphones) : diphones'[i] = diphones[i]
      /\ diphones'[Len(diphones) + 1] = d
  BY <1>1, AppendKeeps DEF ChainInv
<1>3. d.first = second /\ d.second = half
  OBVIOUS
<1> HIDE DEF d
<1>4. Len(diphones) = nextPhone - 1 /\ second.of = nextPhone - 1 /\ nextPhone \in 1 .. Len(mPhones) + 1 /\ Len(mPhones) \in Nat
  BY DEF ChainInv
<1>5. ASSUME NEW i \in 1 .. Len(diphones')
      PROVE  /\ diphones'[i].first.of = i - 1
             /\ diphones'[i].second.of = IF i > Len(mPhones) THEN 0 ELSE i
             /\ i > 1 => diphones'[i].first = diphones'[i - 1].second
  <2>1. CASE i \in 1 .. Len(diphones)
    <3>1. diphones'[i] = diphones[i] /\ (i > 1 => diphones'[i - 1] = diphones[i - 1])
      BY <1>2, <2>1
    <3> QED
      BY <2>1, <3>1 DEF ChainInv
  <2>2. CASE i = Len(diphones) + 1
    <3>1. diphones'[i].first = second /\ diphones'[i].second = half /\ i = nextPhone
      BY <1>2, <1>3, <1>4, <2>2
    <3>2. half.of = IF i > Len(mPhones) THEN 0 ELSE i
      BY <1>4, <3>1
    <3>3. ASSUME i > 1
          PROVE  diphones'[i - 1].second = second
      <4>1. Len(diphones) > 0 /\ i - 1 = Len(diphones)
        BY <1>2, <2>2, <3>3
      <4>2. diphones'[i - 1] = diphones[Len(diphones)] /\ diphones # <<>>
        BY <1>2, <4>1
      <4> QED
        BY <4>2 DEF ChainInv
    <3> QED
      BY <1>4, <3>1, <3>2, <3>3
  <2> QED
    BY <1>2, <2>1, <2>2
<1>6. second' = diphones'[Len(diphones')].second
  BY <1>2, <1>3
<1>7. CASE nextPhone <= Len(mPhones) /\ nextPhone' = nextPhone + 1 /\ half.of = nextPhone /\ UNCHANGED <<mLastDiphone, atEnd>>
  <2>1. mLastDiphone' = FALSE /\ atEnd' = FALSE
    BY <1>7 DEF ChainInv
  <2>2. nextPhone' \in 1 .. Len(mPhones') + 1 /\ Len(diphones') = nextPhone' - 1 /\ second'.of = nextPhone' - 1
    BY <1>2, <1>4, <1>7
  <2> QED
    BY <1>2, <1>4, <1>5, <1>6, <2>1, <2>2 DEF ChainInv
<1>8. CASE nextPhone > Len(mPhones) /\ UNCHANGED nextPhone /\ half.of = 0 /\ mLastDiphone' = TRUE /\ UNCHANGED atEnd
  <2>1. nextPhone' = Len(mPhones') + 1 /\ Len(diphones') = nextPhone' /\ second'.of = 0
    BY <1>2, <1>4, <1>8
  <2> QED
    BY <1>2, <1>4, <1>5, <1>6, <1>8, <2>1 DEF ChainInv
<1> QED
  BY <1>7, <1>8

LEMMA ChainNext == ChainInv /\ [DiphoneNext]_diphoneVars => ChainInv'
<1> SUFFICES ASSUME ChainInv, [DiphoneNext]_diphoneVars
             PROVE  ChainInv'
  OBVIOUS
<1>1. CASE ReadDiphone
  <2> DEFINE half == [of |-> nextPhone, duration |-> mPhones[nextPhone].duration \div 2]
  <2>1. ~mLastDiphone
    BY <1>1 DEF ReadDiphone, ChainInv
  <2>2. half.of = nextPhone
    OBVIOUS
  <2>3. /\ nextPhone <= Len(mPhones) /\ nextPhone' = nextPhone + 1 /\ UNCHANGED <<mPhones, mLastDiphone, atEnd>>
        /\ second' = half
        /\ diphones' = Given(second, half, SplitEnvelope(mPhones[nextPhone]).envelope)
    BY <1>1 DEF ReadDiphone
  <2> HIDE DEF half
  <2> QED
    BY <2>1, <2>2, <2>3, ChainGrows
<1>2. CASE LastDiphone
  <2>1. Pause.of = 0
    BY DEF Pause
  <2>2. /\ nextPhone > Len(mPhones) /\ ~mLastDiphone /\ mLastDiphone' = TRUE
        /\ UNCHANGED <<mPhones, nextPhone, atEnd>>
        /\ second' = Pause /\ diphones' = Given(second, Pause, mRemainingEnvelope)
    BY <1>2 DEF LastDiphone
  <2> QED
    BY <2>1, <2>2, ChainGrows
<1>3. CASE EndOfPhones
  BY <1>3 DEF EndOfPhones, ChainInv, IsSeq
<1>4. CASE UNCHANGED diphoneVars
  BY <1>4 DEF diphoneVars, ChainInv, IsSeq
<1> QED
  BY <1>1, <1>2, <1>3, <1>4 DEF DiphoneNext

LEMMA ChainImplies == ChainInv => Chained
<1> SUFFICES ASSUME ChainInv, atEnd
             PROVE  /\ Len(diphones) = Len(mPhones) + 1
                    /\ \A i \in 1 .. Len(diphones) :
                           /\ diphones[i].first.of = i - 1
                           /\ diphones[i].second.of = IF i = Len(diphones) THEN 0 ELSE i
                           /\ i > 1 => diphones[i].first = diphones[i - 1].second
  BY DEF Chained
<1>1. Len(diphones) = Len(mPhones) + 1 /\ Len(mPhones) \in Nat
  BY DEF ChainInv
<1> QED
  BY <1>1 DEF ChainInv

\* Whatever the phones and their envelopes, the diphones of a text are a chain
\* of their halves, from a pause to a pause.
THEOREM DiphonesChain == DiphoneInit /\ [][DiphoneNext]_diphoneVars => []Chained
  BY ChainInit, ChainNext, ChainImplies, PTL


-----------------------------------------------------------------------------
(* The loop over the envelope of a phone.                                   *)

\* Points of a diphone may have an interpolated pitch.
AnyPoint == [offset : 0 .. 100, pitch : Int]

\* What the loop starts with: points of the second half of the phone before.
IsRemainder(rem) ==
    rem \in Seq(AnyPoint) /\ InOrder(rem) /\ \A i \in 1 .. Len(rem) : rem[i].offset <= 50

IsEnvelope(points) == points \in Seq(Point) /\ InOrder(points)

LEMMA PointFacts == \A y \in Point : y.offset \in Int /\ 0 <= y.offset /\ y.offset <= 100 /\ y.pitch \in Nat
  BY DEF Point

LEMMA AnyPointFacts == \A y \in AnyPoint : y.offset \in Int /\ 0 <= y.offset /\ y.offset <= 100 /\ y.pitch \in Int
  BY DEF AnyPoint

\* A point that is moved keeps its pitch.
LEMMA PointMoved ==
    ASSUME NEW point \in Point, NEW o \in Int, 0 <= o, o <= 100
    PROVE  /\ [point EXCEPT !.offset = o] \in AnyPoint
           /\ [point EXCEPT !.offset = o].offset = o
           /\ [point EXCEPT !.offset = o].pitch = point.pitch
  BY DEF Point, AnyPoint

\* The point at the middle is the end of a diphone and the start of the next.
LEMMA MiddleMoved ==
    ASSUME NEW point \in Point
    PROVE  /\ [point EXCEPT !.offset = 100] \in AnyPoint
           /\ [point EXCEPT !.offset = 100].offset = 100
           /\ [point EXCEPT !.offset = 100].pitch = point.pitch
           /\ [point EXCEPT !.offset = 0] \in AnyPoint
           /\ [point EXCEPT !.offset = 0].offset = 0
           /\ [point EXCEPT !.offset = 0].pitch = point.pitch
  BY DEF Point, AnyPoint

LEMMA NewPoint ==
    ASSUME NEW o \in Int, 0 <= o, o <= 100, NEW p \in Int
    PROVE  [offset |-> o, pitch |-> p] \in AnyPoint
  BY DEF AnyPoint

LEMMA AppendPoint ==
    ASSUME NEW q \in Seq(AnyPoint), NEW x \in AnyPoint, InOrder(q),
           q # <<>> => Last(q).offset < x.offset
    PROVE  /\ Append(q, x) \in Seq(AnyPoint) /\ InOrder(Append(q, x))
           /\ Append(q, x) # <<>> /\ Last(Append(q, x)) = x
           /\ Len(q) \in Nat /\ Len(Append(q, x)) = Len(q) + 1 /\ Append(q, x)[Len(q) + 1] = x
           /\ \A i \in 1 .. Len(q) : Append(q, x)[i] = q[i]
<1> DEFINE t == Append(q, x)
<1>1. /\ t \in Seq(AnyPoint) /\ Len(q) \in Nat /\ Len(t) = Len(q) + 1 /\ t[Len(q) + 1] = x
      /\ \A i \in 1 .. Len(q) : t[i] = q[i]
  OBVIOUS
<1>2. \A i \in 1 .. Len(q) : q[i] \in AnyPoint
  OBVIOUS
<1> HIDE DEF t
<1>3. \A i \in 1 .. Len(q) : q[i].offset < x.offset
  <2> TAKE i \in 1 .. Len(q)
  <2>1. q # <<>> /\ Len(q) \in 1 .. Len(q) /\ Last(q) = q[Len(q)]
    BY <1>1 DEF Last
  <2>2. i = Len(q) \/ q[i].offset < q[Len(q)].offset
    BY <1>1, <2>1 DEF InOrder
  <2>3. \A y \in AnyPoint : y.offset \in Int
    BY AnyPointFacts
  <2>4. q[i].offset \in Int /\ q[Len(q)].offset \in Int /\ x.offset \in Int
    BY <1>2, <2>1, <2>3
  <2> QED
    BY <2>1, <2>2, <2>4
<1>4. InOrder(t)
  <2> SUFFICES ASSUME NEW i \in 1 .. Len(t), NEW j \in 1 .. Len(t), i < j
               PROVE  t[i].offset < t[j].offset
    BY DEF InOrder
  <2>1. i \in 1 .. Len(q)
    BY <1>1
  <2>2. CASE j \in 1 .. Len(q)
    BY <1>1, <2>1, <2>2 DEF InOrder
  <2>3. CASE j = Len(q) + 1
    BY <1>1, <1>3, <2>1, <2>3
  <2> QED
    BY <1>1, <2>2, <2>3
<1>5. t # <<>> /\ Last(t) = x
  BY <1>1 DEF Last
<1> QED
  BY <1>1, <1>4, <1>5 DEF t

\* A sequence that goes on from q.
Keeps(t, q) == Len(q) <= Len(t) /\ \A i \in 1 .. Len(q) : t[i] = q[i]

\* What was added to what remained is of the first half of the phone.
AfterMiddle(env, rem) == \A i \in Len(rem) + 1 .. Len(env) : env[i].offset >= 50

\* Each of the first k points is in the half of the phone that it belongs to.
Places(env, rest, points, k) ==
    \A j \in 1 .. k :
        IF points[j].offset <= 50
        THEN \E i \in 1 .. Len(env) : env[i].offset = points[j].offset + 50
        ELSE \E i \in 1 .. Len(rest) : rest[i].offset = points[j].offset - 50

LEMMA PlacesKept ==
    ASSUME NEW env, NEW rest, NEW env2, NEW rest2, NEW points, NEW k \in Nat,
           Len(env) \in Nat, Len(rest) \in Nat, Len(env2) \in Nat, Len(rest2) \in Nat,
           Keeps(env2, env), Keeps(rest2, rest), Places(env, rest, points, k),
           IF points[k + 1].offset <= 50
           THEN \E i \in 1 .. Len(env2) : env2[i].offset = points[k + 1].offset + 50
           ELSE \E i \in 1 .. Len(rest2) : rest2[i].offset = points[k + 1].offset - 50
    PROVE  Places(env2, rest2, points, k + 1)
<1> SUFFICES ASSUME NEW j \in 1 .. k + 1
             PROVE  IF points[j].offset <= 50
                    THEN \E i \in 1 .. Len(env2) : env2[i].offset = points[j].offset + 50
                    ELSE \E i \in 1 .. Len(rest2) : rest2[i].offset = points[j].offset - 50
  BY DEF Places
<1>1. CASE j = k + 1
  BY <1>1
<1>2. CASE j \in 1 .. k
  <2>1. \A i \in 1 .. Len(env) : i \in 1 .. Len(env2) /\ env2[i] = env[i]
    BY DEF Keeps
  <2>2. \A i \in 1 .. Len(rest) : i \in 1 .. Len(rest2) /\ rest2[i] = rest[i]
    BY DEF Keeps
  <2> QED
    BY <1>2, <2>1, <2>2 DEF Places
<1> QED
  BY <1>1, <1>2

\* After k points the diphone's envelope goes on from what remained; before the
\* middle nothing remains for the next diphone, and from the middle on the last
\* point remains; and each point so far is in one of the two.
IsSplit(s, rem, points, k) ==
    /\ s \in [envelope : Seq(AnyPoint), remaining : Seq(AnyPoint), haveMidpoint : BOOLEAN]
    /\ InOrder(s.envelope) /\ InOrder(s.remaining)
    /\ Keeps(s.envelope, rem) /\ AfterMiddle(s.envelope, rem)
    /\ \A i \in 1 .. Len(s.remaining) : s.remaining[i].offset <= 50
    /\ k = 0 => s.envelope = rem /\ s.remaining = <<>> /\ ~s.haveMidpoint
    /\ k > 0 /\ points[k].offset < 50 =>
           /\ ~s.haveMidpoint /\ s.remaining = <<>>
           /\ s.envelope # <<>> /\ Last(s.envelope).offset = points[k].offset + 50
    /\ k > 0 /\ points[k].offset >= 50 =>
           /\ s.haveMidpoint /\ s.remaining # <<>>
           /\ Last(s.remaining).offset = points[k].offset - 50
           /\ Last(s.remaining).pitch = points[k].pitch
    /\ Places(s.envelope, s.remaining, points, k)

LEMMA DivInt ==
    ASSUME NEW a \in Int, NEW d \in Nat, d > 0
    PROVE  a \div d \in Int
  OBVIOUS

\* The interpolated pitch is a number, as the divisor is positive.
LEMMA PitchAtMiddleType ==
    ASSUME NEW env \in Seq(AnyPoint), NEW point \in Point, point.offset > 50
    PROVE  PitchAtMiddle(env, point) \in Int
<1>1. point.pitch \in Int /\ point.offset \in Int
  BY PointFacts
<1>2. CASE env = <<>>
  BY <1>1, <1>2 DEF PitchAtMiddle
<1>3. CASE env # <<>>
  <2>1. Last(env) \in AnyPoint
    BY <1>3 DEF Last
  <2>2. Last(env).pitch \in Int /\ Last(env).offset \in Int /\ Last(env).offset <= 100
    BY <2>1, AnyPointFacts
  <2> DEFINE a == (point.offset - 50) * (point.pitch - Last(env).pitch)
             d == point.offset - (Last(env).offset - 50)
  <2>3. a \in Int
    BY <1>1, <2>2
  <2>4. d \in Nat /\ d > 0
    BY <1>1, <2>2
  <2>5. PitchAtMiddle(env, point) = point.pitch \/ PitchAtMiddle(env, point) = Last(env).pitch + a \div d
    BY DEF PitchAtMiddle
  <2> HIDE DEF a, d
  <2>6. a \div d \in Int
    BY <2>3, <2>4, DivInt
  <2> QED
    BY <1>1, <2>2, <2>5, <2>6
<1> QED
  BY <1>2, <1>3

LEMMA SplitStart ==
    ASSUME NEW rem, IsRemainder(rem), NEW points
    PROVE  IsSplit(Split(rem, <<>>, FALSE), rem, points, 0)
<1>1. Len(rem) \in Nat /\ rem \in Seq(AnyPoint) /\ InOrder(rem)
  BY DEF IsRemainder
<1>2. Split(rem, <<>>, FALSE) \in [envelope : Seq(AnyPoint), remaining : Seq(AnyPoint), haveMidpoint : BOOLEAN]
  BY <1>1 DEF Split
<1>3. InOrder(<<>>)
  BY DEF InOrder
<1>4. Keeps(rem, rem)
  BY <1>1 DEF Keeps
<1>5. Places(rem, <<>>, points, 0)
  BY DEF Places
<1>6. AfterMiddle(rem, rem)
  BY <1>1 DEF AfterMiddle
<1> QED
  BY <1>1, <1>2, <1>3, <1>4, <1>5, <1>6 DEF IsSplit, Split

LEMMA KeepsTypes ==
    ASSUME NEW q \in Seq(AnyPoint), NEW x \in AnyPoint
    PROVE  Keeps(q, q) /\ Keeps(Append(q, x), q)
  BY DEF Keeps

LEMMA AfterMiddleKept ==
    ASSUME NEW q \in Seq(AnyPoint), NEW x \in AnyPoint, NEW rem, Len(rem) \in Nat,
           AfterMiddle(q, rem), x.offset >= 50
    PROVE  AfterMiddle(Append(q, x), rem)
<1> DEFINE t == Append(q, x)
<1>1. /\ Len(q) \in Nat /\ Len(t) = Len(q) + 1 /\ t[Len(q) + 1] = x
      /\ \A i \in 1 .. Len(q) : t[i] = q[i]
  OBVIOUS
<1> HIDE DEF t
<1>2. ASSUME NEW i \in Len(rem) + 1 .. Len(t)
      PROVE  t[i].offset >= 50
  <2>1. CASE i = Len(q) + 1
    BY <1>1, <2>1
  <2>2. CASE i # Len(q) + 1
    <3>1. i \in Len(rem) + 1 .. Len(q) /\ i \in 1 .. Len(q)
      BY <1>1, <2>2
    <3> QED
      BY <1>1, <3>1 DEF AfterMiddle
  <2> QED
    BY <2>1, <2>2
<1> QED
  BY <1>2 DEF AfterMiddle, t

LEMMA KeepsOn ==
    ASSUME NEW q, NEW t, NEW u, Len(q) \in Nat, Len(t) \in Nat, Len(u) \in Nat, Keeps(t, q), Keeps(u, t)
    PROVE  Keeps(u, q)
  BY DEF Keeps

\* One point more.  The first point is skipped where the point that remained
\* stands at the same place.
LEMMA SplitStep ==
    ASSUME NEW rem, IsRemainder(rem), NEW points, IsEnvelope(points),
           NEW k \in 0 .. Len(points) - 1, NEW s, IsSplit(s, rem, points, k)
    PROVE  IsSplit(AddPoint(s, points[k + 1]), rem, points, k + 1)
<1> DEFINE point == points[k + 1]
           State == [envelope : Seq(AnyPoint), remaining : Seq(AnyPoint), haveMidpoint : BOOLEAN]
           t == AddPoint(s, point)
<1>1. /\ Len(points) \in Nat /\ k + 1 \in 1 .. Len(points) /\ k \in Nat
      /\ point \in Point
      /\ k > 0 => k \in 1 .. Len(points) /\ points[k] \in Point
  BY DEF IsEnvelope
<1>2. \A y \in Point : y.offset \in Int /\ 0 <= y.offset /\ y.offset <= 100 /\ y.pitch \in Int
  BY PointFacts
<1>3. point.offset \in Int /\ 0 <= point.offset /\ point.offset <= 100 /\ point.pitch \in Int
  BY <1>1, <1>2
<1>4. k > 0 => /\ points[k].offset \in Int /\ 0 <= points[k].offset
               /\ points[k].offset < point.offset
  <2>1. k > 0 => points[k].offset \in Int /\ 0 <= points[k].offset
    BY <1>1, <1>2
  <2>2. k > 0 => points[k].offset < point.offset
    BY <1>1 DEF IsEnvelope, InOrder
  <2> QED
    BY <2>1, <2>2
<1>5. /\ s \in State /\ InOrder(s.envelope) /\ InOrder(s.remaining)
      /\ Keeps(s.envelope, rem) /\ AfterMiddle(s.envelope, rem)
      /\ \A i \in 1 .. Len(s.remaining) : s.remaining[i].offset <= 50
      /\ Places(s.envelope, s.remaining, points, k)
  BY DEF IsSplit
<1>6. /\ s.envelope \in Seq(AnyPoint) /\ s.remaining \in Seq(AnyPoint) /\ s.haveMidpoint \in BOOLEAN
      /\ Len(s.envelope) \in Nat /\ Len(s.remaining) \in Nat
      /\ rem \in Seq(AnyPoint) /\ Len(rem) \in Nat
  <2>1. s.envelope \in Seq(AnyPoint) /\ s.remaining \in Seq(AnyPoint) /\ s.haveMidpoint \in BOOLEAN
    BY <1>5
  <2> QED
    BY <2>1 DEF IsRemainder
<1>7. k = 0 => s.envelope = rem /\ s.remaining = <<>> /\ ~s.haveMidpoint
  BY DEF IsSplit
<1>8. k > 0 /\ points[k].offset < 50 =>
          /\ ~s.haveMidpoint /\ s.remaining = <<>>
          /\ s.envelope # <<>> /\ Last(s.envelope).offset = points[k].offset + 50
  BY DEF IsSplit
<1>9. k > 0 /\ points[k].offset >= 50 =>
          /\ s.haveMidpoint /\ s.remaining # <<>>
          /\ Last(s.remaining).offset = points[k].offset - 50
          /\ Last(s.remaining).pitch = points[k].pitch
  BY DEF IsSplit
<1>10. rem # <<>> => Last(rem) \in AnyPoint /\ Last(rem).offset <= 50
  <2>1. rem # <<>> => Len(rem) \in 1 .. Len(rem) /\ Last(rem) = rem[Len(rem)]
    BY <1>6 DEF Last
  <2> QED
    BY <1>6, <2>1 DEF IsRemainder
<1> DEFINE meets == point.offset = 0 /\ s.envelope # <<>> /\ Last(s.envelope).offset = 50
<1>12. \A y \in AnyPoint : y.offset \in Int /\ y.pitch \in Int
  BY AnyPointFacts
<1> HIDE DEF point, State
<1>13. CASE meets
  <2>1. t = s
    BY <1>13 DEF AddPoint
  <2>2. k = 0
    BY <1>1, <1>3, <1>4, <1>13
  <2>3. Len(s.envelope) \in 1 .. Len(s.envelope) /\ s.envelope[Len(s.envelope)].offset = point.offset + 50
    BY <1>6, <1>13 DEF Last
  <2>4. Keeps(s.envelope, s.envelope) /\ Keeps(s.remaining, s.remaining)
    BY <1>6 DEF Keeps
  <2>5. Places(s.envelope, s.remaining, points, k + 1)
    BY <1>1, <1>5, <1>6, <1>13, <2>3, <2>4, PlacesKept, SMTT(30) DEF point
  <2>6. point.offset < 50 /\ Last(s.envelope).offset = point.offset + 50 /\ s.envelope # <<>>
    BY <1>13
  <2> QED
    <3> HIDE DEF t
    <3>1. IsSplit(s, rem, points, k + 1)
      BY <1>1, <1>3, <1>5, <1>7, <2>2, <2>5, <2>6 DEF IsSplit, point, State
    <3> QED
      BY <2>1, <3>1 DEF t, point
<1>14. CASE point.offset < 50 /\ ~meets
  <2> DEFINE x == [point EXCEPT !.offset = point.offset + 50]
             e == Append(s.envelope, x)
  <2>1. x \in AnyPoint /\ x.offset = point.offset + 50 /\ x.pitch = point.pitch
    <3>1. point.offset + 50 \in Int /\ 0 <= point.offset + 50 /\ point.offset + 50 <= 100
      BY <1>3, <1>14
    <3> QED
      BY <1>1, <3>1, PointMoved
  <2>2. s.envelope # <<>> => Last(s.envelope).offset < x.offset
    <3>1. CASE k = 0
      <4>1. s.envelope = rem
        BY <1>7, <3>1
      <4>2. rem # <<>> => Last(rem).offset \in Int
        BY <1>10, <1>12
      <4> QED
        BY <1>3, <1>10, <1>14, <2>1, <4>1, <4>2
    <3>2. CASE k > 0
      BY <1>3, <1>4, <1>8, <1>14, <2>1, <3>2
    <3> QED
      BY <1>1, <3>1, <3>2
  <2>3. t = [s EXCEPT !.envelope = e]
    <3>1. ~(point.offset = 50) /\ ~(point.offset > 50)
      BY <1>3, <1>14
    <3> QED
      BY <1>14, <3>1 DEF AddPoint
  <2> HIDE DEF x
  <2>4. /\ e \in Seq(AnyPoint) /\ InOrder(e) /\ e # <<>> /\ Last(e) = x
        /\ Len(e) = Len(s.envelope) + 1 /\ e[Len(s.envelope) + 1] = x
    BY <1>5, <1>6, <2>1, <2>2, AppendPoint
  <2>5. Keeps(e, s.envelope)
    BY <1>6, <2>1, KeepsTypes
  <2>11. AfterMiddle(e, rem)
    <3>1. x.offset >= 50
      BY <1>3, <2>1
    <3> QED
      BY <1>5, <1>6, <2>1, <3>1, AfterMiddleKept
  <2> HIDE DEF e
  <2>6. t \in State /\ t.envelope = e /\ t.remaining = s.remaining /\ t.haveMidpoint = s.haveMidpoint
    BY <1>5, <2>3, <2>4 DEF State
  <2>7. Keeps(e, rem)
    BY <1>5, <1>6, <2>4, <2>5, KeepsOn
  <2>8. Places(e, s.remaining, points, k + 1)
    <3>1. Len(e) \in 1 .. Len(e) /\ e[Len(e)].offset = point.offset + 50 /\ Len(e) \in Nat
      BY <1>6, <2>1, <2>4
    <3>2. Keeps(s.remaining, s.remaining)
      BY <1>6 DEF Keeps
    <3> QED
      BY <1>1, <1>3, <1>5, <1>6, <1>14, <2>5, <3>1, <3>2, PlacesKept, SMTT(30) DEF point
  <2>9. ~s.haveMidpoint /\ s.remaining = <<>>
    BY <1>1, <1>3, <1>4, <1>7, <1>8, <1>14
  <2> HIDE DEF t
  <2>10. IsSplit(t, rem, points, k + 1)
    BY <1>1, <1>3, <1>5, <1>14, <2>1, <2>4, <2>6, <2>7, <2>8, <2>9, <2>11 DEF IsSplit, point, State
  <2> QED
    BY <2>10 DEF t, point
<1>15. CASE point.offset = 50
  <2> DEFINE x == [point EXCEPT !.offset = 100]
             y == [point EXCEPT !.offset = 0]
             e == Append(s.envelope, x)
             r == Append(s.remaining, y)
  <2>1. /\ x \in AnyPoint /\ x.offset = 100 /\ x.pitch = point.pitch
        /\ y \in AnyPoint /\ y.offset = 0 /\ y.pitch = point.pitch
    BY <1>1, MiddleMoved
  <2>2. s.envelope # <<>> => Last(s.envelope).offset < x.offset
    <3>1. CASE k = 0
      <4>1. rem # <<>> => Last(rem).offset \in Int
        BY <1>10, <1>12
      <4> QED
        BY <1>7, <1>10, <2>1, <3>1, <4>1
    <3>2. CASE k > 0
      BY <1>3, <1>4, <1>8, <1>15, <2>1, <3>2
    <3> QED
      BY <1>1, <3>1, <3>2
  <2>3. s.remaining = <<>>
    BY <1>1, <1>3, <1>4, <1>7, <1>8, <1>15
  <2>4. t = Split(e, r, TRUE)
    <3>1. ~(point.offset < 50) /\ ~(point.offset > 50) /\ ~(point.offset = 0)
      BY <1>3, <1>15
    <3> QED
      BY <1>15, <3>1 DEF AddPoint
  <2> HIDE DEF x, y
  <2>5. /\ e \in Seq(AnyPoint) /\ InOrder(e) /\ e # <<>> /\ Last(e) = x
        /\ Len(e) = Len(s.envelope) + 1 /\ e[Len(s.envelope) + 1] = x
    BY <1>5, <1>6, <2>1, <2>2, AppendPoint
  <2>6. /\ r \in Seq(AnyPoint) /\ InOrder(r) /\ r # <<>> /\ Last(r) = y
        /\ Len(r) = 1 /\ r[1] = y
    <3>1. s.remaining # <<>> => Last(s.remaining).offset < y.offset
      BY <2>3
    <3>2. Len(s.remaining) = 0 /\ InOrder(s.remaining)
      BY <1>5, <2>3
    <3> QED
      BY <1>6, <2>1, <3>1, <3>2, AppendPoint
  <2>7. Keeps(e, s.envelope) /\ Keeps(r, s.remaining)
    BY <1>6, <2>1, KeepsTypes
  <2>13. AfterMiddle(e, rem)
    <3>1. x.offset >= 50
      BY <2>1
    <3> QED
      BY <1>5, <1>6, <2>1, <3>1, AfterMiddleKept
  <2> HIDE DEF e, r
  <2>8. t \in State /\ t.envelope = e /\ t.remaining = r /\ t.haveMidpoint
    BY <2>4, <2>5, <2>6 DEF Split, State
  <2>9. Keeps(e, rem)
    BY <1>5, <1>6, <2>5, <2>7, KeepsOn
  <2>10. Places(e, r, points, k + 1)
    <3>1. Len(e) \in 1 .. Len(e) /\ e[Len(e)].offset = point.offset + 50 /\ Len(e) \in Nat /\ Len(r) \in Nat
      BY <1>6, <1>15, <2>1, <2>5, <2>6
    <3> QED
      BY <1>1, <1>5, <1>6, <1>15, <2>7, <3>1, PlacesKept DEF point
  <2>11. \A i \in 1 .. Len(r) : r[i].offset <= 50
    BY <2>1, <2>6
  <2> HIDE DEF t
  <2>12. IsSplit(t, rem, points, k + 1)
    <3>1. /\ r # <<>> /\ Last(r).offset = point.offset - 50 /\ Last(r).pitch = point.pitch
          /\ ~(point.offset < 50) /\ k + 1 > 0 /\ k + 1 # 0
      BY <1>1, <1>15, <2>1, <2>6
    <3>2. InOrder(e) /\ InOrder(r)
      BY <2>5, <2>6
    <3> QED
      BY <2>8, <2>9, <2>10, <2>11, <2>13, <3>1, <3>2 DEF IsSplit, point, State
  <2> QED
    BY <2>12 DEF t, point
<1>16. CASE point.offset > 50
  <2> DEFINE w == AddMidpoint(s, PitchAtMiddle(s.envelope, point))
             y == [point EXCEPT !.offset = point.offset - 50]
             r == Append(w.remaining, y)
  <2>1. y \in AnyPoint /\ y.offset = point.offset - 50 /\ y.pitch = point.pitch
    <3>1. point.offset - 50 \in Int /\ 0 <= point.offset - 50 /\ point.offset - 50 <= 100
      BY <1>3, <1>16
    <3> QED
      BY <1>1, <3>1, PointMoved
  <2>2. t = [w EXCEPT !.remaining = r]
    <3>1. ~(point.offset < 50) /\ ~(point.offset = 50) /\ ~(point.offset = 0)
      BY <1>3, <1>16
    <3> QED
      BY <1>16, <3>1 DEF AddPoint
  <2>3. /\ w \in State /\ InOrder(w.envelope) /\ InOrder(w.remaining) /\ w.haveMidpoint
        /\ Keeps(w.envelope, s.envelope) /\ Keeps(w.remaining, s.remaining)
        /\ AfterMiddle(w.envelope, rem)
        /\ w.remaining # <<>> => Last(w.remaining).offset < y.offset
        /\ \A i \in 1 .. Len(w.remaining) : w.remaining[i].offset <= 50
    <3>1. CASE s.haveMidpoint
      <4>1. w = s
        BY <3>1 DEF AddMidpoint
      <4>2. k > 0 /\ points[k].offset >= 50
        BY <1>1, <1>4, <1>7, <1>8, <3>1
      <4>3. Last(s.remaining).offset < y.offset
        BY <1>3, <1>4, <1>9, <2>1, <4>2
      <4>4. Keeps(s.envelope, s.envelope) /\ Keeps(s.remaining, s.remaining)
        BY <1>6 DEF Keeps
      <4> QED
        BY <1>5, <3>1, <4>1, <4>3, <4>4
    <3>2. CASE ~s.haveMidpoint
      <4> DEFINE p == PitchAtMiddle(s.envelope, point)
                 u == [offset |-> 100, pitch |-> p]
                 v == [offset |-> 0, pitch |-> p]
      <4>1. p \in Int
        BY <1>1, <1>6, <1>16, PitchAtMiddleType DEF point
      <4>2. w = Split(Append(s.envelope, u), Append(s.remaining, v), TRUE)
        BY <3>2 DEF AddMidpoint
      <4> HIDE DEF p
      <4>3. u \in AnyPoint /\ u.offset = 100 /\ v \in AnyPoint /\ v.offset = 0
        BY <4>1, NewPoint
      <4>4. k = 0 \/ (k > 0 /\ points[k].offset < 50)
        BY <1>1, <1>4, <1>9, <3>2
      <4>5. s.remaining = <<>>
        BY <1>7, <1>8, <4>4
      <4>6. s.envelope # <<>> => Last(s.envelope).offset < u.offset
        <5>1. CASE k = 0
          <6>1. rem # <<>> => Last(rem).offset \in Int
            BY <1>10, <1>12
          <6> QED
            BY <1>7, <1>10, <4>3, <5>1, <6>1
        <5>2. CASE k > 0 /\ points[k].offset < 50
          BY <1>4, <1>8, <4>3, <5>2
        <5> QED
          BY <4>4, <5>1, <5>2
      <4> HIDE DEF u, v
      <4>7. Append(s.envelope, u) \in Seq(AnyPoint) /\ InOrder(Append(s.envelope, u))
        BY <1>5, <1>6, <4>3, <4>6, AppendPoint
      <4>8. /\ Append(s.remaining, v) \in Seq(AnyPoint) /\ InOrder(Append(s.remaining, v))
            /\ Last(Append(s.remaining, v)) = v
            /\ Len(Append(s.remaining, v)) = 1 /\ Append(s.remaining, v)[1] = v
        <5>1. (s.remaining # <<>> => Last(s.remaining).offset < v.offset) /\ Len(s.remaining) = 0
          BY <4>5
        <5> QED
          BY <1>5, <1>6, <4>3, <5>1, AppendPoint
      <4>9. Keeps(Append(s.envelope, u), s.envelope) /\ Keeps(Append(s.remaining, v), s.remaining)
        BY <1>6, <4>3, KeepsTypes
      <4>10. /\ w \in State /\ w.envelope = Append(s.envelope, u)
             /\ w.remaining = Append(s.remaining, v) /\ w.haveMidpoint
        BY <4>2, <4>7, <4>8 DEF Split, State
      <4>13. AfterMiddle(Append(s.envelope, u), rem)
        <5>1. u.offset >= 50
          BY <4>3
        <5> QED
          BY <1>5, <1>6, <4>3, <5>1, AfterMiddleKept
      <4>11. v.offset < y.offset
        BY <1>3, <1>16, <2>1, <4>3
      <4>12. \A i \in 1 .. Len(w.remaining) : w.remaining[i].offset <= 50
        BY <4>3, <4>8, <4>10
      <4> HIDE DEF w
      <4> QED
        BY <4>7, <4>8, <4>9, <4>10, <4>11, <4>12, <4>13
    <3> QED
      BY <1>6, <3>1, <3>2
  <2> HIDE DEF w, y
  <2>4. w.envelope \in Seq(AnyPoint) /\ w.remaining \in Seq(AnyPoint) /\ Len(w.envelope) \in Nat /\ Len(w.remaining) \in Nat
    <3>1. w.envelope \in Seq(AnyPoint) /\ w.remaining \in Seq(AnyPoint)
      BY <2>3 DEF State
    <3> QED
      BY <3>1
  <2>5. /\ r \in Seq(AnyPoint) /\ InOrder(r) /\ r # <<>> /\ Last(r) = y
        /\ Len(r) = Len(w.remaining) + 1 /\ r[Len(w.remaining) + 1] = y
        /\ \A i \in 1 .. Len(w.remaining) : r[i] = w.remaining[i]
    BY <2>1, <2>3, <2>4, AppendPoint
  <2>6. Keeps(r, w.remaining)
    BY <2>1, <2>4, KeepsTypes
  <2> HIDE DEF r
  <2>7. t \in State /\ t.envelope = w.envelope /\ t.remaining = r /\ t.haveMidpoint = w.haveMidpoint
    BY <2>2, <2>3, <2>5 DEF State
  <2>8. Len(r) \in Nat /\ Keeps(r, s.remaining) /\ Keeps(w.envelope, rem)
    <3>1. Len(r) \in Nat
      BY <2>4, <2>5
    <3> QED
      BY <1>5, <1>6, <2>3, <2>4, <2>6, <3>1, KeepsOn
  <2>9. Places(w.envelope, r, points, k + 1)
    <3>1. Len(r) \in 1 .. Len(r) /\ r[Len(r)].offset = point.offset - 50
      BY <2>1, <2>4, <2>5
    <3>2. ~(point.offset <= 50)
      BY <1>3, <1>16
    <3> QED
      BY <1>1, <1>5, <1>6, <2>3, <2>4, <2>8, <3>1, <3>2, PlacesKept DEF point
  <2>10. \A i \in 1 .. Len(r) : r[i].offset <= 50
    <3>1. \A i \in 1 .. Len(r) : i \in 1 .. Len(w.remaining) \/ i = Len(w.remaining) + 1
      BY <2>4, <2>5
    <3>2. y.offset <= 50
      BY <1>3, <2>1
    <3> QED
      BY <2>3, <2>5, <3>1, <3>2
  <2>11. ~(point.offset < 50)
    BY <1>3, <1>16
  <2> HIDE DEF t
  <2>12. IsSplit(t, rem, points, k + 1)
    BY <1>1, <2>1, <2>3, <2>5, <2>7, <2>8, <2>9, <2>10, <2>11 DEF IsSplit, point, State
  <2> QED
    BY <2>12 DEF t, point
<1> QED
  BY <1>3, <1>13, <1>14, <1>15, <1>16 DEF point

SplitState == [envelope : Seq(AnyPoint), remaining : Seq(AnyPoint), haveMidpoint : BOOLEAN]

LEMMA AddPointType ==
    ASSUME NEW s \in SplitState, NEW point \in Point
    PROVE  AddPoint(s, point) \in SplitState
<1>1. point.offset \in Int /\ 0 <= point.offset /\ point.offset <= 100 /\ point.pitch \in Int
  BY PointFacts
<1>2. s.envelope \in Seq(AnyPoint) /\ s.remaining \in Seq(AnyPoint) /\ s.haveMidpoint \in BOOLEAN
  BY DEF SplitState
<1> DEFINE meets == point.offset = 0 /\ s.envelope # <<>> /\ Last(s.envelope).offset = 50
<1>3. CASE meets
  BY <1>3 DEF AddPoint
<1>4. CASE point.offset < 50 /\ ~meets
  <2> DEFINE x == [point EXCEPT !.offset = point.offset + 50]
  <2>1. x \in AnyPoint
    <3>1. point.offset + 50 \in Int /\ 0 <= point.offset + 50 /\ point.offset + 50 <= 100
      BY <1>1, <1>4
    <3> QED
      BY <3>1, PointMoved
  <2>2. AddPoint(s, point) = [s EXCEPT !.envelope = Append(s.envelope, x)]
    <3>1. ~(point.offset = 50) /\ ~(point.offset > 50)
      BY <1>1, <1>4
    <3> QED
      BY <1>4, <3>1 DEF AddPoint
  <2> HIDE DEF x
  <2>3. Append(s.envelope, x) \in Seq(AnyPoint)
    BY <1>2, <2>1
  <2> QED
    BY <2>2, <2>3 DEF SplitState
<1>5. CASE point.offset = 50
  <2> DEFINE x == [point EXCEPT !.offset = 100]
             y == [point EXCEPT !.offset = 0]
  <2>1. x \in AnyPoint /\ y \in AnyPoint
    BY MiddleMoved
  <2>2. AddPoint(s, point) = Split(Append(s.envelope, x), Append(s.remaining, y), TRUE)
    <3>1. ~(point.offset < 50) /\ ~(point.offset > 50) /\ ~(point.offset = 0)
      BY <1>1, <1>5
    <3> QED
      BY <1>5, <3>1 DEF AddPoint
  <2> HIDE DEF x, y
  <2>3. Append(s.envelope, x) \in Seq(AnyPoint) /\ Append(s.remaining, y) \in Seq(AnyPoint)
    BY <1>2, <2>1
  <2> QED
    BY <2>2, <2>3 DEF SplitState, Split
<1>6. CASE point.offset > 50
  <2> DEFINE p == PitchAtMiddle(s.envelope, point)
             w == AddMidpoint(s, p)
             y == [point EXCEPT !.offset = point.offset - 50]
  <2>1. y \in AnyPoint
    <3>1. point.offset - 50 \in Int /\ 0 <= point.offset - 50 /\ point.offset - 50 <= 100
      BY <1>1, <1>6
    <3> QED
      BY <3>1, PointMoved
  <2>2. p \in Int
    BY <1>2, <1>6, PitchAtMiddleType
  <2>3. AddPoint(s, point) = [w EXCEPT !.remaining = Append(w.remaining, y)]
    <3>1. ~(point.offset < 50) /\ ~(point.offset = 50) /\ ~(point.offset = 0)
      BY <1>1, <1>6
    <3> QED
      BY <1>6, <3>1 DEF AddPoint
  <2> HIDE DEF p
  <2>4. w \in SplitState
    <3> DEFINE u == [offset |-> 100, pitch |-> p]
               v == [offset |-> 0, pitch |-> p]
    <3>1. u \in AnyPoint /\ v \in AnyPoint
      BY <2>2, NewPoint
    <3>2. w = s \/ w = Split(Append(s.envelope, u), Append(s.remaining, v), TRUE)
      BY DEF AddMidpoint
    <3> HIDE DEF u, v, w
    <3>3. Append(s.envelope, u) \in Seq(AnyPoint) /\ Append(s.remaining, v) \in Seq(AnyPoint)
      BY <1>2, <3>1
    <3>4. Split(Append(s.envelope, u), Append(s.remaining, v), TRUE) \in SplitState
      BY <3>3 DEF SplitState, Split
    <3> QED
      BY <3>2, <3>4
  <2> HIDE DEF w, y
  <2>5. Append(w.remaining, y) \in Seq(AnyPoint)
    BY <2>1, <2>4 DEF SplitState
  <2> QED
    BY <2>3, <2>4, <2>5 DEF SplitState
<1> QED
  BY <1>1, <1>3, <1>4, <1>5, <1>6

IsSplitAfter(f, rem, points) ==
    /\ f \in [0 .. Len(points) -> SplitState]
    /\ f[0] = Split(rem, <<>>, FALSE)
    /\ \A i \in 1 .. Len(points) : f[i] = AddPoint(f[i - 1], points[i])

\* The loop has a value after each point.
LEMMA SplitAfterIs ==
    ASSUME NEW rem \in Seq(AnyPoint), NEW points \in Seq(Point)
    PROVE  IsSplitAfter(SplitAfter(rem, points), rem, points)
<1> DEFINE n == Len(points)
           start == Split(rem, <<>>, FALSE)
           F == [p \in (1 .. n) \X SplitState |-> AddPoint(p[2], points[p[1]])]
           IsAfter(f) == f = [k \in 0 .. n |-> IF k = 0 THEN start ELSE AddPoint(f[k - 1], points[k])]
<1>1. n \in Nat /\ \A i \in 1 .. n : points[i] \in Point
  OBVIOUS
<1>2. start \in SplitState
  BY DEF SplitState, Split
<1>3. F \in Steps(n, SplitState)
  <2>1. \A p \in (1 .. n) \X SplitState : AddPoint(p[2], points[p[1]]) \in SplitState
    BY <1>1, AddPointType
  <2> HIDE DEF n
  <2> QED
    BY <2>1 DEF Steps
<1>4. \A i \in 1 .. n, s \in SplitState : F[<<i, s>>] = AddPoint(s, points[i])
  OBVIOUS
<1> HIDE DEF n, F, start
<1>5. PICK f \in [0 .. n -> SplitState] : IsRecursion(f, n, start, F)
  BY <1>1, <1>2, <1>3, RecursionTo
<1>6. IsAfter(f)
  <2>1. ASSUME NEW i \in 0 .. n
        PROVE  f[i] = IF i = 0 THEN start ELSE AddPoint(f[i - 1], points[i])
    <3>1. CASE i = 0
      BY <1>5, <3>1 DEF IsRecursion
    <3>2. CASE i # 0
      <4>1. i \in 1 .. n /\ i - 1 \in 0 .. n
        BY <1>1, <3>2
      <4>2. f[i - 1] \in SplitState
        BY <4>1
      <4> QED
        BY <1>4, <1>5, <3>2, <4>1, <4>2 DEF IsRecursion
    <3> QED
      BY <3>1, <3>2
  <2> QED
    BY <2>1
<1>7. SplitAfter(rem, points) = CHOOSE g : IsAfter(g)
  BY DEF SplitAfter, n, start
<1> HIDE DEF IsAfter
<1>8. IsAfter(SplitAfter(rem, points))
  BY <1>6, <1>7
<1> DEFINE g == SplitAfter(rem, points)
<1> HIDE DEF g
<1>9. g = [k \in 0 .. n |-> IF k = 0 THEN start ELSE AddPoint(g[k - 1], points[k])]
  BY <1>8 DEF g, IsAfter
<1>10. g[0] = start /\ \A i \in 1 .. n : g[i] = AddPoint(g[i - 1], points[i])
  <2>1. 0 \in 0 .. n /\ \A i \in 1 .. n : i \in 0 .. n /\ i # 0
    BY <1>1
  <2> QED
    BY <1>9, <2>1
<1>11. \A i \in 0 .. n : g[i] \in SplitState
  <2> DEFINE S == {i \in 0 .. n : g[i] \in SplitState}
  <2>1. 0 \in S
    BY <1>1, <1>2, <1>10
  <2>2. ASSUME NEW i \in 0 .. n - 1, i \in S
        PROVE  i + 1 \in S
    <3>1. i + 1 \in 1 .. n /\ i + 1 \in 0 .. n /\ (i + 1) - 1 = i
      BY <1>1
    <3>2. g[i + 1] = AddPoint(g[i], points[i + 1])
      BY <1>10, <3>1
    <3>3. AddPoint(g[i], points[i + 1]) \in SplitState
      BY <1>1, <2>2, <3>1, AddPointType
    <3> QED
      BY <3>1, <3>2, <3>3
  <2>3. Inductive(S, n)
    <3> HIDE DEF S
    <3> QED
      BY <2>1, <2>2 DEF Inductive
  <2> HIDE DEF S
  <2>4. \A i \in 0 .. n : i \in S
    BY <1>1, <2>3, InductionTo
  <2> QED
    BY <2>4 DEF S
<1>12. g \in [0 .. n -> SplitState]
  <2> DEFINE h == [k \in 0 .. n |-> IF k = 0 THEN start ELSE AddPoint(g[k - 1], points[k])]
  <2>1. h = [k \in 0 .. n |-> h[k]]
    OBVIOUS
  <2> HIDE DEF h
  <2>2. g = h
    BY <1>9 DEF h
  <2> QED
    BY <1>11, <2>1, <2>2
<1> QED
  BY <1>10, <1>12 DEF IsSplitAfter, g, n, start

\* What the loop makes of the whole envelope.
LEMMA SplitFromIs ==
    ASSUME NEW rem, IsRemainder(rem), NEW points, IsEnvelope(points)
    PROVE  IsSplit(SplitFrom(rem, points), rem, points, Len(points))
<1> DEFINE n == Len(points)
           f == SplitAfter(rem, points)
           S == {k \in 0 .. n : IsSplit(f[k], rem, points, k)}
<1>1. n \in Nat
  BY DEF IsEnvelope
<1>2. IsSplitAfter(f, rem, points)
  BY SplitAfterIs DEF IsRemainder, IsEnvelope
<1> HIDE DEF f
<1>3. 0 \in S
  <2>1. IsSplit(f[0], rem, points, 0)
    BY <1>2, SplitStart DEF IsSplitAfter
  <2> QED
    BY <1>1, <2>1
<1>4. ASSUME NEW k \in 0 .. n - 1, k \in S
      PROVE  k + 1 \in S
  <2>1. k + 1 \in 1 .. n /\ k + 1 \in 0 .. n /\ (k + 1) - 1 = k
    BY <1>1
  <2>2. f[k + 1] = AddPoint(f[k], points[k + 1])
    BY <1>2, <2>1 DEF IsSplitAfter
  <2>3. IsSplit(f[k], rem, points, k)
    BY <1>4
  <2>4. IsSplit(f[k + 1], rem, points, k + 1)
    BY <2>2, <2>3, SplitStep
  <2> QED
    BY <2>1, <2>4
<1>5. Inductive(S, n)
  <2> HIDE DEF S, n
  <2> QED
    BY <1>3, <1>4 DEF Inductive
<1>6. n \in S
  <2> HIDE DEF S, n
  <2> QED
    BY <1>1, <1>5, InductionTo
<1> QED
  BY <1>6 DEF SplitFrom, f

-----------------------------------------------------------------------------
(* The contour.                                                             *)

LEMMA HalfOf ==
    ASSUME NEW a \in Nat, a > 0, NEW m \in Int
    PROVE  (a * (2 * m)) \div (2 * a) = m
  OBVIOUS

LEMMA EvenHalf ==
    ASSUME NEW x \in Int, x % 2 = 0
    PROVE  x = 2 * (x \div 2) /\ x \div 2 \in Int
  OBVIOUS

\* What was added to the envelope and what remains are on the contour of the
\* phone.
OnContour(env, rest, rem, points) ==
    /\ \A i \in Len(rem) + 1 .. Len(env) : PitchIs(points, env[i].offset - 50, env[i].pitch)
    /\ \A i \in 1 .. Len(rest) : PitchIs(points, rest[i].offset + 50, rest[i].pitch)

LastPitch(s, points, k) == k > 0 /\ points[k].offset < 50 => Last(s.envelope).pitch = points[k].pitch

\* The phone begins on the pitch that the one before it ended with.
Meets(rem, points) ==
    rem # <<>> /\ points # <<>> /\ Last(rem).offset = 50 /\ points[1].offset = 0
        => Last(rem).pitch = points[1].pitch

LEMMA OwnPoint ==
    ASSUME NEW points, NEW i \in 1 .. Len(points)
    PROVE  PitchIs(points, points[i].offset, points[i].pitch)
  BY DEF PitchIs

\* The interpolated pitch is on the line.
LEMMA MiddlePoint ==
    ASSUME NEW points, IsEnvelope(points), Interpolable(points), NEW k \in 1 .. Len(points) - 1,
           NEW env \in Seq(AnyPoint), env # <<>>,
           Last(env).offset = points[k].offset + 50, Last(env).pitch = points[k].pitch,
           points[k].offset < 50, points[k + 1].offset > 50
    PROVE  PitchIs(points, 50, PitchAtMiddle(env, points[k + 1]))
<1> DEFINE o1 == points[k].offset
           o2 == points[k + 1].offset
           p1 == points[k].pitch
           p2 == points[k + 1].pitch
           l == Last(env).pitch
           d == Last(env).offset
           p == PitchAtMiddle(env, points[k + 1])
<1>1. k \in 1 .. Len(points) /\ k + 1 \in 1 .. Len(points) /\ points[k] \in Point /\ points[k + 1] \in Point
  BY DEF IsEnvelope
<1>2. o1 \in Int /\ o2 \in Int /\ p1 \in Int /\ p2 \in Int
  BY <1>1, PointFacts
<1>3. p = IF l = p2 THEN p2 ELSE l + ((o2 - 50) * (p2 - l)) \div (o2 - (d - 50))
  BY DEF PitchAtMiddle
<1>4. \/ p1 = p2
      \/ o1 + o2 = 100 /\ (p2 - p1) % 2 = 0
  BY DEF Interpolable
<1>5. o1 < 50 /\ 50 < o2
  BY <1>2
<1>6. l = p1 /\ d = o1 + 50
  OBVIOUS
<1> HIDE DEF o1, o2, p1, p2, p, l, d
<1>7. (p - p1) * (o2 - o1) = (p2 - p1) * (50 - o1)
  <2>1. CASE p1 = p2
    BY <1>2, <1>3, <1>6, <2>1
  <2>2. CASE p1 # p2
    <3> DEFINE m == (p2 - p1) \div 2
               a == o2 - 50
    <3>1. p2 - p1 = 2 * m /\ m \in Int
      BY <1>2, <1>4, <2>2, EvenHalf
    <3>2. a \in Nat /\ a > 0 /\ o2 - (d - 50) = 2 * a /\ 50 - o1 = a /\ o2 - o1 = 2 * a
      BY <1>2, <1>4, <1>5, <1>6, <2>2
    <3>3. p = l + (a * (p2 - l)) \div (o2 - (d - 50))
      BY <1>3, <1>6, <2>2
    <3> HIDE DEF m, a
    <3>4. p2 - l = 2 * m
      BY <1>6, <3>1
    <3>5. p = l + (a * (2 * m)) \div (2 * a)
      BY <3>2, <3>3, <3>4
    <3>6. p = l + m
      BY <3>1, <3>2, <3>5, HalfOf
    <3>7. p - p1 = m
      BY <1>2, <1>6, <3>1, <3>6
    <3>8. m * (2 * a) = (2 * m) * a
      BY <3>1, <3>2
    <3> QED
      BY <3>1, <3>2, <3>7, <3>8
  <2> QED
    BY <2>1, <2>2
<1> QED
  BY <1>5, <1>7 DEF PitchIs, o1, o2, p1, p2, p

LEMMA AppendShape ==
    \A q \in Seq(AnyPoint), x \in AnyPoint :
        /\ Append(q, x) # <<>> /\ Last(Append(q, x)) = x
        /\ Len(Append(q, x)) = Len(q) + 1 /\ Append(q, x)[Len(q) + 1] = x
        /\ \A i \in 1 .. Len(q) : Append(q, x)[i] = q[i]
<1> TAKE q \in Seq(AnyPoint), x \in AnyPoint
<1> DEFINE t == Append(q, x)
<1>1. /\ Len(q) \in Nat /\ Len(t) = Len(q) + 1 /\ t[Len(q) + 1] = x
      /\ \A i \in 1 .. Len(q) : t[i] = q[i]
  OBVIOUS
<1> HIDE DEF t
<1>2. t # <<>> /\ Last(t) = x
  BY <1>1 DEF Last
<1> QED
  BY <1>1, <1>2 DEF t

\* A point at the middle ends the diphone and is the first that remains.
LEMMA MiddleAdded ==
    ASSUME NEW s \in SplitState, NEW rem, NEW points, OnContour(s.envelope, s.remaining, rem, points),
           Len(rem) \in Nat, Len(rem) <= Len(s.envelope), s.remaining = <<>>,
           NEW x \in AnyPoint, NEW y \in AnyPoint,
           PitchIs(points, x.offset - 50, x.pitch), PitchIs(points, y.offset + 50, y.pitch)
    PROVE  OnContour(Append(s.envelope, x), Append(s.remaining, y), rem, points)
<1> DEFINE e == Append(s.envelope, x)
           r == Append(s.remaining, y)
<1>1. s.envelope \in Seq(AnyPoint) /\ s.remaining \in Seq(AnyPoint) /\ Len(s.envelope) \in Nat /\ Len(s.remaining) = 0
  BY DEF SplitState
<1>2. /\ Len(e) = Len(s.envelope) + 1 /\ e[Len(s.envelope) + 1] = x
      /\ \A i \in 1 .. Len(s.envelope) : e[i] = s.envelope[i]
  BY <1>1, AppendShape
<1>3. Len(r) = 1 /\ r[1] = y
  BY <1>1, AppendShape
<1> HIDE DEF e, r
<1>5. ASSUME NEW i \in Len(rem) + 1 .. Len(e)
      PROVE  PitchIs(points, e[i].offset - 50, e[i].pitch)
  <2>1. CASE i \in Len(rem) + 1 .. Len(s.envelope)
    <3>1. e[i] = s.envelope[i]
      BY <1>1, <1>2, <2>1
    <3> QED
      BY <2>1, <3>1 DEF OnContour
  <2>2. CASE i = Len(s.envelope) + 1
    BY <1>2, <2>2
  <2> QED
    BY <1>1, <1>2, <2>1, <2>2
<1>6. \A i \in 1 .. Len(r) : PitchIs(points, r[i].offset + 50, r[i].pitch)
  BY <1>3
<1> QED
  BY <1>5, <1>6 DEF OnContour, e, r

\* One point more keeps the diphone and what remains on the contour.
LEMMA ContourStep ==
    ASSUME NEW rem, IsRemainder(rem), NEW points, IsEnvelope(points), Interpolable(points),
           Meets(rem, points), NEW k \in 0 .. Len(points) - 1, NEW s,
           IsSplit(s, rem, points, k), OnContour(s.envelope, s.remaining, rem, points), LastPitch(s, points, k)
    PROVE  /\ OnContour(AddPoint(s, points[k + 1]).envelope, AddPoint(s, points[k + 1]).remaining, rem, points)
           /\ LastPitch(AddPoint(s, points[k + 1]), points, k + 1)
<1> DEFINE point == points[k + 1]
           t == AddPoint(s, point)
<1>1. /\ Len(points) \in Nat /\ k + 1 \in 1 .. Len(points) /\ k \in Nat
      /\ point \in Point
      /\ k > 0 => k \in 1 .. Len(points) /\ k \in 1 .. Len(points) - 1 /\ points[k] \in Point
  BY DEF IsEnvelope
<1>2. \A y \in Point : y.offset \in Int /\ 0 <= y.offset /\ y.offset <= 100 /\ y.pitch \in Int
  BY PointFacts
<1>3. point.offset \in Int /\ 0 <= point.offset /\ point.offset <= 100 /\ point.pitch \in Int
  BY <1>1, <1>2
<1>4. k > 0 => /\ points[k].offset \in Int /\ 0 <= points[k].offset
               /\ points[k].offset < point.offset
  <2>1. k > 0 => points[k].offset \in Int /\ 0 <= points[k].offset
    BY <1>1, <1>2
  <2>2. k > 0 => points[k].offset < point.offset
    BY <1>1 DEF IsEnvelope, InOrder
  <2> QED
    BY <2>1, <2>2
<1>5. /\ s \in SplitState /\ s.envelope \in Seq(AnyPoint) /\ s.remaining \in Seq(AnyPoint)
      /\ Len(s.envelope) \in Nat /\ Len(s.remaining) \in Nat /\ Len(rem) \in Nat
      /\ Len(rem) <= Len(s.envelope)
  <2>1. s \in SplitState /\ Len(rem) <= Len(s.envelope)
    BY DEF IsSplit, SplitState, Keeps
  <2>2. s.envelope \in Seq(AnyPoint) /\ s.remaining \in Seq(AnyPoint)
    BY <2>1 DEF SplitState
  <2> QED
    BY <2>1, <2>2 DEF IsRemainder
<1>6. k = 0 => s.envelope = rem /\ s.remaining = <<>> /\ ~s.haveMidpoint
  BY DEF IsSplit
<1>7. k > 0 /\ points[k].offset < 50 =>
          /\ ~s.haveMidpoint /\ s.remaining = <<>>
          /\ s.envelope # <<>> /\ Last(s.envelope).offset = points[k].offset + 50
          /\ Last(s.envelope).pitch = points[k].pitch
  BY DEF IsSplit, LastPitch
<1>8. k > 0 /\ points[k].offset >= 50 => s.haveMidpoint
  BY DEF IsSplit
<1>9. PitchIs(points, point.offset, point.pitch)
  BY <1>1, OwnPoint
<1> DEFINE meets == point.offset = 0 /\ s.envelope # <<>> /\ Last(s.envelope).offset = 50
<1>10. \A q \in Seq(AnyPoint), x \in AnyPoint :
           /\ Append(q, x) # <<>> /\ Last(Append(q, x)) = x
           /\ Len(Append(q, x)) = Len(q) + 1 /\ Append(q, x)[Len(q) + 1] = x
           /\ \A i \in 1 .. Len(q) : Append(q, x)[i] = q[i]
  BY AppendShape
<1> HIDE DEF point
<1>11. CASE meets
  <2>1. t = s
    BY <1>11 DEF AddPoint
  <2>2. k = 0
    BY <1>1, <1>3, <1>4, <1>11
  <2>3. points # <<>>
    BY <1>1
  <2>4. LastPitch(s, points, k + 1)
    BY <1>6, <1>11, <2>2, <2>3 DEF LastPitch, Meets, point
  <2> HIDE DEF t
  <2>5. OnContour(t.envelope, t.remaining, rem, points) /\ LastPitch(t, points, k + 1)
    BY <2>1, <2>4
  <2> QED
    BY <2>5 DEF t, point
<1>12. CASE point.offset < 50 /\ ~meets
  <2> DEFINE x == [point EXCEPT !.offset = point.offset + 50]
             e == Append(s.envelope, x)
  <2>1. x \in AnyPoint /\ x.offset = point.offset + 50 /\ x.pitch = point.pitch
    <3>1. point.offset + 50 \in Int /\ 0 <= point.offset + 50 /\ point.offset + 50 <= 100
      BY <1>3, <1>12
    <3> QED
      BY <1>1, <3>1, PointMoved
  <2>2. t = [s EXCEPT !.envelope = e]
    <3>1. ~(point.offset = 50) /\ ~(point.offset > 50)
      BY <1>3, <1>12
    <3> QED
      BY <1>12, <3>1 DEF AddPoint
  <2> HIDE DEF x
  <2>3. /\ Last(e) = x /\ Len(e) = Len(s.envelope) + 1 /\ e[Len(s.envelope) + 1] = x
        /\ \A i \in 1 .. Len(s.envelope) : e[i] = s.envelope[i]
    BY <1>5, <1>10, <2>1
  <2>4. t.envelope = e /\ t.remaining = s.remaining
    BY <1>5, <2>2 DEF SplitState
  <2> HIDE DEF e, t
  <2>5. ASSUME NEW i \in Len(rem) + 1 .. Len(e)
        PROVE  PitchIs(points, e[i].offset - 50, e[i].pitch)
    <3>1. CASE i \in Len(rem) + 1 .. Len(s.envelope)
      <4>1. e[i] = s.envelope[i]
        BY <1>5, <2>3, <3>1
      <4> QED
        BY <3>1, <4>1 DEF OnContour
    <3>2. CASE i = Len(s.envelope) + 1
      <4>1. x.offset - 50 = point.offset
        BY <1>3, <2>1
      <4> QED
        BY <1>9, <2>1, <2>3, <3>2, <4>1
    <3> QED
      BY <1>5, <2>3, <3>1, <3>2
  <2>6. OnContour(t.envelope, t.remaining, rem, points) /\ LastPitch(t, points, k + 1)
    <3>1. OnContour(t.envelope, t.remaining, rem, points)
      BY <2>4, <2>5 DEF OnContour
    <3>2. LastPitch(t, points, k + 1)
      BY <2>1, <2>3, <2>4 DEF LastPitch, point
    <3> QED
      BY <3>1, <3>2
  <2> QED
    BY <2>6 DEF t, point
<1>13. CASE point.offset = 50
  <2> DEFINE x == [point EXCEPT !.offset = 100]
             y == [point EXCEPT !.offset = 0]
  <2>1. /\ x \in AnyPoint /\ x.offset = 100 /\ x.pitch = point.pitch
        /\ y \in AnyPoint /\ y.offset = 0 /\ y.pitch = point.pitch
    BY <1>1, MiddleMoved
  <2>2. t = Split(Append(s.envelope, x), Append(s.remaining, y), TRUE)
    <3>1. ~(point.offset < 50) /\ ~(point.offset > 50) /\ ~(point.offset = 0)
      BY <1>3, <1>13
    <3> QED
      BY <1>13, <3>1 DEF AddPoint
  <2>3. s.remaining = <<>>
    BY <1>1, <1>3, <1>4, <1>6, <1>7, <1>13
  <2> HIDE DEF x, y
  <2>4. t.envelope = Append(s.envelope, x) /\ t.remaining = Append(s.remaining, y)
    BY <2>2 DEF Split
  <2> HIDE DEF t
  <2>5. PitchIs(points, x.offset - 50, x.pitch) /\ PitchIs(points, y.offset + 50, y.pitch)
    BY <1>9, <1>13, <2>1
  <2>6. OnContour(t.envelope, t.remaining, rem, points)
    <3>1. OnContour(Append(s.envelope, x), Append(s.remaining, y), rem, points)
      BY <1>5, <2>1, <2>3, <2>5, MiddleAdded
    <3> QED
      BY <2>4, <3>1
  <2>7. LastPitch(t, points, k + 1)
    BY <1>3, <1>13 DEF LastPitch, point
  <2> QED
    BY <2>6, <2>7 DEF t, point
<1>14. CASE point.offset > 50
  <2> DEFINE p == PitchAtMiddle(s.envelope, point)
             w == AddMidpoint(s, p)
             y == [point EXCEPT !.offset = point.offset - 50]
             r == Append(w.remaining, y)
  <2>1. y \in AnyPoint /\ y.offset = point.offset - 50 /\ y.pitch = point.pitch
    <3>1. point.offset - 50 \in Int /\ 0 <= point.offset - 50 /\ point.offset - 50 <= 100
      BY <1>3, <1>14
    <3> QED
      BY <1>1, <3>1, PointMoved
  <2>2. t = [w EXCEPT !.remaining = r]
    <3>1. ~(point.offset < 50) /\ ~(point.offset = 50) /\ ~(point.offset = 0)
      BY <1>3, <1>14
    <3> QED
      BY <1>14, <3>1 DEF AddPoint
  <2>3. w \in SplitState /\ OnContour(w.envelope, w.remaining, rem, points)
    <3>1. CASE s.haveMidpoint
      <4>1. w = s
        BY <3>1 DEF AddMidpoint
      <4> QED
        BY <1>5, <4>1
    <3>2. CASE ~s.haveMidpoint
      <4>1. k > 0 /\ points[k].offset < 50
        <5>1. k # 0
          <6>1. points # <<>> => points[1].offset <= 50
            BY DEF Interpolable
          <6>2. points # <<>>
            BY <1>1
          <6> QED
            BY <1>3, <1>14, <6>1, <6>2 DEF point
        <5> QED
          BY <1>1, <1>4, <1>8, <3>2, <5>1
      <4>2. PitchIs(points, 50, p)
        <5>1. k \in 1 .. Len(points) - 1 /\ s.envelope # <<>>
          BY <1>1, <1>7, <4>1
        <5> QED
          BY <1>5, <1>7, <1>14, <4>1, <5>1, MiddlePoint DEF point
      <4>3. p \in Int
        BY <1>1, <1>5, <1>14, PitchAtMiddleType
      <4> DEFINE u == [offset |-> 100, pitch |-> p]
                 v == [offset |-> 0, pitch |-> p]
      <4>4. w = Split(Append(s.envelope, u), Append(s.remaining, v), TRUE)
        BY <3>2 DEF AddMidpoint
      <4> HIDE DEF p
      <4>5. /\ u \in AnyPoint /\ u.offset = 100 /\ u.pitch = p
            /\ v \in AnyPoint /\ v.offset = 0 /\ v.pitch = p
        BY <4>3, NewPoint
      <4>6. PitchIs(points, u.offset - 50, u.pitch) /\ PitchIs(points, v.offset + 50, v.pitch)
        BY <4>2, <4>5
      <4> HIDE DEF u, v, w
      <4>7. w.envelope = Append(s.envelope, u) /\ w.remaining = Append(s.remaining, v)
        BY <4>4 DEF Split
      <4>8. w \in SplitState
        <5>1. Append(s.envelope, u) \in Seq(AnyPoint) /\ Append(s.remaining, v) \in Seq(AnyPoint)
          BY <1>5, <4>5
        <5> QED
          BY <4>4, <5>1 DEF SplitState, Split
      <4>9. s.remaining = <<>>
        BY <1>7, <4>1
      <4> QED
        <5>1. OnContour(Append(s.envelope, u), Append(s.remaining, v), rem, points)
          BY <1>5, <4>5, <4>6, <4>9, MiddleAdded
        <5> QED
          BY <4>7, <4>8, <5>1
    <3> QED
      BY <1>5, <3>1, <3>2 DEF SplitState
  <2> HIDE DEF w, y
  <2>4. w.remaining \in Seq(AnyPoint) /\ Len(w.remaining) \in Nat
    BY <2>3 DEF SplitState
  <2>5. /\ Len(r) = Len(w.remaining) + 1 /\ r[Len(w.remaining) + 1] = y
        /\ \A i \in 1 .. Len(w.remaining) : r[i] = w.remaining[i]
    BY <1>10, <2>1, <2>4
  <2> HIDE DEF r
  <2>6. t.envelope = w.envelope /\ t.remaining = r
    BY <2>2, <2>3 DEF SplitState
  <2> HIDE DEF t
  <2>7. ASSUME NEW i \in 1 .. Len(r)
        PROVE  PitchIs(points, r[i].offset + 50, r[i].pitch)
    <3>1. CASE i \in 1 .. Len(w.remaining)
      BY <2>3, <2>5, <3>1 DEF OnContour
    <3>2. CASE i = Len(w.remaining) + 1
      <4>1. y.offset + 50 = point.offset
        BY <1>3, <2>1
      <4> QED
        BY <1>9, <2>1, <2>5, <3>2, <4>1
    <3> QED
      BY <2>4, <2>5, <3>1, <3>2
  <2>8. OnContour(t.envelope, t.remaining, rem, points)
    BY <2>3, <2>6, <2>7 DEF OnContour
  <2>9. LastPitch(t, points, k + 1)
    BY <1>3, <1>14 DEF LastPitch, point
  <2> QED
    BY <2>8, <2>9 DEF t, point
<1> QED
  BY <1>3, <1>11, <1>12, <1>13, <1>14 DEF point

\* The whole envelope of a phone keeps to the contour.
LEMMA ContourFrom ==
    ASSUME NEW rem, IsRemainder(rem), NEW points, IsEnvelope(points), Interpolable(points),
           Meets(rem, points)
    PROVE  OnContour(SplitFrom(rem, points).envelope, SplitFrom(rem, points).remaining, rem, points)
<1> DEFINE n == Len(points)
           f == SplitAfter(rem, points)
           Holds(k) == /\ IsSplit(f[k], rem, points, k) /\ LastPitch(f[k], points, k)
                       /\ OnContour(f[k].envelope, f[k].remaining, rem, points)
           S == {k \in 0 .. n : Holds(k)}
<1>1. n \in Nat /\ Len(rem) \in Nat
  BY DEF IsEnvelope, IsRemainder
<1>2. IsSplitAfter(f, rem, points)
  BY SplitAfterIs DEF IsRemainder, IsEnvelope
<1> HIDE DEF f
<1>3. Holds(0)
  <2>1. f[0] = Split(rem, <<>>, FALSE)
    BY <1>2 DEF IsSplitAfter
  <2>2. IsSplit(f[0], rem, points, 0)
    BY <2>1, SplitStart
  <2>3. LastPitch(f[0], points, 0)
    BY DEF LastPitch
  <2>4. f[0].envelope = rem /\ f[0].remaining = <<>>
    BY <2>1 DEF Split
  <2>5. OnContour(rem, <<>>, rem, points)
    BY <1>1 DEF OnContour
  <2> QED
    BY <2>2, <2>3, <2>4, <2>5
<1>4. ASSUME NEW k \in 0 .. n - 1, Holds(k)
      PROVE  k + 1 \in 0 .. n /\ Holds(k + 1)
  <2>1. k + 1 \in 1 .. n /\ k + 1 \in 0 .. n /\ (k + 1) - 1 = k
    BY <1>1
  <2>2. f[k + 1] = AddPoint(f[k], points[k + 1])
    BY <1>2, <2>1 DEF IsSplitAfter
  <2>3. /\ IsSplit(f[k], rem, points, k) /\ LastPitch(f[k], points, k)
        /\ OnContour(f[k].envelope, f[k].remaining, rem, points)
    BY <1>4
  <2>4. IsSplit(f[k + 1], rem, points, k + 1)
    BY <2>2, <2>3, SplitStep
  <2>5. /\ OnContour(f[k + 1].envelope, f[k + 1].remaining, rem, points)
        /\ LastPitch(f[k + 1], points, k + 1)
    BY <2>2, <2>3, ContourStep
  <2> QED
    BY <2>1, <2>4, <2>5
<1>5. n \in S
  <2>1. Inductive(S, n)
    <3>1. 0 \in S
      BY <1>1, <1>3
    <3>2. ASSUME NEW k \in 0 .. n - 1, k \in S
          PROVE  k + 1 \in S
      BY <1>4, <3>2
    <3> HIDE DEF S, n
    <3> QED
      BY <3>1, <3>2 DEF Inductive
  <2> HIDE DEF S, n
  <2> QED
    BY <1>1, <2>1, InductionTo
<1>6. Holds(n)
  BY <1>5
<1> QED
  BY <1>6 DEF SplitFrom, f

-----------------------------------------------------------------------------
(* How long the phones take.                                                *)

LEMMA SpokenPhoneFacts == \A x \in SpokenPhone : x.duration \in Nat /\ x.envelope \in Seq(Point)
  BY DEF SpokenPhone

\* The sum of the durations is defined by recursion; this is what it satisfies.
LEMMA DurationToIs ==
    ASSUME mPhones \in Seq(SpokenPhone)
    PROVE  /\ DurationTo[0] = 0
           /\ \A i \in 1 .. Len(mPhones) : DurationTo[i] = DurationTo[i - 1] + mPhones[i].duration
           /\ \A i \in 0 .. Len(mPhones) : DurationTo[i] \in Nat
<1> DEFINE n == Len(mPhones)
           F == [p \in (1 .. n) \X Nat |-> p[2] + mPhones[p[1]].duration]
           IsSum(f) == f = [k \in 0 .. n |-> IF k = 0 THEN 0 ELSE f[k - 1] + mPhones[k].duration]
<1>1. n \in Nat /\ \A i \in 1 .. n : mPhones[i].duration \in Nat
  <2>1. n \in Nat /\ \A i \in 1 .. n : mPhones[i] \in SpokenPhone
    OBVIOUS
  <2> QED
    BY <2>1, SpokenPhoneFacts
<1>2. F \in Steps(n, Nat)
  <2> HIDE DEF n
  <2> QED
    BY <1>1 DEF Steps
<1>3. \A i \in 1 .. n, x \in Nat : F[<<i, x>>] = x + mPhones[i].duration
  OBVIOUS
<1> HIDE DEF n, F
<1>4. PICK f \in [0 .. n -> Nat] : IsRecursion(f, n, 0, F)
  BY <1>1, <1>2, RecursionTo, 0 \in Nat
<1>5. IsSum(f)
  <2>1. ASSUME NEW i \in 0 .. n
        PROVE  f[i] = IF i = 0 THEN 0 ELSE f[i - 1] + mPhones[i].duration
    <3>1. CASE i = 0
      BY <1>4, <3>1 DEF IsRecursion
    <3>2. CASE i # 0
      <4>1. i \in 1 .. n /\ i - 1 \in 0 .. n
        BY <1>1, <3>2
      <4>2. f[i - 1] \in Nat
        BY <4>1
      <4> QED
        BY <1>3, <1>4, <3>2, <4>1, <4>2 DEF IsRecursion
    <3> QED
      BY <3>1, <3>2
  <2> QED
    BY <2>1
<1>6. DurationTo = CHOOSE g : IsSum(g)
  BY DEF DurationTo, n
<1> HIDE DEF IsSum
<1>7. IsSum(DurationTo)
  BY <1>5, <1>6
<1> DEFINE g == DurationTo
<1> HIDE DEF g
<1>8. g[0] = 0 /\ \A i \in 1 .. n : g[i] = g[i - 1] + mPhones[i].duration
  <2>1. 0 \in 0 .. n /\ \A i \in 1 .. n : i \in 0 .. n /\ i # 0
    BY <1>1
  <2>2. g = [k \in 0 .. n |-> IF k = 0 THEN 0 ELSE g[k - 1] + mPhones[k].duration]
    BY <1>7 DEF IsSum, g
  <2> QED
    BY <2>1, <2>2
<1> DEFINE S == {i \in 0 .. n : g[i] \in Nat}
<1>9. Inductive(S, n)
  <2>1. 0 \in S
    BY <1>1, <1>8
  <2>2. ASSUME NEW i \in 0 .. n - 1, i \in S
        PROVE  i + 1 \in S
    <3>1. i + 1 \in 1 .. n /\ i + 1 \in 0 .. n /\ (i + 1) - 1 = i /\ g[i] \in Nat
      BY <1>1, <2>2
    <3>2. g[i + 1] = g[i] + mPhones[i + 1].duration
      BY <1>8, <3>1
    <3>3. g[i + 1] \in Nat
      BY <1>1, <3>1, <3>2, SMTT(30)
    <3> QED
      BY <3>1, <3>3
  <2> HIDE DEF S
  <2> QED
    BY <2>1, <2>2 DEF Inductive
<1>10. \A i \in 0 .. n : g[i] \in Nat
  <2> HIDE DEF S
  <2>1. \A i \in 0 .. n : i \in S
    BY <1>1, <1>9, InductionTo
  <2> QED
    BY <2>1 DEF S
<1> QED
  BY <1>8, <1>10 DEF g, n

LEMMA PhonesFacts ==
    ASSUME mPhones \in Phones
    PROVE  /\ mPhones \in Seq(SpokenPhone) /\ Len(mPhones) \in Nat
           /\ \A p \in 1 .. Len(mPhones) :
                  /\ mPhones[p].duration \in Nat /\ mPhones[p].duration % 2 = 0
                  /\ IsEnvelope(mPhones[p].envelope)
<1>1. mPhones \in Seq(SpokenPhone)
  BY DiphoneAssumption
<1>2. \A p \in 1 .. Len(mPhones) : mPhones[p] \in SpokenPhone
  BY <1>1
<1>3. \A p \in 1 .. Len(mPhones) : mPhones[p].duration \in Nat /\ mPhones[p].envelope \in Seq(Point)
  BY <1>2, SpokenPhoneFacts
<1>4. \A p \in 1 .. Len(mPhones) : mPhones[p].duration % 2 = 0 /\ InOrder(mPhones[p].envelope)
  BY DiphoneAssumption
<1> QED
  BY <1>1, <1>3, <1>4 DEF IsEnvelope

\* The diphones so far take as long as the phones so far but the half that is
\* kept.
DurationInv ==
    /\ mPhones \in Phones
    /\ nextPhone \in 1 .. Len(mPhones) + 1 /\ second.duration \in Nat /\ heard \in Nat
    /\ mLastDiphone \in BOOLEAN
    /\ ~mLastDiphone => heard + second.duration = DurationTo[nextPhone - 1] /\ ~atEnd
    /\ mLastDiphone => heard = DurationTo[Len(mPhones)] /\ nextPhone = Len(mPhones) + 1

LEMMA DurationInit == DiphoneInit => DurationInv
<1> SUFFICES ASSUME DiphoneInit
             PROVE  DurationInv
  OBVIOUS
<1>1. mPhones \in Phones /\ nextPhone = 1 /\ second.duration = 0 /\ heard = 0 /\ ~mLastDiphone /\ ~atEnd
      /\ mLastDiphone \in BOOLEAN
  BY DEF DiphoneInit, Pause
<1>2. mPhones \in Seq(SpokenPhone) /\ Len(mPhones) \in Nat
  BY <1>1, PhonesFacts
<1>3. DurationTo[0] = 0
  BY <1>2, DurationToIs
<1>4. nextPhone \in 1 .. Len(mPhones) + 1 /\ heard + second.duration = DurationTo[nextPhone - 1]
  BY <1>1, <1>2, <1>3
<1>5. second.duration \in Nat /\ heard \in Nat
  BY <1>1
<1> QED
  BY <1>1, <1>4, <1>5 DEF DurationInv

(* What is even is twice its half. *)
LEMMA Halves ==
    ASSUME NEW n \in Nat, n % 2 = 0
    PROVE  n \div 2 \in Nat /\ n = n \div 2 + n \div 2
OBVIOUS

LEMMA DurationNext == DurationInv /\ [DiphoneNext]_diphoneVars => DurationInv'
<1> SUFFICES ASSUME DurationInv, [DiphoneNext]_diphoneVars
             PROVE  DurationInv'
  OBVIOUS
<1>1. /\ mPhones \in Seq(SpokenPhone) /\ Len(mPhones) \in Nat
      /\ \A p \in 1 .. Len(mPhones) : mPhones[p].duration \in Nat /\ mPhones[p].duration % 2 = 0
  BY PhonesFacts DEF DurationInv
<1>2. /\ \A i \in 1 .. Len(mPhones) : DurationTo[i] = DurationTo[i - 1] + mPhones[i].duration
      /\ \A i \in 0 .. Len(mPhones) : DurationTo[i] \in Nat
  BY <1>1, DurationToIs
<1>3. UNCHANGED mPhones /\ UNCHANGED DurationTo
  <2>1. UNCHANGED mPhones
    BY DEF DiphoneNext, ReadDiphone, LastDiphone, EndOfPhones, diphoneVars
  <2> QED
    BY <2>1 DEF DurationTo
<1>4. /\ mPhones \in Phones /\ nextPhone \in 1 .. Len(mPhones) + 1
      /\ second.duration \in Nat /\ heard \in Nat /\ mLastDiphone \in BOOLEAN
      /\ ~mLastDiphone => heard + second.duration = DurationTo[nextPhone - 1] /\ ~atEnd
      /\ mLastDiphone => heard = DurationTo[Len(mPhones)] /\ nextPhone = Len(mPhones) + 1
  BY DEF DurationInv
<1>5. CASE ReadDiphone
  <2> DEFINE h == mPhones[nextPhone].duration \div 2
             half == [of |-> nextPhone, duration |-> h]
  <2>1. /\ nextPhone \in 1 .. Len(mPhones) /\ nextPhone' = nextPhone + 1
        /\ second' = half /\ heard' = heard + second.duration + half.duration
        /\ UNCHANGED <<mLastDiphone, atEnd>>
    BY <1>1, <1>4, <1>5 DEF ReadDiphone
  <2>2. half.duration = h
    OBVIOUS
  <2>3. h \in Nat /\ mPhones[nextPhone].duration = h + h
    <3>1. mPhones[nextPhone].duration \in Nat /\ mPhones[nextPhone].duration % 2 = 0
      BY <1>1, <2>1
    <3> QED
      BY <3>1, Halves
  <2> HIDE DEF h, half
  <2>4. DurationTo[nextPhone] = DurationTo[nextPhone - 1] + h + h /\ DurationTo[nextPhone - 1] \in Nat
    <3>1. nextPhone - 1 \in 0 .. Len(mPhones)
      BY <1>1, <2>1
    <3>2. DurationTo[nextPhone - 1] \in Nat
      BY <1>2, <3>1
    <3> QED
      BY <1>2, <2>1, <2>3, <3>2
  <2>5. second'.duration = h /\ heard' = heard + second.duration + h
    BY <2>1, <2>2
  <2>6. second'.duration \in Nat /\ heard' \in Nat
    BY <1>4, <2>3, <2>5
  <2>7. nextPhone' - 1 = nextPhone /\ nextPhone' \in 1 .. Len(mPhones) + 1
    BY <1>1, <2>1
  <2>8. ~mLastDiphone => heard' + second'.duration = DurationTo[nextPhone' - 1]
    BY <1>4, <2>3, <2>4, <2>5, <2>7
  <2>9. ~mLastDiphone
    BY <1>1, <1>4, <2>1
  <2> QED
    BY <1>3, <1>4, <2>1, <2>6, <2>7, <2>8, <2>9 DEF DurationInv
<1>6. CASE LastDiphone
  <2>1. nextPhone - 1 = Len(mPhones)
    BY <1>1, <1>4, <1>6 DEF LastDiphone
  <2>2. /\ second'.duration = 0 /\ heard' = heard + second.duration /\ ~mLastDiphone /\ mLastDiphone' = TRUE
        /\ UNCHANGED nextPhone
    BY <1>6 DEF LastDiphone, Pause
  <2>3. heard' = DurationTo[Len(mPhones)] /\ second'.duration \in Nat /\ heard' \in Nat
    BY <1>4, <2>1, <2>2
  <2> QED
    BY <1>1, <1>3, <1>4, <2>1, <2>2, <2>3 DEF DurationInv
<1>7. CASE EndOfPhones
  BY <1>3, <1>4, <1>7 DEF EndOfPhones, DurationInv
<1>8. CASE UNCHANGED diphoneVars
  BY <1>3, <1>4, <1>8 DEF diphoneVars, DurationInv
<1> QED
  BY <1>5, <1>6, <1>7, <1>8 DEF DiphoneNext

-----------------------------------------------------------------------------
(* The points of the phones.                                                *)

PointAt(env, offset) == \E j \in 1 .. Len(env) : env[j].offset = offset

\* Each point of the phones so far is in a diphone, or remains for the next.
PlaceOf(p, point) ==
    IF point.offset <= 50 THEN PointAt(diphones[p].envelope, point.offset + 50)
    ELSE IF p < Len(diphones) THEN PointAt(diphones[p + 1].envelope, point.offset - 50)
         ELSE PointAt(mRemainingEnvelope, point.offset - 50)

EnvelopeInv ==
    /\ mPhones \in Phones
    /\ IsRemainder(mRemainingEnvelope) /\ InOrder(envelope)
    /\ \A p \in 1 .. nextPhone - 1 : \A k \in 1 .. Len(mPhones[p].envelope) :
           PlaceOf(p, mPhones[p].envelope[k])

LEMMA NothingRemains == IsRemainder(<<>>) /\ InOrder(<<>>)
  BY DEF IsRemainder, InOrder

LEMMA EnvelopeInit == DiphoneInit => EnvelopeInv
<1> SUFFICES ASSUME DiphoneInit
             PROVE  EnvelopeInv
  OBVIOUS
<1>1. mPhones \in Phones /\ nextPhone = 1 /\ mRemainingEnvelope = <<>> /\ envelope = <<>>
  BY DEF DiphoneInit
<1> QED
  BY <1>1, NothingRemains DEF EnvelopeInv

\* A diphone more that begins with what remained.
LEMMA PlacesOfBefore ==
    ASSUME ChainInv, EnvelopeInv, ~mLastDiphone, NEW d, NEW rest,
           Keeps(d.envelope, mRemainingEnvelope), Len(d.envelope) \in Nat,
           diphones' = Append(diphones, d), mRemainingEnvelope' = rest, UNCHANGED mPhones,
           NEW p \in 1 .. nextPhone - 1, NEW k \in 1 .. Len(mPhones[p].envelope)
    PROVE  PlaceOf(p, mPhones[p].envelope[k])'
<1> DEFINE point == mPhones[p].envelope[k]
<1>1. PlaceOf(p, point)
  BY DEF EnvelopeInv
<1>2. /\ Len(diphones) \in Nat /\ Len(diphones') = Len(diphones) + 1
      /\ \A i \in 1 .. Len(diphones) : diphones'[i] = diphones[i]
      /\ diphones'[Len(diphones) + 1] = d
  BY AppendKeeps DEF ChainInv
<1>3. Len(diphones) = nextPhone - 1 /\ nextPhone \in 1 .. Len(mPhones) + 1 /\ Len(mPhones) \in Nat
  BY DEF ChainInv
<1>4. p \in 1 .. Len(diphones) /\ p < Len(diphones') /\ p \in Int
  BY <1>2, <1>3
<1>5. Len(mRemainingEnvelope) \in Nat
  BY DEF EnvelopeInv, IsRemainder
<1>6. point' = point
  OBVIOUS
<1> HIDE DEF point
<1>7. CASE point.offset <= 50
  <2>1. diphones'[p] = diphones[p]
    BY <1>2, <1>4
  <2>2. PointAt(diphones[p].envelope, point.offset + 50)
    BY <1>1, <1>7 DEF PlaceOf
  <2> QED
    BY <1>6, <1>7, <2>1, <2>2 DEF PlaceOf, PointAt, point
<1>8. CASE ~(point.offset <= 50) /\ p < Len(diphones)
  <2>1. diphones'[p + 1] = diphones[p + 1]
    BY <1>2, <1>4, <1>8
  <2>2. PointAt(diphones[p + 1].envelope, point.offset - 50)
    BY <1>1, <1>8 DEF PlaceOf
  <2> QED
    BY <1>4, <1>6, <1>8, <2>1, <2>2 DEF PlaceOf, PointAt, point
<1>9. CASE ~(point.offset <= 50) /\ ~(p < Len(diphones))
  <2>1. p + 1 = Len(diphones) + 1
    BY <1>2, <1>4, <1>9
  <2>2. diphones'[p + 1] = d
    BY <1>2, <2>1
  <2>3. PointAt(mRemainingEnvelope, point.offset - 50)
    BY <1>1, <1>9 DEF PlaceOf
  <2>4. PointAt(d.envelope, point.offset - 50)
    BY <1>5, <2>3 DEF PointAt, Keeps
  <2> QED
    BY <1>4, <1>6, <1>9, <2>2, <2>4 DEF PlaceOf, PointAt, point
<1> QED
  BY <1>7, <1>8, <1>9

LEMMA EnvelopeNext == ChainInv /\ EnvelopeInv /\ [DiphoneNext]_diphoneVars => EnvelopeInv'
<1> SUFFICES ASSUME ChainInv, EnvelopeInv, [DiphoneNext]_diphoneVars
             PROVE  EnvelopeInv'
  OBVIOUS
<1>1. UNCHANGED mPhones
  BY DEF DiphoneNext, ReadDiphone, LastDiphone, EndOfPhones, diphoneVars
<1>2. /\ mPhones \in Phones /\ IsRemainder(mRemainingEnvelope)
      /\ mPhones \in Seq(SpokenPhone) /\ Len(mPhones) \in Nat
      /\ \A p \in 1 .. Len(mPhones) : IsEnvelope(mPhones[p].envelope)
  BY PhonesFacts DEF EnvelopeInv
<1>3. /\ nextPhone \in 1 .. Len(mPhones) + 1 /\ mLastDiphone \in BOOLEAN
      /\ ~mLastDiphone => Len(diphones) = nextPhone - 1
  BY DEF ChainInv
<1>4. CASE ReadDiphone
  <2> DEFINE points == mPhones[nextPhone].envelope
             rem == mRemainingEnvelope
             split == SplitFrom(rem, points)
             half == [of |-> nextPhone, duration |-> mPhones[nextPhone].duration \div 2]
             d == [first |-> second, second |-> half, envelope |-> split.envelope]
  <2>1. /\ nextPhone \in 1 .. Len(mPhones) /\ nextPhone' = nextPhone + 1 /\ ~mLastDiphone
        /\ envelope' = split.envelope /\ mRemainingEnvelope' = split.remaining
        /\ diphones' = Append(diphones, d)
    <3>1. /\ nextPhone <= Len(mPhones) /\ nextPhone' = nextPhone + 1
          /\ envelope' = split.envelope /\ mRemainingEnvelope' = split.remaining
          /\ diphones' = Append(diphones, d)
      BY <1>4 DEF ReadDiphone, SplitEnvelope, Given
    <3> QED
      BY <1>2, <1>3, <3>1 DEF ChainInv
  <2>2. d.envelope = split.envelope
    OBVIOUS
  <2>3. IsEnvelope(points) /\ Len(points) \in Nat
    BY <1>2, <2>1 DEF IsEnvelope
  <2>4. IsSplit(split, rem, points, Len(points))
    BY <1>2, <2>3, SplitFromIs
  <2> HIDE DEF split, d, points
  <2>5. /\ split.envelope \in Seq(AnyPoint) /\ split.remaining \in Seq(AnyPoint)
        /\ Len(split.envelope) \in Nat /\ Len(split.remaining) \in Nat
    <3>1. split \in SplitState
      BY <2>4 DEF IsSplit, SplitState
    <3>2. split.envelope \in Seq(AnyPoint) /\ split.remaining \in Seq(AnyPoint)
      BY <3>1 DEF SplitState
    <3> QED
      BY <3>2
  <2>6. /\ InOrder(split.envelope) /\ Keeps(split.envelope, rem)
        /\ Places(split.envelope, split.remaining, points, Len(points))
    BY <2>4 DEF IsSplit
  <2>7. IsRemainder(split.remaining)
    BY <2>4, <2>5 DEF IsSplit, IsRemainder
  <2>8. ASSUME NEW p \in 1 .. nextPhone' - 1, NEW k \in 1 .. Len(mPhones[p].envelope)
        PROVE  PlaceOf(p, mPhones[p].envelope[k])'
    <3>1. CASE p \in 1 .. nextPhone - 1
      <4>1. Keeps(d.envelope, mRemainingEnvelope) /\ Len(d.envelope) \in Nat
        BY <2>2, <2>5, <2>6
      <4> QED
        BY <1>1, <2>1, <3>1, <4>1, PlacesOfBefore
    <3>2. CASE p = nextPhone
      <4> DEFINE point == points[k]
      <4>1. point = mPhones[p].envelope[k] /\ k \in 1 .. Len(points)
        BY <3>2 DEF points
      <4>2. IF point.offset <= 50
            THEN PointAt(split.envelope, point.offset + 50)
            ELSE PointAt(split.remaining, point.offset - 50)
        BY <2>6, <4>1 DEF Places, PointAt
      <4>3. Len(diphones') = p /\ diphones'[p].envelope = split.envelope
        <5>1. Len(diphones') = Len(diphones) + 1 /\ diphones'[Len(diphones) + 1] = d /\ Len(diphones) = nextPhone - 1
          BY <1>3, <2>1, AppendKeeps DEF ChainInv
        <5> QED
          BY <1>3, <2>2, <3>2, <5>1
      <4>4. ~(p < Len(diphones'))
        BY <4>3
      <4>5. (mPhones[p].envelope[k])' = point
        BY <1>1, <4>1
      <4> HIDE DEF point
      <4> QED
        BY <2>1, <4>2, <4>3, <4>4, <4>5 DEF PlaceOf, PointAt
    <3> QED
      BY <1>3, <2>1, <3>1, <3>2
  <2> QED
    BY <1>1, <1>2, <2>1, <2>6, <2>7, <2>8 DEF EnvelopeInv
<1>5. CASE LastDiphone
  <2> DEFINE d == [first |-> second, second |-> Pause, envelope |-> mRemainingEnvelope]
  <2>1. /\ ~mLastDiphone /\ UNCHANGED nextPhone
        /\ envelope' = mRemainingEnvelope /\ mRemainingEnvelope' = <<>>
        /\ diphones' = Append(diphones, d)
    BY <1>5 DEF LastDiphone, Given
  <2>2. d.envelope = mRemainingEnvelope
    OBVIOUS
  <2> HIDE DEF d
  <2>3. Keeps(d.envelope, mRemainingEnvelope) /\ Len(d.envelope) \in Nat
    BY <1>2, <2>2 DEF Keeps, IsRemainder
  <2>4. ASSUME NEW p \in 1 .. nextPhone' - 1, NEW k \in 1 .. Len(mPhones[p].envelope)
        PROVE  PlaceOf(p, mPhones[p].envelope[k])'
    BY <1>1, <2>1, <2>3, PlacesOfBefore
  <2> QED
    BY <1>1, <1>2, <2>1, <2>4, NothingRemains DEF EnvelopeInv, IsRemainder
<1>6. CASE EndOfPhones
  <2>1. /\ mLastDiphone /\ UNCHANGED <<nextPhone, diphones>>
        /\ envelope' = mRemainingEnvelope /\ mRemainingEnvelope' = <<>>
    BY <1>6 DEF EndOfPhones
  <2>2. Len(diphones) = nextPhone
    BY <2>1 DEF ChainInv
  <2>3. ASSUME NEW p \in 1 .. nextPhone' - 1, NEW k \in 1 .. Len(mPhones[p].envelope)
        PROVE  PlaceOf(p, mPhones[p].envelope[k])'
    <3>1. p \in 1 .. nextPhone - 1 /\ p < Len(diphones)
      BY <1>3, <2>1, <2>2
    <3>2. PlaceOf(p, mPhones[p].envelope[k])
      BY <3>1 DEF EnvelopeInv
    <3> QED
      BY <1>1, <2>1, <3>1, <3>2 DEF PlaceOf, PointAt
  <2> QED
    BY <1>1, <1>2, <2>1, <2>3, NothingRemains DEF EnvelopeInv, IsRemainder
<1>7. CASE UNCHANGED diphoneVars
  BY <1>7 DEF diphoneVars, EnvelopeInv, PlaceOf, PointAt
<1> QED
  BY <1>4, <1>5, <1>6, <1>7 DEF DiphoneNext

DiphonesInv == ChainInv /\ DurationInv /\ EnvelopeInv

DiphonesKeepPhones == Chained /\ SameDuration /\ OffsetsInOrder /\ NoPointLost

LEMMA KeptByInv == DiphonesInv => DiphonesKeepPhones
<1> SUFFICES ASSUME DiphonesInv
             PROVE  DiphonesKeepPhones
  OBVIOUS
<1> USE DEF DiphonesInv
<1>1. Chained
  BY ChainImplies
<1>2. SameDuration
  BY DEF SameDuration, ChainInv, DurationInv
<1>3. OffsetsInOrder
  BY DEF OffsetsInOrder, EnvelopeInv
<1>4. NoPointLost
  <2> SUFFICES ASSUME atEnd, NEW p \in 1 .. Len(mPhones), NEW k \in 1 .. Len(mPhones[p].envelope)
               PROVE  LET point == mPhones[p].envelope[k]
                          OffsetAt(i, offset) == \E j \in 1 .. Len(diphones[i].envelope) :
                                               diphones[i].envelope[j].offset = offset
                      IN  IF point.offset <= 50 THEN OffsetAt(p, point.offset + 50) ELSE OffsetAt(p + 1, point.offset - 50)
    BY DEF NoPointLost
  <2>1. nextPhone = Len(mPhones) + 1 /\ Len(diphones) = Len(mPhones) + 1 /\ Len(mPhones) \in Nat
    BY DEF ChainInv
  <2>2. p \in 1 .. nextPhone - 1 /\ p < Len(diphones)
    BY <2>1
  <2>3. PlaceOf(p, mPhones[p].envelope[k])
    BY <2>2 DEF EnvelopeInv
  <2> QED
    BY <2>2, <2>3 DEF PlaceOf, PointAt
<1> QED
  BY <1>1, <1>2, <1>3, <1>4 DEF DiphonesKeepPhones

\* Whatever the phones and their envelopes, the diphones of a text take as long
\* as its phones and lose none of their points.
THEOREM DiphonesKeepThePhones ==
    DiphoneInit /\ [][DiphoneNext]_diphoneVars => []DiphonesKeepPhones
<1>1. DiphoneInit => DiphonesInv
  BY ChainInit, DurationInit, EnvelopeInit DEF DiphonesInv
<1>2. DiphonesInv /\ [DiphoneNext]_diphoneVars => DiphonesInv'
  BY ChainNext, DurationNext, EnvelopeNext DEF DiphonesInv
<1> QED
  BY <1>1, <1>2, KeptByInv, PTL

-----------------------------------------------------------------------------
(* The diphones are spoken as the phones are.                               *)

OnPhone(p, offset, pitch) ==
    p # 0 /\ (Mismatched(p) \/ PitchIs(mPhones[p].envelope, offset, pitch))

OnHalves(p, q, point) ==
    \/ point.offset <= 50 /\ OnPhone(p, point.offset + 50, point.pitch)
    \/ point.offset >= 50 /\ OnPhone(q, point.offset - 50, point.pitch)

\* The diphones are on the contours of the phones that they are halves of, and
\* what remains is on that of the last phone and ends where it ends.
ContourInv ==
    /\ \A i \in 1 .. Len(diphones) : \A k \in 1 .. Len(diphones[i].envelope) :
           OnHalves(i - 1, IF i > Len(mPhones) THEN 0 ELSE i, diphones[i].envelope[k])
    /\ \A k \in 1 .. Len(mRemainingEnvelope) :
           OnPhone(nextPhone - 1, mRemainingEnvelope[k].offset + 50, mRemainingEnvelope[k].pitch)
    /\ mRemainingEnvelope # <<>> =>
           /\ mPhones[nextPhone - 1].envelope # <<>>
           /\ Last(mRemainingEnvelope).pitch = Last(mPhones[nextPhone - 1].envelope).pitch

LEMMA ContourInit == DiphoneInit => ContourInv
<1> SUFFICES ASSUME DiphoneInit
             PROVE  ContourInv
  OBVIOUS
<1>1. diphones = <<>> /\ mRemainingEnvelope = <<>>
  BY DEF DiphoneInit
<1> QED
  BY <1>1 DEF ContourInv

\* A diphone more on the contours of its halves.
LEMMA ContourGrows ==
    ASSUME ChainInv, ContourInv, UNCHANGED mPhones, NEW d, diphones' = Append(diphones, d),
           \A k \in 1 .. Len(d.envelope) :
               OnHalves(Len(diphones), IF Len(diphones) + 1 > Len(mPhones) THEN 0 ELSE Len(diphones) + 1,
                        d.envelope[k]),
           NEW i \in 1 .. Len(diphones'), NEW k \in 1 .. Len(diphones'[i].envelope)
    PROVE  OnHalves(i - 1, IF i > Len(mPhones) THEN 0 ELSE i, diphones'[i].envelope[k])
<1>1. /\ Len(diphones) \in Nat /\ Len(diphones') = Len(diphones) + 1
      /\ \A j \in 1 .. Len(diphones) : diphones'[j] = diphones[j]
      /\ diphones'[Len(diphones) + 1] = d
  BY AppendKeeps DEF ChainInv
<1>2. OnHalves(i - 1, IF i > Len(mPhones) THEN 0 ELSE i, diphones'[i].envelope[k])
  <2>1. CASE i \in 1 .. Len(diphones)
    <3>1. diphones'[i] = diphones[i]
      BY <1>1, <2>1
    <3> QED
      BY <2>1, <3>1 DEF ContourInv
  <2>2. CASE i = Len(diphones) + 1
    <3>1. diphones'[i] = d /\ i - 1 = Len(diphones)
      BY <1>1, <2>2
    <3> QED
      BY <2>2, <3>1
  <2> QED
    BY <1>1, <2>1, <2>2
<1> QED
  BY <1>2

LEMMA HalvesNext ==
    ASSUME UNCHANGED mPhones,
           \A i \in 1 .. Len(diphones') : \A k \in 1 .. Len(diphones'[i].envelope) :
               OnHalves(i - 1, IF i > Len(mPhones) THEN 0 ELSE i, diphones'[i].envelope[k])
    PROVE  (\A i \in 1 .. Len(diphones) : \A k \in 1 .. Len(diphones[i].envelope) :
                OnHalves(i - 1, IF i > Len(mPhones) THEN 0 ELSE i, diphones[i].envelope[k]))'
  BY DEF OnHalves, OnPhone, Mismatched

LEMMA ContourNext ==
    ASSUME \A s \in Phones : \A p \in 1 .. Len(s) : Interpolable(s[p].envelope),
           ChainInv, EnvelopeInv, ContourInv, [DiphoneNext]_diphoneVars
    PROVE  ContourInv'
<1>1. UNCHANGED mPhones
  BY DEF DiphoneNext, ReadDiphone, LastDiphone, EndOfPhones, diphoneVars
<1>2. /\ mPhones \in Phones /\ IsRemainder(mRemainingEnvelope)
      /\ Len(mRemainingEnvelope) \in Nat
      /\ mPhones \in Seq(SpokenPhone) /\ Len(mPhones) \in Nat
      /\ \A p \in 1 .. Len(mPhones) : IsEnvelope(mPhones[p].envelope) /\ Interpolable(mPhones[p].envelope)
  BY PhonesFacts DEF EnvelopeInv, IsRemainder
<1>3. /\ nextPhone \in 1 .. Len(mPhones) + 1 /\ mLastDiphone \in BOOLEAN
      /\ ~mLastDiphone => Len(diphones) = nextPhone - 1
      /\ mLastDiphone => nextPhone = Len(mPhones) + 1
  BY DEF ChainInv
<1>4. \A p, offset, pitch : OnPhone(p, offset, pitch)' <=> OnPhone(p, offset, pitch)
  BY <1>1 DEF OnPhone, Mismatched
<1>5. \A k \in 1 .. Len(mRemainingEnvelope) : mRemainingEnvelope[k].offset <= 50
  BY <1>2 DEF IsRemainder
<1>6. CASE ReadDiphone
  <2> DEFINE n == nextPhone
             points == mPhones[n].envelope
             rem == mRemainingEnvelope
             split == SplitFrom(rem, points)
             half == [of |-> n, duration |-> mPhones[n].duration \div 2]
             d == [first |-> second, second |-> half, envelope |-> split.envelope]
  <2>1. /\ n \in 1 .. Len(mPhones) /\ nextPhone' = n + 1 /\ ~mLastDiphone
        /\ mRemainingEnvelope' = split.remaining
        /\ diphones' = Append(diphones, d)
    <3>1. /\ n <= Len(mPhones) /\ nextPhone' = n + 1
          /\ mRemainingEnvelope' = split.remaining
          /\ diphones' = Append(diphones, d)
      BY <1>6 DEF ReadDiphone, SplitEnvelope, Given
    <3> QED
      BY <1>2, <1>3, <3>1
  <2>2. d.envelope = split.envelope
    OBVIOUS
  <2>3. IsEnvelope(points) /\ Len(points) \in Nat /\ Interpolable(points)
    BY <1>2, <2>1 DEF IsEnvelope
  <2>4. IsSplit(split, rem, points, Len(points))
    BY <1>2, <2>3, SplitFromIs
  <2>6. Mismatched(n) \/ OnContour(split.envelope, split.remaining, rem, points)
    <3> SUFFICES ASSUME ~Mismatched(n)
                 PROVE  OnContour(split.envelope, split.remaining, rem, points)
      OBVIOUS
    <3>1. Meets(rem, points)
      <4> SUFFICES ASSUME rem # <<>>, points # <<>>
                   PROVE  Last(rem).pitch = points[1].pitch
        BY DEF Meets
      <4>1. /\ mPhones[n - 1].envelope # <<>>
            /\ Last(rem).pitch = Last(mPhones[n - 1].envelope).pitch
        BY DEF ContourInv
      <4>2. n - 1 # 0
        <5>1. 1 \in 1 .. Len(rem)
          BY <1>2 DEF IsRemainder
        <5> QED
          BY <5>1 DEF ContourInv, OnPhone
      <4>3. n > 1
        BY <2>1, <4>2
      <4>4. Head(points) = points[1]
        BY <2>3 DEF IsEnvelope
      <4> QED
        BY <4>1, <4>3, <4>4 DEF Mismatched
    <3> QED
      BY <1>2, <2>3, <3>1, ContourFrom
  <2> HIDE DEF split, d, points
  <2>7. /\ split.envelope \in Seq(AnyPoint) /\ split.remaining \in Seq(AnyPoint)
        /\ Len(split.envelope) \in Nat /\ Len(split.remaining) \in Nat
    <3>1. split \in SplitState
      BY <2>4 DEF IsSplit, SplitState
    <3>2. split.envelope \in Seq(AnyPoint) /\ split.remaining \in Seq(AnyPoint)
      BY <3>1 DEF SplitState
    <3> QED
      BY <3>2
  <2>8. Keeps(split.envelope, rem) /\ AfterMiddle(split.envelope, rem)
    BY <2>4 DEF IsSplit
  <2>9. n \in Nat /\ n # 0
    BY <1>2, <2>1
  <2>10. ASSUME NEW k \in 1 .. Len(d.envelope)
         PROVE  OnHalves(n - 1, n, d.envelope[k])
    <3>1. CASE k \in 1 .. Len(rem)
      <4>1. d.envelope[k] = rem[k]
        BY <2>2, <2>8, <3>1 DEF Keeps
      <4>2. OnPhone(n - 1, rem[k].offset + 50, rem[k].pitch) /\ rem[k].offset <= 50
        BY <1>5, <3>1 DEF ContourInv
      <4> QED
        BY <4>1, <4>2 DEF OnHalves
    <3>2. CASE k \in Len(rem) + 1 .. Len(split.envelope)
      <4>1. d.envelope[k].offset >= 50
        BY <2>2, <2>8, <3>2 DEF AfterMiddle
      <4>2. Mismatched(n) \/ PitchIs(points, d.envelope[k].offset - 50, d.envelope[k].pitch)
        BY <2>2, <2>6, <3>2 DEF OnContour
      <4> QED
        BY <2>9, <4>1, <4>2 DEF OnHalves, OnPhone, points
    <3> QED
      BY <1>2, <2>2, <2>7, <3>1, <3>2
  <2>11. ASSUME NEW i \in 1 .. Len(diphones'), NEW k \in 1 .. Len(diphones'[i].envelope)
         PROVE  OnHalves(i - 1, IF i > Len(mPhones) THEN 0 ELSE i, diphones'[i].envelope[k])
    <3>1. Len(diphones) = n - 1 /\ Len(diphones) + 1 = n /\ ~(n > Len(mPhones))
      BY <1>2, <1>3, <2>1
    <3>2. \A j \in 1 .. Len(d.envelope) :
              OnHalves(Len(diphones), IF Len(diphones) + 1 > Len(mPhones) THEN 0 ELSE Len(diphones) + 1,
                       d.envelope[j])
      BY <2>10, <3>1
    <3> QED
      BY <1>1, <2>1, <3>2, ContourGrows
  <2>12. ASSUME NEW k \in 1 .. Len(split.remaining)
         PROVE  OnPhone(n, split.remaining[k].offset + 50, split.remaining[k].pitch)
    <3>1. Mismatched(n) \/ PitchIs(points, split.remaining[k].offset + 50, split.remaining[k].pitch)
      BY <2>6 DEF OnContour
    <3> QED
      BY <2>9, <3>1 DEF OnPhone, points
  <2>13. split.remaining # <<>> => points # <<>> /\ Last(split.remaining).pitch = Last(points).pitch
    <3> SUFFICES ASSUME split.remaining # <<>>
                 PROVE  points # <<>> /\ Last(split.remaining).pitch = Last(points).pitch
      OBVIOUS
    <3>1. Len(points) > 0
      BY <2>3, <2>4 DEF IsSplit
    <3>2. Len(points) \in 1 .. Len(points) /\ points # <<>>
      BY <2>3, <3>1
    <3>3. points[Len(points)].offset \in Int
      BY <2>3, <3>2, PointFacts DEF IsEnvelope
    <3>4. points[Len(points)].offset >= 50
      BY <2>4, <3>1, <3>3 DEF IsSplit
    <3>5. Last(split.remaining).pitch = points[Len(points)].pitch
      BY <2>4, <3>1, <3>4 DEF IsSplit
    <3> QED
      BY <3>2, <3>5 DEF Last
  <2>14. nextPhone' - 1 = n /\ mPhones'[nextPhone' - 1].envelope = points
    BY <1>1, <2>1, <2>9 DEF points
  <2>15. \A k \in 1 .. Len(mRemainingEnvelope') :
             OnPhone(nextPhone - 1, mRemainingEnvelope[k].offset + 50, mRemainingEnvelope[k].pitch)'
    BY <1>4, <2>1, <2>12, <2>14
  <2> QED
    BY <1>1, <2>1, <2>11, <2>13, <2>14, <2>15, HalvesNext DEF ContourInv
<1>7. CASE LastDiphone
  <2> DEFINE d == [first |-> second, second |-> Pause, envelope |-> mRemainingEnvelope]
  <2>1. /\ ~mLastDiphone /\ UNCHANGED nextPhone /\ nextPhone > Len(mPhones)
        /\ mRemainingEnvelope' = <<>> /\ diphones' = Append(diphones, d)
    BY <1>7 DEF LastDiphone, Given
  <2>2. d.envelope = mRemainingEnvelope
    OBVIOUS
  <2> HIDE DEF d
  <2>3. Len(diphones) = nextPhone - 1
    BY <1>3, <2>1
  <2>4. ASSUME NEW k \in 1 .. Len(d.envelope), NEW q
        PROVE  OnHalves(Len(diphones), q, d.envelope[k])
    BY <1>5, <2>2, <2>3 DEF ContourInv, OnHalves
  <2>5. ASSUME NEW i \in 1 .. Len(diphones'), NEW k \in 1 .. Len(diphones'[i].envelope)
        PROVE  OnHalves(i - 1, IF i > Len(mPhones) THEN 0 ELSE i, diphones'[i].envelope[k])
    BY <1>1, <2>1, <2>4, ContourGrows
  <2> QED
    BY <1>1, <2>1, <2>5, HalvesNext DEF ContourInv
<1>8. CASE EndOfPhones
  <2>1. UNCHANGED diphones /\ mRemainingEnvelope' = <<>>
    BY <1>8 DEF EndOfPhones
  <2>2. \A p, q, point : OnHalves(p, q, point)' <=> OnHalves(p, q, point)
    BY <1>1 DEF OnHalves, OnPhone, Mismatched
  <2> QED
    BY <1>1, <2>1, <2>2 DEF ContourInv, OnHalves, OnPhone, Mismatched
<1>9. CASE UNCHANGED diphoneVars
  BY <1>9 DEF diphoneVars, ContourInv, OnHalves, OnPhone, Mismatched
<1> QED
  BY <1>6, <1>7, <1>8, <1>9 DEF DiphoneNext

LEMMA SameContourByInv == ChainInv /\ ContourInv => SameContour
<1> SUFFICES ASSUME ChainInv, ContourInv,
                    NEW i \in 1 .. Len(diphones), NEW k \in 1 .. Len(diphones[i].envelope)
             PROVE  LET point == diphones[i].envelope[k]
                        on(p, offset) == p # 0 /\ (Mismatched(p) \/ PitchIs(mPhones[p].envelope, offset, point.pitch))
                    IN  \/ point.offset <= 50 /\ on(diphones[i].first.of, point.offset + 50)
                        \/ point.offset >= 50 /\ on(diphones[i].second.of, point.offset - 50)
  BY DEF SameContour
<1>1. /\ diphones[i].first.of = i - 1
      /\ diphones[i].second.of = IF i > Len(mPhones) THEN 0 ELSE i
  BY DEF ChainInv
<1>2. OnHalves(diphones[i].first.of, diphones[i].second.of, diphones[i].envelope[k])
  BY <1>1 DEF ContourInv
<1> QED
  BY <1>2 DEF OnHalves, OnPhone

\* Where the points around the middle of a phone are as far from it or have the
\* same pitch, the diphones of a text are its phones, cut in the middle.
THEOREM DiphonesSpeakThePhones ==
    ASSUME \A s \in Phones : \A p \in 1 .. Len(s) : Interpolable(s[p].envelope)
    PROVE  DiphoneInit /\ [][DiphoneNext]_diphoneVars => []DiphonesAreThePhones
<1> DEFINE Inv == DiphonesInv /\ ContourInv
<1>1. DiphoneInit => Inv
  BY ChainInit, DurationInit, EnvelopeInit, ContourInit DEF DiphonesInv
<1>2. Inv /\ [DiphoneNext]_diphoneVars => Inv'
  BY ChainNext, DurationNext, EnvelopeNext, ContourNext DEF DiphonesInv
<1>3. Inv => DiphonesAreThePhones
  BY KeptByInv, SameContourByInv DEF DiphonesInv, DiphonesKeepPhones, DiphonesAreThePhones
<1> HIDE DEF Inv
<1> QED
  BY <1>1, <1>2, <1>3, PTL
=============================================================================
