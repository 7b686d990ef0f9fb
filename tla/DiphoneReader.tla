--------------------------- MODULE DiphoneReader ---------------------------
(***************************************************************************)
(* The diphone reader (synthesizer/diphone.cpp): n phones become the n + 1 *)
(* pairs of their halves, with a pause before the first and after the      *)
(* last.  A pitch point at an offset in percent of a phone moves to the    *)
(* diphone that holds that half, and where the envelope has no point at    *)
(* the middle one is interpolated.                                         *)
(***************************************************************************)
EXTENDS Integers, Sequences, SequencesExt

CONSTANT Phones         \* the sequences of phones that may be read

Point == [offset : 0 .. 100, pitch : Nat]

SpokenPhone == [duration : Nat, envelope : Seq(Point)]

\* The envelopes the pitch model and the pho reader give: points in order.
InOrder(envelope) ==
    \A i, j \in 1 .. Len(envelope) : i < j => envelope[i].offset < envelope[j].offset

ASSUME DiphoneAssumption ==
    /\ Phones \subseteq Seq(SpokenPhone)
    /\ \A s \in Phones : \A i \in 1 .. Len(s) : s[i].duration % 2 = 0 /\ InOrder(s[i].envelope)

VARIABLES
    mPhones, nextPhone,     \* mProsody's phones and the one it gives next
    first, second,          \* the halves, of which phone (0 is the pause) and how long
    envelope, mRemainingEnvelope,
    mLastDiphone,
    diphones, atEnd,        \* the diphones returned; read() has returned false
    heard                   \* the sum of their durations

diphoneVars == <<mPhones, nextPhone, first, second, envelope, mRemainingEnvelope, mLastDiphone,
                 diphones, atEnd, heard>>

Pause == [of |-> 0, duration |-> 0]

DiphoneInit ==
    /\ mPhones \in Phones
    /\ nextPhone = 1
    /\ first = Pause /\ second = Pause
    /\ envelope = <<>> /\ mRemainingEnvelope = <<>>
    /\ mLastDiphone = FALSE
    /\ diphones = <<>> /\ atEnd = FALSE
    /\ heard = 0

-----------------------------------------------------------------------------
(* The loop over the envelope of a phone.  It keeps the envelope of the     *)
(* diphone, what remains for the next one, and haveMidpoint.                *)

Split(env, rem, mid) == [envelope |-> env, remaining |-> rem, haveMidpoint |-> mid]

\* The pitch at the middle, between the last point and one after the middle.
\* Pitches and offsets are such that the division has no remainder.
PitchAtMiddle(env, point) ==
    IF env = <<>> \/ Last(env).pitch = point.pitch
    THEN point.pitch
    ELSE LET pitch1 == Last(env).pitch
             offset2 == Last(env).offset - 50
             offset1 == point.offset
         IN  pitch1 + ((offset1 - 50) * (point.pitch - pitch1)) \div (offset1 - offset2)

AddMidpoint(s, pitch) ==
    IF s.haveMidpoint
    THEN s
    ELSE Split(Append(s.envelope, [offset |-> 100, pitch |-> pitch]),
               Append(s.remaining, [offset |-> 0, pitch |-> pitch]), TRUE)

AddPoint(s, point) ==
    CASE point.offset = 0 /\ s.envelope # <<>> /\ Last(s.envelope).offset = 50 -> s
      [] point.offset < 50 /\ ~(point.offset = 0 /\ s.envelope # <<>> /\ Last(s.envelope).offset = 50) ->
           [s EXCEPT !.envelope = Append(@, [point EXCEPT !.offset = @ + 50])]
      [] point.offset = 50 ->
           Split(Append(s.envelope, [point EXCEPT !.offset = 100]),
                 Append(s.remaining, [point EXCEPT !.offset = 0]), TRUE)
      [] point.offset > 50 ->
           LET with == AddMidpoint(s, PitchAtMiddle(s.envelope, point))
           IN  [with EXCEPT !.remaining = Append(@, [point EXCEPT !.offset = @ - 50])]

\* What the loop has made of the first k points, when rem is what remained of
\* the phone before.
SplitAfter(rem, points) ==
    LET after[k \in 0 .. Len(points)] ==
            IF k = 0 THEN Split(rem, <<>>, FALSE) ELSE AddPoint(after[k - 1], points[k])
    IN  after

SplitFrom(rem, points) == SplitAfter(rem, points)[Len(points)]

SplitEnvelope(phone) == SplitFrom(mRemainingEnvelope, phone.envelope)

-----------------------------------------------------------------------------
Given(a, b, env) == Append(diphones, [first |-> a, second |-> b, envelope |-> env])

\* Mutant: what remained of the last phone's envelope is forgotten.
ReadForgetful ==
    /\ nextPhone <= Len(mPhones)
    /\ LET split == SplitFrom(<<>>, mPhones[nextPhone].envelope)
           half == [of |-> nextPhone, duration |-> mPhones[nextPhone].duration \div 2]
       IN  /\ envelope' = split.envelope
           /\ mRemainingEnvelope' = split.remaining
           /\ second' = half
           /\ diphones' = Given(second, half, split.envelope)
           /\ heard' = heard + second.duration + half.duration
    /\ first' = second
    /\ nextPhone' = nextPhone + 1
    /\ UNCHANGED <<mPhones, mLastDiphone, atEnd>>

ReadDiphone ==
    /\ nextPhone <= Len(mPhones)
    /\ LET split == SplitEnvelope(mPhones[nextPhone])
           half == [of |-> nextPhone, duration |-> mPhones[nextPhone].duration \div 2]
       IN  /\ envelope' = split.envelope
           /\ mRemainingEnvelope' = split.remaining
           /\ second' = half
           /\ diphones' = Given(second, half, split.envelope)
           /\ heard' = heard + second.duration + half.duration
    /\ first' = second
    /\ nextPhone' = nextPhone + 1
    /\ UNCHANGED <<mPhones, mLastDiphone, atEnd>>

\* The last phone's second half, and a pause.
LastDiphone ==
    /\ nextPhone > Len(mPhones) /\ ~mLastDiphone
    /\ mLastDiphone' = TRUE
    /\ first' = second
    /\ second' = Pause
    /\ envelope' = mRemainingEnvelope
    /\ mRemainingEnvelope' = <<>>
    /\ diphones' = Given(second, Pause, mRemainingEnvelope)
    /\ heard' = heard + second.duration
    /\ UNCHANGED <<mPhones, nextPhone, atEnd>>

\* read() changes first and the envelopes before it returns false.
EndOfPhones ==
    /\ ~atEnd
    /\ nextPhone > Len(mPhones) /\ mLastDiphone
    /\ atEnd' = TRUE
    /\ first' = second
    /\ envelope' = mRemainingEnvelope
    /\ mRemainingEnvelope' = <<>>
    /\ UNCHANGED <<mPhones, nextPhone, second, mLastDiphone, diphones, heard>>

DiphoneNext == ReadDiphone \/ LastDiphone \/ EndOfPhones

-----------------------------------------------------------------------------

\* The diphones form a chain through every phone, with a pause at both ends.
Chained ==
    atEnd => /\ Len(diphones) = Len(mPhones) + 1
            /\ \A i \in 1 .. Len(diphones) :
                   /\ diphones[i].first.of = i - 1
                   /\ diphones[i].second.of = IF i = Len(diphones) THEN 0 ELSE i
                   /\ i > 1 => diphones[i].first = diphones[i - 1].second

\* Speaking diphones takes exactly as long as speaking the phones.
DurationTo ==
    LET sum[n \in 0 .. Len(mPhones)] == IF n = 0 THEN 0 ELSE sum[n - 1] + mPhones[n].duration
    IN  sum
SameDuration == atEnd => heard = DurationTo[Len(mPhones)]

\* The offsets of a diphone's envelope lie in it and in order.
OffsetsInOrder == InOrder(envelope)

\* The pitch of an envelope at one of its own points or between two.
PitchIs(env, offset, pitch) ==
    \/ \E i \in 1 .. Len(env) : env[i].offset = offset /\ env[i].pitch = pitch
    \/ \E i \in 1 .. Len(env) - 1 :
           /\ env[i].offset < offset /\ offset < env[i + 1].offset
           /\ (pitch - env[i].pitch) * (env[i + 1].offset - env[i].offset)
                = (env[i + 1].pitch - env[i].pitch) * (offset - env[i].offset)

\* read() warns where a phone ends and the next begins on another pitch, and
\* takes the end of the first for the start of the second.
Mismatched(p) ==
    /\ p > 1 /\ mPhones[p].envelope # <<>> /\ mPhones[p - 1].envelope # <<>>
    /\ Last(mPhones[p - 1].envelope).pitch # Head(mPhones[p].envelope).pitch

\* read() interpolates from the wrong end: what it takes for the pitch at the
\* middle is that of the line through the points before and after it where
\* these are as far from the middle, or have the same pitch.
Interpolable(env) ==
    /\ env # <<>> => env[1].offset <= 50
    /\ \A k \in 1 .. Len(env) - 1 :
           env[k].offset < 50 /\ 50 < env[k + 1].offset
               => \/ env[k].pitch = env[k + 1].pitch
                  \/ /\ env[k].offset + env[k + 1].offset = 100
                     /\ (env[k + 1].pitch - env[k].pitch) % 2 = 0

\* Every pitch point of a diphone lies on the contour of the phone whose half
\* it is in: the second half of its first phone or the first half of its
\* second.  (A phone whose start read() has warned of is excepted.)
SameContour ==
    \A i \in 1 .. Len(diphones) : \A k \in 1 .. Len(diphones[i].envelope) :
        LET point == diphones[i].envelope[k]
            on(p, offset) == p # 0 /\ (Mismatched(p) \/ PitchIs(mPhones[p].envelope, offset, point.pitch))
        IN  \/ point.offset <= 50 /\ on(diphones[i].first.of, point.offset + 50)
            \/ point.offset >= 50 /\ on(diphones[i].second.of, point.offset - 50)

\* No pitch point of a phone is lost, except where two phones meet.
NoPointLost ==
    atEnd => \A p \in 1 .. Len(mPhones) : \A k \in 1 .. Len(mPhones[p].envelope) :
        LET point == mPhones[p].envelope[k]
            at(i, offset) == \E j \in 1 .. Len(diphones[i].envelope) :
                                 diphones[i].envelope[j].offset = offset
        IN  IF point.offset <= 50 THEN at(p, point.offset + 50) ELSE at(p + 1, point.offset - 50)

\* The diphones are the phones, cut in the middle: what they are of, how long
\* they take and the pitch they are spoken with.
DiphonesAreThePhones == Chained /\ SameDuration /\ OffsetsInOrder /\ SameContour /\ NoPointLost

\* A client that reads until false comes to an end.
AllDiphonesRead == <>atEnd
=============================================================================
