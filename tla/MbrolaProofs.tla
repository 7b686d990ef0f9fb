---------------------------- MODULE MbrolaProofs ----------------------------
(***************************************************************************)
(* Theorems about the MBROLA synthesizer, for every text, every size of    *)
(* pipe and buffer and every schedule of the two processes.                *)
(***************************************************************************)
EXTENDS MbrolaSynthesizer, FiniteSetTheorems, TLAPS

-----------------------------------------------------------------------------
(* Outside its loop over the phones, the library has written nothing that a *)
(* flush does not follow, but for phones that it takes not to be written.   *)

Written ==
    /\ pho \in Seq(Nat) /\ input \in Seq(Nat) /\ taken \in Seq(Nat)
    /\ next \in Nat /\ text \in Seq(Phone) /\ want \in {"header", "audio", "error"}

\* The last line on its way to mbrola is a flush, or mbrola has seen it.
LastIsFlush == IF input = <<>> THEN taken = <<>> ELSE input[Len(input)] = Flush

FlushInv ==
    /\ Written
    /\ state \notin {"need_data", "have_data"} => pho = <<>> /\ LastIsFlush
    /\ state = "need_data" => Unflushed \subseteq unseen
    /\ state = "have_data" => pc = "loop"
    /\ pc \in {"read", "stat", "select"} /\ want # "header" => state \notin {"need_data", "have_data"}

LEMMA FlushedIsLast ==
    ASSUME Written, NEW w \in Seq(Nat), Flushed(w)
    PROVE  pho' = <<>> /\ LastIsFlush' /\ input' \in Seq(Nat)
<1>1. pho' = <<>> /\ input' = input \o w \o <<Flush>>
  BY DEF Flushed
<1>2. input \o w \in Seq(Nat) /\ Flush \in Nat
  BY DEF Written, Flush
<1>3. input' = Append(input \o w, Flush)
  BY <1>1, <1>2
<1> DEFINE before == input \o w
<1> HIDE DEF before
<1>4. before \in Seq(Nat) /\ input' = Append(before, Flush)
  BY <1>2, <1>3 DEF before
<1>5. input' \in Seq(Nat)
  BY <1>2, <1>4
<1>6. input' # <<>> /\ input'[Len(input')] = Flush
  <2>1. Len(input') = Len(before) + 1 /\ Len(before) \in Nat
    BY <1>2, <1>4
  <2>2. input'[Len(before) + 1] = Flush
    BY <1>2, <1>4
  <2> QED
    BY <2>1, <2>2
<1> QED
  BY <1>1, <1>5, <1>6 DEF LastIsFlush

(* The lines on their way to mbrola and those it has not spoken yet: a flush *)
(* after them leaves no phone unheard.                                       *)
Way == taken \o input \o pho
LeftOf(s) == {s[i] : i \in {k \in 1 .. Len(s) : \A j \in k .. Len(s) : s[j] # Flush}}

LEMMA EndsFlushed ==
    ASSUME NEW s \in Seq(Nat), s = <<>> \/ s[Len(s)] = Flush
    PROVE  LeftOf(s) = {}
<1>1. \A k \in 1 .. Len(s) : Len(s) \in k .. Len(s) /\ s # <<>>
  OBVIOUS
<1> QED
  BY <1>1 DEF LeftOf

\* What is left of the end of a sequence is left of the sequence.
LEMMA EndLeft ==
    ASSUME NEW s \in Seq(Nat), NEW t \in Seq(Nat), NEW n \in Nat, Len(s) = n + Len(t),
           \A i \in 1 .. Len(t) : t[i] = s[n + i]
    PROVE  LeftOf(t) \subseteq LeftOf(s)
<1> SUFFICES ASSUME NEW k \in 1 .. Len(t), \A j \in k .. Len(t) : t[j] # Flush
             PROVE  t[k] \in LeftOf(s)
  BY DEF LeftOf
<1>1. n + k \in 1 .. Len(s) /\ t[k] = s[n + k]
  OBVIOUS
<1>2. ASSUME NEW j \in n + k .. Len(s)
      PROVE  s[j] # Flush
  <2>1. j - n \in k .. Len(t) /\ j - n \in 1 .. Len(t) /\ n + (j - n) = j
    OBVIOUS
  <2> QED
    BY <2>1
<1> QED
  BY <1>1, <1>2 DEF LeftOf

LEMMA OneMoreLeft ==
    ASSUME NEW s \in Seq(Nat), NEW p \in Nat
    PROVE  LeftOf(Append(s, p)) \subseteq LeftOf(s) \cup {p}
<1> DEFINE t == Append(s, p)
<1>1. Len(t) = Len(s) + 1 /\ t[Len(s) + 1] = p /\ \A i \in 1 .. Len(s) : t[i] = s[i]
  OBVIOUS
<1> HIDE DEF t
<1>2. ASSUME NEW k \in 1 .. Len(t), \A j \in k .. Len(t) : t[j] # Flush, k # Len(s) + 1
      PROVE  t[k] \in LeftOf(s)
  <2>1. k \in 1 .. Len(s)
    BY <1>1, <1>2
  <2>2. \A j \in k .. Len(s) : j \in k .. Len(t) /\ t[j] = s[j]
    BY <1>1, <2>1
  <2>3. \A j \in k .. Len(s) : s[j] # Flush
    BY <1>2, <2>2
  <2> QED
    BY <1>1, <2>1, <2>3 DEF LeftOf
<1>3. \A k \in 1 .. Len(t) : (\A j \in k .. Len(t) : t[j] # Flush) => t[k] \in LeftOf(s) \cup {p}
  BY <1>1, <1>2
<1>4. LeftOf(t) \subseteq LeftOf(s) \cup {p}
  BY <1>3 DEF LeftOf
<1> QED
  BY <1>4 DEF t

LEMMA UnflushedIsLeft == Unflushed = LeftOf(Way)
  BY DEF Unflushed, LeftOf, Way

LEMMA LastIsFlushed ==
    ASSUME Written, pho = <<>>, LastIsFlush
    PROVE  Unflushed = {}
<1> DEFINE sent == taken \o input
<1>1. sent \in Seq(Nat) /\ Way = sent
  BY DEF Written, Way
<1>2. sent = <<>> \/ (sent # <<>> /\ sent[Len(sent)] = Flush)
  <2>1. CASE input = <<>>
    BY <2>1 DEF LastIsFlush
  <2>2. CASE input # <<>>
    <3>1. input[Len(input)] = Flush /\ Len(input) > 0 /\ Len(sent) = Len(taken) + Len(input)
      BY <2>2 DEF LastIsFlush, Written
    <3>2. sent[Len(taken) + Len(input)] = input[Len(input)]
      BY <3>1 DEF Written
    <3> QED
      BY <3>1, <3>2 DEF Written
  <2> QED
    BY <2>1, <2>2
<1> HIDE DEF sent
<1> QED
  BY <1>1, <1>2, EndsFlushed, UnflushedIsLeft

\* What mbrola reads it takes from the front, and a flush leaves it nothing.
LEMMA ReadLeaves == ASSUME Written, MbrolaReads PROVE Unflushed' \subseteq Unflushed
<1>1. input \in Seq(Nat) /\ input # <<>> /\ taken \in Seq(Nat) /\ pho \in Seq(Nat)
  BY DEF Written, MbrolaReads, CanRead
<1>2. /\ pho' = pho /\ input' = Tail(input)
      /\ taken' = IF Head(input) = Flush THEN <<>> ELSE Append(taken, Head(input))
  BY DEF MbrolaReads, library
<1>3. Head(input) \in Nat /\ Tail(input) \in Seq(Nat) /\ Len(Tail(input)) = Len(input) - 1
      /\ \A i \in 1 .. Len(input) - 1 : Tail(input)[i] = input[i + 1]
  BY <1>1
<1> DEFINE rest == Tail(input) \o pho
<1>4. Way \in Seq(Nat) /\ rest \in Seq(Nat)
  BY <1>1, <1>3 DEF Way
<1>5. CASE Head(input) = Flush
  <2>1. Way' = rest
    BY <1>1, <1>2, <1>3, <1>5 DEF Way
  <2>2. Len(Way) = (Len(taken) + 1) + Len(rest)
    BY <1>1, <1>3 DEF Way
  <2>3. \A i \in 1 .. Len(rest) : rest[i] = Way[(Len(taken) + 1) + i]
    <3> SUFFICES ASSUME NEW i \in 1 .. Len(rest)
                 PROVE  rest[i] = Way[(Len(taken) + 1) + i]
      OBVIOUS
    <3>1. CASE i <= Len(input) - 1
      BY <1>1, <1>3, <3>1 DEF Way
    <3>2. CASE i > Len(input) - 1
      BY <1>1, <1>3, <3>2 DEF Way
    <3> QED
      BY <1>1, <3>1, <3>2
  <2>4. Len(taken) + 1 \in Nat
    BY <1>1
  <2> HIDE DEF rest
  <2>5. LeftOf(rest) \subseteq LeftOf(Way)
    BY <1>4, <2>2, <2>3, <2>4, EndLeft
  <2>6. Unflushed' = LeftOf(rest)
    BY <2>1, UnflushedIsLeft DEF Unflushed, LeftOf, Way
  <2> QED
    BY <2>5, <2>6, UnflushedIsLeft
<1>6. CASE Head(input) # Flush
  <2>1. taken' \o input' = taken \o input
    BY <1>1, <1>2, <1>3, <1>6
  <2>2. Way' = Way
    BY <1>2, <2>1 DEF Way
  <2> QED
    BY <2>2, UnflushedIsLeft DEF Unflushed, LeftOf, Way
<1> QED
  BY <1>5, <1>6

LEMMA ReadKeepsLast ==
    ASSUME FlushInv, MbrolaReads
    PROVE  FlushInv'
<1>1. input \in Seq(Nat) /\ input # <<>> /\ taken \in Seq(Nat)
  BY DEF FlushInv, Written, MbrolaReads, CanRead
<1>2. /\ UNCHANGED <<text, next, unseen, pc, want, state, pho>> /\ input' = Tail(input)
      /\ taken' = IF Head(input) = Flush THEN <<>> ELSE Append(taken, Head(input))
  BY DEF MbrolaReads, library
<1>3. Head(input) \in Nat /\ input' \in Seq(Nat)
  BY <1>1, <1>2
<1>4. taken' \in Seq(Nat)
  BY <1>1, <1>2, <1>3
<1>5. Written'
  BY <1>2, <1>3, <1>4 DEF FlushInv, Written
<1>6. ASSUME LastIsFlush
      PROVE  LastIsFlush'
  <2>1. input[Len(input)] = Flush
    BY <1>1, <1>6 DEF LastIsFlush
  <2>2. CASE Len(input) = 1
    <3>1. Head(input) = Flush /\ input' = <<>>
      BY <1>1, <1>2, <2>1, <2>2
    <3> QED
      BY <1>2, <3>1 DEF LastIsFlush
  <2>3. CASE Len(input) # 1
    <3> DEFINE n == Len(input)
    <3>1. n \in Nat /\ n > 1
      <4>1. n \in Nat /\ n # 0
        BY <1>1
      <4>2. n # 1
        BY <2>3
      <4> HIDE DEF n
      <4> QED
        BY <4>1, <4>2
    <3>2. Len(input') = n - 1
      BY <1>1, <1>2
    <3>3. \A i \in 1 .. n - 1 : input'[i] = input[i + 1]
      BY <1>1, <1>2
    <3> HIDE DEF n
    <3>4. input'[n - 1] = input[n]
      <4>1. n - 1 \in 1 .. n - 1 /\ (n - 1) + 1 = n
        BY <3>1
      <4> QED
        BY <3>3, <4>1
    <3>5. input'[Len(input')] = Flush
      BY <2>1, <3>2, <3>4 DEF n
    <3>6. input' # <<>>
      BY <3>1, <3>2
    <3> QED
      BY <3>5, <3>6 DEF LastIsFlush
  <2> QED
    BY <2>2, <2>3
<1>7. Unflushed' \subseteq Unflushed
  BY ReadLeaves DEF FlushInv
<1> QED
  BY <1>2, <1>5, <1>6, <1>7 DEF FlushInv

LEMMA NothingWritten ==
    ASSUME FlushInv, UNCHANGED <<text, next, unseen, pho, input, taken>>,
           want' \in {"header", "audio", "error"},
           state' = state \/ (state \notin {"need_data", "have_data"} /\ state' # "have_data"),
           state' = "have_data" => pc' = "loop",
           pc' \in {"read", "stat", "select"} /\ want' # "header" => state' \notin {"need_data", "have_data"}
    PROVE  FlushInv'
<1>1. Unflushed' = Unflushed /\ (LastIsFlush' <=> LastIsFlush) /\ Written'
  BY DEF FlushInv, Written, Unflushed, LastIsFlush
<1>2. state \notin {"need_data", "have_data"} => Unflushed = {}
  BY LastIsFlushed DEF FlushInv
<1> QED
  BY <1>1, <1>2 DEF FlushInv

LEMMA FlushNext == FlushInv /\ [Next]_vars => FlushInv'
<1> SUFFICES ASSUME FlushInv, [Next]_vars
             PROVE  FlushInv'
  OBVIOUS
<1>0. want \in {"header", "audio", "error"}
  BY DEF FlushInv, Written
<1>1. CASE MbrolaReads
  BY <1>1, ReadKeepsLast
<1>2. CASE MbrolaWarns \/ MbrolaSpeaks
  <2>1. UNCHANGED <<text, next, unseen, pc, want, state, pho, input, taken>>
    BY <1>2 DEF MbrolaWarns, MbrolaSpeaks, library
  <2> QED
    BY <1>0, <2>1, NothingWritten DEF FlushInv
<1>3. CASE NoMorePhones
  <2>1. CASE state = "need_data"
    <3>1. UNCHANGED <<text, next, unseen, want, state, pho, input, taken>> /\ pc' = "over"
      BY <1>3, <2>1 DEF NoMorePhones, EndOfPhones, mbrola
    <3> QED
      BY <1>0, <2>1, <3>1, NothingWritten
  <2>2. CASE state # "need_data"
    <3>1. /\ UNCHANGED <<text, next, want, taken>> /\ state' = "write_data"
          /\ Flushed(pho) /\ pho \in Seq(Nat) /\ pc' = pc
      BY <1>3, <2>2 DEF NoMorePhones, EndOfPhones, mbrola, FlushInv, Written
    <3>2. pho' = <<>> /\ LastIsFlush' /\ input' \in Seq(Nat)
      BY <3>1, FlushedIsLast DEF FlushInv
    <3> QED
      BY <3>1, <3>2 DEF FlushInv, Written
  <2> QED
    BY <2>1, <2>2
<1>4. CASE NextPhone
  <2>1. /\ next' = next + 1 /\ UNCHANGED <<text, pc, want, taken>> /\ pc = "loop"
        /\ state \in {"need_data", "have_data"}
        /\ next' \in Nat /\ pho \in Seq(Nat) /\ input \in Seq(Nat) /\ taken \in Seq(Nat) /\ next \in Nat
    BY <1>4 DEF NextPhone, mbrola, FlushInv, Written
  <2>2. \/ state' = "write_data" /\ Flushed(Append(pho, next))
        \/ state' = "have_data" /\ pho' = <<next>> /\ input' = input \o pho
        \/ /\ state' = state /\ unseen' = unseen \cup {next}
           /\ pho' = <<next>> /\ input' = input \o pho
        \/ UNCHANGED <<state, unseen>> /\ pho' = <<>> /\ input' = input \o pho
    BY <1>4 DEF NextPhone, WritePhone
  <2>3. CASE state' = "write_data" /\ Flushed(Append(pho, next))
    <3>1. Append(pho, next) \in Seq(Nat)
      BY <2>1
    <3>2. pho' = <<>> /\ LastIsFlush' /\ input' \in Seq(Nat)
      BY <2>3, <3>1, FlushedIsLast DEF FlushInv
    <3> QED
      BY <2>1, <2>3, <3>2 DEF FlushInv, Written
  <2>4. CASE state' = "have_data" /\ pho' = <<next>> /\ input' = input \o pho
    <3>1. pho' \in Seq(Nat) /\ input' \in Seq(Nat)
      BY <2>1, <2>4
    <3> QED
      BY <2>1, <2>4, <3>1 DEF FlushInv, Written
  <2>5. CASE state' = state /\ unseen' = unseen \cup {next} /\ pho' = <<next>> /\ input' = input \o pho
    <3>1. pho' \in Seq(Nat) /\ input' \in Seq(Nat)
      BY <2>1, <2>5
    <3> DEFINE more == input \o pho
    <3>a. more \in Seq(Nat) /\ taken \in Seq(Nat) /\ next \in Nat
      BY <2>1
    <3>b. taken \o input \o pho = taken \o more /\ taken' \o input' \o pho' = taken \o more \o <<next>>
      BY <2>1, <2>5
    <3> HIDE DEF more
    <3>c. taken \o more \in Seq(Nat) /\ (taken \o more) \o <<next>> = Append(taken \o more, next)
      BY <3>a
    <3>2. Way \in Seq(Nat) /\ Way' = Append(Way, next)
      BY <3>b, <3>c DEF Way
    <3>3. LeftOf(Way)' = LeftOf(Append(Way, next))
      BY <3>2 DEF LeftOf
    <3>4. LeftOf(Append(Way, next)) \subseteq LeftOf(Way) \cup {next}
      BY <2>1, <3>2, OneMoreLeft
    <3>5. Unflushed' \subseteq Unflushed \cup {next}
      BY <3>3, <3>4, UnflushedIsLeft DEF Unflushed, LeftOf, Way
    <3> QED
      BY <2>1, <2>5, <3>1, <3>5 DEF FlushInv, Written
  <2>6. CASE UNCHANGED <<state, unseen>> /\ pho' = <<>> /\ input' = input \o pho
    <3>1. pho' \in Seq(Nat) /\ input' \in Seq(Nat)
      BY <2>1, <2>6
    <3>2. taken' \o input' \o pho' = taken \o input \o pho
      BY <2>1, <2>6
    <3>3. Unflushed' = Unflushed
      BY <3>2 DEF Unflushed
    <3> QED
      BY <2>1, <2>6, <3>1, <3>3 DEF FlushInv, Written
  <2> QED
    BY <2>2, <2>3, <2>4, <2>5, <2>6
<1>5. CASE \/ ReadPipe \/ Again \/ StatIdle \/ StatBusy \/ SelectReady \/ SelectTimeout
           \/ Synthesize \/ StartRead \/ ErrorLine \/ ErrorLineSplit \/ NoMoreLines
  <2>1. UNCHANGED <<text, next, unseen, pho, input, taken>> /\ want' \in {want, "audio", "error"}
    BY <1>5 DEF ReadPipe, Again, StatIdle, StatBusy, SelectReady, SelectTimeout, NothingRead,
                Synthesize, StartRead, ErrorLine, ErrorLineSplit, NoMoreLines, mbrola
  <2>2. state # "have_data"
    BY <1>5 DEF FlushInv, ReadPipe, Again, StatIdle, StatBusy, SelectReady, SelectTimeout,
                Synthesize, StartRead, ErrorLine, ErrorLineSplit, NoMoreLines
  <2>3. CASE ReadPipe
    <3>1. pc = "read" /\ pc' \in {"returned", "loop"} /\ want' = want
      BY <1>0, <2>3 DEF ReadPipe
    <3>2. \/ want = "header" /\ state' = state
          \/ want # "header" /\ state' \in {"read_errors", "read_error_line"}
      BY <1>0, <2>3 DEF ReadPipe, AudioRead
    <3>3. want # "header" => state \notin {"need_data", "have_data"}
      BY <3>1 DEF FlushInv
    <3> QED
      BY <1>0, <2>1, <2>2, <3>1, <3>2, <3>3, NothingWritten
  <2>4. CASE StatIdle \/ SelectTimeout
    <3>1. pc \in {"stat", "select"} /\ pc' \in {"failed", "returned", "loop"} /\ want' = want
      BY <1>0, <2>4 DEF StatIdle, SelectTimeout, NothingRead
    <3>2. \/ want = "header" /\ state' = state
          \/ want # "header" /\ state' \in {"need_data", "write_data"}
      BY <1>0, <2>4 DEF StatIdle, SelectTimeout, NothingRead
    <3>3. want # "header" => state \notin {"need_data", "have_data"}
      BY <3>1 DEF FlushInv
    <3> QED
      BY <1>0, <2>1, <2>2, <3>1, <3>2, <3>3, NothingWritten
  <2>5. CASE Again \/ StatBusy \/ SelectReady
    <3>1. pc \in {"read", "stat", "select"} /\ want' = want /\ state' = state
      BY <2>5 DEF Again, StatBusy, SelectReady
    <3> QED
      BY <1>0, <2>1, <2>2, <3>1, NothingWritten DEF FlushInv
  <2>6. CASE Synthesize \/ StartRead
    <3>1. /\ state' = state
          /\ pc' = "loop" \/ state \in {"write_data", "read_errors"}
      BY <2>6 DEF Synthesize, StartRead
    <3> QED
      BY <1>0, <2>1, <2>2, <3>1, NothingWritten
  <2>7. CASE ErrorLine \/ ErrorLineSplit \/ NoMoreLines
    <3>1. /\ state = "read_error_line" /\ state' \in {state, "read_errors"}
          /\ pc' \in {"loop", "returned"}
      BY <2>7 DEF ErrorLine, ErrorLineSplit, NoMoreLines
    <3> QED
      BY <1>0, <2>1, <3>1, NothingWritten
  <2> QED
    BY <1>5, <2>3, <2>4, <2>5, <2>6, <2>7
<1>6. CASE UNCHANGED vars
  <2>1. UNCHANGED <<text, next, unseen, pc, want, state, pho, input, taken>>
    BY <1>6 DEF vars, library, mbrola
  <2> QED
    BY <1>0, <2>1, NothingWritten DEF FlushInv
<1> QED
  BY <1>1, <1>2, <1>3, <1>4, <1>5, <1>6 DEF Next, Library, Mbrola

LEMMA FlushInit == Init => FlushInv
<1> SUFFICES ASSUME Init
             PROVE  FlushInv
  OBVIOUS
<1>1. text \in Seq(Phone) /\ next \in Nat /\ want \in {"header", "audio", "error"}
  BY MbrolaAssumption DEF Init
<1>2. pho = <<>> /\ input = <<Flush>> /\ taken = <<>> /\ Flush \in Nat
  BY DEF Init, Flush
<1>3. input[Len(input)] = Flush /\ input # <<>> /\ input \in Seq(Nat) /\ pho \in Seq(Nat) /\ taken \in Seq(Nat)
  BY <1>2
<1>4. state = "need_data" /\ want = "header"
  BY DEF Init
<1>5. Written /\ LastIsFlush
  BY <1>1, <1>2, <1>3 DEF Written, LastIsFlush
<1>6. Unflushed = {}
  BY <1>2, <1>5, LastIsFlushed
<1> QED
  BY <1>4, <1>5, <1>6 DEF FlushInv

\* Whatever the text, the pipes, the schedule and what follows from a write()
\* that ends without a return: the library waits for audio only when all it
\* wrote is flushed, and gives back control for good when all is but the phones
\* of writes that were seen to fail.
THEOREM PhrasesAreFlushed == Spec => []EveryPhraseFlushed
<1>1. FlushInv /\ [Next]_vars => FlushInv'
  BY FlushNext
<1>2. Init => FlushInv
  BY FlushInit
<1>3. FlushInv => EveryPhraseFlushed
  <2> SUFFICES ASSUME FlushInv
               PROVE  EveryPhraseFlushed
    OBVIOUS
  <2>1. state \notin {"need_data", "have_data"} => Unflushed = {}
    BY LastIsFlushed DEF FlushInv
  <2>2. state = "have_data" => pc = "loop"
    BY DEF FlushInv
  <2>3. state = "need_data" => Unflushed \subseteq unseen
    BY DEF FlushInv
  <2> QED
    BY <2>1, <2>2, <2>3 DEF EveryPhraseFlushed
<1> QED
  BY <1>1, <1>2, <1>3, PTL DEF Spec

-----------------------------------------------------------------------------
(* The warnings: from the phones that are on their way to mbrola to what is *)
(* reported, everything is in the order of the text.                        *)

\* The phones whose warning begins in a sequence of halves of lines.
Starts(s) == {s[i].of : i \in {k \in 1 .. Len(s) : ~s[k].last}}
InTurn(s) == \A i, j \in 1 .. Len(s) : i < j /\ ~s[i].last /\ ~s[j].last => s[i].of < s[j].of

\* Two halves that follow each other are not both a first one.
Alternate(s) == \A i \in 1 .. Len(s) - 1 : s[i].last \/ s[i + 1].last
Ended(s) == Len(s) > 0 => s[Len(s)].last

\* The phones in what is written.
Sent(s) == {s[i] : i \in 1 .. Len(s)} \ {Flush}
Ordered(s) == \A i, j \in 1 .. Len(s) : i < j /\ s[i] # Flush /\ s[j] # Flush => s[i] < s[j]

Below(A, B) == \A a \in A, b \in B : a < b

LEMMA ConcatHalves ==
    ASSUME NEW s \in Seq(Half), NEW t \in Seq(Half)
    PROVE  /\ s \o t \in Seq(Half)
           /\ Starts(s \o t) = Starts(s) \cup Starts(t)
           /\ InTurn(s) /\ InTurn(t) /\ Below(Starts(s), Starts(t)) => InTurn(s \o t)
           /\ Alternate(s) /\ Ended(s) /\ Alternate(t) => Alternate(s \o t)
           /\ Ended(s) /\ Ended(t) => Ended(s \o t)
<1> DEFINE u == s \o t
           m == Len(s)
           n == Len(t)
<1>1. m \in Nat /\ n \in Nat /\ Len(u) = m + n /\ u \in Seq(Half)
  OBVIOUS
<1>2. \A i \in 1 .. m : u[i] = s[i]
  OBVIOUS
<1>3. \A i \in 1 .. n : u[m + i] = t[i]
  OBVIOUS
<1> HIDE DEF u
<1>4. \A i \in 1 .. Len(u) : i \in 1 .. m \/ (i - m \in 1 .. n /\ i = m + (i - m))
  BY <1>1
<1>5. \A i \in 1 .. m : i \in 1 .. Len(u)
  BY <1>1
<1>6. \A i \in 1 .. n : m + i \in 1 .. Len(u)
  BY <1>1
<1>7. Starts(u) = Starts(s) \cup Starts(t)
  <2>1. ASSUME NEW p \in Starts(u)
        PROVE  p \in Starts(s) \cup Starts(t)
    <3>1. PICK i \in 1 .. Len(u) : ~u[i].last /\ p = u[i].of
      BY DEF Starts
    <3>2. CASE i \in 1 .. m
      BY <1>2, <3>1, <3>2 DEF Starts
    <3>3. CASE i - m \in 1 .. n /\ i = m + (i - m)
      <4>1. u[i] = t[i - m]
        BY <1>3, <3>3
      <4> QED
        BY <3>1, <3>3, <4>1 DEF Starts
    <3> QED
      BY <1>4, <3>2, <3>3
  <2>2. ASSUME NEW p \in Starts(s)
        PROVE  p \in Starts(u)
    BY <1>2, <1>5 DEF Starts
  <2>3. ASSUME NEW p \in Starts(t)
        PROVE  p \in Starts(u)
    <3>1. PICK i \in 1 .. n : ~t[i].last /\ p = t[i].of
      BY DEF Starts
    <3>2. m + i \in 1 .. Len(u) /\ u[m + i] = t[i]
      BY <1>3, <1>6
    <3> QED
      BY <3>1, <3>2 DEF Starts
  <2> QED
    BY <2>1, <2>2, <2>3
<1>8. ASSUME InTurn(s), InTurn(t), Below(Starts(s), Starts(t))
      PROVE  InTurn(u)
  <2> SUFFICES ASSUME NEW i \in 1 .. Len(u), NEW j \in 1 .. Len(u), i < j, ~u[i].last, ~u[j].last
               PROVE  u[i].of < u[j].of
    BY DEF InTurn
  <2>1. CASE j \in 1 .. m
    <3>1. i \in 1 .. m
      BY <1>1, <2>1
    <3> QED
      BY <1>2, <1>8, <2>1, <3>1 DEF InTurn
  <2>2. CASE i \in 1 .. m /\ j - m \in 1 .. n /\ j = m + (j - m)
    <3>1. u[i] = s[i] /\ u[j] = t[j - m]
      BY <1>2, <1>3, <2>2
    <3>2. s[i].of \in Starts(s) /\ t[j - m].of \in Starts(t)
      BY <2>2, <3>1 DEF Starts
    <3> QED
      BY <1>8, <3>1, <3>2 DEF Below
  <2>3. CASE i - m \in 1 .. n /\ i = m + (i - m) /\ j - m \in 1 .. n /\ j = m + (j - m)
    <3>1. u[i] = t[i - m] /\ u[j] = t[j - m]
      BY <1>3, <2>3
    <3>2. i - m < j - m
      BY <1>1
    <3> QED
      BY <1>8, <2>3, <3>1, <3>2 DEF InTurn
  <2> QED
    BY <1>1, <1>4, <2>1, <2>2, <2>3
<1>9. ASSUME Alternate(s), Ended(s), Alternate(t)
      PROVE  Alternate(u)
  <2> SUFFICES ASSUME NEW i \in 1 .. Len(u) - 1
               PROVE  u[i].last \/ u[i + 1].last
    BY DEF Alternate
  <2>1. CASE i < m
    <3>1. i \in 1 .. m - 1 /\ i \in 1 .. m /\ i + 1 \in 1 .. m
      BY <1>1, <2>1
    <3> QED
      BY <1>2, <1>9, <3>1 DEF Alternate
  <2>2. CASE i = m
    <3>1. m \in 1 .. m /\ m > 0
      BY <1>1, <2>2
    <3> QED
      BY <1>2, <1>9, <2>2, <3>1 DEF Ended
  <2>3. CASE i > m
    <3>1. i - m \in 1 .. n - 1 /\ i - m \in 1 .. n /\ (i - m) + 1 \in 1 .. n /\ i = m + (i - m) /\ i + 1 = m + ((i - m) + 1)
      BY <1>1, <2>3
    <3>2. u[i] = t[i - m] /\ u[i + 1] = t[(i - m) + 1]
      BY <1>3, <3>1
    <3> QED
      BY <1>9, <3>1, <3>2 DEF Alternate
  <2> QED
    BY <1>1, <2>1, <2>2, <2>3
<1>10. ASSUME Ended(s), Ended(t)
       PROVE  Ended(u)
  <2>1. CASE n = 0
    <3>1. m > 0 => m \in 1 .. m
      BY <1>1
    <3>2. Len(u) = m
      BY <1>1, <2>1
    <3> QED
      BY <1>2, <1>10, <3>1, <3>2 DEF Ended
  <2>2. CASE n > 0
    <3>1. n \in 1 .. n /\ u[m + n] = t[n]
      BY <1>1, <1>3, <2>2
    <3> QED
      BY <1>1, <1>10, <2>2, <3>1 DEF Ended
  <2> QED
    BY <1>1, <2>1, <2>2
<1> QED
  BY <1>1, <1>7, <1>8, <1>9, <1>10 DEF u

LEMMA PartOfHalves ==
    ASSUME NEW s \in Seq(Half), NEW a \in 1 .. Len(s) + 1, NEW b \in a - 1 .. Len(s)
    PROVE  /\ SubSeq(s, a, b) \in Seq(Half)
           /\ Starts(SubSeq(s, a, b)) \subseteq Starts(s)
           /\ InTurn(s) => InTurn(SubSeq(s, a, b))
           /\ Alternate(s) => Alternate(SubSeq(s, a, b))
           /\ b = Len(s) /\ Ended(s) => Ended(SubSeq(s, a, b))
<1> DEFINE u == SubSeq(s, a, b)
<1>1. Len(s) \in Nat /\ a \in Nat /\ b \in Int /\ b + 1 - a \in Nat
  OBVIOUS
<1>2. u \in Seq(Half) /\ Len(u) = b + 1 - a /\ \A i \in 1 .. Len(u) : u[i] = s[a + i - 1]
  BY <1>1
<1>3. \A i \in 1 .. Len(u) : a + i - 1 \in 1 .. Len(s)
  BY <1>1, <1>2
<1> HIDE DEF u
<1>4. Starts(u) \subseteq Starts(s)
  <2> SUFFICES ASSUME NEW i \in 1 .. Len(u), ~u[i].last
               PROVE  u[i].of \in Starts(s)
    BY DEF Starts
  <2>1. u[i] = s[a + i - 1] /\ a + i - 1 \in 1 .. Len(s)
    BY <1>2, <1>3
  <2> QED
    BY <2>1 DEF Starts
<1>5. ASSUME InTurn(s)
      PROVE  InTurn(u)
  <2> SUFFICES ASSUME NEW i \in 1 .. Len(u), NEW j \in 1 .. Len(u), i < j, ~u[i].last, ~u[j].last
               PROVE  u[i].of < u[j].of
    BY DEF InTurn
  <2>1. u[i] = s[a + i - 1] /\ u[j] = s[a + j - 1] /\ a + i - 1 \in 1 .. Len(s) /\ a + j - 1 \in 1 .. Len(s)
    BY <1>2, <1>3
  <2>2. a + i - 1 < a + j - 1
    BY <1>1
  <2> QED
    BY <1>5, <2>1, <2>2 DEF InTurn
<1>6. ASSUME Alternate(s)
      PROVE  Alternate(u)
  <2> SUFFICES ASSUME NEW i \in 1 .. Len(u) - 1
               PROVE  u[i].last \/ u[i + 1].last
    BY DEF Alternate
  <2>1. i \in 1 .. Len(u) /\ i + 1 \in 1 .. Len(u) /\ a + i - 1 \in 1 .. Len(s) - 1 /\ a + (i + 1) - 1 = (a + i - 1) + 1
    BY <1>1, <1>2
  <2>2. u[i] = s[a + i - 1] /\ u[i + 1] = s[a + (i + 1) - 1]
    BY <1>2, <2>1
  <2>3. s[a + i - 1].last \/ s[(a + i - 1) + 1].last
    BY <1>6, <2>1 DEF Alternate
  <2> QED
    BY <2>1, <2>2, <2>3
<1>7. ASSUME b = Len(s), Ended(s), Len(u) > 0
      PROVE  u[Len(u)].last
  <2>1. Len(u) \in 1 .. Len(u) /\ a + Len(u) - 1 = Len(s) /\ Len(s) > 0
    BY <1>1, <1>2, <1>7
  <2>2. u[Len(u)] = s[a + Len(u) - 1]
    BY <1>2, <2>1
  <2> QED
    BY <1>7, <2>1, <2>2 DEF Ended
<1> QED
  BY <1>2, <1>4, <1>5, <1>6, <1>7 DEF u, Ended

\* What is cut off lies before what remains.
LEMMA CutHalves ==
    ASSUME NEW s \in Seq(Half), NEW c \in 1 .. Len(s), InTurn(s)
    PROVE  Below(Starts(SubSeq(s, 1, c)), Starts(SubSeq(s, c + 1, Len(s))))
<1> DEFINE u == SubSeq(s, 1, c)
           w == SubSeq(s, c + 1, Len(s))
<1>1. Len(s) \in Nat /\ c \in Nat
  OBVIOUS
<1>2. Len(u) = c /\ \A i \in 1 .. Len(u) : u[i] = s[i]
  BY <1>1
<1>3. Len(w) = Len(s) - c /\ \A i \in 1 .. Len(w) : w[i] = s[c + i]
  BY <1>1
<1> HIDE DEF u, w
<1> SUFFICES ASSUME NEW i \in 1 .. Len(u), NEW j \in 1 .. Len(w), ~u[i].last, ~w[j].last
             PROVE  u[i].of < w[j].of
  BY DEF Below, Starts, u, w
<1>4. i \in 1 .. Len(s) /\ c + j \in 1 .. Len(s) /\ i < c + j
  BY <1>1, <1>2, <1>3
<1>5. u[i] = s[i] /\ w[j] = s[c + j]
  BY <1>2, <1>3
<1> QED
  BY <1>4, <1>5 DEF InTurn

LEMMA ConcatSent ==
    ASSUME NEW s \in Seq(Nat), NEW t \in Seq(Nat)
    PROVE  /\ s \o t \in Seq(Nat)
           /\ Sent(s \o t) = Sent(s) \cup Sent(t)
           /\ Ordered(s) /\ Ordered(t) /\ Below(Sent(s), Sent(t)) => Ordered(s \o t)
<1> DEFINE u == s \o t
           m == Len(s)
           n == Len(t)
<1>1. m \in Nat /\ n \in Nat /\ Len(u) = m + n /\ u \in Seq(Nat)
  OBVIOUS
<1>2. \A i \in 1 .. m : u[i] = s[i]
  OBVIOUS
<1>3. \A i \in 1 .. n : u[m + i] = t[i]
  OBVIOUS
<1> HIDE DEF u
<1>4. \A i \in 1 .. Len(u) : i \in 1 .. m \/ (i - m \in 1 .. n /\ i = m + (i - m))
  BY <1>1
<1>5. \A i \in 1 .. m : i \in 1 .. Len(u)
  BY <1>1
<1>6. \A i \in 1 .. n : m + i \in 1 .. Len(u)
  BY <1>1
<1>7. Sent(u) = Sent(s) \cup Sent(t)
  <2>1. ASSUME NEW i \in 1 .. Len(u), u[i] # Flush
        PROVE  u[i] \in Sent(s) \cup Sent(t)
    <3>1. CASE i \in 1 .. m
      BY <1>2, <2>1, <3>1 DEF Sent
    <3>2. CASE i - m \in 1 .. n /\ i = m + (i - m)
      <4>1. u[i] = t[i - m]
        BY <1>3, <3>2
      <4> QED
        BY <2>1, <3>2, <4>1 DEF Sent
    <3> QED
      BY <1>4, <3>1, <3>2
  <2>2. ASSUME NEW i \in 1 .. m, s[i] # Flush
        PROVE  s[i] \in Sent(u)
    BY <1>2, <1>5, <2>2 DEF Sent
  <2>3. ASSUME NEW i \in 1 .. n, t[i] # Flush
        PROVE  t[i] \in Sent(u)
    <3>1. m + i \in 1 .. Len(u) /\ u[m + i] = t[i]
      BY <1>3, <1>6
    <3> QED
      BY <2>3, <3>1 DEF Sent
  <2> QED
    BY <2>1, <2>2, <2>3 DEF Sent
<1>8. ASSUME Ordered(s), Ordered(t), Below(Sent(s), Sent(t))
      PROVE  Ordered(u)
  <2> SUFFICES ASSUME NEW i \in 1 .. Len(u), NEW j \in 1 .. Len(u), i < j, u[i] # Flush, u[j] # Flush
               PROVE  u[i] < u[j]
    BY DEF Ordered
  <2>1. CASE j \in 1 .. m
    <3>1. i \in 1 .. m
      BY <1>1, <2>1
    <3> QED
      BY <1>2, <1>8, <2>1, <3>1 DEF Ordered
  <2>2. CASE i \in 1 .. m /\ j - m \in 1 .. n /\ j = m + (j - m)
    <3>1. u[i] = s[i] /\ u[j] = t[j - m]
      BY <1>2, <1>3, <2>2
    <3>2. s[i] \in Sent(s) /\ t[j - m] \in Sent(t)
      BY <2>2, <3>1 DEF Sent
    <3> QED
      BY <1>8, <3>1, <3>2 DEF Below
  <2>3. CASE i - m \in 1 .. n /\ i = m + (i - m) /\ j - m \in 1 .. n /\ j = m + (j - m)
    <3>1. u[i] = t[i - m] /\ u[j] = t[j - m]
      BY <1>3, <2>3
    <3>2. i - m < j - m
      BY <1>1
    <3> QED
      BY <1>8, <2>3, <3>1, <3>2 DEF Ordered
  <2> QED
    BY <1>1, <1>4, <2>1, <2>2, <2>3
<1> QED
  BY <1>1, <1>7, <1>8 DEF u

LEMMA TailSent ==
    ASSUME NEW s \in Seq(Nat), s # <<>>, Ordered(s)
    PROVE  /\ Tail(s) \in Seq(Nat) /\ Head(s) \in Nat
           /\ Sent(Tail(s)) \subseteq Sent(s) /\ Ordered(Tail(s))
           /\ Head(s) # Flush => Head(s) \in Sent(s) /\ Below({Head(s)}, Sent(Tail(s)))
<1> DEFINE u == Tail(s)
<1>1. Len(s) \in Nat /\ Len(s) > 0 /\ u \in Seq(Nat) /\ Head(s) = s[1] /\ Head(s) \in Nat
  OBVIOUS
<1>2. Len(u) = Len(s) - 1 /\ \A i \in 1 .. Len(u) : u[i] = s[i + 1]
  BY <1>1
<1> HIDE DEF u
<1>3. \A i \in 1 .. Len(u) : i + 1 \in 1 .. Len(s) /\ 1 < i + 1
  BY <1>1, <1>2
<1>4. Sent(u) \subseteq Sent(s)
  <2> SUFFICES ASSUME NEW i \in 1 .. Len(u), u[i] # Flush
               PROVE  u[i] \in Sent(s)
    BY DEF Sent
  <2>1. i + 1 \in 1 .. Len(s) /\ u[i] = s[i + 1]
    BY <1>2, <1>3
  <2> QED
    BY <2>1 DEF Sent
<1>5. Ordered(u)
  <2> SUFFICES ASSUME NEW i \in 1 .. Len(u), NEW j \in 1 .. Len(u), i < j, u[i] # Flush, u[j] # Flush
               PROVE  u[i] < u[j]
    BY DEF Ordered
  <2>1. i + 1 \in 1 .. Len(s) /\ j + 1 \in 1 .. Len(s) /\ u[i] = s[i + 1] /\ u[j] = s[j + 1] /\ i + 1 < j + 1
    BY <1>1, <1>2, <1>3, SMTT(30)
  <2> QED
    BY <2>1 DEF Ordered
<1>6. ASSUME Head(s) # Flush
      PROVE  Head(s) \in Sent(s) /\ Below({Head(s)}, Sent(u))
  <2>1. 1 \in 1 .. Len(s)
    BY <1>1
  <2>2. Head(s) \in Sent(s)
    BY <1>1, <1>6, <2>1 DEF Sent
  <2>3. ASSUME NEW i \in 1 .. Len(u), u[i] # Flush
        PROVE  Head(s) < u[i]
    <3>1. i + 1 \in 1 .. Len(s) /\ 1 < i + 1 /\ u[i] = s[i + 1]
      BY <1>2, <1>3
    <3> QED
      BY <1>1, <1>6, <2>1, <2>3, <3>1 DEF Ordered
  <2> QED
    BY <2>2, <2>3 DEF Below, Sent
<1> QED
  BY <1>1, <1>4, <1>5, <1>6 DEF u

LEMMA OneSent ==
    ASSUME NEW n \in Nat
    PROVE  <<n>> \in Seq(Nat) /\ Sent(<<n>>) = {n} \ {Flush} /\ Ordered(<<n>>)
<1>1. <<n>> \in Seq(Nat) /\ Len(<<n>>) = 1 /\ <<n>>[1] = n
  OBVIOUS
<1>2. 1 .. 1 = {1}
  OBVIOUS
<1> QED
  BY <1>1, <1>2 DEF Sent, Ordered

LEMMA NoneSent == <<>> \in Seq(Nat) /\ Sent(<<>>) = {} /\ Ordered(<<>>)
  BY DEF Sent, Ordered

LEMMA NoHalves == <<>> \in Seq(Half) /\ Starts(<<>>) = {} /\ InTurn(<<>>) /\ Alternate(<<>>) /\ Ended(<<>>)
  BY DEF Starts, InTurn, Alternate, Ended

LEMMA LineOfHalves ==
    ASSUME NEW p \in Nat
    PROVE  /\ Line(p) \in Seq(Half) /\ Starts(Line(p)) = {p}
           /\ InTurn(Line(p)) /\ Alternate(Line(p)) /\ Ended(Line(p))
<1> DEFINE s == Line(p)
<1>1. s \in Seq(Half)
  BY DEF Line, Half
<1>2. Len(s) = 2 /\ s[1].of = p /\ s[1].last = FALSE /\ s[2].of = p /\ s[2].last = TRUE
  BY DEF Line
<1> HIDE DEF s
<1>3. 1 .. 2 = {1, 2} /\ 1 .. 2 - 1 = {1}
  OBVIOUS
<1>4. Starts(s) = {p}
  BY <1>2, <1>3 DEF Starts
<1>5. InTurn(s) /\ Alternate(s) /\ Ended(s)
  BY <1>2, <1>3 DEF InTurn, Alternate, Ended
<1> QED
  BY <1>1, <1>4, <1>5 DEF s

Warned == {reported[i] : i \in 1 .. Len(reported)}

\* The phones of each of six places come before those of the places behind it.
InPlaces(r, l, e, w, i, p, n) ==
    /\ Below(r, l \cup e \cup w \cup i \cup p \cup {n})
    /\ Below(l, e \cup w \cup i \cup p \cup {n})
    /\ Below(e, w \cup i \cup p \cup {n})
    /\ Below(w, i \cup p \cup {n})
    /\ Below(i, p \cup {n})
    /\ Below(p, {n})

WarnType ==
    /\ text \in Seq(Phone) /\ next \in Nat /\ next > 0
    /\ want \in {"header", "audio", "error"} /\ current \in Nat
    /\ lines \in Seq(Half) /\ error \in Seq(Half) /\ warning \in Seq(Half)
    /\ input \in Seq(Nat) /\ pho \in Seq(Nat) /\ reported \in Seq(Nat)

Places ==
    InPlaces(Warned, Starts(lines), Starts(error), Starts(warning), Sent(input), Sent(pho), next)

Turns ==
    /\ InTurn(lines) /\ InTurn(error) /\ InTurn(warning)
    /\ Ordered(input) /\ Ordered(pho)
    /\ \A i, j \in 1 .. Len(reported) : i < j => reported[i] < reported[j]

Halves == Alternate(lines) /\ Alternate(error) /\ Alternate(warning) /\ Ended(error) /\ Ended(warning)

UnknownOnly ==
    \A p \in Warned \cup Starts(lines) \cup Starts(error) \cup Starts(warning) : text[p] = "unknown"

WarnInv == WarnType /\ Places /\ Turns /\ Halves /\ UnknownOnly

LEMMA WarnInit == Init => WarnInv
<1> SUFFICES ASSUME Init
             PROVE  WarnInv
  OBVIOUS
<1>1. text \in Seq(Phone)
  BY MbrolaAssumption DEF Init
<1>2. /\ next = 1 /\ want = "header" /\ current = 0 /\ lines = <<>> /\ error = <<>> /\ warning = <<>>
      /\ input = <<Flush>> /\ pho = <<>> /\ reported = <<>>
  BY DEF Init
<1>3. input \in Seq(Nat) /\ Sent(input) = {} /\ Ordered(input)
  BY <1>2, OneSent DEF Flush
<1>4. reported \in Seq(Nat) /\ Len(reported) = 0 /\ Warned = {}
  BY <1>2 DEF Warned
<1>5. Starts(lines) = {} /\ Starts(error) = {} /\ Starts(warning) = {} /\ Sent(pho) = {}
  BY <1>2, NoHalves, NoneSent
<1>6. WarnType
  BY <1>1, <1>2, <1>3, <1>4, NoHalves, NoneSent DEF WarnType
<1>7. Places
  BY <1>2, <1>3, <1>4, <1>5 DEF Places, InPlaces, Below
<1>8. Turns
  BY <1>2, <1>3, <1>4, NoHalves, NoneSent DEF Turns
<1>9. Halves
  BY <1>2, NoHalves DEF Halves
<1> QED
  BY <1>4, <1>5, <1>6, <1>7, <1>8, <1>9 DEF WarnInv, UnknownOnly

\* What lies in the places are numbers of phones.
LEMMA PlacesAreNumbers ==
    ASSUME WarnType
    PROVE  /\ Warned \subseteq Nat /\ Starts(lines) \subseteq Nat /\ Starts(error) \subseteq Nat
           /\ Starts(warning) \subseteq Nat /\ Sent(input) \subseteq Nat /\ Sent(pho) \subseteq Nat
<1>1. \A s \in Seq(Half) : Starts(s) \subseteq Nat
  <2> SUFFICES ASSUME NEW s \in Seq(Half), NEW i \in 1 .. Len(s)
               PROVE  s[i].of \in Nat
    BY DEF Starts
  <2>1. s[i] \in Half
    OBVIOUS
  <2> QED
    BY <2>1 DEF Half
<1>2. \A s \in Seq(Nat) : Sent(s) \subseteq Nat
  BY DEF Sent
<1>3. Warned \subseteq Nat
  BY DEF Warned, WarnType
<1> QED
  BY <1>1, <1>2, <1>3 DEF WarnType

\* Most steps move nothing.
LEMMA NothingMoves ==
    ASSUME WarnInv, UNCHANGED <<text, next, lines, error, warning, input, pho, reported>>,
           current' \in Nat, want' \in {"header", "audio", "error"}
    PROVE  WarnInv'
<1>1. WarnType'
  BY DEF WarnInv, WarnType
<1>2. Places' /\ Turns' /\ Halves' /\ UnknownOnly'
  <2>1. Warned' = Warned
    BY DEF Warned
  <2> QED
    BY <2>1 DEF WarnInv, Places, Turns, Halves, UnknownOnly
<1> QED
  BY <1>1, <1>2 DEF WarnInv

LEMMA MbrolaKeepsOrder == ASSUME WarnInv, MbrolaReads \/ MbrolaWarns PROVE WarnInv'
<1>1. WarnType /\ Places /\ Turns /\ Halves /\ UnknownOnly
  BY DEF WarnInv
<1>2. CASE MbrolaReads
  <2>1. /\ input # <<>> /\ warning = <<>> /\ input' = Tail(input)
        /\ UNCHANGED <<text, next, lines, error, pho, reported, want, current>>
    BY <1>2 DEF MbrolaReads, CanRead, library
  <2>2. \/ warning' = <<>>
        \/ Head(input) # Flush /\ text[Head(input)] = "unknown" /\ warning' = Line(Head(input))
    BY <1>2, <2>1 DEF MbrolaReads
  <2>3. /\ Tail(input) \in Seq(Nat) /\ Head(input) \in Nat
        /\ Sent(Tail(input)) \subseteq Sent(input) /\ Ordered(Tail(input))
        /\ Head(input) # Flush => Head(input) \in Sent(input) /\ Below({Head(input)}, Sent(Tail(input)))
    BY <1>1, <2>1, TailSent DEF WarnType, Turns
  <2>4. Starts(warning) = {}
    BY <2>1, NoHalves
  <2>5. Warned' = Warned /\ Starts(lines)' = Starts(lines) /\ Starts(error)' = Starts(error) /\ Sent(pho)' = Sent(pho)
        /\ Sent(input)' \subseteq Sent(input)
    BY <2>1, <2>3 DEF Warned
  <2>6. CASE warning' = <<>>
    <3>1. Starts(warning)' = {} /\ InTurn(warning') /\ Alternate(warning') /\ Ended(warning') /\ warning' \in Seq(Half)
      BY <2>6, NoHalves
    <3>2. WarnType'
      BY <1>1, <2>1, <2>3, <3>1 DEF WarnType
    <3>3. Places'
      BY <1>1, <2>1, <2>4, <2>5, <3>1 DEF Places, InPlaces, Below
    <3>4. Turns' /\ Halves'
      BY <1>1, <2>1, <2>3, <3>1 DEF Turns, Halves
    <3>5. UnknownOnly'
      BY <1>1, <2>1, <2>5, <3>1 DEF UnknownOnly
    <3> QED
      BY <3>2, <3>3, <3>4, <3>5 DEF WarnInv
  <2>7. CASE Head(input) # Flush /\ text[Head(input)] = "unknown" /\ warning' = Line(Head(input))
    <3>1. /\ Starts(warning)' = {Head(input)} /\ warning' \in Seq(Half)
          /\ InTurn(warning') /\ Alternate(warning') /\ Ended(warning')
      BY <2>3, <2>7, LineOfHalves
    <3>2. WarnType'
      BY <1>1, <2>1, <2>3, <3>1 DEF WarnType
    <3>3. Places'
      <4>1. Head(input) \in Sent(input) /\ Below({Head(input)}, Sent(input)')
        BY <2>1, <2>3, <2>7
      <4> QED
        BY <1>1, <2>1, <2>4, <2>5, <3>1, <4>1 DEF Places, InPlaces, Below
    <3>4. Turns' /\ Halves'
      BY <1>1, <2>1, <2>3, <3>1 DEF Turns, Halves
    <3>5. UnknownOnly'
      BY <1>1, <2>1, <2>5, <2>7, <3>1 DEF UnknownOnly
    <3> QED
      BY <3>2, <3>3, <3>4, <3>5 DEF WarnInv
  <2> QED
    BY <2>2, <2>6, <2>7
<1>3. CASE MbrolaWarns
  <2>1. /\ error' = error \o warning /\ warning' = <<>>
        /\ UNCHANGED <<text, next, lines, input, pho, reported, want, current>>
    BY <1>3 DEF MbrolaWarns, library
  <2>2. Below(Starts(error), Starts(warning))
    BY <1>1 DEF Places, InPlaces, Below
  <2>3. /\ error' \in Seq(Half) /\ Starts(error)' = Starts(error) \cup Starts(warning)
        /\ InTurn(error') /\ Alternate(error') /\ Ended(error')
    BY <1>1, <2>1, <2>2, ConcatHalves DEF WarnType, Turns, Halves
  <2>4. Starts(warning)' = {} /\ InTurn(warning') /\ Alternate(warning') /\ Ended(warning') /\ warning' \in Seq(Half)
    BY <2>1, NoHalves
  <2>5. Warned' = Warned /\ Starts(lines)' = Starts(lines) /\ Sent(pho)' = Sent(pho) /\ Sent(input)' = Sent(input)
    BY <2>1 DEF Warned
  <2>6. WarnType'
    BY <1>1, <2>1, <2>3, <2>4 DEF WarnType
  <2>7. Places'
    BY <1>1, <2>1, <2>3, <2>4, <2>5 DEF Places, InPlaces, Below
  <2>8. Turns' /\ Halves'
    BY <1>1, <2>1, <2>3, <2>4 DEF Turns, Halves
  <2>9. UnknownOnly'
    BY <1>1, <2>1, <2>3, <2>4, <2>5 DEF UnknownOnly
  <2> QED
    BY <2>6, <2>7, <2>8, <2>9 DEF WarnInv
<1> QED
  BY <1>2, <1>3

\* What is written goes to the end of what mbrola has not read.
LEMMA WritingKeepsOrder == ASSUME WarnInv, NextPhone \/ NoMorePhones PROVE WarnInv'
<1>1. WarnType /\ Places /\ Turns /\ Halves /\ UnknownOnly
  BY DEF WarnInv
<1>2. input \in Seq(Nat) /\ pho \in Seq(Nat) /\ next \in Nat /\ next > 0 /\ Ordered(input) /\ Ordered(pho)
      /\ Below(Sent(input), Sent(pho)) /\ Below(Sent(input), {next}) /\ Below(Sent(pho), {next})
  BY <1>1 DEF WarnType, Turns, Places, InPlaces, Below
<1>3. UNCHANGED <<text, lines, error, warning, reported, want, current>>
  BY DEF NextPhone, NoMorePhones, mbrola
<1>4. Warned' = Warned /\ Starts(lines)' = Starts(lines) /\ Starts(error)' = Starts(error) /\ Starts(warning)' = Starts(warning)
  BY <1>3 DEF Warned
<1>5. ASSUME input' \in Seq(Nat), Ordered(input'), pho' \in Seq(Nat), Ordered(pho'), next' \in Nat, next' > 0, Places'
      PROVE  WarnInv'
  <2>1. WarnType'
    BY <1>1, <1>3, <1>5 DEF WarnType
  <2>2. Turns' /\ Halves'
    BY <1>1, <1>3, <1>5 DEF Turns, Halves
  <2>3. UnknownOnly'
    BY <1>1, <1>3, <1>4 DEF UnknownOnly
  <2> QED
    BY <1>5, <2>1, <2>2, <2>3 DEF WarnInv
<1> DEFINE more == input \o pho
<1>7. more \in Seq(Nat) /\ Ordered(more) /\ Sent(more) = Sent(input) \cup Sent(pho)
  BY <1>2, ConcatSent
<1> HIDE DEF more
<1>8. Sent(<<Flush>>) = {} /\ <<Flush>> \in Seq(Nat) /\ Ordered(<<Flush>>)
  BY OneSent DEF Flush
<1>9. <<next>> \in Seq(Nat) /\ Ordered(<<next>>) /\ Sent(<<next>>) = {next}
  BY <1>2, OneSent DEF Flush
<1>10. CASE UNCHANGED <<next, pho, input>>
  BY <1>3, <1>10, NothingMoves DEF WarnInv, WarnType
<1>11. CASE UNCHANGED next /\ Flushed(pho)
  <2>1. input' = more \o <<Flush>> /\ pho' = <<>>
    BY <1>2, <1>11 DEF Flushed, more
  <2>2. input' \in Seq(Nat) /\ Sent(input)' = Sent(more) /\ Ordered(input')
    BY <1>7, <1>8, <2>1, ConcatSent, ZenonT(60) DEF Below
  <2>3. pho' \in Seq(Nat) /\ Sent(pho)' = {} /\ Ordered(pho')
    BY <2>1, NoneSent
  <2>4. Places'
    BY <1>1, <1>4, <1>7, <1>11, <2>2, <2>3 DEF Places, InPlaces, Below
  <2> QED
    BY <1>2, <1>5, <1>11, <2>2, <2>3, <2>4
<1>12. ASSUME next' = next + 1
       PROVE  \A A : A \subseteq Nat /\ Below(A, {next}) => Below(A, {next'})
  BY <1>2, <1>12 DEF Below
<1>13. CASE next' = next + 1 /\ Flushed(Append(pho, next))
  <2> DEFINE all == more \o <<next>>
  <2>1. Append(pho, next) = pho \o <<next>> /\ (input \o (pho \o <<next>>)) = more \o <<next>>
    BY <1>2 DEF more
  <2>2. input' = all \o <<Flush>> /\ pho' = <<>>
    BY <1>2, <1>13, <2>1 DEF Flushed
  <2>3. Below(Sent(more), Sent(<<next>>))
    BY <1>2, <1>7, <1>9 DEF Below
  <2>4. all \in Seq(Nat) /\ Ordered(all) /\ Sent(all) = Sent(more) \cup {next}
    BY <1>7, <1>9, <2>3, ConcatSent
  <2> HIDE DEF all
  <2>5. input' \in Seq(Nat) /\ Sent(input)' = Sent(all) /\ Ordered(input')
    BY <1>8, <2>2, <2>4, ConcatSent, ZenonT(60) DEF Below
  <2>6. pho' \in Seq(Nat) /\ Sent(pho)' = {} /\ Ordered(pho')
    BY <2>2, NoneSent
  <2>7. next' \in Nat /\ next' > 0 /\ next < next'
    BY <1>2, <1>13
  <2>8. Places'
    <3>1. Sent(input)' = Sent(input) \cup Sent(pho) \cup {next}
      BY <1>7, <2>4, <2>5
    <3>2. \A a \in Warned \cup Starts(lines) \cup Starts(error) \cup Starts(warning) \cup Sent(input) \cup Sent(pho) :
              a \in Nat /\ a < next /\ a < next'
      BY <1>1, <1>2, <1>13, PlacesAreNumbers DEF Places, InPlaces, Below
    <3> QED
      BY <1>1, <1>4, <2>6, <2>7, <3>1, <3>2 DEF Places, InPlaces, Below
  <2> QED
    BY <1>5, <2>5, <2>6, <2>7, <2>8
<1>14. CASE next' = next + 1 /\ pho' = <<next>> /\ input' = input \o pho
  <2>1. next' \in Nat /\ next' > 0 /\ next < next'
    BY <1>2, <1>14
  <2>2. Sent(input)' = Sent(input) \cup Sent(pho) /\ Sent(pho)' = {next}
    BY <1>7, <1>9, <1>14 DEF more
  <2>3. Places'
    <3>1. \A a \in Warned \cup Starts(lines) \cup Starts(error) \cup Starts(warning) \cup Sent(input) \cup Sent(pho) :
              a \in Nat /\ a < next /\ a < next'
      BY <1>1, <1>2, <1>14, PlacesAreNumbers DEF Places, InPlaces, Below
    <3> QED
      BY <1>1, <1>4, <2>1, <2>2, <3>1 DEF Places, InPlaces, Below
  <2> QED
    BY <1>5, <1>7, <1>9, <1>14, <2>1, <2>3 DEF more
<1>17. CASE next' = next + 1 /\ pho' = <<>> /\ input' = input \o pho
  <2>1. next' \in Nat /\ next' > 0 /\ next < next'
    BY <1>2, <1>17
  <2>2. Sent(input)' = Sent(input) \cup Sent(pho) /\ Sent(pho)' = {} /\ pho' \in Seq(Nat) /\ Ordered(pho')
    BY <1>7, <1>17, NoneSent DEF more
  <2>3. Places'
    <3>1. \A a \in Warned \cup Starts(lines) \cup Starts(error) \cup Starts(warning) \cup Sent(input) \cup Sent(pho) :
              a \in Nat /\ a < next /\ a < next'
      BY <1>1, <1>2, <1>17, PlacesAreNumbers DEF Places, InPlaces, Below
    <3> QED
      BY <1>1, <1>4, <2>1, <2>2, <3>1 DEF Places, InPlaces, Below
  <2> QED
    BY <1>5, <1>7, <1>17, <2>1, <2>2, <2>3 DEF more
<1>15. CASE NoMorePhones
  <2>1. UNCHANGED next /\ (UNCHANGED <<pho, input>> \/ Flushed(pho))
    BY <1>15 DEF NoMorePhones, EndOfPhones
  <2> QED
    BY <1>10, <1>11, <2>1
<1>16. CASE NextPhone
  <2>1. /\ next' = next + 1
        /\ \/ Flushed(Append(pho, next))
           \/ pho' = <<next>> /\ input' = input \o pho
           \/ pho' = <<>> /\ input' = input \o pho
    BY <1>16 DEF NextPhone, WritePhone
  <2> QED
    BY <1>13, <1>14, <1>17, <2>1
<1> QED
  BY <1>15, <1>16

\* Lines move from the pipe to the message buffer, and leave it from the front.
LEMMA ReadingKeepsOrder == ASSUME WarnInv, ReadPipe, want = "error" PROVE WarnInv'
<1>1. WarnType /\ Places /\ Turns /\ Halves /\ UnknownOnly
  BY DEF WarnInv
<1> DEFINE c == Count
<1>2. /\ c > 0 /\ c \in 1 .. Len(error) /\ lines' = SubSeq(error, 1, c) /\ error' = SubSeq(error, c + 1, Len(error))
      /\ UNCHANGED <<text, next, warning, input, pho, reported, want, current>>
  <2>1. c > 0 /\ UNCHANGED <<text, next, warning, input, pho, reported, want, current>>
    BY DEF ReadPipe, mbrola
  <2>2. lines' = SubSeq(error, 1, c) /\ error' = SubSeq(error, c + 1, Len(error))
    BY DEF ReadPipe
  <2>3. Len(error) \in Nat /\ MessageSize - current \in Int
    BY <1>1, MbrolaAssumption DEF WarnType
  <2>4. c = IF Len(error) < MessageSize - current THEN Len(error) ELSE MessageSize - current
    BY DEF Count, Pipe, Room
  <2> HIDE DEF c
  <2>5. c \in 1 .. Len(error)
    BY <2>1, <2>3, <2>4
  <2> QED
    BY <2>1, <2>2, <2>5
<1> HIDE DEF c
<1>3. error \in Seq(Half) /\ Len(error) \in Nat
  BY <1>1 DEF WarnType
<1>4. /\ lines' \in Seq(Half) /\ Starts(lines)' \subseteq Starts(error) /\ InTurn(lines') /\ Alternate(lines')
  <2>1. 1 \in 1 .. Len(error) + 1 /\ c \in 1 - 1 .. Len(error)
    BY <1>2, <1>3
  <2> QED
    BY <1>1, <1>2, <1>3, <2>1, PartOfHalves DEF Turns, Halves
<1>5. /\ error' \in Seq(Half) /\ Starts(error)' \subseteq Starts(error) /\ InTurn(error') /\ Alternate(error') /\ Ended(error')
  <2>1. c + 1 \in 1 .. Len(error) + 1 /\ Len(error) \in (c + 1) - 1 .. Len(error)
    BY <1>2, <1>3
  <2> QED
    BY <1>1, <1>2, <1>3, <2>1, PartOfHalves DEF Turns, Halves
<1>6. Below(Starts(lines)', Starts(error)')
  BY <1>1, <1>2, <1>3, CutHalves DEF Turns
<1>7. Warned' = Warned /\ Starts(warning)' = Starts(warning) /\ Sent(input)' = Sent(input) /\ Sent(pho)' = Sent(pho)
  BY <1>2 DEF Warned
<1>8. WarnType'
  BY <1>1, <1>2, <1>4, <1>5 DEF WarnType
<1>9. Places'
  BY <1>1, <1>2, <1>4, <1>5, <1>6, <1>7 DEF Places, InPlaces, Below
<1>10. Turns' /\ Halves'
  BY <1>1, <1>2, <1>4, <1>5 DEF Turns, Halves
<1>11. UnknownOnly'
  BY <1>1, <1>2, <1>4, <1>5, <1>7 DEF UnknownOnly
<1> QED
  BY <1>8, <1>9, <1>10, <1>11 DEF WarnInv

\* As no two first halves follow each other, the first end of a line is one of
\* the first two.
LEMMA FirstEnd ==
    ASSUME lines \in Seq(Half), Alternate(lines)
    PROVE  /\ EndOfLine \in 0 .. Len(lines)
           /\ EndOfLine = 2 => ~lines[1].last
<1> DEFINE ends == {i \in 1 .. Len(lines) : lines[i].last}
<1>1. EndOfLine = IF ends # {} THEN CHOOSE x \in ends : \A y \in ends : x =< y ELSE 0
  BY DEF EndOfLine, SelectInSeq, Min
<1>2. Len(lines) \in Nat
  OBVIOUS
<1>3. CASE Len(lines) > 0 /\ lines[1].last
  <2>1. 1 \in ends /\ \A y \in ends : 1 =< y
    BY <1>2, <1>3
  <2>2. EndOfLine \in ends /\ \A y \in ends : EndOfLine =< y
    BY <1>1, <2>1
  <2>3. EndOfLine = 1
    BY <2>1, <2>2
  <2> QED
    BY <1>2, <1>3, <2>3
<1>4. CASE Len(lines) > 1 /\ ~lines[1].last
  <2>1. lines[2].last
    <3>1. 1 \in 1 .. Len(lines) - 1
      BY <1>2, <1>4
    <3> QED
      BY <1>4, <3>1 DEF Alternate
  <2>2. 2 \in ends /\ \A y \in ends : 2 =< y
    BY <1>2, <1>4, <2>1
  <2>3. EndOfLine \in ends /\ \A y \in ends : EndOfLine =< y
    BY <1>1, <2>2
  <2>4. EndOfLine = 2
    BY <2>2, <2>3
  <2> QED
    BY <1>2, <1>4, <2>4
<1>5. CASE Len(lines) = 0 \/ (Len(lines) = 1 /\ ~lines[1].last)
  <2>1. ends = {}
    BY <1>2, <1>5
  <2>2. EndOfLine = 0
    BY <1>1, <2>1
  <2> QED
    BY <1>2, <2>2
<1>6. Len(lines) = 0 \/ Len(lines) = 1 \/ Len(lines) > 1
  BY <1>2
<1>7. (Len(lines) > 0 /\ lines[1].last) \/ (Len(lines) > 1 /\ ~lines[1].last)
        \/ Len(lines) = 0 \/ (Len(lines) = 1 /\ ~lines[1].last)
  <2> HIDE DEF ends
  <2>1. CASE Len(lines) = 0
    BY <2>1
  <2>2. CASE Len(lines) = 1
    BY <2>2, 1 > 0
  <2>3. CASE Len(lines) > 1
    <3>1. Len(lines) > 0
      BY <1>2, <2>3
    <3> QED
      BY <2>3, <3>1
  <2> QED
    BY <1>6, <2>1, <2>2, <2>3
<1> HIDE DEF ends
<1> QED
  BY <1>3, <1>4, <1>5, <1>7

LEMMA ErrorLineKeepsOrder == ASSUME WarnInv, ErrorLine PROVE WarnInv'
<1>1. WarnType /\ Places /\ Turns /\ Halves /\ UnknownOnly
  BY DEF WarnInv
<1> DEFINE e == EndOfLine
<1>2. /\ e > 0 /\ lines' = SubSeq(lines, e + 1, Len(lines)) /\ current' = current + e
      /\ UNCHANGED <<text, next, error, warning, input, pho, want>>
  BY DEF ErrorLine, LineUsed, mbrola
<1>3. (e = 2 /\ reported' = Append(reported, lines[1].of)) \/ reported' = reported
  BY DEF ErrorLine
<1>4. e \in 0 .. Len(lines) /\ (e = 2 => ~lines[1].last)
  BY <1>1, FirstEnd DEF WarnType, Halves
<1> HIDE DEF e
<1>5. lines \in Seq(Half) /\ Len(lines) \in Nat /\ e \in 1 .. Len(lines)
  BY <1>1, <1>2, <1>4 DEF WarnType
<1>6. /\ lines' \in Seq(Half) /\ Starts(lines)' \subseteq Starts(lines) /\ InTurn(lines') /\ Alternate(lines')
  <2>1. e + 1 \in 1 .. Len(lines) + 1 /\ Len(lines) \in (e + 1) - 1 .. Len(lines)
    BY <1>5
  <2> QED
    BY <1>1, <1>2, <1>5, <2>1, PartOfHalves DEF Turns, Halves
<1>7. current' \in Nat
  BY <1>1, <1>2, <1>5 DEF WarnType
<1>8. /\ Starts(error)' = Starts(error) /\ Starts(warning)' = Starts(warning)
      /\ Sent(input)' = Sent(input) /\ Sent(pho)' = Sent(pho)
  BY <1>2
<1>9. CASE reported' = reported
  <2>1. Warned' = Warned
    BY <1>9 DEF Warned
  <2>2. WarnType'
    BY <1>1, <1>2, <1>6, <1>7, <1>9 DEF WarnType
  <2>3. Places'
    BY <1>1, <1>2, <1>6, <1>8, <2>1 DEF Places, InPlaces, Below
  <2>4. Turns' /\ Halves'
    BY <1>1, <1>2, <1>6, <1>9 DEF Turns, Halves
  <2>5. UnknownOnly'
    BY <1>1, <1>2, <1>6, <1>8, <2>1 DEF UnknownOnly
  <2> QED
    BY <2>2, <2>3, <2>4, <2>5 DEF WarnInv
<1>10. CASE e = 2 /\ reported' = Append(reported, lines[1].of)
  <2> DEFINE p == lines[1].of
  <2>1. 1 \in 1 .. Len(lines) /\ ~lines[1].last /\ lines[1] \in Half
    BY <1>4, <1>5, <1>10
  <2>2. p \in Nat /\ p \in Starts(lines)
    BY <2>1 DEF Half, Starts
  <2>3. Below({p}, Starts(lines)')
    <3>1. Below(Starts(SubSeq(lines, 1, e)), Starts(lines'))
      BY <1>1, <1>2, <1>5, CutHalves DEF Turns
    <3>2. p \in Starts(SubSeq(lines, 1, e))
      <4> DEFINE front == SubSeq(lines, 1, e)
      <4>1. Len(front) = e /\ front[1] = lines[1]
        BY <1>5
      <4> HIDE DEF front
      <4>2. 1 \in 1 .. Len(front)
        BY <1>5, <4>1
      <4> QED
        BY <2>1, <4>1, <4>2 DEF Starts, front
    <3> QED
      BY <3>1, <3>2 DEF Below
  <2> HIDE DEF p
  <2>4. reported \in Seq(Nat) /\ reported' = Append(reported, p)
    BY <1>1, <1>10 DEF WarnType, p
  <2>5. /\ reported' \in Seq(Nat) /\ Len(reported) \in Nat /\ Len(reported') = Len(reported) + 1
        /\ \A i \in 1 .. Len(reported) : reported'[i] = reported[i]
        /\ reported'[Len(reported) + 1] = p
    BY <2>2, <2>4
  <2>6. Warned' = Warned \cup {p}
    <3>1. 1 .. Len(reported') = (1 .. Len(reported)) \cup {Len(reported) + 1}
      BY <2>5
    <3> QED
      BY <2>5, <3>1 DEF Warned
  <2>7. Below(Warned, {p})
    BY <1>1, <2>2 DEF Places, InPlaces, Below
  <2>8. WarnType'
    BY <1>1, <1>2, <1>6, <1>7, <2>5 DEF WarnType
  <2>9. Places'
    BY <1>1, <1>2, <1>6, <1>8, <2>2, <2>3, <2>6 DEF Places, InPlaces, Below
  <2>10. \A i, j \in 1 .. Len(reported') : i < j => reported'[i] < reported'[j]
    <3> SUFFICES ASSUME NEW i \in 1 .. Len(reported'), NEW j \in 1 .. Len(reported'), i < j
                 PROVE  reported'[i] < reported'[j]
      OBVIOUS
    <3>1. i \in 1 .. Len(reported)
      BY <2>5
    <3>2. CASE j \in 1 .. Len(reported)
      BY <1>1, <2>5, <3>1, <3>2 DEF Turns
    <3>3. CASE j = Len(reported) + 1
      <4>1. reported[i] \in Warned
        BY <3>1 DEF Warned
      <4> QED
        BY <2>5, <2>7, <3>1, <3>3, <4>1 DEF Below
    <3> QED
      BY <2>5, <3>2, <3>3
  <2>11. Turns' /\ Halves'
    BY <1>1, <1>2, <1>6, <2>10 DEF Turns, Halves
  <2>12. UnknownOnly'
    BY <1>1, <1>2, <1>6, <1>8, <2>2, <2>6 DEF UnknownOnly
  <2> QED
    BY <2>8, <2>9, <2>11, <2>12 DEF WarnInv
<1> QED
  BY <1>3, <1>9, <1>10

LEMMA SplitKeepsOrder == ASSUME WarnInv, ErrorLineSplit PROVE WarnInv'
<1>1. WarnType /\ Places /\ Turns /\ Halves /\ UnknownOnly
  BY DEF WarnInv
<1>2. /\ lines' = <<>> /\ (current' = Len(lines) \/ current' = current)
      /\ UNCHANGED <<text, next, error, warning, input, pho, want, reported>>
  BY DEF ErrorLineSplit, mbrola
<1>3. current' \in Nat
  BY <1>1, <1>2 DEF WarnType
<1>4. lines' \in Seq(Half) /\ Starts(lines)' = {} /\ InTurn(lines') /\ Alternate(lines')
  BY <1>2, NoHalves
<1>5. /\ Warned' = Warned /\ Starts(error)' = Starts(error) /\ Starts(warning)' = Starts(warning)
      /\ Sent(input)' = Sent(input) /\ Sent(pho)' = Sent(pho)
  BY <1>2 DEF Warned
<1>6. WarnType'
  BY <1>1, <1>2, <1>3, <1>4 DEF WarnType
<1>7. Places'
  BY <1>1, <1>2, <1>4, <1>5 DEF Places, InPlaces, Below
<1>8. Turns' /\ Halves'
  BY <1>1, <1>2, <1>4 DEF Turns, Halves
<1>9. UnknownOnly'
  BY <1>1, <1>2, <1>4, <1>5 DEF UnknownOnly
<1> QED
  BY <1>6, <1>7, <1>8, <1>9 DEF WarnInv

LEMMA WarnNext == WarnInv /\ [Next]_vars => WarnInv'
<1> SUFFICES ASSUME WarnInv, [Next]_vars
             PROVE  WarnInv'
  OBVIOUS
<1>1. current \in Nat /\ want \in {"header", "audio", "error"}
  BY DEF WarnInv, WarnType
<1>2. CASE MbrolaReads \/ MbrolaWarns
  BY <1>2, MbrolaKeepsOrder
<1>3. CASE NextPhone \/ NoMorePhones
  BY <1>3, WritingKeepsOrder
<1>4. CASE ReadPipe /\ want = "error"
  BY <1>4, ReadingKeepsOrder
<1>5. CASE ErrorLine
  BY <1>5, ErrorLineKeepsOrder
<1>6. CASE ErrorLineSplit
  BY <1>6, SplitKeepsOrder
<1>7. CASE ReadPipe /\ want # "error"
  <2>1. UNCHANGED <<text, next, lines, error, warning, input, pho, reported, current, want>>
    BY <1>1, <1>7 DEF ReadPipe, mbrola
  <2> QED
    BY <1>1, <2>1, NothingMoves
<1>8. CASE StatIdle \/ SelectTimeout \/ Again \/ StatBusy \/ SelectReady \/ Synthesize \/ StartRead \/ NoMoreLines \/ MbrolaSpeaks
  <2>1. /\ UNCHANGED <<text, next, lines, error, warning, input, pho, reported>>
        /\ current' \in {current, 0} /\ want' \in {want, "audio", "error"}
    BY <1>8 DEF StatIdle, SelectTimeout, NothingRead, Again, StatBusy, SelectReady, Synthesize, StartRead,
                NoMoreLines, MbrolaSpeaks, library, mbrola
  <2> QED
    BY <1>1, <2>1, NothingMoves
<1>9. CASE UNCHANGED vars
  <2>1. UNCHANGED <<text, next, lines, error, warning, input, pho, reported, current, want>>
    BY <1>9 DEF vars, library, mbrola
  <2> QED
    BY <1>1, <2>1, NothingMoves
<1> QED
  BY <1>2, <1>3, <1>4, <1>5, <1>6, <1>7, <1>8, <1>9 DEF Next, Library, Mbrola

\* Each unknown phone is reported at most once, in the order of the text and
\* nothing else is, however the two processes run and wherever reads split or
\* lose a line.
THEOREM WarningsInOrder == Spec => []WarnedOnce
<1>1. WarnInv => WarnedOnce
  <2> SUFFICES ASSUME WarnInv
               PROVE  WarnedOnce
    OBVIOUS
  <2>1. \A i \in 1 .. Len(reported) : text[reported[i]] = "unknown"
    BY DEF WarnInv, UnknownOnly, Warned
  <2> QED
    BY <2>1 DEF WarnInv, Turns, WarnedOnce
<1> QED
  BY <1>1, WarnInit, WarnNext, PTL DEF Spec

-----------------------------------------------------------------------------
(* What is heard is diagnosed: mbrola warns of a phone before it speaks it, *)
(* its warnings arrive whole if they fit, and the library looks for them    *)
(* after each block until there is none.                                    *)

\* The halves of whole lines.
Whole(s) ==
    \E n \in 0 .. Len(s) : Len(s) = 2 * n /\ \A k \in 1 .. n : ~s[2 * k - 1].last /\ s[2 * k].last

\* The phones, and perhaps the header, in what mbrola says.
Said(s) == {s[i] : i \in 1 .. Len(s)}

\* The header is the first that mbrola says, and the constructor takes it.
HeaderLeft == pc \in {"read", "stat", "select", "failed"} /\ want = "header"

HeaderInv ==
    /\ \A i \in 1 .. Len(audio) : audio[i] = Header => i = 1 /\ HeaderLeft
    /\ \A i \in 1 .. Len(todo) : todo[i] = Header => i = 1 /\ HeaderLeft /\ audio = <<>>
    /\ HeaderLeft \/ headed
    /\ headed \/ (audio = <<>> /\ todo = <<>>)
    /\ Header \notin Said(taken) /\ Header \notin Said(out)

SpokenType ==
    /\ taken \in Seq(Nat) /\ todo \in Seq(Nat) /\ audio \in Seq(Nat) /\ out \in Seq(Nat)
    /\ next <= Len(text) + 1
    /\ \A p \in Starts(warning) \cup Starts(error) : p > 0

\* What synthesize() does between two reads, and for what it reads.
ReadInv ==
    /\ pc \in {"read", "stat", "select"} =>
        /\ want = "header" => state = "need_data"
        /\ want = "audio" => state = "write_data"
        /\ want = "error" => state = "read_errors"
    /\ HeaderLeft => out = <<>>
    /\ state # "read_error_line" => lines = <<>> /\ current = 0

WholeInv == Whole(lines) /\ Whole(error) /\ Whole(warning)

\* An unknown phone that mbrola has read is warned of before it is spoken.
Diagnosed == Warned \cup Starts(lines) \cup Starts(error)
UnknownIn(s) == {p \in Said(s) : p # Header /\ text[p] = "unknown"}

DiagnosedInv ==
    /\ UnknownIn(taken) \subseteq Diagnosed \cup Starts(warning)
    /\ UnknownIn(todo) \subseteq Diagnosed
    /\ UnknownIn(audio) \subseteq Diagnosed
    /\ UnknownIn(out) \subseteq Diagnosed

\* Where synthesize() asks for phones or waits for audio, and where it has found
\* no warning, everything heard is reported.
ReportedInv ==
    state \in {"need_data", "have_data", "write_data"} \/ (want = "error" /\ pc \in {"stat", "select"}) =>
        UnknownIn(out) \subseteq Warned

HeardInv == SpokenType /\ HeaderInv /\ ReadInv /\ WholeInv /\ DiagnosedInv /\ ReportedInv

LEMMA SaidOfParts ==
    ASSUME NEW s \in Seq(Nat), NEW t \in Seq(Nat)
    PROVE  s \o t \in Seq(Nat) /\ Said(s \o t) = Said(s) \cup Said(t)
<1> DEFINE u == s \o t
           m == Len(s)
           n == Len(t)
<1>1. m \in Nat /\ n \in Nat /\ Len(u) = m + n /\ u \in Seq(Nat)
  OBVIOUS
<1>2. \A i \in 1 .. m : u[i] = s[i]
  OBVIOUS
<1>3. \A i \in 1 .. n : u[m + i] = t[i]
  OBVIOUS
<1> HIDE DEF u
<1>4. \A i \in 1 .. Len(u) : i \in 1 .. m \/ (i - m \in 1 .. n /\ i = m + (i - m))
  BY <1>1
<1>5. \A i \in 1 .. Len(u) : u[i] \in Said(s) \cup Said(t)
  <2> SUFFICES ASSUME NEW i \in 1 .. Len(u)
               PROVE  u[i] \in Said(s) \cup Said(t)
    OBVIOUS
  <2>1. CASE i \in 1 .. m
    BY <1>2, <2>1 DEF Said
  <2>2. CASE i - m \in 1 .. n /\ i = m + (i - m)
    <3>1. u[i] = t[i - m]
      BY <1>3, <2>2
    <3> QED
      BY <2>2, <3>1 DEF Said
  <2> QED
    BY <1>4, <2>1, <2>2
<1>6. \A i \in 1 .. m : s[i] \in Said(u)
  <2>1. \A i \in 1 .. m : i \in 1 .. Len(u)
    BY <1>1
  <2> QED
    BY <1>2, <2>1 DEF Said
<1>7. \A i \in 1 .. n : t[i] \in Said(u)
  <2>1. \A i \in 1 .. n : m + i \in 1 .. Len(u)
    BY <1>1
  <2> QED
    BY <1>3, <2>1 DEF Said
<1> QED
  BY <1>1, <1>5, <1>6, <1>7 DEF Said, u

LEMMA SaidOfOne == ASSUME NEW p \in Nat PROVE <<p>> \in Seq(Nat) /\ Said(<<p>>) = {p}
<1>1. <<p>> \in Seq(Nat) /\ Len(<<p>>) = 1 /\ <<p>>[1] = p
  OBVIOUS
<1>2. 1 .. 1 = {1}
  OBVIOUS
<1> QED
  BY <1>1, <1>2 DEF Said

LEMMA SaidOfNone == <<>> \in Seq(Nat) /\ Said(<<>>) = {}
  BY DEF Said

LEMMA SaidOfTail ==
    ASSUME NEW s \in Seq(Nat), s # <<>>
    PROVE  /\ Tail(s) \in Seq(Nat) /\ Head(s) \in Nat /\ Head(s) = s[1]
           /\ Len(Tail(s)) \in Nat /\ Len(s) = Len(Tail(s)) + 1
           /\ \A i \in 1 .. Len(Tail(s)) : Tail(s)[i] = s[i + 1]
           /\ Said(s) = {Head(s)} \cup Said(Tail(s))
<1> DEFINE u == Tail(s)
<1>1. Len(s) \in Nat /\ Len(s) > 0 /\ u \in Seq(Nat) /\ Head(s) = s[1] /\ Head(s) \in Nat
  OBVIOUS
<1>2. Len(u) = Len(s) - 1 /\ \A i \in 1 .. Len(u) : u[i] = s[i + 1]
  BY <1>1
<1> HIDE DEF u
<1>3. \A i \in 1 .. Len(s) : i = 1 \/ (i - 1 \in 1 .. Len(u) /\ (i - 1) + 1 = i)
  BY <1>1, <1>2
<1>4. \A i \in 1 .. Len(s) : s[i] = Head(s) \/ s[i] \in Said(u)
  <2> SUFFICES ASSUME NEW i \in 1 .. Len(s), i # 1
               PROVE  s[i] \in Said(u)
    BY <1>1
  <2>1. i - 1 \in 1 .. Len(u) /\ u[i - 1] = s[i]
    BY <1>2, <1>3
  <2> QED
    BY <2>1 DEF Said
<1>5. \A i \in 1 .. Len(u) : u[i] \in Said(s)
  <2>1. \A i \in 1 .. Len(u) : i + 1 \in 1 .. Len(s)
    BY <1>1, <1>2
  <2> QED
    BY <1>2, <2>1 DEF Said
<1>6. Head(s) \in Said(s)
  <2>1. 1 \in 1 .. Len(s)
    BY <1>1
  <2> QED
    BY <1>1, <2>1 DEF Said
<1>7. Said(s) = {Head(s)} \cup Said(u)
  BY <1>4, <1>5, <1>6 DEF Said
<1> QED
  BY <1>1, <1>2, <1>7 DEF u

LEMMA SaidAndMore ==
    ASSUME NEW s \in Seq(Nat), NEW p \in Nat
    PROVE  /\ Append(s, p) \in Seq(Nat) /\ Said(Append(s, p)) = Said(s) \cup {p}
           /\ Len(Append(s, p)) = Len(s) + 1 /\ Append(s, p)[Len(s) + 1] = p
           /\ \A i \in 1 .. Len(s) : Append(s, p)[i] = s[i]
<1>1. Append(s, p) = s \o <<p>>
  OBVIOUS
<1>2. Said(Append(s, p)) = Said(s) \cup {p}
  BY <1>1, SaidOfOne, SaidOfParts
<1> QED
  BY <1>2

-----------------------------------------------------------------------------
LEMMA WholeOfParts ==
    ASSUME NEW s \in Seq(Half), NEW t \in Seq(Half), Whole(s), Whole(t)
    PROVE  Whole(s \o t)
<1> DEFINE u == s \o t
<1>1. PICK m \in 0 .. Len(s) : Len(s) = 2 * m /\ \A k \in 1 .. m : ~s[2 * k - 1].last /\ s[2 * k].last
  BY DEF Whole
<1>2. PICK n \in 0 .. Len(t) : Len(t) = 2 * n /\ \A k \in 1 .. n : ~t[2 * k - 1].last /\ t[2 * k].last
  BY DEF Whole
<1>3. Len(u) = 2 * (m + n) /\ m \in Nat /\ n \in Nat /\ m + n \in 0 .. Len(u)
  BY <1>1, <1>2
<1>4. \A i \in 1 .. 2 * m : u[i] = s[i]
  BY <1>1
<1>5. \A i \in 1 .. 2 * n : u[2 * m + i] = t[i]
  BY <1>1, <1>2, SMTT(30)
<1> HIDE DEF u
<1>6. ASSUME NEW k \in 1 .. m + n
      PROVE  ~u[2 * k - 1].last /\ u[2 * k].last
  <2>1. CASE k <= m
    <3>1. k \in 1 .. m /\ 2 * k - 1 \in 1 .. 2 * m /\ 2 * k \in 1 .. 2 * m
      BY <1>3, <2>1
    <3> QED
      BY <1>1, <1>4, <3>1
  <2>2. CASE k > m
    <3> DEFINE j == k - m
    <3>1. j \in 1 .. n /\ 2 * j - 1 \in 1 .. 2 * n /\ 2 * j \in 1 .. 2 * n
      BY <1>3, <2>2
    <3>2. 2 * k - 1 = 2 * m + (2 * j - 1) /\ 2 * k = 2 * m + 2 * j
      BY <1>3
    <3> HIDE DEF j
    <3>3. u[2 * m + (2 * j - 1)] = t[2 * j - 1] /\ u[2 * m + 2 * j] = t[2 * j]
      BY <1>5, <3>1
    <3> QED
      BY <1>2, <3>1, <3>2, <3>3
  <2> QED
    BY <1>3, <2>1, <2>2
<1>7. Whole(u)
  BY <1>3, <1>6 DEF Whole
<1> QED
  BY <1>7 DEF u

LEMMA WholeLine == ASSUME NEW p \in Nat PROVE Whole(Line(p))
<1> DEFINE s == Line(p)
<1>1. Len(s) = 2 /\ s[1].last = FALSE /\ s[2].last = TRUE
  BY DEF Line
<1> HIDE DEF s
<1>2. \A k \in 1 .. 1 : ~s[2 * k - 1].last /\ s[2 * k].last
  <2>1. \A k \in 1 .. 1 : 2 * k - 1 = 1 /\ 2 * k = 2
    OBVIOUS
  <2> QED
    BY <1>1, <2>1
<1>3. Len(s) = 2 * 1 /\ 1 \in 0 .. Len(s)
  BY <1>1
<1> QED
  BY <1>2, <1>3 DEF Whole, s

LEMMA WholeNone == Whole(<<>>)
  BY DEF Whole

\* The first of whole lines is what ErrorLine takes, and the others are left.
LEMMA WholeLineUsed ==
    ASSUME lines \in Seq(Half), Whole(lines), lines # <<>>
    PROVE  LET rest == SubSeq(lines, 3, Len(lines))
           IN  /\ EndOfLine = 2 /\ Whole(rest)
               /\ Starts(lines) = {lines[1].of} \cup Starts(rest)
<1> DEFINE rest == SubSeq(lines, 3, Len(lines))
<1>1. PICK n \in 0 .. Len(lines) : Len(lines) = 2 * n /\ \A k \in 1 .. n : ~lines[2 * k - 1].last /\ lines[2 * k].last
  BY DEF Whole
<1>2. Len(lines) \in Nat /\ Len(lines) > 0 /\ n \in Nat /\ n >= 1
  BY <1>1
<1>3. ~lines[1].last /\ lines[2].last
  <2>1. 1 \in 1 .. n /\ 2 * 1 - 1 = 1 /\ 2 * 1 = 2
    BY <1>2
  <2>2. ~lines[2 * 1 - 1].last /\ lines[2 * 1].last
    BY <1>1, <2>1
  <2> QED
    BY <2>1, <2>2
<1>4. EndOfLine = 2
  <2> DEFINE ends == {i \in 1 .. Len(lines) : lines[i].last}
  <2>1. EndOfLine = IF ends # {} THEN CHOOSE x \in ends : \A y \in ends : x =< y ELSE 0
    BY DEF EndOfLine, SelectInSeq, Min
  <2>2. 2 \in ends /\ \A y \in ends : 2 =< y
    BY <1>1, <1>2, <1>3
  <2>3. EndOfLine \in ends /\ \A y \in ends : EndOfLine =< y
    BY <2>1, <2>2
  <2> QED
    BY <2>2, <2>3
<1>5. /\ Len(rest) = 2 * (n - 1) /\ n - 1 \in 0 .. Len(rest)
      /\ \A i \in 1 .. Len(rest) : rest[i] = lines[i + 2]
  BY <1>1, <1>2
<1> HIDE DEF rest
<1>6. Whole(rest)
  <2>1. ASSUME NEW k \in 1 .. n - 1
        PROVE  ~rest[2 * k - 1].last /\ rest[2 * k].last
    <3>1. 2 * k - 1 \in 1 .. Len(rest) /\ 2 * k \in 1 .. Len(rest) /\ k + 1 \in 1 .. n
      BY <1>2, <1>5
    <3>2. (2 * k - 1) + 2 = 2 * (k + 1) - 1 /\ 2 * k + 2 = 2 * (k + 1)
      OBVIOUS
    <3>3. rest[2 * k - 1] = lines[(2 * k - 1) + 2] /\ rest[2 * k] = lines[2 * k + 2]
      BY <1>5, <3>1
    <3>4. ~lines[2 * (k + 1) - 1].last /\ lines[2 * (k + 1)].last
      BY <1>1, <3>1
    <3> QED
      BY <3>2, <3>3, <3>4
  <2> QED
    BY <1>5, <2>1 DEF Whole
<1>7. Starts(lines) = {lines[1].of} \cup Starts(rest)
  <2>1. ASSUME NEW i \in 1 .. Len(lines), ~lines[i].last
        PROVE  lines[i].of \in {lines[1].of} \cup Starts(rest)
    <3>1. CASE i = 1
      BY <3>1
    <3>2. CASE i > 2
      <4>1. i - 2 \in 1 .. Len(rest) /\ (i - 2) + 2 = i
        BY <1>1, <1>2, <1>5, <3>2
      <4>2. rest[i - 2] = lines[i]
        BY <1>5, <4>1
      <4> QED
        BY <2>1, <4>1, <4>2 DEF Starts
    <3> QED
      BY <1>3, <2>1, <3>1, <3>2
  <2>2. ASSUME NEW i \in 1 .. Len(rest), ~rest[i].last
        PROVE  rest[i].of \in Starts(lines)
    <3>1. i + 2 \in 1 .. Len(lines) /\ rest[i] = lines[i + 2]
      BY <1>1, <1>2, <1>5
    <3> QED
      BY <2>2, <3>1 DEF Starts
  <2>3. lines[1].of \in Starts(lines)
    <3>1. 1 \in 1 .. Len(lines)
      BY <1>2
    <3> QED
      BY <1>3, <3>1 DEF Starts
  <2> QED
    BY <2>1, <2>2, <2>3 DEF Starts
<1> QED
  BY <1>4, <1>6, <1>7 DEF rest

\* Whole lines that warn of unknown phones, each once, are no more than those.
LEMMA WarningsAreFew ==
    ASSUME NEW s \in Seq(Half), Whole(s), InTurn(s), Starts(s) \subseteq Unknown, text \in Seq(Phone)
    PROVE  Len(s) <= 2 * Cardinality(Unknown)
<1>1. PICK n \in 0 .. Len(s) : Len(s) = 2 * n /\ \A k \in 1 .. n : ~s[2 * k - 1].last /\ s[2 * k].last
  BY DEF Whole
<1>2. Len(s) \in Nat /\ n \in Nat
  BY <1>1
<1>3. \A k \in 1 .. n : 2 * k - 1 \in 1 .. Len(s)
  BY <1>1, <1>2
<1> DEFINE f == [k \in 1 .. n |-> s[2 * k - 1].of]
<1>4. \A k \in 1 .. n : f[k] \in Unknown
  <2> SUFFICES ASSUME NEW k \in 1 .. n
               PROVE  s[2 * k - 1].of \in Unknown
    OBVIOUS
  <2>1. s[2 * k - 1].of \in Starts(s)
    BY <1>1, <1>3 DEF Starts
  <2> QED
    BY <2>1
<1>5. \A j, k \in 1 .. n : j < k => f[j] < f[k]
  <2> SUFFICES ASSUME NEW j \in 1 .. n, NEW k \in 1 .. n, j < k
               PROVE  s[2 * j - 1].of < s[2 * k - 1].of
    OBVIOUS
  <2>1. 2 * j - 1 < 2 * k - 1
    OBVIOUS
  <2>2. ~s[2 * j - 1].last /\ ~s[2 * k - 1].last
    BY <1>1
  <2> QED
    BY <1>3, <2>1, <2>2 DEF InTurn
<1>6. f \in Injection(1 .. n, Unknown)
  <2>1. f \in [1 .. n -> Unknown]
    BY <1>4
  <2>2. \A k \in 1 .. n : f[k] \in Int
    BY <1>4 DEF Unknown
  <2> HIDE DEF f
  <2>3. \A j, k \in 1 .. n : f[j] = f[k] => j = k
    BY <1>5, <2>2
  <2> QED
    BY <2>1, <2>3 DEF Injection, IsInjective
<1>7. IsFiniteSet(Unknown)
  <2>1. 1 \in Int /\ Len(text) \in Int
    OBVIOUS
  <2>2. IsFiniteSet(1 .. Len(text))
    BY <2>1, FS_Interval
  <2> QED
    BY <2>2, FS_Subset DEF Unknown
<1>8. Cardinality(1 .. n) = n
  <2>1. 1 \in Int /\ n \in Int
    BY <1>2
  <2>2. Cardinality(1 .. n) = IF 1 > n THEN 0 ELSE n - 1 + 1
    BY <2>1, FS_Interval
  <2> QED
    BY <1>2, <2>2
<1> HIDE DEF f
<1>9. n <= Cardinality(Unknown) /\ Cardinality(Unknown) \in Nat
  BY <1>6, <1>7, <1>8, FS_Injection, FS_CardinalityType
<1> QED
  BY <1>1, <1>2, <1>9

-----------------------------------------------------------------------------
LEMMA HeardInit == Init => HeardInv
<1> SUFFICES ASSUME Init
             PROVE  HeardInv
  OBVIOUS
<1>1. /\ next = 1 /\ pc = "read" /\ want = "header" /\ state = "need_data" /\ lines = <<>> /\ current = 0
      /\ audio = <<>> /\ error = <<>> /\ taken = <<>> /\ todo = <<>> /\ warning = <<>> /\ out = <<>>
      /\ text \in Seq(Phone)
  BY MbrolaAssumption DEF Init
<1>2. Starts(warning) = {} /\ Starts(error) = {} /\ Len(text) \in Nat
  BY <1>1, NoHalves
<1>3. Said(taken) = {} /\ Said(todo) = {} /\ Said(audio) = {} /\ Said(out) = {} /\ Len(audio) = 0 /\ Len(todo) = 0
  BY <1>1, SaidOfNone
<1>4. SpokenType
  BY <1>1, <1>2, SaidOfNone DEF SpokenType
<1>5. HeaderInv /\ ReadInv
  BY <1>1, <1>3 DEF HeaderInv, HeaderLeft, ReadInv
<1>6. WholeInv
  BY <1>1, WholeNone DEF WholeInv
<1>7. DiagnosedInv /\ ReportedInv
  BY <1>3 DEF DiagnosedInv, ReportedInv, UnknownIn
<1> QED
  BY <1>4, <1>5, <1>6, <1>7 DEF HeardInv

\* The steps that move neither a warning nor a block.
LEMMA NothingSaid ==
    ASSUME HeardInv,
           UNCHANGED <<text, lines, error, warning, reported, taken, todo, audio, out, headed>>,
           next' <= Len(text) + 1, HeaderLeft' <=> HeaderLeft, ReadInv', ReportedInv'
    PROVE  HeardInv'
<1>1. SpokenType'
  BY DEF HeardInv, SpokenType
<1>2. HeaderInv'
  BY DEF HeardInv, HeaderInv
<1>3. Warned' = Warned
  BY DEF Warned
<1>4. DiagnosedInv'
  BY <1>3 DEF HeardInv, DiagnosedInv, Diagnosed, UnknownIn
<1> QED
  BY <1>1, <1>2, <1>4 DEF HeardInv, WholeInv

LEMMA QuietSteps ==
    ASSUME HeardInv, WarnType,
           \/ Again \/ StatIdle \/ StatBusy \/ SelectReady \/ SelectTimeout \/ Synthesize \/ StartRead
           \/ NoMorePhones \/ NextPhone \/ NoMoreLines
    PROVE  HeardInv'
<1>1. SpokenType /\ ReadInv /\ ReportedInv /\ DiagnosedInv
  BY DEF HeardInv
<1>2. UNCHANGED <<text, lines, error, warning, reported, taken, todo, audio, out, headed>>
  BY DEF Again, StatIdle, StatBusy, SelectReady, SelectTimeout, NothingRead, Synthesize, StartRead,
         NoMorePhones, NextPhone, NoMoreLines, mbrola
<1>3. Warned' = Warned /\ UnknownIn(out)' = UnknownIn(out)
  BY <1>2 DEF Warned, UnknownIn
<1>4. want \in {"header", "audio", "error"} /\ Len(text) \in Nat /\ next \in Nat /\ next <= Len(text) + 1
  BY <1>1 DEF WarnType, SpokenType
<1>5. CASE NextPhone
  <2>1. next' <= Len(text) + 1 /\ pc = "loop" /\ pc' = "loop" /\ UNCHANGED <<want, lines, current>>
    BY <1>4, <1>5 DEF NextPhone
  <2>2. state \in {"need_data", "have_data"} /\ state' \in {"need_data", "have_data", "write_data"}
    BY <1>5 DEF NextPhone, WritePhone
  <2>3. (HeaderLeft' <=> HeaderLeft) /\ ReadInv'
    BY <1>1, <1>2, <2>1, <2>2 DEF HeaderLeft, ReadInv
  <2>4. ReportedInv'
    BY <1>1, <1>3, <2>1, <2>2 DEF ReportedInv
  <2> QED
    BY <1>2, <2>1, <2>3, <2>4, NothingSaid
<1>6. CASE NoMorePhones
  <2>1. next' <= Len(text) + 1 /\ pc = "loop" /\ pc' \in {"loop", "over"} /\ UNCHANGED <<want, lines, current>>
    BY <1>4, <1>6 DEF NoMorePhones, EndOfPhones
  <2>2. state \in {"need_data", "have_data"} /\ state' \in {"need_data", "have_data", "write_data"}
    BY <1>6 DEF NoMorePhones, EndOfPhones
  <2>3. (HeaderLeft' <=> HeaderLeft) /\ ReadInv'
    BY <1>1, <1>2, <2>1, <2>2 DEF HeaderLeft, ReadInv
  <2>4. ReportedInv'
    BY <1>1, <1>3, <2>1, <2>2 DEF ReportedInv
  <2> QED
    BY <1>2, <2>1, <2>3, <2>4, NothingSaid
<1>7. CASE Synthesize \/ StartRead
  <2>1. /\ pc \in {"returned", "loop"} /\ UNCHANGED <<next, state, lines, current>>
        /\ \/ pc' = "loop" /\ want' = want
           \/ pc' = "read" /\ state = "write_data" /\ want' = "audio"
           \/ pc' = "read" /\ state = "read_errors" /\ want' = "error"
    BY <1>7 DEF Synthesize, StartRead
  <2>2. (HeaderLeft' <=> HeaderLeft) /\ ReadInv'
    BY <1>1, <1>2, <2>1 DEF HeaderLeft, ReadInv
  <2>3. ReportedInv'
    BY <1>1, <1>3, <2>1 DEF ReportedInv
  <2> QED
    BY <1>2, <1>4, <2>1, <2>2, <2>3, NothingSaid
<1>8. CASE NoMoreLines
  <2>1. /\ pc = "loop" /\ lines = <<>> /\ current' = 0 /\ state' = "read_errors"
        /\ UNCHANGED <<next, pc, want, lines>>
    BY <1>8 DEF NoMoreLines
  <2>2. (HeaderLeft' <=> HeaderLeft) /\ ReadInv'
    BY <1>1, <1>2, <2>1 DEF HeaderLeft, ReadInv
  <2>3. ReportedInv'
    BY <2>1 DEF ReportedInv
  <2> QED
    BY <1>2, <1>4, <2>1, <2>2, <2>3, NothingSaid
<1>9. CASE Again
  <2>1. pc = "read" /\ pc' = "stat" /\ Pipe = <<>> /\ UNCHANGED <<next, want, state, lines, current>>
    BY <1>9 DEF Again
  <2>2. (HeaderLeft' <=> HeaderLeft) /\ ReadInv'
    BY <1>1, <1>2, <2>1 DEF HeaderLeft, ReadInv
  <2>3. ReportedInv'
    <3>1. CASE want = "error"
      <4>1. error = <<>> /\ state = "read_errors" /\ lines = <<>>
        BY <1>1, <2>1, <3>1 DEF Pipe, ReadInv
      <4>2. UnknownIn(out) \subseteq Warned
        BY <1>1, <4>1, NoHalves DEF DiagnosedInv, Diagnosed
      <4> QED
        BY <1>3, <4>2 DEF ReportedInv
    <3>2. CASE want # "error"
      BY <1>1, <1>3, <2>1, <3>2 DEF ReportedInv
    <3> QED
      BY <3>1, <3>2
  <2> QED
    BY <1>2, <1>4, <2>1, <2>2, <2>3, NothingSaid
<1>10. CASE StatBusy \/ SelectReady
  <2>1. /\ pc \in {"stat", "select"} /\ pc' \in {"select", "read"} /\ UNCHANGED <<next, want, state, lines, current>>
    BY <1>10 DEF StatBusy, SelectReady
  <2>2. (HeaderLeft' <=> HeaderLeft) /\ ReadInv'
    BY <1>1, <1>2, <2>1 DEF HeaderLeft, ReadInv
  <2>3. ReportedInv'
    BY <1>1, <1>3, <2>1 DEF ReportedInv
  <2> QED
    BY <1>2, <1>4, <2>1, <2>2, <2>3, NothingSaid
<1>11. CASE StatIdle \/ SelectTimeout
  <2>1. pc \in {"stat", "select"} /\ NothingRead
    BY <1>11 DEF StatIdle, SelectTimeout
  <2>2. /\ UNCHANGED <<next, want, lines, current>>
        /\ \/ want = "header" /\ pc' = "failed" /\ state' = state
           \/ want = "audio" /\ pc' = "returned" /\ state' = "need_data"
           \/ want = "error" /\ pc' = "loop" /\ state' = "write_data"
    BY <1>4, <2>1 DEF NothingRead
  <2>3. /\ want = "header" => state = "need_data"
        /\ want = "audio" => state = "write_data"
        /\ want = "error" => state = "read_errors"
    BY <1>1, <2>1 DEF ReadInv
  <2>4. lines = <<>> /\ current = 0 /\ (HeaderLeft => out = <<>>)
    BY <1>1, <1>4, <2>3 DEF ReadInv
  <2>5. (HeaderLeft' <=> HeaderLeft) /\ ReadInv'
    BY <1>2, <2>1, <2>2, <2>3, <2>4 DEF HeaderLeft, ReadInv
  <2>6. ReportedInv'
    BY <1>1, <1>3, <2>1, <2>2, <2>3 DEF ReportedInv
  <2> QED
    BY <1>2, <1>4, <2>2, <2>5, <2>6, NothingSaid
<1> QED
  BY <1>5, <1>6, <1>7, <1>8, <1>9, <1>10, <1>11

\* mbrola reads a flush only when it has warned of all it has taken.
LEMMA ReadsAsDiagnosed == ASSUME HeardInv, WarnType, MbrolaReads PROVE HeardInv'
<1>1. SpokenType /\ HeaderInv /\ ReadInv /\ WholeInv /\ DiagnosedInv /\ ReportedInv
  BY DEF HeardInv
<1>2. /\ todo = <<>> /\ warning = <<>> /\ input # <<>>
      /\ UNCHANGED <<text, next, pc, want, state, lines, current, out, reported, audio, error>>
  BY DEF MbrolaReads, CanRead, library
<1>3. PICK h : h = Head(input)
  OBVIOUS
<1>4. h \in Nat
  BY <1>2, <1>3 DEF WarnType
<1>5. Warned' = Warned /\ Starts(lines)' = Starts(lines) /\ Starts(error)' = Starts(error) /\ Diagnosed' = Diagnosed
      /\ UnknownIn(out)' = UnknownIn(out) /\ UnknownIn(audio)' = UnknownIn(audio)
      /\ (HeaderLeft' <=> HeaderLeft) /\ ReadInv' /\ Said(out)' = Said(out)
  BY <1>1, <1>2 DEF Warned, Diagnosed, UnknownIn, HeaderLeft, ReadInv
<1>6. ReportedInv'
  BY <1>1, <1>2, <1>5 DEF ReportedInv
<1>7. Starts(warning) = {} /\ taken \in Seq(Nat) /\ Said(taken) \subseteq Nat
  BY <1>1, <1>2, NoHalves DEF SpokenType, Said
<1>8. CASE h = Flush
  <2>1. /\ todo' = (IF headed THEN <<>> ELSE <<Header>>) \o taken /\ taken' = <<>> /\ headed' = TRUE /\ warning' = <<>>
    BY <1>2, <1>3, <1>8 DEF MbrolaReads
  <2>2. taken' \in Seq(Nat) /\ Said(taken') = {}
    BY <2>1, SaidOfNone
  <2>3. todo' \in Seq(Nat) /\ Said(todo') \subseteq {Header} \cup Said(taken)
    <3>1. CASE headed
      <4>1. todo' = taken
        BY <1>7, <2>1, <3>1
      <4> QED
        BY <1>7, <4>1
    <3>2. CASE ~headed
      <4>1. todo' = <<Header>> \o taken
        BY <2>1, <3>2
      <4>2. <<Header>> \in Seq(Nat) /\ Said(<<Header>>) = {Header}
        BY SaidOfOne DEF Header
      <4> QED
        BY <1>7, <4>1, <4>2, SaidOfParts
    <3> QED
      BY <3>1, <3>2
  <2>4. \A i \in 1 .. Len(todo') : todo'[i] = Header => i = 1 /\ HeaderLeft' /\ audio' = <<>>
    <3>1. Header \notin Said(taken) /\ Header \in Nat
      BY <1>1 DEF HeaderInv, Header
    <3>2. CASE headed
      <4>1. todo' = taken
        BY <1>7, <2>1, <3>2
      <4> QED
        BY <3>1, <4>1 DEF Said
    <3>3. CASE ~headed
      <4>1. HeaderLeft' /\ audio' = <<>>
        BY <1>1, <1>2, <1>5, <3>3 DEF HeaderInv
      <4>2. todo' = <<Header>> \o taken
        BY <2>1, <3>3
      <4>3. Len(todo') = Len(taken) + 1 /\ \A i \in 1 .. Len(taken) : todo'[i + 1] = taken[i]
        BY <1>7, <3>1, <4>2
      <4>4. ASSUME NEW i \in 1 .. Len(todo'), i # 1
            PROVE  todo'[i] # Header
        <5>1. i - 1 \in 1 .. Len(taken) /\ (i - 1) + 1 = i
          BY <1>7, <4>3, <4>4
        <5>2. todo'[i] = taken[i - 1]
          BY <4>3, <5>1
        <5> QED
          BY <3>1, <5>1, <5>2 DEF Said
      <4> QED
        BY <4>1, <4>4
    <3> QED
      BY <3>2, <3>3
  <2>5. SpokenType'
    BY <1>1, <1>2, <1>5, <2>1, <2>2, <2>3, NoHalves DEF SpokenType
  <2>6. HeaderInv'
    BY <1>1, <1>2, <1>5, <2>1, <2>2, <2>4 DEF HeaderInv
  <2>7. WholeInv'
    BY <1>1, <1>2, <2>1 DEF WholeInv
  <2>8. DiagnosedInv'
    <3>1. UnknownIn(todo)' \subseteq UnknownIn(taken)
      BY <1>2, <2>3 DEF UnknownIn
    <3>2. UnknownIn(taken)' = {}
      BY <2>2 DEF UnknownIn
    <3> QED
      BY <1>1, <1>5, <1>7, <3>1, <3>2 DEF DiagnosedInv
  <2> QED
    BY <1>5, <1>6, <2>5, <2>6, <2>7, <2>8 DEF HeardInv
<1>9. CASE h # Flush
  <2>1. /\ taken' = Append(taken, h) /\ UNCHANGED <<todo, headed>>
        /\ warning' = IF text[h] = "unknown" THEN Line(h) ELSE <<>>
    BY <1>2, <1>3, <1>9 DEF MbrolaReads
  <2>2. taken' \in Seq(Nat) /\ Said(taken') = Said(taken) \cup {h}
    BY <1>4, <1>7, <2>1, SaidAndMore
  <2>3. CASE text[h] = "unknown"
    <3>1. warning' = Line(h)
      BY <2>1, <2>3
    <3>2. Starts(warning') = {h} /\ Whole(warning')
      BY <1>4, <3>1, LineOfHalves, WholeLine
    <3>3. h > 0
      BY <1>4, <1>9 DEF Flush
    <3>4. SpokenType'
      BY <1>1, <1>2, <1>5, <2>1, <2>2, <3>2, <3>3 DEF SpokenType
    <3>5. HeaderInv'
      BY <1>1, <1>2, <1>5, <1>9, <2>1, <2>2 DEF HeaderInv, Header, Flush
    <3>6. WholeInv'
      BY <1>1, <1>2, <3>2 DEF WholeInv
    <3>7. DiagnosedInv'
      <4>1. UnknownIn(taken)' \subseteq UnknownIn(taken) \cup {h} /\ UnknownIn(todo)' = UnknownIn(todo)
        BY <1>2, <2>1, <2>2 DEF UnknownIn
      <4> QED
        BY <1>1, <1>5, <1>7, <3>2, <4>1 DEF DiagnosedInv
    <3> QED
      BY <1>5, <1>6, <3>4, <3>5, <3>6, <3>7 DEF HeardInv
  <2>4. CASE text[h] # "unknown"
    <3>1. warning' = <<>>
      BY <2>1, <2>4
    <3>2. Starts(warning') = {} /\ Whole(warning')
      BY <3>1, NoHalves, WholeNone
    <3>3. SpokenType'
      BY <1>1, <1>2, <1>5, <2>1, <2>2, <3>2 DEF SpokenType
    <3>4. HeaderInv'
      BY <1>1, <1>2, <1>5, <1>9, <2>1, <2>2 DEF HeaderInv, Header, Flush
    <3>5. WholeInv'
      BY <1>1, <1>2, <3>2 DEF WholeInv
    <3>6. DiagnosedInv'
      <4>1. UnknownIn(taken)' \subseteq UnknownIn(taken) /\ UnknownIn(todo)' = UnknownIn(todo)
        BY <1>2, <2>1, <2>2, <2>4 DEF UnknownIn
      <4> QED
        BY <1>1, <1>5, <1>7, <3>2, <4>1 DEF DiagnosedInv
    <3> QED
      BY <1>5, <1>6, <3>3, <3>4, <3>5, <3>6 DEF HeardInv
  <2> QED
    BY <2>3, <2>4
<1> QED
  BY <1>8, <1>9

LEMMA WarnsAsDiagnosed == ASSUME HeardInv, WarnType, MbrolaWarns PROVE HeardInv'
<1>1. SpokenType /\ HeaderInv /\ ReadInv /\ WholeInv /\ DiagnosedInv /\ ReportedInv
  BY DEF HeardInv
<1>2. /\ error' = error \o warning /\ warning' = <<>>
      /\ UNCHANGED <<text, next, pc, want, state, lines, current, out, reported, audio, taken, todo, headed>>
  BY DEF MbrolaWarns, library
<1>3. error \in Seq(Half) /\ warning \in Seq(Half)
  BY DEF WarnType
<1>4. Starts(error') = Starts(error) \cup Starts(warning) /\ Starts(warning') = {}
  BY <1>2, <1>3, ConcatHalves, NoHalves
<1>5. /\ Warned' = Warned /\ Diagnosed' = Diagnosed \cup Starts(warning)
      /\ UnknownIn(out)' = UnknownIn(out) /\ UnknownIn(audio)' = UnknownIn(audio)
      /\ UnknownIn(todo)' = UnknownIn(todo) /\ UnknownIn(taken)' = UnknownIn(taken)
      /\ (HeaderLeft' <=> HeaderLeft)
  BY <1>2, <1>4 DEF Warned, Diagnosed, UnknownIn, HeaderLeft
<1>6. SpokenType'
  BY <1>1, <1>2, <1>4 DEF SpokenType
<1>7. HeaderInv' /\ ReadInv'
  BY <1>1, <1>2, <1>5 DEF HeaderInv, ReadInv
<1>8. WholeInv'
  BY <1>1, <1>2, <1>3, WholeOfParts, WholeNone DEF WholeInv
<1>9. DiagnosedInv'
  BY <1>1, <1>4, <1>5 DEF DiagnosedInv
<1>10. ReportedInv'
  BY <1>1, <1>2, <1>5 DEF ReportedInv
<1> QED
  BY <1>6, <1>7, <1>8, <1>9, <1>10 DEF HeardInv

LEMMA SpeaksAsDiagnosed == ASSUME HeardInv, WarnType, MbrolaSpeaks PROVE HeardInv'
<1>1. SpokenType /\ HeaderInv /\ ReadInv /\ WholeInv /\ DiagnosedInv /\ ReportedInv
  BY DEF HeardInv
<1>2. /\ todo # <<>> /\ audio' = Append(audio, Head(todo)) /\ todo' = Tail(todo)
      /\ UNCHANGED <<text, next, pc, want, state, lines, current, out, reported, error, taken, warning, headed>>
  BY DEF MbrolaSpeaks, CanSpeak, library
<1>3. todo \in Seq(Nat) /\ audio \in Seq(Nat)
  BY <1>1 DEF SpokenType
<1>4. PICK h : h = Head(todo)
  OBVIOUS
<1>5. /\ todo' \in Seq(Nat) /\ h \in Nat /\ h = todo[1]
      /\ Len(todo') \in Nat /\ Len(todo) = Len(todo') + 1
      /\ \A i \in 1 .. Len(todo') : todo'[i] = todo[i + 1]
      /\ Said(todo) = {h} \cup Said(todo')
  BY <1>2, <1>3, <1>4, SaidOfTail
<1>6. /\ audio' \in Seq(Nat) /\ Said(audio') = Said(audio) \cup {h}
      /\ Len(audio') = Len(audio) + 1 /\ audio'[Len(audio) + 1] = h
      /\ \A i \in 1 .. Len(audio) : audio'[i] = audio[i]
  BY <1>2, <1>3, <1>4, <1>5, SaidAndMore
<1>7. /\ Warned' = Warned /\ Diagnosed' = Diagnosed /\ Starts(warning)' = Starts(warning)
      /\ UnknownIn(out)' = UnknownIn(out) /\ UnknownIn(taken)' = UnknownIn(taken)
      /\ UnknownIn(todo)' \subseteq UnknownIn(todo) /\ UnknownIn(audio)' \subseteq UnknownIn(audio) \cup UnknownIn(todo)
      /\ (HeaderLeft' <=> HeaderLeft)
  BY <1>2, <1>5, <1>6 DEF Warned, Diagnosed, UnknownIn, HeaderLeft
<1>8. SpokenType'
  BY <1>1, <1>2, <1>5, <1>6 DEF SpokenType
<1>9. HeaderInv'
  <2>1. headed
    BY <1>1, <1>2 DEF HeaderInv
  <2>2. \A i \in 1 .. Len(audio') : audio'[i] = Header => i = 1 /\ HeaderLeft'
    <3> SUFFICES ASSUME NEW i \in 1 .. Len(audio'), audio'[i] = Header
                 PROVE  i = 1 /\ HeaderLeft
      BY <1>7
    <3>1. CASE i \in 1 .. Len(audio)
      BY <1>1, <1>6, <3>1 DEF HeaderInv
    <3>2. CASE i = Len(audio) + 1
      <4>1. 1 \in 1 .. Len(todo) /\ todo[1] = Header
        BY <1>5, <1>6, <3>2
      <4>2. HeaderLeft /\ audio = <<>>
        BY <1>1, <4>1 DEF HeaderInv
      <4> QED
        BY <3>2, <4>2
    <3>3. Len(audio) \in Nat
      BY <1>3
    <3> QED
      BY <1>6, <3>1, <3>2, <3>3
  <2>3. \A i \in 1 .. Len(todo') : todo'[i] # Header
    <3> SUFFICES ASSUME NEW i \in 1 .. Len(todo'), todo'[i] = Header
                 PROVE  FALSE
      OBVIOUS
    <3>1. i + 1 \in 1 .. Len(todo) /\ i + 1 # 1 /\ todo[i + 1] = Header
      BY <1>5
    <3> QED
      BY <1>1, <3>1 DEF HeaderInv
  <2> QED
    BY <1>1, <1>2, <1>7, <2>1, <2>2, <2>3 DEF HeaderInv
<1>10. ReadInv' /\ WholeInv'
  BY <1>1, <1>2, <1>7 DEF ReadInv, WholeInv
<1>11. DiagnosedInv'
  BY <1>1, <1>7 DEF DiagnosedInv
<1>12. ReportedInv'
  BY <1>1, <1>2, <1>7 DEF ReportedInv
<1> QED
  BY <1>8, <1>9, <1>10, <1>11, <1>12 DEF HeardInv

\* A block, or the header, goes from the pipe.
LEMMA AudioAsDiagnosed == ASSUME HeardInv, WarnType, ReadPipe, want # "error" PROVE HeardInv'
<1>1. SpokenType /\ HeaderInv /\ ReadInv /\ WholeInv /\ DiagnosedInv /\ ReportedInv
  BY DEF HeardInv
<1>2. /\ pc = "read" /\ Count > 0 /\ audio' = Tail(audio)
      /\ UNCHANGED <<text, next, want, lines, current, error, reported, taken, todo, warning, headed>>
      /\ \/ want = "header" /\ pc' = "returned" /\ UNCHANGED <<out, state>>
         \/ want = "audio" /\ pc' = "loop" /\ out' = Append(out, Head(audio)) /\ state' = "read_errors"
  <2>1. want = "header" \/ want = "audio"
    BY DEF WarnType
  <2> QED
    BY <2>1 DEF ReadPipe, AudioRead, mbrola
<1>3. audio # <<>> /\ audio \in Seq(Nat) /\ out \in Seq(Nat)
  <2>1. audio \in Seq(Nat) /\ out \in Seq(Nat)
    BY <1>1 DEF SpokenType
  <2>2. Pipe = audio /\ Room = 1
    BY DEF Pipe, Room
  <2>3. Count = IF Len(audio) < 1 THEN Len(audio) ELSE 1
    BY <2>2 DEF Count
  <2> QED
    BY <1>2, <2>1, <2>3
<1>4. PICK h : h = Head(audio)
  OBVIOUS
<1>5. /\ audio' \in Seq(Nat) /\ h \in Nat /\ h = audio[1]
      /\ Len(audio') \in Nat /\ Len(audio) = Len(audio') + 1
      /\ \A i \in 1 .. Len(audio') : audio'[i] = audio[i + 1]
      /\ Said(audio) = {h} \cup Said(audio')
  BY <1>2, <1>3, <1>4, SaidOfTail
<1>6. /\ Warned' = Warned /\ Diagnosed' = Diagnosed /\ Starts(warning)' = Starts(warning)
      /\ UnknownIn(taken)' = UnknownIn(taken) /\ UnknownIn(todo)' = UnknownIn(todo)
      /\ UnknownIn(audio)' \subseteq UnknownIn(audio) /\ ~HeaderLeft'
  BY <1>2, <1>5 DEF Warned, Diagnosed, UnknownIn, HeaderLeft
<1>7. /\ out' \in Seq(Nat)
      /\ Header \notin Said(out')
      /\ UnknownIn(out)' \subseteq UnknownIn(out) \cup UnknownIn(audio)
  <2>1. CASE want = "header"
    <3>1. out' = out
      BY <1>2, <2>1
    <3>2. UnknownIn(out)' = UnknownIn(out)
      BY <1>2, <3>1 DEF UnknownIn
    <3> QED
      BY <1>1, <1>3, <3>1, <3>2 DEF HeaderInv
  <2>2. CASE want = "audio"
    <3>1. out' = Append(out, h)
      BY <1>2, <1>4, <2>2
    <3>2. out' \in Seq(Nat) /\ Said(out') = Said(out) \cup {h}
      BY <1>3, <1>5, <3>1, SaidAndMore
    <3>3. h # Header
      <4>1. 1 \in 1 .. Len(audio) /\ ~HeaderLeft
        BY <1>5, <2>2 DEF HeaderLeft
      <4> QED
        BY <1>1, <1>5, <4>1 DEF HeaderInv
    <3>4. UnknownIn(out)' \subseteq UnknownIn(out) \cup UnknownIn(audio)
      BY <1>2, <1>5, <3>2 DEF UnknownIn
    <3> QED
      BY <1>1, <3>2, <3>3, <3>4 DEF HeaderInv
  <2> QED
    BY <1>2, <2>1, <2>2
<1>8. SpokenType'
  BY <1>1, <1>2, <1>5, <1>6, <1>7 DEF SpokenType
<1>9. HeaderInv'
  <2>1. headed
    BY <1>1, <1>3 DEF HeaderInv
  <2>2. \A i \in 1 .. Len(audio') : audio'[i] # Header
    <3> SUFFICES ASSUME NEW i \in 1 .. Len(audio'), audio'[i] = Header
                 PROVE  FALSE
      OBVIOUS
    <3>1. i + 1 \in 1 .. Len(audio) /\ i + 1 # 1 /\ audio[i + 1] = Header
      BY <1>5
    <3> QED
      BY <1>1, <3>1 DEF HeaderInv
  <2>3. \A i \in 1 .. Len(todo) : todo[i] # Header
    BY <1>1, <1>3 DEF HeaderInv
  <2> QED
    BY <1>1, <1>2, <1>7, <2>1, <2>2, <2>3 DEF HeaderInv
<1>10. ReadInv'
  BY <1>1, <1>2, <1>6 DEF ReadInv
<1>11. WholeInv'
  BY <1>1, <1>2 DEF WholeInv
<1>12. DiagnosedInv'
  BY <1>1, <1>6, <1>7 DEF DiagnosedInv
<1>13. ReportedInv'
  <2>1. CASE want = "header"
    <3>1. UnknownIn(out)' = UnknownIn(out) /\ state = "need_data" /\ state' = state
      BY <1>1, <1>2, <2>1 DEF UnknownIn, ReadInv
    <3> QED
      BY <1>1, <1>6, <3>1 DEF ReportedInv
  <2>2. CASE want = "audio"
    BY <1>2, <2>2 DEF ReportedInv
  <2> QED
    BY <1>2, <2>1, <2>2
<1> QED
  BY <1>8, <1>9, <1>10, <1>11, <1>12, <1>13 DEF HeardInv

\* The warnings fit in mMessage, so that a read takes all there are.
LEMMA ErrorsAsDiagnosed == ASSUME HeardInv, WarnInv, WarningsFit, ReadPipe, want = "error" PROVE HeardInv'
<1>1. SpokenType /\ HeaderInv /\ ReadInv /\ WholeInv /\ DiagnosedInv /\ ReportedInv
  BY DEF HeardInv
<1>2. WarnType /\ Places /\ Turns /\ UnknownOnly
  BY DEF WarnInv
<1>3. /\ pc = "read" /\ pc' = "loop" /\ state' = "read_error_line"
      /\ lines' = SubSeq(error, 1, Count) /\ error' = SubSeq(error, Count + 1, Len(error))
      /\ UNCHANGED <<text, next, want, current, audio, out, reported, taken, todo, warning, headed>>
  BY DEF ReadPipe, mbrola
<1>4. lines = <<>> /\ current = 0 /\ error \in Seq(Half) /\ text \in Seq(Phone)
  BY <1>1, <1>2, <1>3 DEF ReadInv, WarnType
<1>5. Starts(error) \subseteq Unknown
  <2> SUFFICES ASSUME NEW p \in Starts(error)
               PROVE  p \in Unknown
    OBVIOUS
  <2>1. text[p] = "unknown" /\ p < next /\ p \in Nat /\ p > 0
    BY <1>1, <1>2, PlacesAreNumbers DEF UnknownOnly, Places, InPlaces, Below, SpokenType
  <2>2. next <= Len(text) + 1 /\ next \in Nat /\ Len(text) \in Nat
    BY <1>1, <1>2 DEF SpokenType, WarnType
  <2>3. p \in 1 .. Len(text)
    BY <2>1, <2>2
  <2> QED
    BY <2>1, <2>3 DEF Unknown
<1>6. Count = Len(error)
  <2>1. Len(error) <= 2 * Cardinality(Unknown)
    BY <1>1, <1>2, <1>4, <1>5, WarningsAreFew DEF WholeInv, Turns
  <2>2. Cardinality(Unknown) \in Nat /\ MessageSize \in Nat /\ Len(error) \in Nat
    <3>1. 1 \in Int /\ Len(text) \in Int
      BY <1>4
    <3>2. IsFiniteSet(1 .. Len(text))
      BY <3>1, FS_Interval
    <3>3. IsFiniteSet(Unknown)
      BY <3>2, FS_Subset DEF Unknown
    <3> QED
      BY <1>4, <3>3, FS_CardinalityType, MbrolaAssumption
  <2>3. Len(error) <= MessageSize
    BY <2>1, <2>2 DEF WarningsFit
  <2>4. Count = IF Len(error) < MessageSize - 0 THEN Len(error) ELSE MessageSize - 0
    BY <1>4 DEF Count, Pipe, Room
  <2> QED
    BY <2>2, <2>3, <2>4
<1>7. lines' = error /\ error' = <<>>
  BY <1>3, <1>4, <1>6
<1>8. Starts(lines)' = Starts(error) /\ Starts(error)' = {} /\ Starts(lines) = {}
  BY <1>4, <1>7, NoHalves
<1>9. /\ Warned' = Warned /\ Diagnosed' = Diagnosed /\ Starts(warning)' = Starts(warning)
      /\ UnknownIn(taken)' = UnknownIn(taken) /\ UnknownIn(todo)' = UnknownIn(todo)
      /\ UnknownIn(audio)' = UnknownIn(audio) /\ UnknownIn(out)' = UnknownIn(out) /\ (HeaderLeft' <=> HeaderLeft)
  BY <1>3, <1>8 DEF Warned, Diagnosed, UnknownIn, HeaderLeft
<1>10. SpokenType'
  BY <1>1, <1>3, <1>8, <1>9 DEF SpokenType
<1>11. HeaderInv'
  BY <1>1, <1>3, <1>9 DEF HeaderInv
<1>12. ReadInv' /\ ReportedInv'
  BY <1>1, <1>3, <1>9 DEF ReadInv, HeaderLeft, ReportedInv
<1>13. WholeInv'
  BY <1>1, <1>3, <1>7, WholeNone DEF WholeInv
<1>14. DiagnosedInv'
  BY <1>1, <1>9 DEF DiagnosedInv
<1> QED
  BY <1>10, <1>11, <1>12, <1>13, <1>14 DEF HeardInv

\* The lines are whole: each is thrown, and none is split.
LEMMA LineAsDiagnosed == ASSUME HeardInv, WarnType, ErrorLine \/ ErrorLineSplit PROVE HeardInv'
<1>1. SpokenType /\ HeaderInv /\ ReadInv /\ WholeInv /\ DiagnosedInv /\ ReportedInv
  BY DEF HeardInv
<1>2. lines \in Seq(Half) /\ Whole(lines) /\ reported \in Seq(Nat) /\ pc = "loop" /\ state = "read_error_line"
  BY <1>1 DEF WarnType, WholeInv, ErrorLine, ErrorLineSplit
<1>3. lines # <<>>
  <2>1. CASE ErrorLineSplit
    BY <2>1 DEF ErrorLineSplit
  <2>2. CASE ErrorLine
    <3>1. EndOfLine > 0
      BY <2>2 DEF ErrorLine
    <3>2. lines = <<>> => EndOfLine = 0
      BY DEF EndOfLine, SelectInSeq
    <3> QED
      BY <3>1, <3>2
  <2> QED
    BY <2>1, <2>2
<1>4. /\ EndOfLine = 2 /\ Whole(SubSeq(lines, 3, Len(lines)))
      /\ Starts(lines) = {lines[1].of} \cup Starts(SubSeq(lines, 3, Len(lines)))
  BY <1>2, <1>3, WholeLineUsed
<1>5. ErrorLine
  BY <1>4 DEF ErrorLineSplit
<1>6. PICK p : p = lines[1].of
  OBVIOUS
<1>7. /\ lines' = SubSeq(lines, 3, Len(lines)) /\ pc' = "returned" /\ reported' = Append(reported, p)
      /\ UNCHANGED <<text, next, want, state, audio, error, taken, todo, warning, headed, out>>
  BY <1>4, <1>5, <1>6 DEF ErrorLine, LineUsed, mbrola
<1>8. p \in Nat
  <2>1. 1 \in 1 .. Len(lines)
    BY <1>2, <1>3
  <2>2. lines[1] \in Half
    BY <1>2, <2>1
  <2> QED
    BY <1>6, <2>2 DEF Half
<1>9. Warned' = Warned \cup {p}
  <2>1. Said(reported') = Said(reported) \cup {p}
    BY <1>2, <1>7, <1>8, SaidAndMore
  <2> QED
    BY <2>1 DEF Warned, Said
<1>10. Starts(lines) = {p} \cup Starts(lines)' /\ Whole(lines')
  BY <1>4, <1>6, <1>7
<1>11. /\ Diagnosed' = Diagnosed /\ Starts(warning)' = Starts(warning) /\ Starts(error)' = Starts(error)
       /\ UnknownIn(taken)' = UnknownIn(taken) /\ UnknownIn(todo)' = UnknownIn(todo)
       /\ UnknownIn(audio)' = UnknownIn(audio) /\ UnknownIn(out)' = UnknownIn(out) /\ (HeaderLeft' <=> HeaderLeft)
  BY <1>2, <1>7, <1>9, <1>10 DEF Diagnosed, UnknownIn, HeaderLeft
<1>12. SpokenType'
  BY <1>1, <1>7, <1>11 DEF SpokenType
<1>13. HeaderInv'
  BY <1>1, <1>7, <1>11 DEF HeaderInv
<1>14. ReadInv' /\ ReportedInv'
  BY <1>1, <1>2, <1>7, <1>11 DEF ReadInv, HeaderLeft, ReportedInv
<1>15. WholeInv'
  BY <1>1, <1>7, <1>10 DEF WholeInv
<1>16. DiagnosedInv'
  BY <1>1, <1>11 DEF DiagnosedInv
<1> QED
  BY <1>12, <1>13, <1>14, <1>15, <1>16 DEF HeardInv

LEMMA HeardNext == WarnInv /\ (WarningsFit => HeardInv) /\ [Next]_vars => (WarningsFit => HeardInv)'
<1> SUFFICES ASSUME WarnInv, WarningsFit => HeardInv, [Next]_vars, WarningsFit'
             PROVE  HeardInv'
  OBVIOUS
<1>1. UNCHANGED text
  BY DEF Next, Library, Mbrola, vars, library, ReadPipe, Again, StatIdle, StatBusy, SelectReady, SelectTimeout,
         NothingRead, Synthesize, NoMorePhones, NextPhone, StartRead, ErrorLine, ErrorLineSplit, NoMoreLines,
         MbrolaReads, MbrolaWarns, MbrolaSpeaks
<1>2. WarningsFit /\ HeardInv /\ WarnType
  BY <1>1 DEF WarningsFit, Unknown, WarnInv
<1>3. CASE UNCHANGED vars
  <2>1. UNCHANGED <<text, next, pc, want, state, lines, current, error, warning, reported, taken, todo, audio, out, headed>>
    BY <1>3 DEF vars, library, mbrola
  <2>2. Warned' = Warned /\ (HeaderLeft' <=> HeaderLeft) /\ UnknownIn(out)' = UnknownIn(out)
    BY <2>1 DEF Warned, HeaderLeft, UnknownIn
  <2>3. next' <= Len(text) + 1 /\ ReadInv' /\ ReportedInv'
    BY <1>2, <2>1, <2>2 DEF HeardInv, SpokenType, ReadInv, ReportedInv
  <2> QED
    BY <1>2, <2>1, <2>2, <2>3, NothingSaid
<1>4. CASE Mbrola
  BY <1>2, <1>4, ReadsAsDiagnosed, WarnsAsDiagnosed, SpeaksAsDiagnosed DEF Mbrola
<1>5. CASE ReadPipe
  BY <1>2, <1>5, AudioAsDiagnosed, ErrorsAsDiagnosed
<1>6. CASE ErrorLine \/ ErrorLineSplit
  BY <1>2, <1>6, LineAsDiagnosed
<1>7. CASE \/ Again \/ StatIdle \/ StatBusy \/ SelectReady \/ SelectTimeout \/ Synthesize \/ StartRead
           \/ NoMorePhones \/ NextPhone \/ NoMoreLines
  BY <1>2, <1>7, QuietSteps
<1> QED
  BY <1>3, <1>4, <1>5, <1>6, <1>7 DEF Next, Library

\* Whatever the schedule and the sizes of the pipes: an unknown phone that was
\* heard has been reported when synthesize() returns for more, if mMessage holds
\* the warnings of the whole text; mbrola warns of a phone before it speaks it,
\* and synthesize() looks for warnings after each block until it finds none.
THEOREM HeardPhonesAreDiagnosed == Spec => []HeardIsDiagnosed
<1>1. WarnInv /\ (WarningsFit => HeardInv) => HeardIsDiagnosed
  <2> SUFFICES ASSUME WarnInv, WarningsFit => HeardInv
               PROVE  HeardIsDiagnosed
    OBVIOUS
  <2>1. WarnedOnce
    <3>1. \A i \in 1 .. Len(reported) : text[reported[i]] = "unknown"
      BY DEF WarnInv, UnknownOnly, Warned
    <3> QED
      BY <3>1 DEF WarnInv, Turns, WarnedOnce
  <2>2. ASSUME WarningsFit, state = "need_data", NEW i \in 1 .. Len(out), text[out[i]] = "unknown"
        PROVE  Contains(reported, out[i])
    <3>1. out[i] \in Said(out) /\ Header \notin Said(out) /\ UnknownIn(out) \subseteq Warned
      BY <2>2 DEF Said, HeardInv, HeaderInv, ReportedInv
    <3>2. out[i] \in Warned
      BY <2>2, <3>1 DEF UnknownIn
    <3> QED
      BY <3>2 DEF Warned, Contains
  <2> QED
    BY <2>1, <2>2 DEF HeardIsDiagnosed
<1>2. Init => WarnInv /\ (WarningsFit => HeardInv)
  BY WarnInit, HeardInit
<1>3. WarnInv /\ (WarningsFit => HeardInv) /\ [Next]_vars => WarnInv' /\ (WarningsFit => HeardInv)'
  BY WarnNext, HeardNext
<1> QED
  BY <1>1, <1>2, <1>3, PTL DEF Spec
=============================================================================
