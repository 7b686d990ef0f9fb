------------------------- MODULE MbrolaSynthesizer -------------------------
(***************************************************************************)
(* The MBROLA synthesizer (engines/mbrola.cpp): the library writes phones  *)
(* to the standard input of an mbrola process and reads audio and warnings *)
(* from its two outputs, which never block the library.  Whether there is  *)
(* more to come is guessed from the state of the process in /proc.         *)
(*                                                                         *)
(* A phone is its position in the text; its audio is one block, which      *)
(* carries the same number.  A warning is one line on the error output,    *)
(* kept as two halves so that a read may split it; the second ends it.     *)
(***************************************************************************)
EXTENDS Integers, Sequences, FiniteSets, SequencesExt

CONSTANTS Texts,          \* sequences of phones
          WriteResults,   \* what the caller of write_diphone may see: it has no return
          AudioPipe,      \* capacity of the audio pipe, in blocks
          ErrorPipe,      \* capacity of the error pipe, in halves of lines
          MessageSize     \* sizeof(mMessage), in halves of lines

\* Known to the process's voice or not, a unit that the library's table of the
\* voice lacks, and the end of a phrase.
Phone == {"known", "unknown", "missing", "break"}

ASSUME MbrolaAssumption ==
    /\ Texts \subseteq Seq(Phone)
    /\ WriteResults \subseteq BOOLEAN
    /\ AudioPipe \in Nat \ {0}
    /\ ErrorPipe \in Nat /\ ErrorPipe >= 2
    /\ MessageSize \in Nat /\ MessageSize >= 2        \* a line fits

VARIABLES
    text, next,         \* the prosody reader and the phone it gives next
    pc, want,           \* where the library is; the pipe it reads: "header", "audio", "error"
    state,              \* synthesize()'s
    lines, current,     \* the mRead halves of lines at mCurrentMessage; its distance from mMessage
    unseen,             \* history: the phones written by a write() that was seen to fail
    pho, input,         \* stdio's buffer and what mbrola has not read of its input
    audio, error,       \* the other two pipes
    taken, todo, warning, headed,   \* the mbrola process
    out, reported       \* the blocks given to the audio output, the warnings thrown

library == <<text, next, unseen, pc, want, state, lines, current, pho, out, reported>>
mbrola == <<taken, todo, warning, headed>>
vars == <<library, input, audio, error, mbrola>>

Flush == 0          \* the line "#"
Header == 0         \* the first 44 bytes of the audio

Half == [of : Nat, last : BOOLEAN]
Line(p) == <<[of |-> p, last |-> FALSE], [of |-> p, last |-> TRUE]>>

-----------------------------------------------------------------------------
(* The mbrola process: it keeps phones until it is told to flush, warns of  *)
(* a phone it does not know as it reads it, and blocks on a full pipe.      *)

CanRead == todo = <<>> /\ warning = <<>> /\ input # <<>>
CanWarn == warning # <<>> /\ Len(error) + Len(warning) <= ErrorPipe
CanSpeak == warning = <<>> /\ todo # <<>> /\ Len(audio) < AudioPipe

MbrolaReads ==
    /\ CanRead
    /\ input' = Tail(input)
    /\ IF Head(input) = Flush
       THEN /\ todo' = (IF headed THEN <<>> ELSE <<Header>>) \o taken
            /\ taken' = <<>>
            /\ headed' = TRUE
            /\ UNCHANGED warning
       ELSE /\ taken' = Append(taken, Head(input))
            /\ warning' = IF text[Head(input)] = "unknown" THEN Line(Head(input)) ELSE <<>>
            /\ UNCHANGED <<todo, headed>>
    /\ UNCHANGED <<library, audio, error>>

MbrolaWarns ==
    /\ CanWarn
    /\ error' = error \o warning
    /\ warning' = <<>>
    /\ UNCHANGED <<library, input, audio, taken, todo, headed>>

MbrolaSpeaks ==
    /\ CanSpeak
    /\ audio' = Append(audio, Head(todo))
    /\ todo' = Tail(todo)
    /\ UNCHANGED <<library, input, error, taken, warning, headed>>

Mbrola == MbrolaReads \/ MbrolaWarns \/ MbrolaSpeaks

\* proc.stat() = idle: the process sleeps, on its input or on a full pipe.
Idle == ~(CanRead \/ CanWarn \/ CanSpeak)

-----------------------------------------------------------------------------
(* The library. *)

\* The constructor as far as flush(): the process runs, and reads a "#".
Init ==
    /\ text \in Texts
    /\ next = 1 /\ unseen = {}
    /\ pc = "read" /\ want = "header"
    /\ state = "need_data"
    /\ lines = <<>> /\ current = 0
    /\ pho = <<>> /\ input = <<Flush>>
    /\ audio = <<>> /\ error = <<>>
    /\ taken = <<>> /\ todo = <<>> /\ warning = <<>> /\ headed = FALSE
    /\ out = <<>> /\ reported = <<>>

\* pipe_t::read: what the pipe holds, at most as much as there is room for.
Pipe == IF want = "error" THEN error ELSE audio

Room == IF want = "error" THEN MessageSize - current ELSE 1
Count == IF Len(Pipe) < Room THEN Len(Pipe) ELSE Room

\* Mutant: errors are not looked for after audio.
AudioReadOnly ==
    /\ out' = Append(out, Head(audio))
    /\ state' = "write_data"

AudioRead ==
    /\ out' = Append(out, Head(audio))
    /\ state' = "read_errors"

ReadPipe ==
    /\ pc = "read"
    /\ Count > 0
    /\ CASE want = "header" -> /\ pc' = "returned"
                               /\ audio' = Tail(audio)
                               /\ UNCHANGED <<error, out, lines, state>>
         [] want = "audio"  -> /\ pc' = "loop"
                               /\ audio' = Tail(audio)
                               /\ AudioRead
                               /\ UNCHANGED <<error, lines>>
         [] want = "error"  -> /\ pc' = "loop"
                               /\ lines' = SubSeq(error, 1, Count)
                               /\ error' = SubSeq(error, Count + 1, Len(error))
                               /\ state' = "read_error_line"
                               /\ UNCHANGED <<audio, out>>
    /\ UNCHANGED <<text, next, unseen, want, current, pho, input, mbrola, reported>>

\* read() returns 0: the constructor throws, synthesize() goes on or returns.
NothingRead ==
    /\ pc' = CASE want = "header" -> "failed" [] want = "audio" -> "returned" [] want = "error" -> "loop"
    /\ state' = CASE want = "header" -> state [] want = "audio" -> "need_data" [] want = "error" -> "write_data"
    /\ UNCHANGED <<text, next, unseen, want, lines, current, pho, input, audio, error, mbrola,
                   out, reported>>

\* EAGAIN; the process is looked at afterwards.
Again ==
    /\ pc = "read"
    /\ Pipe = <<>>
    /\ pc' = "stat"
    /\ UNCHANGED <<text, next, unseen, want, state, lines, current, pho, input, audio, error,
                   mbrola, out, reported>>

StatIdle ==
    /\ pc = "stat"
    /\ Idle
    /\ NothingRead

StatBusy ==
    /\ pc = "stat"
    /\ ~Idle
    /\ pc' = "select"
    /\ UNCHANGED <<text, next, unseen, want, state, lines, current, pho, input, audio, error,
                   mbrola, out, reported>>

SelectReady ==
    /\ pc = "select"
    /\ Pipe # <<>>
    /\ pc' = "read"
    /\ UNCHANGED <<text, next, unseen, want, state, lines, current, pho, input, audio, error,
                   mbrola, out, reported>>

\* 50 microseconds for a warning; 60 seconds for audio, which only a process
\* that is blocked lets pass.
SelectTimeout ==
    /\ pc = "select"
    /\ Pipe = <<>>
    /\ want = "error" \/ Idle
    /\ NothingRead

\* bind(), or a client that calls synthesize() until it returns false, also
\* after an unknown_diphone (examples/voice-synthesizer.cpp:165).
Synthesize ==
    /\ pc = "returned"
    /\ pc' = "loop"
    /\ UNCHANGED <<text, next, unseen, want, state, lines, current, pho, input, audio, error,
                   mbrola, out, reported>>

Flushed(written) == pho' = <<>> /\ input' = input \o written \o <<Flush>>

\* Mutant: the end of the phones is not flushed.
EndOfPhonesUnflushed ==
    /\ IF state = "need_data"
       THEN pc' = "over" /\ UNCHANGED <<state, pho, input>>
       ELSE state' = "write_data" /\ UNCHANGED <<pc, pho, input>>

\* Mutant: the end is waited for like any phrase.
EndOfPhonesAgain == state' = "write_data" /\ Flushed(pho) /\ UNCHANGED pc

EndOfPhones ==
    IF state = "need_data"
    THEN pc' = "over" /\ UNCHANGED <<state, pho, input>>
    ELSE state' = "write_data" /\ Flushed(pho) /\ UNCHANGED pc

NoMorePhones ==
    /\ pc = "loop" /\ state \in {"need_data", "have_data"}
    /\ next > Len(text)
    /\ EndOfPhones
    /\ UNCHANGED <<text, next, unseen, want, lines, current, audio, error, mbrola, out,
                   reported>>

\* writer->write() flushes what stdio holds before it adds a line, and adds
\* none for a unit that the voice lacks.  What follows any other phone is left
\* to the caller of write_diphone, which has no return.
WritePhone(written) ==
    LET has == IF written THEN "have_data" ELSE state
    IN  /\ unseen' = IF written THEN unseen ELSE unseen \cup {next}
        /\ IF text[next] = "break" /\ has = "have_data"
           THEN state' = "write_data" /\ Flushed(Append(pho, next))
           ELSE state' = has /\ pho' = <<next>> /\ input' = input \o pho

NextPhone ==
    /\ pc = "loop" /\ state \in {"need_data", "have_data"}
    /\ next <= Len(text)
    /\ next' = next + 1
    /\ \/ /\ text[next] = "missing"
          /\ pho' = <<>> /\ input' = input \o pho
          /\ UNCHANGED <<unseen, state>>
       \/ /\ text[next] # "missing"
          /\ \E written \in WriteResults : WritePhone(written)
    /\ UNCHANGED <<text, pc, want, lines, current, audio, error, mbrola, out, reported>>

StartRead ==
    /\ pc = "loop" /\ state \in {"write_data", "read_errors"}
    /\ want' = IF state = "write_data" THEN "audio" ELSE "error"
    /\ pc' = "read"
    /\ UNCHANGED <<text, next, unseen, state, lines, current, pho, input, audio, error,
                   mbrola, out, reported>>

\* The first end of line in the halves that were read.
EndOfLine == SelectInSeq(lines, LAMBDA h : h.last)

LineUsed ==
    /\ lines' = SubSeq(lines, EndOfLine + 1, Len(lines))
    /\ current' = current + EndOfLine

\* A whole warning is thrown, the second half of one is passed over.
ErrorLine ==
    /\ pc = "loop" /\ state = "read_error_line"
    /\ EndOfLine > 0
    /\ LineUsed
    /\ IF EndOfLine = 2
       THEN pc' = "returned" /\ reported' = Append(reported, lines[1].of)
       ELSE UNCHANGED <<pc, reported>>
    /\ UNCHANGED <<text, next, unseen, want, state, pho, input, audio, error, mbrola, out>>

\* A half with no end of line: the copy goes the wrong way and the half is
\* lost; or memchr meets an end of line in the memory after it.
ErrorLineSplit ==
    /\ pc = "loop" /\ state = "read_error_line"
    /\ EndOfLine = 0 /\ lines # <<>>
    /\ lines' = <<>>
    /\ \/ current' = Len(lines) /\ state' = "read_errors"
       \/ UNCHANGED <<current, state>>
    /\ UNCHANGED <<text, next, unseen, pc, want, pho, input, audio, error, mbrola, out,
                   reported>>

NoMoreLines ==
    /\ pc = "loop" /\ state = "read_error_line"
    /\ lines = <<>>
    /\ current' = 0
    /\ state' = "read_errors"
    /\ UNCHANGED <<text, next, unseen, pc, want, lines, pho, input, audio, error, mbrola, out,
                   reported>>

-----------------------------------------------------------------------------
Library ==
    \/ ReadPipe \/ Again \/ StatIdle \/ StatBusy \/ SelectReady \/ SelectTimeout
    \/ Synthesize \/ NoMorePhones \/ NextPhone \/ StartRead
    \/ ErrorLine \/ ErrorLineSplit \/ NoMoreLines

Next == Library \/ Mbrola

\* Two processes of the operating system.
Spec == Init /\ [][Next]_vars /\ WF_vars(Library) /\ WF_vars(Mbrola)

-----------------------------------------------------------------------------
\* Every variable stays within its type.
TypeOK ==
    /\ text \in Texts /\ next \in 1 .. Len(text) + 1 /\ unseen \subseteq 1 .. next - 1
    /\ pc \in {"read", "stat", "select", "loop", "returned", "over", "failed"}
    /\ want \in {"header", "audio", "error"}
    /\ state \in {"need_data", "have_data", "write_data", "read_errors", "read_error_line"}
    /\ lines \in Seq(Half) /\ current + Len(lines) \in 0 .. MessageSize
    /\ current \in 0 .. MessageSize /\ (pc = "read" /\ want = "error" => current < MessageSize)
    /\ pho \in Seq(Nat) /\ input \in Seq(Nat) /\ taken \in Seq(Nat) /\ todo \in Seq(Nat)
    /\ audio \in Seq(Nat) /\ Len(audio) <= AudioPipe
    /\ error \in Seq(Half) /\ Len(error) <= ErrorPipe
    /\ warning \in {<<>>} \cup {Line(p) : p \in 1 .. Len(text)}
    /\ headed \in BOOLEAN
    /\ out \in Seq(Nat) /\ reported \in Seq(Nat)

\* A voice that is installed opens: its header is waited for.
VoiceOpens == pc # "failed"

\* When synthesize() has returned false, every phone has been heard.
AllSynthesized == pc = "over" => out = [p \in 1 .. Len(text) |-> p]

\* The phones that are with mbrola, or on their way to it, and that no flush
\* follows to make them heard.
Unflushed ==
    LET sent == taken \o input \o pho
    IN  {sent[i] : i \in {k \in 1 .. Len(sent) : \A j \in k .. Len(sent) : sent[j] # Flush}}

\* Everything that was written is flushed when the library waits for audio; when
\* it gives back control for good, all but what followed the last phone whose
\* write() was seen to succeed.
EveryPhraseFlushed ==
    /\ pc # "loop" /\ want # "header" /\ state = "write_data" => Unflushed = {}
    /\ pc \in {"over", "failed"} => Unflushed \subseteq unseen

\* Each unknown phone is reported at most once, in the order of the text.
WarnedOnce ==
    /\ \A i \in 1 .. Len(reported) : text[reported[i]] = "unknown"
    /\ \A i, j \in 1 .. Len(reported) : i < j => reported[i] < reported[j]

\* mMessage has room for the warnings of the whole text.
Unknown == {p \in 1 .. Len(text) : text[p] = "unknown"}
WarningsFit == 2 * Cardinality(Unknown) <= MessageSize

\* By the time synthesize() returns for more phones, every unknown phone whose
\* audio was delivered has been reported, if the warnings fit; and none twice.
HeardIsDiagnosed ==
    /\ WarnedOnce
    /\ WarningsFit /\ pc = "returned" /\ state = "need_data" =>
        \A i \in 1 .. Len(out) : text[out[i]] = "unknown" => Contains(reported, out[i])

\* A client that calls synthesize() until it returns false comes to an end.
Finishes == <>(pc \in {"over", "failed"})
=============================================================================
