----------------------------- MODULE AudioSink -----------------------------
(***************************************************************************)
(* The cainteoir::audio objects a session writes to: the ALSA and          *)
(* PulseAudio devices and the WAV and Ogg/Vorbis files (audio/alsa.cpp,    *)
(* audio/pulse.cpp, audio/wav.cpp, audio/ogg.cpp).                         *)
(*                                                                         *)
(* A sink is a record:                                                     *)
(*   kind     which class it is                                            *)
(*   open     mHandle / pa / m_file is not null                            *)
(*   handles  device connections or files the operating system holds open  *)
(*   size     bytes in the file (0 for a device), audio included           *)
(*   counted  m_header.data_size, the audio bytes the WAV header counts    *)
(*   badUse   a call was made through a null handle                        *)
(*                                                                         *)
(* A file has a name: standard output, which a WAV sink also writes to and *)
(* whose close() is then nothing (wav.cpp:113), is not a kind of its own.  *)
(*                                                                         *)
(* One buffer of audio counts as one byte.  Each operation is the set of   *)
(* its possible outcomes [sink, ok]; ok is FALSE when it throws.           *)
(***************************************************************************)
EXTENDS Integers

SinkKind == {"alsa", "pulse", "wav", "ogg"}

HeaderSize == 44          \* sizeof(WaveHeader); stands for the three Ogg headers too

Sink == [kind : SinkKind, open : BOOLEAN, handles : Nat, size : Nat,
         counted : Nat, badUse : BOOLEAN]

\* The constructors: a file is created, PulseAudio is connected at once, and
\* ALSA only remembers its parameters.
NewSink(kind) ==
    [kind |-> kind, open |-> kind # "alsa", handles |-> IF kind = "alsa" THEN 0 ELSE 1,
     size |-> 0, counted |-> 0, badUse |-> FALSE]

Done(sink) == [sink |-> sink, ok |-> TRUE]
Thrown(sink) == [sink |-> sink, ok |-> FALSE]

Connected(sink) == [sink EXCEPT !.open = TRUE, !.handles = @ + 1]

\* snd_pcm_open overwrites the handle it is given; it, or the configuration
\* that follows it, may be refused by the driver.
OpenAlsa(sink) == {Done(Connected(sink)), Thrown(Connected(sink)), Thrown(sink)}

\* Mutant: connects without looking whether it is connected.
OpenPulseAgain(sink) == {Done(Connected(sink)), Thrown(sink)}

OpenPulse(sink) ==
    IF sink.open THEN {Done(sink)} ELSE {Done(Connected(sink)), Thrown(sink)}

\* Through a null FILE * the calls are lost with the process.
OpenFile(sink) ==
    IF sink.open
    THEN {Done([sink EXCEPT !.size = @ + HeaderSize, !.counted = 0])}
    ELSE {Done([sink EXCEPT !.badUse = TRUE])}

OpenSink(sink) ==
    CASE sink.kind = "alsa"  -> OpenAlsa(sink)
      [] sink.kind = "pulse" -> OpenPulse(sink)
      [] sink.kind \in {"wav", "ogg"} -> OpenFile(sink)

IsFile(sink) == sink.kind \in {"wav", "ogg"}

WriteSink(sink) ==
    IF sink.open
    THEN [sink EXCEPT !.size = IF IsFile(sink) THEN @ + 1 ELSE @,
                      !.counted = IF sink.kind = "wav" THEN @ + 1 ELSE @]
    ELSE [sink EXCEPT !.badUse = TRUE]

\* A WAV file is rewound and its FIRST header overwritten with the counts.
\* (The early return for standard output is not taken: a file has a name.)
CloseSink(sink) ==
    IF sink.open THEN [sink EXCEPT !.open = FALSE, !.handles = @ - 1] ELSE sink

-----------------------------------------------------------------------------
(* What a closed sink should look like. *)

\* The data chunk the first header announces is what follows that header.
HeaderMatchesFile(sink) ==
    sink.kind = "wav" /\ sink.size > 0 => sink.counted = sink.size - HeaderSize
=============================================================================
