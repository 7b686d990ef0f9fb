------------------------------ MODULE Engines ------------------------------
(***************************************************************************)
(* The text-to-speech engines (engines/engines.cpp:386, espeak.cpp:428,    *)
(* pico.cpp:149): which engine and voice are active, how Pico loads a      *)
(* voice when its files may be missing, and how it is fed a text.          *)
(*                                                                         *)
(* A voice is a model value and a text its size.  One client selects and   *)
(* speaks in turn.  A text is spoken in a session's thread, so a stop may  *)
(* come at any moment (its effect on the session is in SpeechSession).     *)
(***************************************************************************)
EXTENDS Integers, Sequences, FiniteSets

CONSTANTS
    EspeakVoices, PicoVoices,   \* the voices in the metadata
    EspeakDefault, PicoDefault, \* the default voices the constructors name
    None, Empty,                \* nullptr; the default voice of an eSpeak with no "en"
    Builds,                     \* the engines a build may have
    Garbage,                    \* what a new mSelectedVoice may hold
    Missing,                    \* the files that may not be installed
    Sizes,                      \* the sizes of texts, in bytes
    Int16,                      \* 2^16
    MaxPut,                     \* the most that Pico takes in one call
    Faulty,                     \* whether a call of Pico may fail of itself: no memory, a damaged file
    MaxLeft                     \* a bound: what may be left in Pico when another text is spoken

Lingware == 1 .. 2              \* N_LINGWARE_RESOURCES
Voices == EspeakVoices \cup PicoVoices
Files == PicoVoices \X Lingware
Half == Int16 \div 2            \* a pico_Int16 is less

ASSUME EnginesAssumption ==
    /\ EspeakVoices \cap PicoVoices = {} /\ {None, Empty} \cap Voices = {}
    /\ None \notin {"espeak", "pico"}
    /\ EspeakDefault \in EspeakVoices \cup {Empty} /\ PicoDefault \in PicoVoices
    /\ Builds \subseteq SUBSET {"espeak", "pico"}
    /\ Garbage \subseteq PicoVoices \cup {None}
    /\ Missing \subseteq Files
    /\ Int16 \in Nat /\ Int16 >= 4 /\ Int16 % 2 = 0
    /\ Sizes \subseteq Nat /\ MaxPut \in 1 .. Half
    /\ Faulty \in BOOLEAN /\ MaxLeft \in Nat

VARIABLES
    pc,                     \* "espeak", "pico" while they are constructed, then "ready", "failed"
    active, selectedVoice,  \* of tts::engines
    espeakVoice,            \* eSpeak's
    pico,                   \* the pico_engine and the Pico system
    built,                  \* the engines there are
    installed,              \* the files there are
    answer,                 \* what the last select_voice answered, and for which voice
    speaking,               \* the text that is being spoken
    pending, heard,         \* what Pico holds, and has spoken since speak was called
    outcome                 \* how the last speak of Pico ended

vars == <<pc, active, selectedVoice, espeakVoice, pico, built, installed, answer, speaking,
          pending, heard, outcome>>
text == <<speaking, heard, outcome>>

NoText == [in |-> "none"]

Init ==
    /\ pc = "espeak"
    /\ active = None /\ selectedVoice = None
    /\ espeakVoice = None
    /\ \E g \in Garbage :
           pico = [definitions |-> {}, mResources |-> [i \in Lingware |-> None],
                   mEngine |-> None, mSelectedVoice |-> g]
    /\ built \in Builds
    /\ \E m \in SUBSET Missing : installed = Files \ m
    /\ answer = [voice |-> None, result |-> "none"]
    /\ speaking = NoText
    /\ pending = 0 /\ heard = 0 /\ outcome = "none"

-----------------------------------------------------------------------------
(* Pico: a step that fails throws and leaves what the steps before it did.  *)

\* Mutant: the resources of the old voice stay loaded.
FreeEngineOnly(p) ==
    IF p.mEngine = None
    THEN p
    ELSE [p EXCEPT !.mEngine = None, !.definitions = @ \ {p.mSelectedVoice}]

free_voice(p) ==
    LET freed == IF p.mEngine = None
                 THEN p
                 ELSE [p EXCEPT !.mEngine = None, !.definitions = @ \ {p.mSelectedVoice}]
    IN  [freed EXCEPT !.mResources = [i \in Lingware |-> None]]

\* How many files of v can be loaded in turn.
Loadable(v) == {n \in 0 .. 2 : \A j \in 1 .. n : <<v, j>> \in installed}

Loading(p, v, n) ==
    [p EXCEPT !.definitions = @ \cup {v},
              !.mResources = [i \in Lingware |-> IF i <= n THEN v ELSE @[i]]]

\* With n files loaded: the next cannot be, or Pico does not name or add the
\* last, or does not make the engine.
ThrowsAfter(v, n) == Faulty \/ <<v, n + 1>> \in Files \ installed

load_voice(p, v, result) ==
    \/ /\ Faulty \/ v \in p.definitions        \* pico_createVoiceDefinition fails
       /\ result = "throw" /\ pico' = p
    \/ /\ v \notin p.definitions
       /\ \E n \in Loadable(v) :
              \/ /\ ThrowsAfter(v, n)
                 /\ result = "throw" /\ pico' = Loading(p, v, n)
              \/ /\ n = 2
                 /\ result = "true"
                 /\ pico' = [Loading(p, v, n) EXCEPT !.mEngine = v, !.mSelectedVoice = v]

\* An engine that is disposed of takes what it holds of a text with it.
set_voice(v, result) ==
    IF pico.mSelectedVoice = v
    THEN result = "true" /\ UNCHANGED <<pico, pending>>
    ELSE load_voice(free_voice(pico), v, result) /\ pending' = 0

\* Mutant: the engine is made active before it has the voice.
AnsweredEarly(engine, v, result) ==
    /\ answer' = [voice |-> v, result |-> result]
    /\ active' = engine
    /\ selectedVoice' = IF result = "true" THEN v ELSE selectedVoice

\* engines::select_voice, by the answer of the engine.
Answered(engine, v, result) ==
    /\ answer' = [voice |-> v, result |-> result]
    /\ IF result = "true"
       THEN active' = engine /\ selectedVoice' = v
       ELSE UNCHANGED <<active, selectedVoice>>

SelectEspeak(v) ==
    \E found \in BOOLEAN :
        /\ espeakVoice' = IF found THEN v ELSE espeakVoice
        /\ Answered("espeak", v, IF found THEN "true" ELSE "false")
        /\ UNCHANGED <<pico, pending>>

SelectPico(v) ==
    \E result \in {"true", "throw"} :
        /\ set_voice(v, result)
        /\ Answered("pico", v, result)
        /\ UNCHANGED espeakVoice

-----------------------------------------------------------------------------
(* The constructor of tts::engines: the first engine's default voice must   *)
(* be there.                                                                *)

AfterEngine(e) == IF e = "espeak" THEN "pico" ELSE IF active' = None THEN "failed" ELSE "ready"

NotBuilt ==
    /\ pc \in {"espeak", "pico"} \ built
    /\ UNCHANGED <<active, selectedVoice, espeakVoice, pico, built, installed, answer, pending, text>>
    /\ pc' = AfterEngine(pc)

DefaultSelected(e) == pc' = IF answer'.result = "true" THEN AfterEngine(e) ELSE "failed"

ConstructEspeak ==
    /\ pc = "espeak" /\ "espeak" \in built
    /\ IF EspeakDefault = Empty
       THEN Answered("espeak", Empty, "false") /\ UNCHANGED <<pico, pending, espeakVoice>>
       ELSE SelectEspeak(EspeakDefault)
    /\ DefaultSelected("espeak")
    /\ UNCHANGED <<built, installed, text>>

ConstructPico ==
    /\ pc = "pico" /\ "pico" \in built
    /\ \/ active = None /\ SelectPico(PicoDefault) /\ DefaultSelected("pico")
       \/ active # None /\ pc' = "ready" /\ UNCHANGED <<pico, pending, espeakVoice, answer, active, selectedVoice>>
       \/ /\ Faulty                            \* pico_initialize fails
          /\ pc' = "failed"
          /\ UNCHANGED <<pico, pending, espeakVoice, answer, active, selectedVoice>>
    /\ UNCHANGED <<built, installed, text>>

-----------------------------------------------------------------------------
(* The client. *)

Idle == pc = "ready" /\ speaking = NoText

\* A voice no engine of this build has: enginelist has a null for it.
SelectUnknown ==
    /\ Idle
    /\ \E v \in Voices :
           /\ v \in EspeakVoices => "espeak" \notin built
           /\ v \in PicoVoices => "pico" \notin built
           /\ Answered("espeak", v, "false")
    /\ UNCHANGED <<pc, espeakVoice, pico, pending, built, installed, text>>

SelectVoice ==
    /\ Idle
    /\ \/ "espeak" \in built /\ \E v \in EspeakVoices : SelectEspeak(v)
       \/ "pico" \in built /\ \E v \in PicoVoices : SelectPico(v)
    /\ UNCHANGED <<pc, built, installed, text>>

\* The missing files of a voice are installed; answers from before are forgotten.
Install ==
    /\ Idle
    /\ \E v \in PicoVoices : installed' = installed \cup ({v} \X Lingware)
    /\ installed' # installed
    /\ answer' = [voice |-> None, result |-> "none"]
    /\ UNCHANGED <<pc, active, selectedVoice, espeakVoice, pico, pending, built, text>>

\* pico_Int16 length: the size is cut to 16 bits, the upper half negative.
AsInt16(n) == LET low == n % Int16 IN IF low >= Half THEN low - Int16 ELSE low

\* A text begins with what one before it may have left.  (eSpeak is handed a
\* text as a whole: its callbacks are in SpeechSession.)
Speak ==
    /\ Idle /\ active = "pico" /\ pending <= MaxLeft
    /\ \E n \in Sizes :
           speaking' = [in |-> "text", size |-> n, length |-> AsInt16(n), left |-> pending]
    /\ heard' = 0 /\ outcome' = "none"
    /\ UNCHANGED <<pc, active, selectedVoice, espeakVoice, pico, built, installed, answer, pending>>

PicoThread == <<pc, active, selectedVoice, espeakVoice, pico, built, installed, answer>>

\* pico_putTextUtf8, which wants an engine and a length that is not negative.
\* What it has taken before stays with Pico.
PutFails ==
    /\ speaking.in \in {"text", "end"} /\ speaking.length # 0
    /\ pico.mEngine = None \/ speaking.length < 0 \/ Faulty
    /\ speaking' = NoText /\ outcome' = "throw"
    /\ UNCHANGED <<PicoThread, pending, heard>>

PutText ==
    /\ speaking.in \in {"text", "end"} /\ speaking.length > 0
    /\ pico.mEngine # None
    /\ \E n \in 1 .. (IF speaking.length < MaxPut THEN speaking.length ELSE MaxPut) :
           /\ speaking' = [speaking EXCEPT !.length = @ - n, !.in = IF @ = "text" THEN "text data" ELSE "end data"]
           /\ pending' = IF speaking.in = "text" THEN pending + n ELSE pending
    /\ UNCHANGED <<PicoThread, heard, outcome>>

\* pico_getData until it is no longer busy.  It speaks what it holds when it
\* finds the end of a sentence or the end of the text.
GetData ==
    /\ speaking.in \in {"text data", "end data"}
    /\ \E n \in IF speaking.in = "end data" THEN {pending} ELSE 0 .. pending :
           /\ heard' = heard + n
           /\ pending' = pending - n
    /\ speaking' = [speaking EXCEPT !.in = IF @ = "text data" THEN "text" ELSE "end"]
    /\ UNCHANGED <<PicoThread, outcome>>

\* Some of what Pico holds has been heard when speak_text throws.
ThrowsHalfway ==
    /\ speaking' = NoText /\ outcome' = "throw"
    /\ \E n \in 0 .. pending : heard' = heard + n /\ pending' = pending - n
    /\ UNCHANGED PicoThread

\* pico_getData, with a status that is neither busy nor idle.
DataFails ==
    /\ Faulty
    /\ speaking.in \in {"text data", "end data"}
    /\ ThrowsHalfway

\* Mutant: a stop leaves the engine as it is.
StoppedUnreset ==
    /\ speaking.in \in {"text data", "end data"}
    /\ speaking' = NoText /\ outcome' = "stopped"
    /\ UNCHANGED <<PicoThread, pending, heard>>

\* The state is asked for before each pico_getData; some may have been heard.
Stopped ==
    /\ speaking.in \in {"text data", "end data"}
    /\ speaking' = NoText /\ outcome' = "stopped"
    /\ pending' = 0
    /\ heard' \in heard .. heard + pending
    /\ UNCHANGED PicoThread

\* The reset of a stop fails.
ResetFails ==
    /\ Faulty
    /\ speaking.in \in {"text data", "end data"}
    /\ ThrowsHalfway

\* Mutant: the end of the text is reset, not forced.
SpeakUnforced ==
    /\ speaking.in \in {"text", "end"} /\ speaking.length = 0
    /\ speaking' = NoText /\ outcome' = "spoken"
    /\ pending' = 0
    /\ UNCHANGED <<PicoThread, heard>>

\* speak_text("\0", 1), then speak returns.
SpeakRest ==
    /\ speaking.in \in {"text", "end"} /\ speaking.length = 0
    /\ IF speaking.in = "text"
       THEN speaking' = [speaking EXCEPT !.in = "end", !.length = 1] /\ UNCHANGED outcome
       ELSE speaking' = NoText /\ outcome' = "spoken"
    /\ UNCHANGED <<PicoThread, pending, heard>>

-----------------------------------------------------------------------------
Construct == NotBuilt \/ ConstructEspeak \/ ConstructPico
Client == SelectUnknown \/ SelectVoice \/ Install \/ Speak
SpeakText == PutFails \/ PutText \/ GetData \/ DataFails \/ SpeakRest
Stop == Stopped \/ ResetFails

Next == Construct \/ Client \/ SpeakText \/ Stop

\* A session's thread is run by the scheduler, and Pico answers each call.  No
\* stop is owed.
Spec == Init /\ [][Next]_vars /\ WF_vars(SpeakText)

-----------------------------------------------------------------------------
\* Every variable stays within its type.
PicoType ==
    [definitions : SUBSET PicoVoices, mResources : [Lingware -> PicoVoices \cup {None}],
     mEngine : PicoVoices \cup {None}, mSelectedVoice : PicoVoices \cup {None}]

TextType ==
    [in : {"text", "text data", "end", "end data"}, size : Sizes,
     length : -Half .. Half - 1, left : 0 .. MaxLeft]

TypeOK ==
    /\ pc \in {"espeak", "pico", "ready", "failed"}
    /\ active \in {None, "espeak", "pico"} /\ selectedVoice \in Voices \cup {None}
    /\ espeakVoice \in EspeakVoices \cup {None}
    /\ pico \in PicoType
    /\ built \in Builds /\ installed \subseteq Files
    /\ answer \in [voice : Voices \cup {None, Empty}, result : {"none", "true", "false", "throw"}]
    /\ speaking \in TextType \cup {NoText}
    /\ pending \in Nat /\ heard \in Nat
    /\ outcome \in {"none", "throw", "stopped", "spoken"}

\* Once the engines are constructed there is an active one and voice(), which
\* dereferences selectedVoice, names a voice of it, whatever selections failed.
VoiceOfActive ==
    pc = "ready" =>
        \/ active = "espeak" /\ selectedVoice \in EspeakVoices /\ espeakVoice = selectedVoice
        \/ active = "pico" /\ selectedVoice \in PicoVoices

\* Pico holds the files of one voice at most, and an engine only with all of
\* them and its definition; a failed load leaves nothing of the voice before.
OneVoiceLoaded ==
    /\ Cardinality({pico.mResources[i] : i \in Lingware} \ {None}) <= 1
    /\ pico.mEngine # None =>
           /\ pico.mEngine = pico.mSelectedVoice
           /\ pico.mEngine \in pico.definitions
           /\ \A i \in Lingware : pico.mResources[i] = pico.mEngine

\* A selection that answered true is the voice that will speak.
SelectedSpeaks ==
    answer.result = "true" /\ active = "pico" => pico.mEngine = selectedVoice

\* A voice whose files are all there can be selected.
InstalledSelectable ==
    answer.result = "throw" => ~({answer.voice} \X Lingware \subseteq installed)

\* What is left in Pico between two texts was left by one that an exception
\* ended, and goes with its engine: speak returns with the text spoken, or
\* dropped by a soft reset.
NothingLeftOver ==
    speaking = NoText /\ pending # 0 => outcome = "throw" /\ pico.mEngine # None

\* "Read all the document text": of a text that was spoken all is heard, after
\* what an exception had left of the texts before it.
WholeText ==
    [][outcome' = "spoken" /\ speaking # NoText => heard' = speaking.size + speaking.left]_vars

\* Speaking comes to an end, with the whole of a text unless it is stopped or
\* fails.
SpeakEnds == WholeText /\ (speaking # NoText ~> speaking = NoText)
=============================================================================
