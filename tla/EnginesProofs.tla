---------------------------- MODULE EnginesProofs ----------------------------
(***************************************************************************)
(* Theorems about the engines: whatever voices and files there are, and    *)
(* whichever selections fail, there is a voice to speak with, and Pico     *)
(* holds the files of one.                                                 *)
(***************************************************************************)
EXTENDS Engines, FiniteSetTheorems, TLAPS

-----------------------------------------------------------------------------
(* Pico's loading of a voice.                                               *)

\* What holds of the pico_engine after any of its operations.
Consistent(p) ==
    /\ p \in PicoType
    /\ \E v \in PicoVoices : \A i \in Lingware : p.mResources[i] \in {None, v}
    /\ p.mEngine # None =>
           /\ p.mEngine = p.mSelectedVoice
           /\ p.mEngine \in p.definitions
           /\ \A i \in Lingware : p.mResources[i] = p.mEngine

Freed(p) ==
    /\ p \in PicoType
    /\ p.mEngine = None
    /\ p.mResources = [i \in Lingware |-> None]

\* free_voice leaves no engine and no resource.
LEMMA FreeVoice ==
    ASSUME NEW p \in PicoType
    PROVE  Freed(free_voice(p))
<1> DEFINE freed == IF p.mEngine = None
                    THEN p
                    ELSE [p EXCEPT !.mEngine = None, !.definitions = @ \ {p.mSelectedVoice}]
<1>1. freed \in PicoType /\ freed.mEngine = None
  BY DEF PicoType
<1>2. free_voice(p) = [freed EXCEPT !.mResources = [i \in Lingware |-> None]]
  BY DEF free_voice
<1> HIDE DEF freed
<1> QED
  BY <1>1, <1>2 DEF Freed, PicoType

\* Loading some of its files leaves no file but those of v, and no engine.
LEMMA LoadingSome ==
    ASSUME NEW p, Freed(p), NEW v \in PicoVoices, NEW n \in 0 .. 2
    PROVE  /\ Loading(p, v, n) \in PicoType /\ Loading(p, v, n).mEngine = None
           /\ v \in Loading(p, v, n).definitions
           /\ \A i \in Lingware : Loading(p, v, n).mResources[i] = IF i <= n THEN v ELSE None
<1> DEFINE files == [i \in Lingware |-> IF i <= n THEN v ELSE p.mResources[i]]
<1>1. files \in [Lingware -> PicoVoices \cup {None}]
  BY DEF Freed, PicoType
<1>2. \A i \in Lingware : files[i] = IF i <= n THEN v ELSE None
  BY DEF Freed
<1>3. Loading(p, v, n) = [p EXCEPT !.definitions = @ \cup {v}, !.mResources = files]
  BY DEF Loading
<1> HIDE DEF files
<1>4. p \in PicoType /\ p.mEngine = None
  BY DEF Freed
<1>5. /\ Loading(p, v, n).definitions = p.definitions \cup {v}
      /\ Loading(p, v, n).mResources = files
      /\ Loading(p, v, n).mEngine = None
  BY <1>3, <1>4 DEF PicoType
<1>6. Loading(p, v, n) \in PicoType
  BY <1>1, <1>3, <1>4 DEF PicoType
<1> QED
  BY <1>2, <1>5, <1>6

\* load_voice, of which any call may fail, leaves no file but those of v, and
\* an engine only when all its calls succeeded.
LEMMA LoadVoice ==
    ASSUME NEW p, Freed(p), NEW v \in PicoVoices, NEW result, load_voice(p, v, result)
    PROVE  Consistent(pico')
<1>1. CASE pico' = p
  BY <1>1 DEF Freed, Consistent, PicoType
<1>2. CASE \E n \in Loadable(v) : pico' = Loading(p, v, n)
  <2>1. PICK n \in 0 .. 2 : pico' = Loading(p, v, n)
    BY <1>2 DEF Loadable
  <2> QED
    BY <2>1, LoadingSome DEF Consistent
<1>3. CASE pico' = [Loading(p, v, 2) EXCEPT !.mEngine = v, !.mSelectedVoice = v]
  <2> DEFINE loaded == Loading(p, v, 2)
  <2>1. /\ loaded \in PicoType /\ v \in loaded.definitions
        /\ \A i \in Lingware : loaded.mResources[i] = v
    BY LoadingSome DEF Lingware
  <2>2. pico' = [loaded EXCEPT !.mEngine = v, !.mSelectedVoice = v]
    BY <1>3
  <2> HIDE DEF loaded
  <2>3. pico' \in PicoType
    BY <2>1, <2>2 DEF PicoType
  <2>4. /\ pico'.mEngine = v /\ pico'.mSelectedVoice = v
        /\ pico'.definitions = loaded.definitions /\ pico'.mResources = loaded.mResources
    BY <2>1, <2>2 DEF PicoType
  <2> QED
    BY <2>1, <2>3, <2>4 DEF Consistent
<1> QED
  BY <1>1, <1>2, <1>3 DEF load_voice

LEMMA SetVoice ==
    ASSUME Consistent(pico), NEW v \in PicoVoices, NEW result, set_voice(v, result)
    PROVE  Consistent(pico')
<1>1. Freed(free_voice(pico))
  BY FreeVoice DEF Consistent
<1>2. CASE pico.mSelectedVoice = v
  BY <1>2 DEF set_voice
<1>3. CASE pico.mSelectedVoice # v
  BY <1>1, <1>3, LoadVoice DEF set_voice
<1> QED
  BY <1>2, <1>3

-----------------------------------------------------------------------------
(* Steps that leave the engines alone.                                      *)

LEMMA TextStepsKeepEngines ==
    ASSUME SpeakText \/ Stop
    PROVE  UNCHANGED PicoThread
BY DEF SpeakText, Stop, Stopped, ResetFails, PutFails, PutText, GetData, DataFails, ThrowsHalfway, SpeakRest,
       PicoThread

-----------------------------------------------------------------------------
(* OneVoiceLoaded                                                           *)

LEMMA SelectPicoConsistent ==
    ASSUME Consistent(pico), NEW v \in PicoVoices, SelectPico(v)
    PROVE  Consistent(pico')
BY SetVoice DEF SelectPico

LEMMA ConsistentNext == Consistent(pico) /\ [Next]_vars => Consistent(pico')
<1> SUFFICES ASSUME Consistent(pico), [Next]_vars
             PROVE  Consistent(pico')
  OBVIOUS
<1>1. CASE Construct
  <2>1. CASE ConstructPico
    BY <2>1, EnginesAssumption, SelectPicoConsistent DEF ConstructPico
  <2>2. CASE NotBuilt \/ ConstructEspeak
    BY <2>2 DEF NotBuilt, ConstructEspeak, SelectEspeak
  <2> QED
    BY <1>1, <2>1, <2>2 DEF Construct
<1>2. CASE Client
  <2>1. CASE SelectVoice
    BY <2>1, SelectPicoConsistent DEF SelectVoice, SelectEspeak
  <2>2. CASE SelectUnknown \/ Install \/ Speak
    BY <2>2 DEF SelectUnknown, Install, Speak
  <2> QED
    BY <1>2, <2>1, <2>2 DEF Client
<1>3. CASE SpeakText \/ Stop
  BY <1>3, TextStepsKeepEngines DEF PicoThread
<1>4. CASE UNCHANGED vars
  BY <1>4 DEF vars
<1> QED
  BY <1>1, <1>2, <1>3, <1>4 DEF Next

LEMMA ConsistentInit == Init => Consistent(pico)
<1> SUFFICES ASSUME Init
             PROVE  Consistent(pico)
  OBVIOUS
<1>1. PICK g \in Garbage :
          pico = [definitions |-> {}, mResources |-> [i \in Lingware |-> None],
                  mEngine |-> None, mSelectedVoice |-> g]
  BY DEF Init
<1>2. g \in PicoVoices \cup {None}
  BY EnginesAssumption
<1>3. pico \in PicoType
  BY <1>1, <1>2 DEF PicoType
<1> QED
  BY <1>1, <1>3, EnginesAssumption DEF Consistent

LEMMA ConsistentLoadsOne == Consistent(pico) => OneVoiceLoaded
<1> SUFFICES ASSUME Consistent(pico)
             PROVE  OneVoiceLoaded
  OBVIOUS
<1> DEFINE Held == {pico.mResources[i] : i \in Lingware} \ {None}
<1>1. PICK v \in PicoVoices : \A i \in Lingware : pico.mResources[i] \in {None, v}
  BY DEF Consistent
<1>2. Held \subseteq {v}
  BY <1>1
<1>3. IsFiniteSet({v}) /\ Cardinality({v}) = 1
  BY FS_Singleton
<1>4. Cardinality(Held) <= Cardinality({v}) /\ IsFiniteSet(Held)
  BY <1>2, <1>3, FS_Subset
<1>5. Cardinality(Held) \in Nat
  BY <1>4, FS_CardinalityType
<1>6. Cardinality(Held) <= 1
  BY <1>3, <1>4, <1>5
<1> QED
  BY <1>6 DEF OneVoiceLoaded, Consistent

\* Pico holds the files of one voice at most, and has an engine only with all
\* the files and the definition of its voice, whichever load failed before.
THEOREM LoadsOneVoice == Spec => []OneVoiceLoaded
<1>1. Init => Consistent(pico)
  BY ConsistentInit
<1>2. Consistent(pico) /\ [Next]_vars => Consistent(pico)'
  BY ConsistentNext DEF Consistent, PicoType
<1>3. Consistent(pico) => OneVoiceLoaded
  BY ConsistentLoadsOne
<1> QED
  BY <1>1, <1>2, <1>3, PTL DEF Spec

-----------------------------------------------------------------------------
(* VoiceOfActive                                                            *)

\* selectedVoice is a voice of the active engine from the time there is one.
VoiceInv ==
    /\ active \in {None, "espeak", "pico"}
    /\ active = "espeak" => selectedVoice \in EspeakVoices /\ espeakVoice = selectedVoice
    /\ active = "pico" => selectedVoice \in PicoVoices
    /\ pc = "ready" => active # None

\* The first three conjuncts of VoiceInv', which no step of the client changes
\* but select_voice.
NamesItsVoice ==
    /\ active \in {None, "espeak", "pico"}
    /\ active = "espeak" => selectedVoice \in EspeakVoices /\ espeakVoice = selectedVoice
    /\ active = "pico" => selectedVoice \in PicoVoices

LEMMA SelectEspeakNames ==
    ASSUME NamesItsVoice, NEW v \in EspeakVoices, SelectEspeak(v)
    PROVE  /\ NamesItsVoice'
           /\ answer'.result = "true" => active' = "espeak"
           /\ active # None => active' # None
<1>1. PICK found \in BOOLEAN :
          /\ espeakVoice' = IF found THEN v ELSE espeakVoice
          /\ Answered("espeak", v, IF found THEN "true" ELSE "false")
  BY DEF SelectEspeak
<1>2. CASE found
  <2>1. active' = "espeak" /\ selectedVoice' = v /\ espeakVoice' = v
    BY <1>1, <1>2 DEF Answered
  <2> QED
    BY <2>1, EnginesAssumption DEF NamesItsVoice
<1>3. CASE ~found
  <2>1. UNCHANGED <<active, selectedVoice, espeakVoice>> /\ answer'.result = "false"
    BY <1>1, <1>3 DEF Answered
  <2> QED
    BY <2>1 DEF NamesItsVoice
<1> QED
  BY <1>2, <1>3

LEMMA SelectPicoNames ==
    ASSUME NamesItsVoice, NEW v \in PicoVoices, SelectPico(v)
    PROVE  /\ NamesItsVoice'
           /\ answer'.result = "true" => active' = "pico"
           /\ active # None => active' # None
<1>1. PICK result \in {"true", "throw"} : Answered("pico", v, result) /\ UNCHANGED espeakVoice
  BY DEF SelectPico
<1>2. CASE result = "true"
  <2>1. active' = "pico" /\ selectedVoice' = v
    BY <1>1, <1>2 DEF Answered
  <2> QED
    BY <1>1, <2>1, EnginesAssumption DEF NamesItsVoice
<1>3. CASE result # "true"
  <2>1. UNCHANGED <<active, selectedVoice, espeakVoice>> /\ answer'.result # "true"
    BY <1>1, <1>3 DEF Answered
  <2> QED
    BY <2>1 DEF NamesItsVoice
<1> QED
  BY <1>2, <1>3

LEMMA VoiceInit == Init => VoiceInv
BY EnginesAssumption DEF Init, VoiceInv

LEMMA VoiceNext == VoiceInv /\ [Next]_vars => VoiceInv'
<1> SUFFICES ASSUME VoiceInv, [Next]_vars
             PROVE  VoiceInv'
  OBVIOUS
<1>0. NamesItsVoice
  BY DEF VoiceInv, NamesItsVoice
<1>1. CASE NotBuilt
  <2>1. UNCHANGED <<active, selectedVoice, espeakVoice>> /\ pc' = AfterEngine(pc)
    BY <1>1 DEF NotBuilt
  <2>2. pc' = "ready" => active' # None
    BY <2>1 DEF AfterEngine
  <2> QED
    BY <2>1, <2>2 DEF VoiceInv
<1>2. CASE ConstructEspeak
  <2>1. CASE EspeakDefault = Empty
    <3>1. UNCHANGED <<active, selectedVoice, espeakVoice>> /\ pc' = "failed"
      BY <1>2, <2>1 DEF ConstructEspeak, Answered, DefaultSelected
    <3> QED
      BY <3>1 DEF VoiceInv
  <2>2. CASE EspeakDefault # Empty
    <3>1. EspeakDefault \in EspeakVoices
      BY <2>2, EnginesAssumption
    <3>2. SelectEspeak(EspeakDefault)
      BY <1>2, <2>2 DEF ConstructEspeak
    <3>3. pc' # "ready"
      BY <1>2 DEF ConstructEspeak, DefaultSelected, AfterEngine
    <3>4. NamesItsVoice'
      BY <1>0, <3>1, <3>2, SelectEspeakNames
    <3> QED
      BY <3>3, <3>4 DEF VoiceInv, NamesItsVoice
  <2> QED
    BY <2>1, <2>2
<1>3. CASE ConstructPico
  <2>1. CASE SelectPico(PicoDefault) /\ DefaultSelected("pico")
    <3>1. NamesItsVoice'
      BY <1>0, <2>1, SelectPicoNames, EnginesAssumption
    <3>2. answer'.result = "true" => active' = "pico"
      BY <1>0, <2>1, SelectPicoNames, EnginesAssumption
    <3>3. pc' = "ready" => active' # None
      BY <2>1, <3>2, EnginesAssumption DEF DefaultSelected
    <3> QED
      BY <3>1, <3>3 DEF VoiceInv, NamesItsVoice
  <2>2. CASE UNCHANGED <<active, selectedVoice, espeakVoice>> /\ (pc' = "failed" \/ active # None)
    BY <2>2 DEF VoiceInv
  <2> QED
    BY <1>3, <2>1, <2>2 DEF ConstructPico
<1>4. CASE SelectVoice
  <2>1. pc = "ready" /\ pc' = pc /\ active # None
    BY <1>4 DEF SelectVoice, Idle, VoiceInv
  <2>2. CASE \E v \in EspeakVoices : SelectEspeak(v)
    <3>1. NamesItsVoice' /\ active' # None
      BY <1>0, <2>1, <2>2, SelectEspeakNames
    <3> QED
      BY <3>1 DEF VoiceInv, NamesItsVoice
  <2>3. CASE \E v \in PicoVoices : SelectPico(v)
    <3>1. NamesItsVoice' /\ active' # None
      BY <1>0, <2>1, <2>3, SelectPicoNames
    <3> QED
      BY <3>1 DEF VoiceInv, NamesItsVoice
  <2> QED
    BY <1>4, <2>2, <2>3 DEF SelectVoice
<1>5. CASE SelectUnknown \/ Install \/ Speak
  <2>1. UNCHANGED <<pc, active, selectedVoice, espeakVoice>>
    BY <1>5 DEF SelectUnknown, Install, Speak, Answered
  <2> QED
    BY <2>1 DEF VoiceInv
<1>6. CASE SpeakText \/ Stop
  BY <1>6, TextStepsKeepEngines DEF VoiceInv, PicoThread
<1>7. CASE UNCHANGED vars
  BY <1>7 DEF vars, VoiceInv
<1> QED
  BY <1>1, <1>2, <1>3, <1>4, <1>5, <1>6, <1>7 DEF Next, Construct, Client

\* Once the engines are constructed there is an active one with a voice of its
\* own, whichever selections fail: voice() never dereferences a null.
THEOREM AlwaysAVoice == Spec => []VoiceOfActive
<1>1. VoiceInv => VoiceOfActive
  BY DEF VoiceInv, VoiceOfActive
<1> QED
  BY VoiceInit, VoiceNext, <1>1, PTL DEF Spec

-----------------------------------------------------------------------------
(* NothingLeftOver                                                          *)

\* Pico holds text only in an engine: of the text that is being spoken, or of
\* one that an exception ended.
TextInv ==
    /\ pending \in Nat /\ heard \in Nat
    /\ speaking \in TextType \cup {NoText}
    /\ pending # 0 => pico.mEngine # None
    /\ speaking = NoText /\ pending # 0 => outcome = "throw"
    /\ speaking # NoText =>
           /\ pc = "ready"
           /\ speaking.in \in {"text data", "end data"} => speaking.length >= 0
           /\ speaking.in = "end" =>
                  speaking.length \in {0, 1} /\ (speaking.length = 0 => pending = 0)
           /\ speaking.in = "end data" => speaking.length = 0

LEMMA NoTextIsNone == NoText \notin TextType /\ NoText.in = "none"
BY DEF NoText, TextType

LEMMA HalfOfInt16 == Half \in Nat /\ 2 * Half = Int16 /\ Half >= 2 /\ Int16 \in Nat
<1>1. Int16 \in Nat /\ Int16 >= 4 /\ Int16 % 2 = 0
  BY EnginesAssumption
<1> QED
  BY <1>1 DEF Half

LEMMA TextFields ==
    ASSUME NEW t \in TextType
    PROVE  /\ t.in \in {"text", "text data", "end", "end data"} /\ t.size \in Sizes
           /\ t.length \in -Half .. Half - 1
           /\ t = [in |-> t.in, size |-> t.size, length |-> t.length, left |-> t.left]
           /\ t.length \in Int /\ t.left \in 0 .. MaxLeft
           /\ t # NoText
<1>1. t.in \in {"text", "text data", "end", "end data"} /\ t.size \in Sizes
      /\ t.length \in -Half .. Half - 1 /\ t.left \in 0 .. MaxLeft
      /\ t = [in |-> t.in, size |-> t.size, length |-> t.length, left |-> t.left]
  BY DEF TextType
<1>2. t.length \in Int
  <2>1. \A i \in -Half .. Half - 1 : i \in Int
    BY HalfOfInt16
  <2> QED
    BY <1>1, <2>1
<1>3. t # NoText
  BY NoTextIsNone
<1> QED
  BY <1>1, <1>2, <1>3

LEMMA TextCounts == TextInv => pending \in Nat /\ heard \in Nat
BY Zenon DEF TextInv

LEMMA SpeakingText ==
    ASSUME TextInv, speaking.in \in {"text", "text data", "end", "end data"}
    PROVE  speaking \in TextType /\ speaking # NoText
<1>1. speaking.in # "none"
  OBVIOUS
<1>2. speaking # NoText
  BY <1>1, NoTextIsNone
<1> QED
  BY <1>2 DEF TextInv

LEMMA Int16Type ==
    ASSUME NEW n \in Sizes
    PROVE  AsInt16(n) \in -Half .. Half - 1
<1>1. n \in Nat /\ Int16 \in Nat /\ Int16 > 0
  BY EnginesAssumption
<1>2. n % Int16 \in 0 .. Int16 - 1
  BY <1>1
<1> DEFINE low == n % Int16
<1>3. AsInt16(n) = IF low >= Half THEN low - Int16 ELSE low
  BY DEF AsInt16
<1> HIDE DEF low
<1>4. low \in 0 .. Int16 - 1
  BY <1>2 DEF low
<1> QED
  BY <1>3, <1>4, HalfOfInt16

LEMMA TextInit == Init => TextInv
BY DEF Init, TextInv

\* The steps of a text that is being spoken.
LEMMA TextNext ==
    ASSUME TextInv, SpeakText \/ Stop
    PROVE  TextInv'
<1>0. pending \in Nat /\ heard \in Nat
  BY TextCounts
<1>1. UNCHANGED <<pc, pico>>
  BY TextStepsKeepEngines DEF PicoThread
<1>2. CASE PutFails
  <2>1. speaking' = NoText /\ outcome' = "throw" /\ UNCHANGED <<pending, heard>>
    BY <1>2 DEF PutFails
  <2> QED
    BY <1>0, <1>1, <2>1 DEF TextInv
<1>3. CASE PutText
  <2>1. speaking \in TextType /\ speaking # NoText /\ speaking.length \in Int /\ speaking.length > 0
    BY <1>3, SpeakingText, TextFields DEF PutText
  <2>2. PICK n \in 1 .. (IF speaking.length < MaxPut THEN speaking.length ELSE MaxPut) :
            /\ speaking' = [speaking EXCEPT !.length = @ - n, !.in = IF @ = "text" THEN "text data" ELSE "end data"]
            /\ pending' = IF speaking.in = "text" THEN pending + n ELSE pending
    BY <1>3 DEF PutText
  <2>3. n \in Nat /\ 1 <= n /\ n <= speaking.length
    <3>1. MaxPut \in Int
      BY EnginesAssumption, HalfOfInt16
    <3> QED
      BY <2>1, <2>2, <3>1
  <2>4. /\ speaking.in \in {"text", "end"} /\ speaking.size \in Sizes
        /\ speaking = [in |-> speaking.in, size |-> speaking.size, length |-> speaking.length,
                        left |-> speaking.left]
        /\ speaking.left \in 0 .. MaxLeft
        /\ speaking.length \in -Half .. Half - 1
    BY <1>3, <2>1, TextFields DEF PutText
  <2>5. speaking' = [in |-> IF speaking.in = "text" THEN "text data" ELSE "end data",
                     size |-> speaking.size, length |-> speaking.length - n, left |-> speaking.left]
    BY <2>2, <2>4
  <2>6. /\ speaking'.in \in {"text data", "end data"} /\ speaking'.size \in Sizes
        /\ speaking'.left \in 0 .. MaxLeft
        /\ speaking'.length = speaking.length - n
        /\ speaking'.length \in -Half .. Half - 1
        /\ speaking'.length >= 0
    <3>1. speaking'.length = speaking.length - n
      BY <2>5
    <3>2. speaking'.length \in -Half .. Half - 1 /\ speaking'.length >= 0
      BY <2>1, <2>3, <2>4, <3>1, HalfOfInt16
    <3> QED
      BY <2>4, <2>5, <3>1, <3>2
  <2>7. speaking' \in TextType
    BY <2>5, <2>6 DEF TextType
  <2>8. pico'.mEngine # None
    BY <1>1, <1>3 DEF PutText
  <2>9. speaking'.in = "end data" => speaking'.length = 0
    <3>1. CASE speaking.in = "text"
      <4>1. speaking'.in = "text data"
        BY <2>5, <3>1
      <4> QED
        BY <4>1
    <3>2. CASE speaking.in = "end"
      <4>1. speaking.length = 1
        BY <2>1, <3>2 DEF TextInv
      <4>2. n = 1
        BY <2>3, <4>1
      <4>3. speaking.length - n = 0
        BY <4>1, <4>2
      <4> QED
        BY <2>6, <4>3
    <3> QED
      BY <2>4, <3>1, <3>2
  <2>10. pending' \in Nat /\ heard' = heard
    <3>1. pending \in Nat /\ pending + n \in Nat
      BY <2>3, <1>0
    <3> QED
      BY <1>3, <2>2, <3>1 DEF PutText
  <2>11. pc' = "ready" /\ speaking' # NoText
    BY <1>1, <2>1, <2>7, NoTextIsNone DEF TextInv
  <2>12. speaking'.in # "end"
    BY <2>6
  <2> QED
    BY <2>6, <2>7, <2>8, <2>9, <2>10, <2>11, <2>12 DEF TextInv
<1>4. CASE GetData
  <2>1. speaking \in TextType /\ speaking # NoText /\ speaking.length \in Int
    BY <1>4, SpeakingText, TextFields DEF GetData
  <2>2. /\ heard' \in Nat /\ pending' \in Nat /\ (speaking.in = "end data" => pending' = 0)
        /\ pending' # 0 => pending # 0
    <3>1. CASE speaking.in = "end data"
      <4>1. heard' = heard + pending /\ pending' = pending - pending
        BY <1>4, <3>1 DEF GetData
      <4>2. heard' \in Nat
        BY <1>0, <4>1
      <4>3. pending' = 0
        BY <1>0, <4>1
      <4> QED
        BY <4>2, <4>3
    <3>2. CASE speaking.in # "end data"
      <4>1. PICK n \in 0 .. pending : heard' = heard + n /\ pending' = pending - n
        BY <1>4, <3>2 DEF GetData
      <4>2. heard + n \in Nat /\ pending - n \in Nat /\ (pending - n # 0 => pending # 0)
        BY <1>0
      <4> QED
        BY <3>2, <4>1, <4>2
    <3> QED
      BY <3>1, <3>2
  <2>4. /\ speaking' = [speaking EXCEPT !.in = IF @ = "text data" THEN "text" ELSE "end"]
        /\ speaking.length >= 0
    BY <1>4, <2>1 DEF GetData, TextInv
  <2>5. /\ speaking' \in TextType
        /\ speaking'.length = speaking.length
        /\ speaking'.in = IF speaking.in = "text data" THEN "text" ELSE "end"
    BY <2>1, <2>4 DEF TextType
  <2>6. speaking'.in = "end" => speaking'.length = 0 /\ pending' = 0
    <3>1. CASE speaking.in = "text data"
      BY <2>5, <3>1
    <3>2. CASE speaking.in = "end data"
      <4>1. speaking.length = 0
        BY <2>1, <3>2 DEF TextInv
      <4> QED
        BY <2>2, <2>5, <3>2, <4>1
    <3> QED
      BY <1>4, <3>1, <3>2 DEF GetData
  <2>7. pc' = "ready" /\ (pending' # 0 => pico'.mEngine # None)
    BY <1>1, <2>1, <2>2 DEF TextInv
  <2>8. speaking'.in \in {"text", "end"} /\ speaking' # NoText /\ speaking'.length >= 0
    BY <1>4, <2>4, <2>5, NoTextIsNone DEF GetData
  <2>9. speaking'.in \notin {"text data", "end data"}
    BY <2>8
  <2> QED
    BY <2>2, <2>5, <2>6, <2>7, <2>8, <2>9 DEF TextInv
<1>5. CASE SpeakRest
  <2>1. speaking \in TextType /\ speaking # NoText
    BY <1>5, SpeakingText DEF SpeakRest
  <2>2. CASE speaking.in = "text"
    <3>1. speaking' = [speaking EXCEPT !.in = "end", !.length = 1]
      BY <1>5, <2>2 DEF SpeakRest
    <3>2. 1 \in -Half .. Half - 1
      BY HalfOfInt16
    <3>3. speaking' \in TextType /\ speaking'.in = "end" /\ speaking'.length = 1
      BY <2>1, <3>1, <3>2 DEF TextType
    <3>4. UNCHANGED <<pending, heard>> /\ speaking.length = 0
      BY <1>5 DEF SpeakRest
    <3>5. pending # 0 => pico.mEngine # None
      BY DEF TextInv
    <3>6. pc = "ready"
      BY <2>1 DEF TextInv
    <3>7. speaking' # NoText /\ speaking'.in \notin {"text data", "end data"}
      BY <3>3, NoTextIsNone
    <3>8. speaking'.length >= 0 /\ speaking'.length \in {0, 1} /\ speaking'.length # 0
      BY <3>3
    <3> QED
      BY <1>0, <1>1, <3>3, <3>4, <3>5, <3>6, <3>7, <3>8 DEF TextInv
  <2>3. CASE speaking.in = "end"
    BY <1>5, <2>1, <2>3 DEF SpeakRest, TextInv
  <2> QED
    BY <1>5, <2>2, <2>3 DEF SpeakRest
<1>6. CASE DataFails \/ ResetFails
  <2>1. PICK n \in 0 .. pending : heard' = heard + n /\ pending' = pending - n
    BY <1>6 DEF DataFails, ResetFails, ThrowsHalfway
  <2>2. heard' \in Nat /\ pending' \in Nat /\ (pending' # 0 => pending # 0)
    BY <1>0, <2>1
  <2>3. speaking' = NoText /\ outcome' = "throw"
    BY <1>6 DEF DataFails, ResetFails, ThrowsHalfway
  <2> QED
    BY <1>1, <2>2, <2>3 DEF TextInv
<1>7. CASE Stopped
  <2>1. speaking' = NoText /\ pending' = 0
    BY <1>7 DEF Stopped
  <2>2. heard' \in Nat
    <3>1. \A h \in heard .. heard + pending : h \in Nat
      BY <1>0
    <3> QED
      BY <1>7, <3>1 DEF Stopped
  <2> QED
    BY <2>1, <2>2 DEF TextInv
<1> QED
  BY <1>2, <1>3, <1>4, <1>5, <1>6, <1>7 DEF SpeakText, Stop

\* A selection keeps what Pico holds with its engine, or drops it with it.
LEMMA SelectionKeepsText ==
    ASSUME TextInv, speaking = NoText, UNCHANGED <<speaking, heard, outcome>>,
           \/ UNCHANGED <<pico, pending>>
           \/ pending' = 0
    PROVE  TextInv'
BY DEF TextInv

LEMMA SelectPicoText ==
    ASSUME NEW v, SelectPico(v)
    PROVE  UNCHANGED <<pico, pending>> \/ pending' = 0
BY DEF SelectPico, set_voice

LEMMA TextInvNext == TextInv /\ [Next]_vars => TextInv'
<1> SUFFICES ASSUME TextInv, [Next]_vars
             PROVE  TextInv'
  OBVIOUS
<1>1. CASE Construct
  <2>1. speaking = NoText
    BY <1>1 DEF Construct, NotBuilt, ConstructEspeak, ConstructPico, TextInv
  <2>2. UNCHANGED <<speaking, heard, outcome>>
    BY <1>1 DEF Construct, NotBuilt, ConstructEspeak, ConstructPico, text
  <2>3. UNCHANGED <<pico, pending>> \/ pending' = 0
    BY <1>1, SelectPicoText DEF Construct, NotBuilt, ConstructEspeak, SelectEspeak, ConstructPico
  <2> QED
    BY <2>1, <2>2, <2>3, SelectionKeepsText
<1>2. CASE SelectUnknown \/ SelectVoice \/ Install
  <2>1. speaking = NoText
    BY <1>2 DEF SelectUnknown, SelectVoice, Install, Idle
  <2>2. UNCHANGED <<speaking, heard, outcome>>
    BY <1>2 DEF SelectUnknown, SelectVoice, Install, text
  <2>3. UNCHANGED <<pico, pending>> \/ pending' = 0
    BY <1>2, SelectPicoText DEF SelectUnknown, SelectVoice, SelectEspeak, Install
  <2> QED
    BY <2>1, <2>2, <2>3, SelectionKeepsText
<1>3. CASE Speak
  <2>1. PICK n \in Sizes :
            speaking' = [in |-> "text", size |-> n, length |-> AsInt16(n), left |-> pending]
    BY <1>3 DEF Speak
  <2>2. pending \in 0 .. MaxLeft
    <3>1. pending \in Nat /\ pending <= MaxLeft /\ MaxLeft \in Nat
      BY <1>3, TextCounts, EnginesAssumption DEF Speak
    <3> QED
      BY <3>1
  <2>3. speaking' \in TextType /\ speaking'.in = "text"
    BY <2>1, <2>2, Int16Type DEF TextType
  <2>4. heard' = 0 /\ pc' = "ready" /\ UNCHANGED <<pico, pending>>
    BY <1>3 DEF Speak, Idle
  <2>5. speaking' # NoText
    BY <2>3, NoTextIsNone
  <2> QED
    BY <2>3, <2>4, <2>5 DEF TextInv
<1>4. CASE SpeakText \/ Stop
  BY <1>4, TextNext
<1>5. CASE UNCHANGED vars
  BY <1>5 DEF vars, TextInv
<1> QED
  BY <1>1, <1>2, <1>3, <1>4, <1>5 DEF Next, Client

\* When speak has returned, with the text spoken or after a stop, Pico holds
\* nothing that the next text would begin with: only an exception leaves some of
\* a text, and until the engine is disposed of.
THEOREM NothingIsLeft == Spec => []NothingLeftOver
<1>1. TextInv => NothingLeftOver
  BY DEF TextInv, NothingLeftOver
<1> QED
  BY TextInit, TextInvNext, <1>1, PTL DEF Spec

-----------------------------------------------------------------------------
(* WholeText                                                                *)

\* No byte of a text is lost or doubled on its way: it has been heard, is held
\* by Pico, or is still to be put, after what was left when it began.
SpokenInv ==
    speaking # NoText =>
        /\ outcome = "none"
        /\ speaking.in \in {"text", "text data"} /\ speaking.length >= 0 =>
               heard + pending + speaking.length = speaking.size + speaking.left
        /\ speaking.in \in {"end", "end data"} =>
               heard + pending = speaking.size + speaking.left

LEMMA ShortSizes ==
    ASSUME NEW n \in Sizes, n < Int16, AsInt16(n) >= 0
    PROVE  AsInt16(n) = n
<1>1. n \in Nat /\ Int16 \in Nat
  BY EnginesAssumption
<1>2. n % Int16 = n
  BY <1>1
<1>3. AsInt16(n) = IF n >= Half THEN n - Int16 ELSE n
  BY <1>2 DEF AsInt16
<1> QED
  BY <1>1, <1>3, HalfOfInt16

LEMMA MovesOver ==
    ASSUME NEW h \in Nat, NEW p \in Nat, NEW l \in Int, NEW n \in Nat
    PROVE  h + (p + n) + (l - n) = h + p + l
OBVIOUS

LEMMA SpokenNext ==
    ASSUME TextInv, SpokenInv, SpeakText \/ Stop
    PROVE  SpokenInv' /\ (outcome' = "spoken" => heard' = speaking.size + speaking.left)
<1>1. /\ pending \in Nat /\ heard \in Nat
      /\ speaking \in TextType /\ speaking # NoText
  <2>1. speaking.in \in {"text", "text data", "end", "end data"}
    BY DEF SpeakText, Stop, Stopped, ResetFails, PutFails, PutText, GetData, DataFails, SpeakRest
  <2> QED
    BY <2>1, TextCounts, SpeakingText
<1>2. /\ speaking.size \in Nat /\ speaking.left \in Nat /\ speaking.length \in Int
      /\ speaking = [in |-> speaking.in, size |-> speaking.size, length |-> speaking.length,
                     left |-> speaking.left]
  <2>1. MaxLeft \in Nat /\ Sizes \subseteq Nat
    BY EnginesAssumption
  <2>2. /\ speaking.size \in Sizes /\ speaking.left \in 0 .. MaxLeft /\ speaking.length \in Int
        /\ speaking = [in |-> speaking.in, size |-> speaking.size, length |-> speaking.length,
                       left |-> speaking.left]
    BY <1>1, TextFields
  <2>3. speaking.left \in Nat
    BY <2>1, <2>2
  <2> QED
    BY <2>1, <2>2, <2>3
<1>3. CASE PutFails \/ DataFails \/ Stop
  <2>1. speaking' = NoText /\ outcome' # "spoken"
    BY <1>3 DEF PutFails, DataFails, Stop, Stopped, ResetFails, ThrowsHalfway
  <2> QED
    BY <2>1 DEF SpokenInv
<1>4. CASE PutText
  <2>1. /\ speaking.in \in {"text", "end"} /\ speaking.length > 0
        /\ heard' = heard /\ outcome' = "none"
    BY <1>1, <1>4 DEF PutText, SpokenInv
  <2>2. PICK n \in 1 .. (IF speaking.length < MaxPut THEN speaking.length ELSE MaxPut) :
            /\ speaking' = [speaking EXCEPT !.length = @ - n, !.in = IF @ = "text" THEN "text data" ELSE "end data"]
            /\ pending' = IF speaking.in = "text" THEN pending + n ELSE pending
    BY <1>4 DEF PutText
  <2>3. n \in Nat
    <3>1. MaxPut \in Int
      BY EnginesAssumption, HalfOfInt16
    <3> QED
      BY <1>2, <2>2, <3>1
  <2>4. speaking' = [in |-> IF speaking.in = "text" THEN "text data" ELSE "end data",
                     size |-> speaking.size, length |-> speaking.length - n, left |-> speaking.left]
    BY <1>2, <2>2
  <2>5. CASE speaking.in = "text"
    <3>1. heard + pending + speaking.length = speaking.size + speaking.left
      BY <1>1, <1>2, <2>1, <2>5 DEF SpokenInv
    <3>2. /\ speaking'.in = "text data" /\ speaking'.length = speaking.length - n
          /\ speaking'.size = speaking.size /\ speaking'.left = speaking.left
          /\ pending' = pending + n
      BY <2>2, <2>4, <2>5
    <3>3. heard' + pending' + speaking'.length = speaking'.size + speaking'.left
      <4>1. heard' + pending' + speaking'.length = heard + (pending + n) + (speaking.length - n)
        BY <2>1, <3>2
      <4>2. heard + (pending + n) + (speaking.length - n) = heard + pending + speaking.length
        BY <1>1, <1>2, <2>3, MovesOver
      <4> QED
        BY <3>1, <3>2, <4>1, <4>2
    <3> QED
      BY <2>1, <3>2, <3>3 DEF SpokenInv
  <2>6. CASE speaking.in = "end"
    <3>1. heard + pending = speaking.size + speaking.left
      BY <1>1, <2>6 DEF SpokenInv
    <3>2. /\ speaking'.in = "end data"
          /\ speaking'.size = speaking.size /\ speaking'.left = speaking.left
          /\ pending' = pending
      BY <2>2, <2>4, <2>6
    <3> QED
      BY <2>1, <3>1, <3>2 DEF SpokenInv
  <2> QED
    BY <2>1, <2>5, <2>6
<1>5. CASE GetData
  <2>1. speaking.in \in {"text data", "end data"} /\ outcome' = "none"
    BY <1>1, <1>5 DEF GetData, SpokenInv
  <2>2. heard' + pending' = heard + pending /\ heard' \in Nat /\ pending' \in Nat
    <3>1. PICK n \in 0 .. pending : heard' = heard + n /\ pending' = pending - n
      <4>1. pending \in 0 .. pending
        BY <1>1
      <4> QED
        BY <1>5, <4>1 DEF GetData
    <3> QED
      BY <1>1, <3>1
  <2>3. /\ speaking' = [speaking EXCEPT !.in = IF @ = "text data" THEN "text" ELSE "end"]
        /\ (speaking.in = "text data" => speaking.length >= 0)
    BY <1>1, <1>5 DEF GetData, TextInv
  <2>4. /\ speaking'.in = IF speaking.in = "text data" THEN "text" ELSE "end"
        /\ speaking'.size = speaking.size /\ speaking'.left = speaking.left
        /\ speaking'.length = speaking.length
    BY <1>2, <2>3
  <2>5. CASE speaking.in = "text data"
    <3>1. heard + pending + speaking.length = speaking.size + speaking.left
      BY <1>1, <2>3, <2>5 DEF SpokenInv
    <3>2. heard' + pending' + speaking'.length = speaking'.size + speaking'.left
      BY <1>1, <1>2, <2>2, <2>4, <3>1
    <3>3. speaking'.in = "text"
      BY <2>4, <2>5
    <3> QED
      BY <2>1, <3>2, <3>3 DEF SpokenInv
  <2>6. CASE speaking.in = "end data"
    <3>1. heard + pending = speaking.size + speaking.left
      BY <1>1, <2>6 DEF SpokenInv
    <3>2. heard' + pending' = speaking'.size + speaking'.left
      BY <1>1, <1>2, <2>2, <2>4, <3>1
    <3>3. speaking'.in = "end"
      BY <2>4, <2>6
    <3> QED
      BY <2>1, <3>2, <3>3 DEF SpokenInv
  <2> QED
    BY <2>1, <2>5, <2>6
<1>6. CASE SpeakRest
  <2>1. speaking.in \in {"text", "end"} /\ speaking.length = 0 /\ UNCHANGED <<pending, heard>>
    BY <1>6 DEF SpeakRest
  <2>2. CASE speaking.in = "text"
    <3>1. heard + pending + 0 = speaking.size + speaking.left
      BY <1>1, <2>1, <2>2 DEF SpokenInv
    <3>2. speaking' = [speaking EXCEPT !.in = "end", !.length = 1] /\ outcome' = "none"
      BY <1>1, <1>6, <2>2 DEF SpeakRest, SpokenInv
    <3>3. speaking'.in = "end" /\ speaking'.size = speaking.size /\ speaking'.left = speaking.left
      BY <1>2, <3>2
    <3>4. heard' + pending' = speaking'.size + speaking'.left
      BY <1>1, <1>2, <2>1, <3>1, <3>3
    <3> QED
      BY <3>2, <3>3, <3>4 DEF SpokenInv
  <2>3. CASE speaking.in = "end"
    <3>1. heard + pending = speaking.size + speaking.left /\ pending = 0
      BY <1>1, <2>1, <2>3 DEF SpokenInv, TextInv
    <3>2. heard' = speaking.size + speaking.left
      BY <1>1, <1>2, <2>1, <3>1
    <3>3. speaking' = NoText
      BY <1>6, <2>3 DEF SpeakRest
    <3> QED
      BY <3>2, <3>3 DEF SpokenInv
  <2> QED
    BY <2>1, <2>2, <2>3
<1> QED
  BY <1>3, <1>4, <1>5, <1>6 DEF SpeakText

\* A step either speaks, or begins a text, or happens between texts.
LEMMA NextSpeaks ==
    ASSUME TextInv, Next, ~(SpeakText \/ Stop)
    PROVE  speaking = NoText /\ (Speak \/ speaking' = NoText)
BY DEF Next, Construct, NotBuilt, ConstructEspeak, ConstructPico, Client, SelectUnknown, SelectVoice, Install,
       Speak, Idle, TextInv, text

LEMMA SpokenInvNext ==
    ASSUME \A n \in Sizes : n < Int16, TextInv, SpokenInv, [Next]_vars
    PROVE  SpokenInv'
<1>1. CASE SpeakText \/ Stop
  BY <1>1, SpokenNext
<1>2. CASE Speak
  <2>1. PICK n \in Sizes :
            speaking' = [in |-> "text", size |-> n, length |-> AsInt16(n), left |-> pending]
    BY <1>2 DEF Speak
  <2>2. heard' = 0 /\ outcome' = "none" /\ pending' = pending
    BY <1>2 DEF Speak
  <2>3. n \in Nat /\ pending \in Nat
    BY TextCounts, EnginesAssumption
  <2>4. speaking'.length >= 0 =>
            heard' + pending' + speaking'.length = speaking'.size + speaking'.left
    BY <2>1, <2>2, <2>3, ShortSizes
  <2>5. speaking'.in = "text"
    BY <2>1
  <2> QED
    BY <2>2, <2>4, <2>5 DEF SpokenInv
<1>3. CASE Next /\ ~(SpeakText \/ Stop) /\ ~Speak
  BY <1>3, NextSpeaks DEF SpokenInv
<1>4. CASE UNCHANGED vars
  BY <1>4 DEF vars, SpokenInv
<1> QED
  BY <1>1, <1>2, <1>3, <1>4

LEMMA WholeStep ==
    ASSUME TextInv, SpokenInv, [Next]_vars
    PROVE  [outcome' = "spoken" /\ speaking # NoText => heard' = speaking.size + speaking.left]_vars
BY SpokenNext, NextSpeaks

LEMMA SpokenInit == Init => SpokenInv
BY DEF Init, SpokenInv

\* Of a text that was spoken every byte has been heard, after what an exception
\* had left of the texts before it, if no text is too long for a pico_Int16 to
\* tell its size.
THEOREM SpokenIsWhole ==
    ASSUME \A n \in Sizes : n < Int16
    PROVE  Spec => WholeText
<1>1. TextInv /\ SpokenInv /\ [Next]_vars => SpokenInv'
  BY SpokenInvNext
<1>2. TextInv /\ SpokenInv /\ [Next]_vars =>
          [outcome' = "spoken" /\ speaking # NoText => heard' = speaking.size + speaking.left]_vars
  BY WholeStep
<1> QED
  BY TextInit, TextInvNext, SpokenInit, <1>1, <1>2, PTL DEF Spec, WholeText

-----------------------------------------------------------------------------
(* Types                                                                    *)

\* The part of TypeOK that the invariants above do not say.
NamesTyped ==
    /\ pc \in {"espeak", "pico", "ready", "failed"}
    /\ selectedVoice \in Voices \cup {None}
    /\ espeakVoice \in EspeakVoices \cup {None}
    /\ built \in Builds /\ installed \subseteq Files
    /\ answer \in [voice : Voices \cup {None, Empty}, result : {"none", "true", "false", "throw"}]
    /\ outcome \in {"none", "throw", "stopped", "spoken"}

LEMMA AnsweredTyped ==
    ASSUME NamesTyped, NEW e, NEW v \in Voices \cup {Empty}, NEW result \in {"true", "false", "throw"},
           result = "true" => v \in Voices,
           Answered(e, v, result)
    PROVE  /\ selectedVoice' \in Voices \cup {None}
           /\ answer' \in [voice : Voices \cup {None, Empty}, result : {"none", "true", "false", "throw"}]
BY DEF NamesTyped, Answered

LEMMA SelectEspeakTyped ==
    ASSUME NamesTyped, NEW v \in EspeakVoices, SelectEspeak(v)
    PROVE  /\ selectedVoice' \in Voices \cup {None}
           /\ espeakVoice' \in EspeakVoices \cup {None}
           /\ answer' \in [voice : Voices \cup {None, Empty}, result : {"none", "true", "false", "throw"}]
<1>1. PICK found \in BOOLEAN :
          /\ espeakVoice' = IF found THEN v ELSE espeakVoice
          /\ Answered("espeak", v, IF found THEN "true" ELSE "false")
  BY DEF SelectEspeak
<1>2. espeakVoice' \in EspeakVoices \cup {None}
  BY <1>1 DEF NamesTyped
<1>3. v \in Voices
  BY DEF Voices
<1>4. (IF found THEN "true" ELSE "false") \in {"true", "false", "throw"}
  OBVIOUS
<1> QED
  BY <1>1, <1>2, <1>3, <1>4, AnsweredTyped

LEMMA SelectPicoTyped ==
    ASSUME NamesTyped, NEW v \in PicoVoices, SelectPico(v)
    PROVE  /\ selectedVoice' \in Voices \cup {None}
           /\ espeakVoice' = espeakVoice
           /\ answer' \in [voice : Voices \cup {None, Empty}, result : {"none", "true", "false", "throw"}]
<1>1. PICK result \in {"true", "throw"} : Answered("pico", v, result) /\ UNCHANGED espeakVoice
  BY DEF SelectPico
<1>2. v \in Voices
  BY DEF Voices
<1> QED
  BY <1>1, <1>2, AnsweredTyped

LEMMA NamesNext == NamesTyped /\ [Next]_vars => NamesTyped'
<1> SUFFICES ASSUME NamesTyped, [Next]_vars
             PROVE  NamesTyped'
  OBVIOUS
<1>1. CASE NotBuilt
  BY <1>1 DEF NotBuilt, AfterEngine, NamesTyped, text
<1>2. CASE ConstructEspeak
  <2>1. UNCHANGED <<built, installed, outcome>> /\ pc' \in {"espeak", "pico", "ready", "failed"}
    BY <1>2 DEF ConstructEspeak, DefaultSelected, AfterEngine, text
  <2>2. CASE EspeakDefault = Empty
    <3>1. Answered("espeak", Empty, "false") /\ UNCHANGED espeakVoice
      BY <1>2, <2>2 DEF ConstructEspeak
    <3> QED
      BY <2>1, <3>1, AnsweredTyped DEF NamesTyped
  <2>3. CASE EspeakDefault # Empty
    <3>1. EspeakDefault \in EspeakVoices /\ SelectEspeak(EspeakDefault)
      BY <1>2, <2>3, EnginesAssumption DEF ConstructEspeak
    <3> QED
      BY <2>1, <3>1, SelectEspeakTyped DEF NamesTyped
  <2> QED
    BY <2>2, <2>3
<1>3. CASE ConstructPico
  <2>1. UNCHANGED <<built, installed, outcome>> /\ pc' \in {"espeak", "pico", "ready", "failed"}
    BY <1>3 DEF ConstructPico, DefaultSelected, AfterEngine, text
  <2>2. CASE SelectPico(PicoDefault)
    BY <2>1, <2>2, SelectPicoTyped, EnginesAssumption DEF NamesTyped
  <2>3. CASE UNCHANGED <<espeakVoice, answer, selectedVoice>>
    BY <2>1, <2>3 DEF NamesTyped
  <2> QED
    BY <1>3, <2>2, <2>3 DEF ConstructPico
<1>4. CASE SelectVoice
  <2>1. UNCHANGED <<pc, built, installed, outcome>>
    BY <1>4 DEF SelectVoice, text
  <2>2. CASE \E v \in EspeakVoices : SelectEspeak(v)
    BY <2>1, <2>2, SelectEspeakTyped DEF NamesTyped
  <2>3. CASE \E v \in PicoVoices : SelectPico(v)
    BY <2>1, <2>3, SelectPicoTyped DEF NamesTyped
  <2> QED
    BY <1>4, <2>2, <2>3 DEF SelectVoice
<1>5. CASE SelectUnknown
  <2>1. UNCHANGED <<pc, espeakVoice, built, installed, outcome>>
    BY <1>5 DEF SelectUnknown, text
  <2>2. \E v \in Voices : Answered("espeak", v, "false")
    BY <1>5 DEF SelectUnknown
  <2> QED
    BY <2>1, <2>2, AnsweredTyped DEF NamesTyped
<1>6. CASE Install
  <2>1. installed' \subseteq Files
    BY <1>6 DEF Install, NamesTyped, Files
  <2>2. answer' \in [voice : Voices \cup {None, Empty}, result : {"none", "true", "false", "throw"}]
    BY <1>6 DEF Install
  <2> QED
    BY <1>6, <2>1, <2>2 DEF Install, NamesTyped, text
<1>7. CASE Speak
  BY <1>7 DEF Speak, NamesTyped
<1>8. CASE SpeakText \/ Stop
  <2>1. UNCHANGED <<pc, selectedVoice, espeakVoice, built, installed, answer>>
    BY <1>8, TextStepsKeepEngines DEF PicoThread
  <2>2. outcome' \in {outcome, "throw", "stopped", "spoken"}
    BY <1>8 DEF SpeakText, Stop, Stopped, ResetFails, PutFails, PutText, GetData, DataFails, ThrowsHalfway,
                SpeakRest
  <2> QED
    BY <2>1, <2>2 DEF NamesTyped
<1>9. CASE UNCHANGED vars
  BY <1>9 DEF vars, NamesTyped
<1> QED
  BY <1>1, <1>2, <1>3, <1>4, <1>5, <1>6, <1>7, <1>8, <1>9 DEF Next, Construct, Client

LEMMA NamesInit == Init => NamesTyped
BY EnginesAssumption DEF Init, NamesTyped, Files

\* Every variable stays within its type: the engines' members, what select_voice
\* answers, and the length of a text that is being spoken.
THEOREM EnginesTyped == Spec => []TypeOK
<1>1. VoiceInv /\ Consistent(pico) /\ TextInv /\ NamesTyped => TypeOK
  BY DEF VoiceInv, Consistent, TextInv, NamesTyped, TypeOK
<1>2. Consistent(pico) /\ [Next]_vars => Consistent(pico)'
  BY ConsistentNext DEF Consistent, PicoType
<1> QED
  BY VoiceInit, VoiceNext, ConsistentInit, <1>2, TextInit, TextInvNext, NamesInit, NamesNext, <1>1, PTL DEF Spec
=============================================================================
