------------------------ MODULE SpeechSessionProofs ------------------------
(* Theorems about SpeechSession, for every set of sessions. *)
EXTENDS SpeechSession, FiniteSetTheorems, TLAPS

(* The places of the thread inside the loop body, where node is an item of the range. *)
BodyPC == {"media", "play", "text", "speak", "deliver", "offset", "progress", "anchor", "check"}

(* A sink that is open holds a connection or a file it can close. *)
HoldsItsHandle(sink) == sink.open => sink.handles >= 1

(* Where the loop is, which the types of the offsets depend on. *)
LoopInv ==
    /\ node \in args.from .. args.to
    /\ tpc \in BodyPC => node # args.to
    /\ tpc \in {"speak", "deliver", "offset"} => TextAt(doc, node)
    /\ HoldsItsHandle(audio)

TypeInv == TypeOK /\ LoopInv

LEMMA SessionFacts ==
    ASSUME TypeOK
    PROVE  /\ args \in Arguments
           /\ doc \in Seq(Item) /\ End \in Nat /\ End = Len(doc) + 1
           /\ args.from \in 1 .. End /\ args.to \in args.from .. End
           /\ \A p \in 1 .. Len(doc) : TextAt(doc, p) =>
                 /\ doc[p].begin \in Offset /\ doc[p].end \in Offset
                 /\ doc[p].begin <= doc[p].end
           /\ Len(args.listing) \in Nat
           /\ Word \in Nat \ {0} /\ MaxBuffers \in Nat
PROOF
  <1>1. args \in Arguments /\ TextInOrder(doc) /\ InDocument(args)
    BY SessionAssumption DEF TypeOK, doc
  <1>2. doc \in Seq(Item) /\ args.listing \in Seq(Anchor) /\ args.from \in Nat /\ args.to \in Nat
    BY <1>1 DEF Arguments, doc
  <1>3. End \in Nat /\ End = Len(doc) + 1 /\ args.from \in 1 .. End /\ args.to \in args.from .. End
    BY <1>1, <1>2 DEF InDocument, End, doc
  <1>4. ASSUME NEW p \in 1 .. Len(doc), TextAt(doc, p)
        PROVE  doc[p].begin \in Offset /\ doc[p].end \in Offset /\ doc[p].begin <= doc[p].end
    <2>1. doc[p] \in Item
      BY <1>2
    <2>2. doc[p].begin \in Nat /\ doc[p].end \in Nat
      BY <2>1 DEF Item
    <2> QED BY <2>2, <1>1, <1>4, SessionAssumption DEF TextInOrder, Offset
  <1> QED BY <1>1, <1>2, <1>3, <1>4, SessionAssumption

LEMMA NewSinkType == \A kind \in SinkKind : NewSink(kind) \in Sink /\ HoldsItsHandle(NewSink(kind))
PROOF
  <1> SUFFICES ASSUME NEW kind \in SinkKind
               PROVE  NewSink(kind) \in Sink /\ HoldsItsHandle(NewSink(kind))
    OBVIOUS
  <1>1. (kind # "alsa") \in BOOLEAN /\ (IF kind = "alsa" THEN 0 ELSE 1) \in Nat
    OBVIOUS
  <1>2. NewSink(kind) \in Sink
    BY <1>1 DEF NewSink, Sink
  <1>3. HoldsItsHandle(NewSink(kind))
    <2>1. NewSink(kind).open = (kind # "alsa") /\ NewSink(kind).handles = IF kind = "alsa" THEN 0 ELSE 1
      BY Zenon DEF NewSink
    <2>2. CASE kind = "alsa"
      BY <2>1, <2>2, Zenon DEF HoldsItsHandle
    <2>3. CASE kind # "alsa"
      <3>1. NewSink(kind).handles = 1
        BY <2>1, <2>3
      <3> QED BY <3>1 DEF HoldsItsHandle
    <2> QED BY <2>2, <2>3
  <1> QED BY <1>2, <1>3

LEMMA SinkFields ==
    ASSUME NEW sink \in Sink
    PROVE  /\ sink.kind \in SinkKind /\ sink.open \in BOOLEAN /\ sink.handles \in Nat
           /\ sink.size \in Nat /\ sink.counted \in Nat /\ sink.badUse \in BOOLEAN
PROOF BY DEF Sink

LEMMA OpenSinkType ==
    ASSUME NEW sink \in Sink, HoldsItsHandle(sink), NEW outcome \in OpenSink(sink)
    PROVE  outcome.sink \in Sink /\ HoldsItsHandle(outcome.sink)
PROOF
  <1>1. Connected(sink) \in Sink /\ HoldsItsHandle(Connected(sink))
    <2>1. sink.handles + 1 \in Nat /\ sink.handles + 1 >= 1
      BY SinkFields
    <2>2. Connected(sink) \in Sink
      BY <2>1 DEF Connected, Sink
    <2>3. Connected(sink).handles = sink.handles + 1
      BY DEF Connected, Sink
    <2> QED BY <2>1, <2>2, <2>3 DEF HoldsItsHandle
  <1>2. CASE sink.kind = "alsa"
    BY <1>1, <1>2 DEF OpenSink, OpenAlsa, Done, Thrown
  <1>3. CASE sink.kind = "pulse"
    BY <1>1, <1>3 DEF OpenSink, OpenPulse, Done, Thrown
  <1>4. CASE sink.kind \in {"wav", "ogg"} /\ sink.open
    <2> DEFINE opened == [sink EXCEPT !.size = @ + HeaderSize, !.counted = 0]
    <2>1. outcome.sink = opened
      BY <1>4 DEF OpenSink, OpenFile, Done
    <2>2. sink.size + HeaderSize \in Nat
      BY SinkFields DEF HeaderSize
    <2>3. opened \in Sink
      BY <2>2 DEF Sink
    <2>4. opened.open = sink.open /\ opened.handles = sink.handles
      BY DEF Sink
    <2> HIDE DEF opened
    <2> QED BY <2>1, <2>3, <2>4 DEF HoldsItsHandle
  <1>5. CASE sink.kind \in {"wav", "ogg"} /\ ~sink.open
    <2> DEFINE misused == [sink EXCEPT !.badUse = TRUE]
    <2>0. OpenSink(sink) = OpenFile(sink)
      BY <1>5 DEF OpenSink
    <2>1. outcome.sink = misused
      BY <1>5, <2>0 DEF OpenFile, Done
    <2>2. misused \in Sink
      BY DEF Sink
    <2>3. misused.open = sink.open /\ misused.handles = sink.handles
      BY DEF Sink
    <2> HIDE DEF misused
    <2> QED BY <2>1, <2>2, <2>3 DEF HoldsItsHandle
  <1> QED BY <1>2, <1>3, <1>4, <1>5, SinkFields DEF SinkKind

LEMMA WriteSinkType ==
    ASSUME NEW sink \in Sink, HoldsItsHandle(sink)
    PROVE  WriteSink(sink) \in Sink /\ HoldsItsHandle(WriteSink(sink))
PROOF
  <1> DEFINE size == IF IsFile(sink) THEN sink.size + 1 ELSE sink.size
             counted == IF sink.kind = "wav" THEN sink.counted + 1 ELSE sink.counted
             written == [sink EXCEPT !.size = size, !.counted = counted]
             misused == [sink EXCEPT !.badUse = TRUE]
  <1>1. size \in Nat /\ counted \in Nat
    BY SinkFields
  <1>2. WriteSink(sink) = IF sink.open THEN written ELSE misused
    BY DEF WriteSink
  <1>3. written \in Sink /\ written.open = sink.open /\ written.handles = sink.handles
    <2> HIDE DEF size, counted
    <2> QED BY <1>1 DEF Sink
  <1>4. misused \in Sink /\ misused.open = sink.open /\ misused.handles = sink.handles
    BY DEF Sink
  <1> HIDE DEF written, misused
  <1> QED BY <1>2, <1>3, <1>4 DEF HoldsItsHandle

LEMMA CloseSinkType ==
    ASSUME NEW sink \in Sink, HoldsItsHandle(sink)
    PROVE  CloseSink(sink) \in Sink /\ ~CloseSink(sink).open
PROOF
  <1>1. CASE sink.open
    <2>1. sink.handles - 1 \in Nat
      BY <1>1, SinkFields DEF HoldsItsHandle
    <2>2. CloseSink(sink) = [sink EXCEPT !.open = FALSE, !.handles = @ - 1]
      BY <1>1 DEF CloseSink
    <2> QED BY <2>1, <2>2 DEF Sink
  <1>2. CASE ~sink.open
    BY <1>2 DEF CloseSink
  <1> QED BY <1>1, <1>2

LEMMA WrapType == \A n \in Int : Wrap(n) \in Offset
PROOF BY SessionAssumption DEF Wrap, Offset

LEMMA TypeInit == Init => TypeInv
PROOF
  <1> SUFFICES ASSUME Init PROVE TypeInv
    OBVIOUS
  <1>1. args \in Arguments /\ InDocument(args)
    BY SessionAssumption DEF Init
  <1>2. /\ args.from \in 1 .. Len(doc) + 1 /\ args.to \in args.from .. Len(doc) + 1
        /\ Len(args.listing) \in Nat /\ Len(doc) \in Nat /\ args.sink \in SinkKind
    BY <1>1 DEF InDocument, Arguments, doc
  <1>3. audio \in Sink /\ HoldsItsHandle(audio)
    BY <1>2, NewSinkType DEF Init
  <1>4. /\ 0 \in Offset /\ NoOffset \in Offset
        /\ [num |-> 0, den |-> 1] \in [num : Offset, den : Offset \cup {1}]
    BY SessionAssumption DEF Offset, NoOffset
  <1>5. spoken \in Seq(1 .. Len(doc)) /\ played \in Seq(1 .. Len(doc))
    BY DEF Init
  <1>6. TypeOK
    <2>1. args \in Sessions /\ speechState = "speaking" /\ mErrorMessage = FALSE
      BY DEF Init
    <2>2. mRefEntry \in 0 .. Len(args.listing) /\ mRefEntryFrom \in 1 .. Len(args.listing) + 1
      BY <1>2 DEF Init
    <2>3. /\ currentOffset \in Offset /\ speakingPos \in Offset
          /\ textOffset \in Offset /\ textLen \in Offset
          /\ mProgress \in [num : Offset, den : Offset \cup {1}]
      BY <1>4 DEF Init
    <2>4. pos \in 1 .. End /\ node \in 1 .. End
      BY <1>2 DEF Init, End
    <2>5. depth \in Int /\ mediaOverlayDepth \in Int /\ buffers \in 0 .. MaxBuffers /\ late \in Nat
      BY SessionAssumption DEF Init
    <2>6. tpc \in ThreadPC /\ cpc \in ClientPC
      BY DEF Init, ThreadPC, ClientPC
    <2>7. inRange \in BOOLEAN /\ seen \in BOOLEAN /\ joined \in BOOLEAN
      BY Zenon DEF Init
    <2> QED BY <1>3, <1>5, <2>1, <2>2, <2>3, <2>4, <2>5, <2>6, <2>7 DEF TypeOK
  <1>7. LoopInv
    BY <1>2, <1>3 DEF Init, LoopInv, BodyPC
  <1> QED BY <1>6, <1>7 DEF TypeInv

LEMMA StartedType ==
    ASSUME TypeInv, NEW ok, Started(ok)
    PROVE  /\ audio' \in Sink /\ HoldsItsHandle(audio')
           /\ mProgress' \in [num : Offset, den : Offset \cup {1}] /\ currentOffset' \in Offset
PROOF
  <1>1. PICK outcome \in OpenSink(audio) :
           /\ audio' = outcome.sink
           /\ IF ok
              THEN mProgress' = [num |-> 0, den |-> 1] /\ currentOffset' = textOffset
              ELSE UNCHANGED <<mProgress, currentOffset>>
    BY DEF Started
  <1>2. audio' \in Sink /\ HoldsItsHandle(audio')
    BY <1>1, OpenSinkType DEF TypeInv, TypeOK, LoopInv
  <1>3. 0 \in Offset
    BY SessionAssumption DEF Offset
  <1>4. mProgress' \in [num : Offset, den : Offset \cup {1}] /\ currentOffset' \in Offset
    BY <1>1, <1>3 DEF TypeInv, TypeOK
  <1> QED BY <1>2, <1>4

LEMMA OnTextRangeType ==
    ASSUME TypeOK, NEW offset \in Offset, NEW p \in Offset, OnTextRange(offset, p)
    PROVE  speakingPos' \in Offset /\ mProgress' \in [num : Offset, den : Offset \cup {1}]
PROOF
  <1>1. /\ offset + p - textOffset \in Int /\ textLen - textOffset \in Int
    BY SessionAssumption DEF TypeOK, Offset
  <1>2. Wrap(offset + p - textOffset) \in Offset /\ Wrap(textLen - textOffset) \in Offset
    BY <1>1, WrapType
  <1> QED BY <1>2 DEF OnTextRange, Percentage

LEMMA WriteAudioType ==
    ASSUME TypeInv, WriteAudio
    PROVE  audio' \in Sink /\ HoldsItsHandle(audio') /\ late' \in Nat
PROOF
  <1>1. audio' \in Sink /\ HoldsItsHandle(audio')
    BY WriteSinkType DEF WriteAudio, TypeInv, TypeOK, LoopInv
  <1>2. late' \in Nat
    BY DEF WriteAudio, TypeInv, TypeOK
  <1> QED BY <1>1, <1>2

LEMMA TypeNext == TypeInv /\ [Next]_vars => TypeInv'
PROOF
  <1> SUFFICES ASSUME TypeInv, [Next]_vars PROVE TypeInv'
    OBVIOUS
  <1>0. /\ doc \in Seq(Item) /\ End \in Nat /\ End = Len(doc) + 1
        /\ args.from \in 1 .. End /\ args.to \in args.from .. End
        /\ \A p \in 1 .. Len(doc) : TextAt(doc, p) =>
              /\ doc[p].begin \in Offset /\ doc[p].end \in Offset
              /\ doc[p].begin <= doc[p].end
        /\ args.listing \in Seq(Anchor) /\ Len(args.listing) \in Nat
        /\ Word \in Nat \ {0} /\ MaxBuffers \in Nat
    BY SessionFacts DEF TypeInv, Arguments
  <1> USE <1>0 DEF TypeInv, TypeOK, LoopInv, doc, End, extent, scan, context, progress,
        loop, client, history, ThreadPC, ClientPC, BodyPC
  <1>1. CASE Preprocess
    <2>1. pos \in 1 .. Len(doc) /\ pos + 1 \in 1 .. End
      BY <1>1, SMTT(30) DEF Preprocess
    <2>2. CASE inRange /\ TextAt(doc, pos)
      <3>1. textOffset' \in Offset /\ textLen' \in Offset
        BY <1>1, <2>1, <2>2 DEF Preprocess, CountText
      <3> QED BY <1>1, <2>1, <2>2, <3>1 DEF Preprocess
    <2>3. CASE inRange /\ ~TextAt(doc, pos)
      BY <1>1, <2>1, <2>3 DEF Preprocess
    <2>4. CASE ~inRange
      <3>1. inRange' \in BOOLEAN
        BY <1>1, <2>4, Zenon DEF Preprocess
      <3> QED BY <1>1, <2>1, <2>4, <3>1 DEF Preprocess
    <2> QED BY <2>2, <2>3, <2>4
  <1>2. CASE PreprocessDone
    BY <1>2 DEF PreprocessDone
  <1>3. CASE Construct
    <2>1. mRefEntry' \in 0 .. Len(args.listing) /\ mRefEntryFrom' \in 1 .. Len(args.listing) + 1
      <3>1. args.listing # <<>> => Len(args.listing) >= 1
        OBVIOUS
      <3> QED BY <1>3, <3>1 DEF Construct, FirstEntry
    <2>2. /\ audio' \in Sink /\ HoldsItsHandle(audio')
          /\ mProgress' \in [num : Offset, den : Offset \cup {1}] /\ currentOffset' \in Offset
      BY <1>3, StartedType DEF Construct
    <2> QED BY <1>3, <2>1, <2>2, ZenonT(40) DEF Construct
  <1>4. CASE Poll
    BY <1>4 DEF Poll
  <1>5. CASE Stop
    BY <1>5 DEF Stop
  <1>6. CASE StopJoined
    BY <1>6 DEF StopJoined
  <1>7. CASE Wait
    BY <1>7 DEF Wait
  <1>8. CASE WaitJoined
    BY <1>8 DEF WaitJoined
  <1>9. CASE Drop
    BY <1>9 DEF Drop
  <1>10. CASE ThreadStarted
    <2>1. /\ audio' \in Sink /\ HoldsItsHandle(audio')
          /\ mProgress' \in [num : Offset, den : Offset \cup {1}] /\ currentOffset' \in Offset
      BY <1>10, StartedType DEF ThreadStarted
    <2> QED BY <1>10, <2>1 DEF ThreadStarted
  <1>11. CASE NoMoreNodes
    BY <1>11 DEF NoMoreNodes
  <1>12. CASE BeginNode
    <2>1. Begins \in Int
      BY DEF Begins
    <2>2. depth' \in Int /\ mediaOverlayDepth' \in Int
      BY <1>12, <2>1 DEF BeginNode
    <2> QED BY <1>12, <2>2 DEF BeginNode
  <1>13. CASE SkipMedia
    BY <1>13 DEF SkipMedia
  <1>14. CASE OpenMedia
    <2>1. node \in 1 .. Len(doc)
      BY <1>14 DEF OpenMedia
    <2>2. played' \in Seq(1 .. Len(doc))
      BY <1>14, <2>1 DEF OpenMedia
    <2> QED BY <1>14, <2>2 DEF OpenMedia
  <1>15. CASE PlayBlock
    <2>1. audio' \in Sink /\ HoldsItsHandle(audio') /\ late' \in Nat
      BY <1>15, WriteAudioType DEF PlayBlock
    <2> QED BY <1>15, <2>1, SMTT(30) DEF PlayBlock
  <1>16. CASE MediaDone
    BY <1>16 DEF MediaDone
  <1>17. CASE SpeakText
    BY <1>17 DEF SpeakText
  <1>18. CASE SkipText
    BY <1>18 DEF SkipText
  <1>19. CASE Callback
    <2>1. speakingPos' \in Offset /\ mProgress' \in [num : Offset, den : Offset \cup {1}]
      <3>1. ASSUME NEW p \in 0 .. doc[node].end - doc[node].begin PROVE p \in Offset
        <4>1. node \in 1 .. Len(doc) /\ TextAt(doc, node)
          BY <1>19, SMTT(30) DEF Callback
        <4>2. doc[node].begin \in Offset /\ doc[node].end \in Offset
          BY <4>1
        <4> HIDE DEF doc, TypeOK, LoopInv
        <4> QED BY <4>2 DEF Offset
      <3> QED BY <1>19, <3>1, OnTextRangeType DEF Callback
    <2> QED BY <1>19, <2>1, SMTT(30) DEF Callback
  <1>20. CASE Deliver
    <2>1. audio' \in Sink /\ HoldsItsHandle(audio') /\ late' \in Nat
      BY <1>20, WriteAudioType DEF Deliver
    <2> QED BY <1>20, <2>1, SMTT(30) DEF Deliver
  <1>21. CASE SpeakDone
    BY <1>21 DEF SpeakDone
  <1>22. CASE Throw
    BY <1>22 DEF Throw
  <1>23. CASE ProgressOffset
    <2>1. node \in 1 .. Len(doc) /\ TextAt(doc, node)
      BY <1>23 DEF ProgressOffset
    <2>2. currentOffset' \in Offset
      BY <1>23, <2>1 DEF ProgressOffset, ReadUpTo
    <2> QED BY <1>23, <2>2 DEF ProgressOffset
  <1>24. CASE Progress
    <2>1. 0 \in Offset
      BY DEF Offset
    <2>2. speakingPos' \in Offset /\ mProgress' \in [num : Offset, den : Offset \cup {1}]
      BY <1>24, <2>1, OnTextRangeType DEF Progress
    <2> QED BY <1>24, <2>2 DEF Progress
  <1>25. CASE UpdateContext
    <2>1. mRefEntry' \in 0 .. Len(args.listing) /\ mRefEntryFrom' \in 1 .. Len(args.listing) + 1
      BY <1>25 DEF UpdateContext, ReachesEntry, NextEntry
    <2> QED BY <1>25, <2>1 DEF UpdateContext
  <1>26. CASE CheckState
    <2>1. CASE speechState = "stopped"
      BY <1>26, <2>1 DEF CheckState
    <2>2. CASE speechState # "stopped"
      <3>1. node' \in args.from .. args.to /\ node' \in 1 .. End
        BY <1>26, <2>2, SMTT(30) DEF CheckState
      <3> QED BY <1>26, <2>2, <3>1 DEF CheckState
    <2> QED BY <2>1, <2>2
  <1>27. CASE CloseAudio
    <2>1. audio' \in Sink /\ HoldsItsHandle(audio')
      BY <1>27, CloseSinkType DEF CloseAudio, HoldsItsHandle
    <2> QED BY <1>27, <2>1 DEF CloseAudio
  <1>28. CASE Finished
    BY <1>28 DEF Finished
  <1>29. CASE UNCHANGED vars
    BY <1>29 DEF vars
  <1> QED
    BY <1>1, <1>2, <1>3, <1>4, <1>5, <1>6, <1>7, <1>8, <1>9, <1>10, <1>11, <1>12, <1>13, <1>14, <1>15, <1>16, <1>17, <1>18, <1>19, <1>20, <1>21, <1>22, <1>23, <1>24, <1>25, <1>26, <1>27, <1>28, <1>29 DEF Next, Client, Constructor, Joined, Thread

(* TypeOK holds in every reachable state, for every set of sessions: sizes, positions and
   offsets stay in range whatever the document, the mode, the engine and the sink. *)
THEOREM TypeCorrect == Spec => []TypeOK
PROOF
  <1>1. TypeInv => TypeOK
    BY DEF TypeInv
  <1> QED BY <1>1, TypeInit, TypeNext, PTL DEF Spec

-----------------------------------------------------------------------------
(* The life of the two threads: what the client knows of the other one's end. *)

(* There is no thread before the constructor has started it; only then can the client
   stop, join or see the end of it; and only a client inside stop() leaves the state at
   stopped while the thread goes on. *)
LifeInv ==
    /\ cpc \in {"preprocess", "enter", "failed"} <=> tpc = "unborn"
    /\ tpc = "unborn" => seen /\ ~joined /\ speechState = "speaking"
    /\ ~seen \/ joined => tpc = "done"
    /\ speechState = "stopped" /\ cpc # "stopping" => tpc = "done"
    /\ tpc \in {"closed", "done"} => ~audio.open

LEMMA LifeNext == TypeInv /\ LifeInv /\ [Next]_vars => LifeInv'
PROOF
  <1> SUFFICES ASSUME TypeInv, LifeInv, [Next]_vars PROVE LifeInv'
    OBVIOUS
  <1>0. tpc \in ThreadPC /\ cpc \in ClientPC /\ speechState \in {"speaking", "stopped"}
        /\ audio \in Sink /\ HoldsItsHandle(audio)
    BY DEF TypeInv, TypeOK, LoopInv
  <1> USE <1>0 DEF LifeInv, extent, scan, context, progress, loop, client, history,
        ThreadPC, ClientPC
  <1>1. CASE Preprocess
    BY <1>1 DEF Preprocess
  <1>2. CASE PreprocessDone
    BY <1>2 DEF PreprocessDone
  <1>3. CASE Construct
    BY <1>3 DEF Construct
  <1>4. CASE Poll
    BY <1>4, Zenon DEF Poll
  <1>5. CASE Stop
    BY <1>5 DEF Stop
  <1>6. CASE StopJoined
    BY <1>6 DEF StopJoined
  <1>7. CASE Wait
    BY <1>7 DEF Wait
  <1>8. CASE WaitJoined
    BY <1>8 DEF WaitJoined
  <1>9. CASE Drop
    BY <1>9 DEF Drop
  <1>10. CASE ThreadStarted
    BY <1>10 DEF ThreadStarted
  <1>11. CASE NoMoreNodes
    BY <1>11 DEF NoMoreNodes
  <1>12. CASE BeginNode
    BY <1>12 DEF BeginNode
  <1>13. CASE SkipMedia
    BY <1>13 DEF SkipMedia
  <1>14. CASE OpenMedia
    BY <1>14 DEF OpenMedia
  <1>15. CASE PlayBlock
    BY <1>15 DEF PlayBlock
  <1>16. CASE MediaDone
    BY <1>16 DEF MediaDone
  <1>17. CASE SpeakText
    BY <1>17 DEF SpeakText
  <1>18. CASE SkipText
    BY <1>18 DEF SkipText
  <1>19. CASE Callback
    BY <1>19 DEF Callback
  <1>20. CASE Deliver
    BY <1>20 DEF Deliver
  <1>21. CASE SpeakDone
    BY <1>21 DEF SpeakDone
  <1>22. CASE Throw
    BY <1>22 DEF Throw
  <1>23. CASE ProgressOffset
    BY <1>23 DEF ProgressOffset
  <1>24. CASE Progress
    BY <1>24 DEF Progress
  <1>25. CASE UpdateContext
    BY <1>25 DEF UpdateContext
  <1>26. CASE CheckState
    BY <1>26 DEF CheckState
  <1>27. CASE CloseAudio
    <2>1. ~audio'.open
      BY <1>27, CloseSinkType DEF CloseAudio
    <2> QED BY <1>27, <2>1 DEF CloseAudio
  <1>28. CASE Finished
    BY <1>28 DEF Finished
  <1>29. CASE UNCHANGED vars
    BY <1>29 DEF vars
  <1> QED
    BY <1>1, <1>2, <1>3, <1>4, <1>5, <1>6, <1>7, <1>8, <1>9, <1>10, <1>11, <1>12, <1>13, <1>14, <1>15, <1>16, <1>17, <1>18, <1>19, <1>20, <1>21, <1>22, <1>23, <1>24, <1>25, <1>26, <1>27, <1>28, <1>29 DEF Next, Client, Constructor, Joined, Thread

(* Once is_speaking() has answered false, or stop() or wait() has returned, the thread is
   past its last access to the session and the sink is closed, for every document and
   whatever the client called. *)
THEOREM EndIsFinal == Spec => []ClientSeesEnd
PROOF
  <1>1. Init => LifeInv
    BY DEF Init, LifeInv
  <1>2. LifeInv => ClientSeesEnd
    BY DEF LifeInv, ClientSeesEnd
  <1> QED BY <1>1, <1>2, TypeInit, TypeNext, LifeNext, PTL DEF Spec

-----------------------------------------------------------------------------
(* The sink. *)

LEMMA OpenSinkKeeps ==
    ASSUME NEW sink \in Sink, NEW outcome \in OpenSink(sink),
           ~sink.badUse, IsFile(sink) => sink.open
    PROVE  /\ ~outcome.sink.badUse
           /\ outcome.sink.kind = sink.kind
           /\ sink.open \/ outcome.ok => outcome.sink.open
PROOF
  <1>1. /\ Connected(sink).open /\ Connected(sink).kind = sink.kind
        /\ Connected(sink).badUse = sink.badUse
    BY DEF Connected, Sink
  <1>2. CASE sink.kind = "alsa"
    BY <1>1, <1>2 DEF OpenSink, OpenAlsa, Done, Thrown
  <1>3. CASE sink.kind = "pulse"
    BY <1>1, <1>3 DEF OpenSink, OpenPulse, Done, Thrown
  <1>4. CASE IsFile(sink)
    <2> DEFINE opened == [sink EXCEPT !.size = @ + HeaderSize, !.counted = 0]
    <2>1. OpenSink(sink) = OpenFile(sink)
      BY <1>4 DEF OpenSink, IsFile
    <2>2. outcome.sink = opened
      BY <1>4, <2>1 DEF OpenFile, Done
    <2>3. opened.open = sink.open /\ opened.kind = sink.kind /\ opened.badUse = sink.badUse
      BY DEF Sink
    <2> HIDE DEF opened
    <2> QED BY <1>4, <2>2, <2>3
  <1> QED BY <1>2, <1>3, <1>4, SinkFields DEF SinkKind, IsFile

LEMMA WriteSinkKeeps ==
    ASSUME NEW sink \in Sink, sink.open
    PROVE  LET w == WriteSink(sink) IN w.open /\ w.kind = sink.kind /\ w.badUse = sink.badUse
PROOF BY DEF WriteSink, Sink

LEMMA CloseSinkKeeps ==
    ASSUME NEW sink \in Sink
    PROVE  CloseSink(sink).kind = sink.kind /\ CloseSink(sink).badUse = sink.badUse
PROOF
  <1>1. CASE sink.open
    BY <1>1 DEF CloseSink, Sink
  <1>2. CASE ~sink.open
    BY <1>2 DEF CloseSink
  <1> QED BY <1>1, <1>2

(* A file is open from its creation on, a device once started() has returned, and either
   until finished() closes it. *)
OpenInv ==
    /\ tpc \in BodyPC \cup {"next"} => audio.open
    /\ tpc \in {"unborn", "started"} /\ IsFile(audio) => audio.open
    /\ ~audio.badUse

LEMMA StartedKeepsOpen ==
    ASSUME TypeInv, OpenInv, tpc \in {"unborn", "started"}, NEW ok \in BOOLEAN, Started(ok)
    PROVE  /\ ~audio'.badUse
           /\ audio'.kind = audio.kind
           /\ audio.open \/ ok => audio'.open
PROOF
  <1>1. PICK outcome \in OpenSink(audio) : outcome.ok = ok /\ audio' = outcome.sink
    BY DEF Started
  <1>2. audio \in Sink /\ ~audio.badUse /\ (IsFile(audio) => audio.open)
    BY DEF TypeInv, TypeOK, OpenInv
  <1> QED BY <1>1, <1>2, OpenSinkKeeps

LEMMA OpenNext == TypeInv /\ LifeInv /\ OpenInv /\ [Next]_vars => OpenInv'
PROOF
  <1> SUFFICES ASSUME TypeInv, LifeInv, OpenInv, [Next]_vars PROVE OpenInv'
    OBVIOUS
  <1>0. tpc \in ThreadPC /\ cpc \in ClientPC /\ audio \in Sink
    BY DEF TypeInv, TypeOK
  <1>u. cpc \in {"preprocess", "enter", "failed"} <=> tpc = "unborn"
    BY DEF LifeInv
  <1> USE <1>0 DEF OpenInv, extent, scan, context, progress, loop, client, history,
        ThreadPC, ClientPC, BodyPC, IsFile
  <1>1. CASE Preprocess
    BY <1>1 DEF Preprocess
  <1>2. CASE PreprocessDone
    BY <1>2 DEF PreprocessDone
  <1>3. CASE Construct
    <2>1. CASE Started(TRUE) /\ tpc' = "started"
      <3>1. ~audio'.badUse /\ audio'.open
        BY <1>3, <2>1, <1>u, StartedKeepsOpen DEF Construct
      <3> QED BY <2>1, <3>1
    <2>2. CASE Started(FALSE) /\ UNCHANGED tpc
      <3>1. ~audio'.badUse /\ audio'.kind = audio.kind /\ (audio.open => audio'.open)
        BY <1>3, <2>2, <1>u, StartedKeepsOpen DEF Construct
      <3> QED BY <1>3, <2>2, <3>1, <1>u DEF Construct
    <2> QED BY <1>3, <2>1, <2>2 DEF Construct
  <1>4. CASE Poll
    BY <1>4 DEF Poll
  <1>5. CASE Stop
    BY <1>5 DEF Stop
  <1>6. CASE StopJoined
    BY <1>6 DEF StopJoined
  <1>7. CASE Wait
    BY <1>7 DEF Wait
  <1>8. CASE WaitJoined
    BY <1>8 DEF WaitJoined
  <1>9. CASE Drop
    BY <1>9 DEF Drop
  <1>10. CASE ThreadStarted
    <2>1. CASE Started(TRUE) /\ tpc' = "next"
      <3>1. ~audio'.badUse /\ audio'.open
        BY <1>10, <2>1, StartedKeepsOpen DEF ThreadStarted
      <3> QED BY <2>1, <3>1
    <2>2. CASE Started(FALSE) /\ tpc' = "finish"
      <3>1. ~audio'.badUse
        BY <1>10, <2>2, StartedKeepsOpen DEF ThreadStarted
      <3> QED BY <2>2, <3>1
    <2> QED BY <1>10, <2>1, <2>2 DEF ThreadStarted
  <1>11. CASE NoMoreNodes
    BY <1>11 DEF NoMoreNodes
  <1>12. CASE BeginNode
    BY <1>12 DEF BeginNode
  <1>13. CASE SkipMedia
    BY <1>13 DEF SkipMedia
  <1>14. CASE OpenMedia
    BY <1>14 DEF OpenMedia
  <1>15. CASE PlayBlock
    <2>1. audio'.open /\ ~audio'.badUse
      BY <1>15, WriteSinkKeeps DEF PlayBlock, WriteAudio
    <2> QED BY <1>15, <2>1 DEF PlayBlock
  <1>16. CASE MediaDone
    BY <1>16 DEF MediaDone
  <1>17. CASE SpeakText
    BY <1>17 DEF SpeakText
  <1>18. CASE SkipText
    BY <1>18 DEF SkipText
  <1>19. CASE Callback
    BY <1>19 DEF Callback
  <1>20. CASE Deliver
    <2>1. audio'.open /\ ~audio'.badUse
      BY <1>20, WriteSinkKeeps DEF Deliver, WriteAudio
    <2> QED BY <1>20, <2>1 DEF Deliver
  <1>21. CASE SpeakDone
    BY <1>21 DEF SpeakDone
  <1>22. CASE Throw
    BY <1>22 DEF Throw
  <1>23. CASE ProgressOffset
    BY <1>23 DEF ProgressOffset
  <1>24. CASE Progress
    BY <1>24 DEF Progress
  <1>25. CASE UpdateContext
    BY <1>25 DEF UpdateContext
  <1>26. CASE CheckState
    BY <1>26 DEF CheckState
  <1>27. CASE CloseAudio
    <2>1. ~audio'.badUse
      BY <1>27, CloseSinkKeeps DEF CloseAudio
    <2> QED BY <1>27, <2>1 DEF CloseAudio
  <1>28. CASE Finished
    BY <1>28 DEF Finished
  <1>29. CASE UNCHANGED vars
    BY <1>29 DEF vars
  <1> QED
    BY <1>1, <1>2, <1>3, <1>4, <1>5, <1>6, <1>7, <1>8, <1>9, <1>10, <1>11, <1>12, <1>13, <1>14, <1>15, <1>16, <1>17, <1>18, <1>19, <1>20, <1>21, <1>22, <1>23, <1>24, <1>25, <1>26, <1>27, <1>28, <1>29 DEF Next, Client, Constructor, Joined, Thread

(* The thread and its engine write to the sink only between its opening and its closing,
   and nobody opens a file that is closed, for every session and every client. *)
THEOREM SinkIsUsedWhileOpen == Spec => []SinkUsedWhileOpen
PROOF
  <1>1. Init => OpenInv
    <2> SUFFICES ASSUME Init PROVE OpenInv
      OBVIOUS
    <2>1. /\ audio.badUse = FALSE /\ audio.open = (args.sink # "alsa") /\ audio.kind = args.sink
          /\ tpc = "unborn"
      BY DEF Init, NewSink
    <2> QED BY <2>1 DEF OpenInv, IsFile, BodyPC
  <1>2. OpenInv => SinkUsedWhileOpen
    BY DEF OpenInv, SinkUsedWhileOpen
  <1>3. Init => LifeInv
    BY DEF Init, LifeInv
  <1> QED BY <1>1, <1>2, <1>3, TypeInit, TypeNext, LifeNext, OpenNext, PTL DEF Spec

-----------------------------------------------------------------------------
(* Stopping speech. *)

(* Nothing is written after a stop but by the callback that looked at the state before. *)
LateInv ==
    /\ tpc # "play"
    /\ speechState = "speaking" \/ tpc = "deliver" => late = 0
    /\ late <= 1

LEMMA LateNext ==
    ASSUME \A s \in Sessions : s.mode = "tts_only" \/ ~s.player
    PROVE  TypeInv /\ LateInv /\ [Next]_vars => LateInv'
PROOF
  <1> SUFFICES ASSUME TypeInv, LateInv, [Next]_vars PROVE LateInv'
    OBVIOUS
  <1>0. /\ tpc \in ThreadPC /\ speechState \in {"speaking", "stopped"} /\ late \in Nat
        /\ args.mode = "tts_only" \/ ~args.player
    BY DEF TypeInv, TypeOK
  <1> USE <1>0 DEF LateInv, extent, scan, context, progress, loop, client, history, ThreadPC
  <1>1. CASE Preprocess
    BY <1>1 DEF Preprocess
  <1>2. CASE PreprocessDone
    BY <1>2 DEF PreprocessDone
  <1>3. CASE Construct
    BY <1>3 DEF Construct
  <1>4. CASE Poll
    BY <1>4 DEF Poll
  <1>5. CASE Stop
    BY <1>5 DEF Stop
  <1>6. CASE StopJoined
    BY <1>6 DEF StopJoined
  <1>7. CASE Wait
    BY <1>7 DEF Wait
  <1>8. CASE WaitJoined
    BY <1>8 DEF WaitJoined
  <1>9. CASE Drop
    BY <1>9 DEF Drop
  <1>10. CASE ThreadStarted
    BY <1>10 DEF ThreadStarted
  <1>11. CASE NoMoreNodes
    BY <1>11 DEF NoMoreNodes
  <1>12. CASE BeginNode
    BY <1>12 DEF BeginNode
  <1>13. CASE SkipMedia
    BY <1>13 DEF SkipMedia
  <1>14. CASE OpenMedia
    BY <1>14 DEF OpenMedia, PlaysMedia
  <1>15. CASE PlayBlock
    BY <1>15 DEF PlayBlock
  <1>16. CASE MediaDone
    BY <1>16 DEF MediaDone
  <1>17. CASE SpeakText
    BY <1>17 DEF SpeakText
  <1>18. CASE SkipText
    BY <1>18 DEF SkipText
  <1>19. CASE Callback
    BY <1>19 DEF Callback, MayContinue
  <1>20. CASE Deliver
    BY <1>20 DEF Deliver, WriteAudio
  <1>21. CASE SpeakDone
    BY <1>21 DEF SpeakDone
  <1>22. CASE Throw
    BY <1>22 DEF Throw
  <1>23. CASE ProgressOffset
    BY <1>23 DEF ProgressOffset
  <1>24. CASE Progress
    BY <1>24 DEF Progress
  <1>25. CASE UpdateContext
    BY <1>25 DEF UpdateContext
  <1>26. CASE CheckState
    BY <1>26 DEF CheckState
  <1>27. CASE CloseAudio
    BY <1>27 DEF CloseAudio
  <1>28. CASE Finished
    BY <1>28 DEF Finished
  <1>29. CASE UNCHANGED vars
    BY <1>29 DEF vars
  <1> QED
    BY <1>1, <1>2, <1>3, <1>4, <1>5, <1>6, <1>7, <1>8, <1>9, <1>10, <1>11, <1>12, <1>13, <1>14, <1>15, <1>16, <1>17, <1>18, <1>19, <1>20, <1>21, <1>22, <1>23, <1>24, <1>25, <1>26, <1>27, <1>28, <1>29 DEF Next, Client, Constructor, Joined, Thread

(* When no media overlay is played, stop() lets at most one more buffer of audio through,
   however the two threads interleave. *)
THEOREM SpeechStopsAtOnce ==
    ASSUME \A s \in Sessions : s.mode = "tts_only" \/ ~s.player
    PROVE  Spec => []StopIsImmediate
PROOF
  <1>1. Init => LateInv
    BY DEF Init, LateInv
  <1>2. LateInv => StopIsImmediate
    BY DEF LateInv, StopIsImmediate
  <1> QED BY <1>1, <1>2, TypeInit, TypeNext, LateNext, PTL DEF Spec
-----------------------------------------------------------------------------
(* Media overlays beside speech: the depth that the thread remembers tells whether the context
   of a media item is open. *)

LEMMA RangeBounds ==
    ASSUME NEW s \in Sessions
    PROVE  s.from \in Nat /\ s.to \in Nat /\ s.from >= 1 /\ s.from <= s.to
PROOF
  <1>1. s \in Arguments /\ InDocument(s)
    BY SessionAssumption
  <1>2. s.from \in Nat /\ s.to \in Nat /\ Len(s.doc) \in Nat
    BY <1>1 DEF Arguments
  <1> QED BY <1>1, <1>2 DEF InDocument

(* How many items of a type there are up to n is one more at an item of it. *)
Marked(s, t, q) == {i \in s.from .. q : Has(s.doc, i, t)}

LEMMA MarkedNext ==
    ASSUME NEW s \in Sessions, NEW t, NEW n \in Nat, s.from <= n
    PROVE  /\ Cardinality(Marked(s, t, n)) \in Nat
           /\ Cardinality(Marked(s, t, n - 1)) \in Nat
           /\ Cardinality(Marked(s, t, n)) =
                  Cardinality(Marked(s, t, n - 1)) + IF Has(s.doc, n, t) THEN 1 ELSE 0
PROOF
  <1>0. s.from \in Nat
    BY RangeBounds
  <1>1. IsFiniteSet(s.from .. n - 1)
    BY <1>0, FS_Interval
  <1>2. Marked(s, t, n - 1) \subseteq s.from .. n - 1
    BY DEF Marked
  <1>3. IsFiniteSet(Marked(s, t, n - 1)) /\ Cardinality(Marked(s, t, n - 1)) \in Nat
    BY <1>1, <1>2, FS_Subset, FS_CardinalityType
  <1>4. n \notin Marked(s, t, n - 1)
    BY <1>0 DEF Marked
  <1>5. CASE Has(s.doc, n, t)
    <2>1. Marked(s, t, n) = Marked(s, t, n - 1) \cup {n}
      BY <1>0, <1>5 DEF Marked
    <2>2. Cardinality(Marked(s, t, n)) = Cardinality(Marked(s, t, n - 1)) + 1
      BY <1>3, <1>4, <2>1, FS_AddElement
    <2> QED BY <1>3, <1>5, <2>2
  <1>6. CASE ~Has(s.doc, n, t)
    <2>1. Marked(s, t, n) = Marked(s, t, n - 1)
      BY <1>0, <1>6 DEF Marked
    <2> QED BY <1>3, <1>6, <2>1
  <1> QED BY <1>5, <1>6

LEMMA DepthNext ==
    ASSUME NEW s \in Sessions, NEW n \in Nat, s.from <= n
    PROVE  /\ DepthAt(s, n) \in Int /\ DepthAt(s, n - 1) \in Int
           /\ DepthAt(s, n) = DepthAt(s, n - 1)
                                  + (IF Has(s.doc, n, "begin_context") THEN 1 ELSE 0)
                                  - (IF Has(s.doc, n, "end_context") THEN 1 ELSE 0)
PROOF
  <1>1. \A q : DepthAt(s, q) = Cardinality(Marked(s, "begin_context", q)) - Cardinality(Marked(s, "end_context", q))
    BY DEF DepthAt, Marked
  <1> DEFINE b == Cardinality(Marked(s, "begin_context", n - 1))
             e == Cardinality(Marked(s, "end_context", n - 1))
             db == IF Has(s.doc, n, "begin_context") THEN 1 ELSE 0
             de == IF Has(s.doc, n, "end_context") THEN 1 ELSE 0
  <1>2. b \in Nat /\ Cardinality(Marked(s, "begin_context", n)) = b + db
    BY MarkedNext
  <1>3. e \in Nat /\ Cardinality(Marked(s, "end_context", n)) = e + de
    BY MarkedNext
  <1>4. db \in Int /\ de \in Int
    OBVIOUS
  <1>5. DepthAt(s, n) = (b + db) - (e + de) /\ DepthAt(s, n - 1) = b - e
    BY <1>1, <1>2, <1>3
  <1> HIDE DEF b, e, db, de
  <1>6. DepthAt(s, n) = DepthAt(s, n - 1) + db - de /\ DepthAt(s, n) \in Int /\ DepthAt(s, n - 1) \in Int
    BY <1>2, <1>3, <1>4, <1>5
  <1> QED BY <1>6 DEF db, de

LEMMA DepthAtStart == ASSUME NEW s \in Sessions PROVE DepthAt(s, s.from - 1) = 0
PROOF
  <1>1. \A t : {i \in s.from .. s.from - 1 : Has(s.doc, i, t)} = {}
    BY RangeBounds
  <1> QED BY <1>1, FS_EmptySet DEF DepthAt

(* The depth that the thread has, of the overlays before b when it is at q. *)
Remembers(s, b, q, mod) ==
    /\ mod = -1 => \A m \in Overlays(s) : m < b => ~Covers(s, m, q)
    /\ mod # -1 =>
           /\ \E m \in Overlays(s) : m < b /\ Covers(s, m, q)
           /\ \A m \in Overlays(s) : m < b /\ Covers(s, m, q) => DepthAt(s, m) = mod

(* A context stays open at the next item unless that goes below it. *)
LEMMA CoversNext ==
    ASSUME NEW s \in Sessions, NEW n \in Nat, NEW m \in Overlays(s), m < n
    PROVE  /\ Covers(s, m, n) <=> (Covers(s, m, n - 1) /\ DepthAt(s, n) >= DepthAt(s, m))
           /\ Covers(s, m, n - 1) => DepthAt(s, n - 1) >= DepthAt(s, m)
           /\ DepthAt(s, m) \in Int /\ s.from <= m
PROOF
  <1>1. m \in Nat /\ s.from <= m /\ s.from \in Nat
    BY RangeBounds DEF Overlays
  <1>2. \A r : r \in m + 1 .. n <=> (r \in m + 1 .. n - 1 \/ r = n)
    BY <1>1
  <1>3. DepthAt(s, m) \in Int
    BY <1>1, DepthNext
  <1>4. CASE m = n - 1
    BY <1>1, <1>2, <1>3, <1>4 DEF Covers
  <1>5. CASE m # n - 1
    <2>1. n - 1 \in m + 1 .. n - 1
      BY <1>1, <1>5
    <2> QED BY <1>1, <1>2, <1>3, <2>1 DEF Covers
  <1> QED BY <1>4, <1>5

(* The head of the loop body, where the contexts of an item begin and end. *)
LEMMA RemembersAtItem ==
    ASSUME NEW s \in Sessions, NEW n \in Nat, s.from <= n, NEW mod \in Int, Remembers(s, n, n - 1, mod),
           NEW began \in {0, 1}, began = IF Has(s.doc, n, "begin_context") THEN 1 ELSE 0
    PROVE  IF Has(s.doc, n, "end_context")
           THEN /\ DepthAt(s, n) = DepthAt(s, n - 1) + began - 1
                /\ Remembers(s, n, n, IF DepthAt(s, n - 1) + began = mod THEN -1 ELSE mod)
           ELSE /\ DepthAt(s, n) = DepthAt(s, n - 1) + began
                /\ Remembers(s, n, n, mod)
PROOF
  <1>1. DepthAt(s, n) \in Int /\ DepthAt(s, n - 1) \in Int
    BY DepthNext
  <1>2. \A m \in Overlays(s) : m < n =>
            /\ Covers(s, m, n) <=> (Covers(s, m, n - 1) /\ DepthAt(s, n) >= DepthAt(s, m))
            /\ Covers(s, m, n - 1) => DepthAt(s, n - 1) >= DepthAt(s, m)
            /\ DepthAt(s, m) \in Int
    BY CoversNext
  <1>3. CASE Has(s.doc, n, "end_context")
    <2>1. DepthAt(s, n) = DepthAt(s, n - 1) + began - 1
      BY <1>1, <1>3, DepthNext
    <2>2. CASE mod = -1
      <3>1. (IF DepthAt(s, n - 1) + began = mod THEN -1 ELSE mod) = -1
        BY <2>2
      <3>2. \A m \in Overlays(s) : m < n => ~Covers(s, m, n)
        BY <1>2, <2>2 DEF Remembers
      <3>3. Remembers(s, n, n, -1)
        BY <3>2 DEF Remembers
      <3> QED BY <1>3, <2>1, <3>1, <3>3
    <2>3. CASE mod # -1 /\ DepthAt(s, n - 1) + began = mod
      <3>1. \A m \in Overlays(s) : m < n => ~Covers(s, m, n)
        BY <1>1, <1>2, <2>1, <2>3 DEF Remembers
      <3> QED BY <1>3, <2>1, <2>3, <3>1 DEF Remembers
    <2>4. CASE mod # -1 /\ DepthAt(s, n - 1) + began # mod
      <3>1. ASSUME NEW m \in Overlays(s), m < n, Covers(s, m, n - 1)
            PROVE  Covers(s, m, n) /\ DepthAt(s, m) = mod
        <4>1. DepthAt(s, m) = mod /\ DepthAt(s, n - 1) >= mod
          BY <1>2, <2>4, <3>1 DEF Remembers
        <4>2. DepthAt(s, n) >= mod
          BY <1>1, <2>1, <2>4, <4>1
        <4> QED BY <1>2, <3>1, <4>1, <4>2
      <3>2. \A m \in Overlays(s) : m < n /\ Covers(s, m, n) => Covers(s, m, n - 1)
        BY <1>2
      <3> QED BY <1>3, <2>1, <2>4, <3>1, <3>2 DEF Remembers
    <2> QED BY <1>3, <2>1, <2>2, <2>3, <2>4
  <1>4. CASE ~Has(s.doc, n, "end_context")
    <2>1. DepthAt(s, n) = DepthAt(s, n - 1) + began
      BY <1>1, <1>4, DepthNext
    <2>2. DepthAt(s, n) >= DepthAt(s, n - 1)
      BY <1>1, <2>1
    <2>3. \A m \in Overlays(s) : m < n => (Covers(s, m, n) <=> Covers(s, m, n - 1))
      BY <1>1, <1>2, <2>2
    <2> QED BY <1>4, <2>1, <2>3 DEF Remembers
  <1> QED BY <1>3, <1>4

(* A media item that was played is the overlay from here on. *)
LEMMA RemembersMedia ==
    ASSUME NEW s \in Sessions, s.mode = "tts_and_media_overlays", s.player, OverlaysApart(s),
           NEW n \in Overlays(s)
    PROVE  Remembers(s, n + 1, n, DepthAt(s, n))
PROOF
  <1>1. n \in Nat
    BY RangeBounds DEF Overlays
  <1>2. Covers(s, n, n)
    BY <1>1 DEF Covers
  <1>3. DepthAt(s, n) # -1
    BY DEF OverlaysApart
  <1>4. \A m \in Overlays(s) : m < n + 1 /\ Covers(s, m, n) => DepthAt(s, m) = DepthAt(s, n)
    <2> SUFFICES ASSUME NEW m \in Overlays(s), m < n + 1, Covers(s, m, n)
                 PROVE  DepthAt(s, m) = DepthAt(s, n)
      OBVIOUS
    <2>1. m \in Nat
      BY RangeBounds DEF Overlays
    <2>2. CASE m = n
      BY <2>2
    <2>3. CASE m < n
      BY <2>3 DEF OverlaysApart
    <2> QED BY <1>1, <2>1, <2>2, <2>3
  <1>5. n < n + 1
    BY <1>1
  <1> QED BY <1>2, <1>3, <1>4, <1>5 DEF Remembers

LEMMA RemembersOther ==
    ASSUME NEW s \in Sessions, NEW n \in Nat, n \notin Overlays(s), NEW mod, Remembers(s, n, n, mod)
    PROVE  Remembers(s, n + 1, n, mod)
PROOF
  <1>1. \A m \in Overlays(s) : m < n + 1 <=> m < n
    BY RangeBounds DEF Overlays
  <1> QED BY <1>1 DEF Remembers

(* The turns of the loop before an item's contexts, before its media, and behind them. *)
AtHead == {"unborn", "started", "next"}
AtMedia == {"media", "play"}
AtBody == {"text", "speak", "deliver", "offset", "progress", "anchor", "check"}

(* How deep the thread is in its loop, and what it remembers there. *)
OverlayInv ==
    args.mode = "tts_and_media_overlays" =>
        /\ ~args.player => mediaOverlayDepth = -1
        /\ tpc = "play" => PlaysMedia
        /\ args.player =>
               /\ tpc \in AtHead =>
                      /\ depth = DepthAt(args, node - 1)
                      /\ Remembers(args, node, node - 1, mediaOverlayDepth)
               /\ tpc \in AtMedia =>
                      /\ depth = DepthAt(args, node)
                      /\ Remembers(args, node, node, mediaOverlayDepth)
               /\ tpc \in AtBody =>
                      /\ depth = DepthAt(args, node)
                      /\ Remembers(args, node + 1, node, mediaOverlayDepth)

LEMMA OverlayInit == TypeInv /\ Init => OverlayInv
PROOF
  <1> SUFFICES ASSUME TypeInv, Init PROVE OverlayInv
    OBVIOUS
  <1>1. args \in Sessions
    BY DEF TypeInv, TypeOK
  <1>2. node = args.from /\ depth = 0 /\ mediaOverlayDepth = -1 /\ tpc = "unborn"
    BY DEF Init
  <1>3. DepthAt(args, args.from - 1) = 0
    BY <1>1, DepthAtStart
  <1>4. \A m \in Overlays(args) : ~(m < args.from)
    BY <1>1, RangeBounds DEF Overlays
  <1>5. Remembers(args, args.from, args.from - 1, -1)
    BY <1>4 DEF Remembers
  <1> QED BY <1>2, <1>3, <1>5 DEF OverlayInv, AtHead, AtMedia, AtBody

(* The steps that leave the depths alone. *)
LEMMA OverlayKept ==
    ASSUME OverlayInv, UNCHANGED <<args, node, depth, mediaOverlayDepth>>,
           tpc' \in AtHead => tpc \in AtHead,
           tpc' \in AtMedia => tpc \in AtMedia,
           tpc' \in AtBody => tpc \in AtBody,
           tpc' = "play" => tpc = "play" \/ PlaysMedia
    PROVE  OverlayInv'
PROOF
  <1>1. PlaysMedia' = PlaysMedia
    BY DEF PlaysMedia, Has, doc
  <1> QED BY <1>1 DEF OverlayInv

LEMMA OverlayNext ==
    ASSUME \A s \in Sessions : OverlaysApart(s),
           TypeInv, LifeInv, OverlayInv, [Next]_vars
    PROVE  OverlayInv'
PROOF
  <1>0. /\ args \in Sessions /\ tpc \in ThreadPC /\ depth \in Int /\ mediaOverlayDepth \in Int
        /\ node \in Nat /\ args.from <= node /\ args.to \in Nat /\ node <= args.to
    <2>1. args \in Sessions /\ tpc \in ThreadPC /\ depth \in Int /\ mediaOverlayDepth \in Int
      BY DEF TypeInv, TypeOK
    <2>2. node \in args.from .. args.to
      BY DEF TypeInv, LoopInv
    <2> QED BY <2>1, <2>2, RangeBounds
  <1>l. cpc \in {"preprocess", "enter", "failed"} <=> tpc = "unborn"
    BY DEF LifeInv
  <1>k. ASSUME UNCHANGED <<args, node, depth, mediaOverlayDepth>>,
               tpc' \in AtHead => tpc \in AtHead,
               tpc' \in AtMedia => tpc \in AtMedia,
               tpc' \in AtBody => tpc \in AtBody,
               tpc' = "play" => tpc = "play" \/ PlaysMedia
        PROVE  OverlayInv'
    BY <1>k, OverlayKept
  <1> USE DEF AtHead, AtMedia, AtBody, extent, scan, context, progress, loop, client, history, ThreadPC
  <1>1. CASE Client \/ Constructor \/ Joined
    <2>1. UNCHANGED <<args, node, depth, mediaOverlayDepth>>
      BY <1>1 DEF Client, Constructor, Joined, Preprocess, PreprocessDone, Construct, Poll, Stop, StopJoined,
                  Wait, WaitJoined, Drop
    <2>2. tpc' = tpc \/ (tpc = "unborn" /\ tpc' = "started")
      BY <1>1, <1>l DEF Client, Constructor, Joined, Preprocess, PreprocessDone, Construct, Poll, Stop,
                  StopJoined, Wait, WaitJoined, Drop
    <2> QED BY <2>1, <2>2, <1>k
  <1>2. CASE ThreadStarted \/ NoMoreNodes \/ OpenMedia \/ PlayBlock \/ Throw \/ CloseAudio \/ Finished
    <2>1. UNCHANGED <<args, node, depth, mediaOverlayDepth>>
      BY <1>2 DEF ThreadStarted, NoMoreNodes, OpenMedia, PlayBlock, Throw, CloseAudio, Finished
    <2>2. \/ tpc' = tpc \/ (tpc = "started" /\ tpc' = "next") \/ tpc' \in {"finish", "closed", "done"}
          \/ tpc = "media" /\ tpc' = "play" /\ PlaysMedia
      BY <1>2 DEF ThreadStarted, NoMoreNodes, OpenMedia, PlayBlock, Throw, CloseAudio, Finished
    <2> QED BY <2>1, <2>2, <1>k
  <1>3. CASE SpeakText \/ SkipText \/ Callback \/ Deliver \/ SpeakDone \/ ProgressOffset \/ Progress \/ UpdateContext
    <2>1. UNCHANGED <<args, node, depth, mediaOverlayDepth>>
      BY <1>3 DEF SpeakText, SkipText, Callback, Deliver, SpeakDone, ProgressOffset, Progress, UpdateContext
    <2>2. tpc \in AtBody /\ tpc' \in AtBody
      BY <1>3 DEF SpeakText, SkipText, Callback, Deliver, SpeakDone, ProgressOffset, Progress, UpdateContext
    <2> QED BY <2>1, <2>2, <1>k
  <1>4. CASE BeginNode
    <2>1. tpc = "next" /\ tpc' = "media" /\ node' = node /\ args' = args
      BY <1>4 DEF BeginNode
    <2>2. CASE args.mode = "tts_and_media_overlays" /\ args.player
      <3>1. depth = DepthAt(args, node - 1) /\ Remembers(args, node, node - 1, mediaOverlayDepth)
        BY <2>1, <2>2 DEF OverlayInv
      <3>2. Begins \in {0, 1} /\ Begins = IF Has(args.doc, node, "begin_context") THEN 1 ELSE 0
        BY DEF Begins, doc
      <3> HIDE DEF Begins
      <3>3. CASE Has(args.doc, node, "end_context")
        <4>1. /\ DepthAt(args, node) = depth + Begins - 1
              /\ Remembers(args, node, node, IF depth + Begins = mediaOverlayDepth THEN -1 ELSE mediaOverlayDepth)
          BY <1>0, <3>1, <3>2, <3>3, RemembersAtItem
        <4>2. /\ depth' = depth + Begins - 1
              /\ mediaOverlayDepth' = IF depth + Begins = mediaOverlayDepth THEN -1 ELSE mediaOverlayDepth
          BY <1>4, <3>3 DEF BeginNode, doc
        <4>3. depth' = DepthAt(args, node) /\ Remembers(args, node, node, mediaOverlayDepth')
          BY <4>1, <4>2
        <4> QED BY <2>1, <2>2, <4>3 DEF OverlayInv
      <3>4. CASE ~Has(args.doc, node, "end_context")
        <4>1. /\ DepthAt(args, node) = depth + Begins
              /\ Remembers(args, node, node, mediaOverlayDepth)
          BY <1>0, <3>1, <3>2, <3>4, RemembersAtItem
        <4>2. depth' = depth + Begins /\ mediaOverlayDepth' = mediaOverlayDepth
          BY <1>4, <3>4 DEF BeginNode, doc
        <4>3. depth' = DepthAt(args, node) /\ Remembers(args, node, node, mediaOverlayDepth')
          BY <4>1, <4>2
        <4> QED BY <2>1, <2>2, <4>3 DEF OverlayInv
      <3> QED BY <3>3, <3>4
    <2>3. CASE args.mode = "tts_and_media_overlays" /\ ~args.player
      <3>1. mediaOverlayDepth = -1
        BY <2>3 DEF OverlayInv
      <3>2. mediaOverlayDepth' = -1
        BY <1>4, <3>1 DEF BeginNode
      <3> QED BY <2>1, <2>3, <3>2 DEF OverlayInv
    <2>4. CASE args.mode # "tts_and_media_overlays"
      BY <2>1, <2>4 DEF OverlayInv
    <2> QED BY <2>2, <2>3, <2>4
  <1>5. CASE SkipMedia
    <2>1. tpc = "media" /\ tpc' = "text" /\ UNCHANGED <<args, node, depth, mediaOverlayDepth>> /\ ~PlaysMedia
      BY <1>5 DEF SkipMedia
    <2>2. CASE args.mode = "tts_and_media_overlays" /\ args.player
      <3>1. depth = DepthAt(args, node) /\ Remembers(args, node, node, mediaOverlayDepth)
        BY <2>1, <2>2 DEF OverlayInv
      <3>2. node \notin Overlays(args)
        BY <2>1, <2>2 DEF PlaysMedia, Overlays, doc
      <3>3. Remembers(args, node + 1, node, mediaOverlayDepth)
        BY <1>0, <3>1, <3>2, RemembersOther
      <3> QED BY <2>1, <2>2, <3>1, <3>3 DEF OverlayInv
    <2>3. CASE ~(args.mode = "tts_and_media_overlays" /\ args.player)
      BY <2>1, <2>3 DEF OverlayInv
    <2> QED BY <2>2, <2>3
  <1>6. CASE MediaDone
    <2>1. tpc = "play" /\ tpc' = "text" /\ UNCHANGED <<args, node, depth>> /\ mediaOverlayDepth' = depth
      BY <1>6 DEF MediaDone
    <2>2. CASE args.mode = "tts_and_media_overlays"
      <3>1. PlaysMedia /\ args.player
        BY <2>1, <2>2 DEF OverlayInv, PlaysMedia
      <3>2. depth = DepthAt(args, node)
        BY <2>1, <2>2, <3>1 DEF OverlayInv
      <3>3. node \in Overlays(args)
        <4>1. node # args.to
          BY <2>1 DEF TypeInv, LoopInv, BodyPC
        <4>2. node \in args.from .. args.to - 1
          BY <1>0, <4>1, RangeBounds
        <4> QED BY <3>1, <4>2 DEF PlaysMedia, Overlays, doc
      <3>4. Remembers(args, node + 1, node, DepthAt(args, node))
        BY <1>0, <2>2, <3>1, <3>3, RemembersMedia
      <3> QED BY <2>1, <2>2, <3>1, <3>2, <3>4 DEF OverlayInv
    <2>3. CASE args.mode # "tts_and_media_overlays"
      BY <2>1, <2>3 DEF OverlayInv
    <2> QED BY <2>2, <2>3
  <1>7. CASE CheckState
    <2>1. tpc = "check" /\ UNCHANGED <<args, depth, mediaOverlayDepth>>
      BY <1>7 DEF CheckState
    <2>2. CASE tpc' = "finish"
      BY <2>1, <2>2 DEF OverlayInv
    <2>3. CASE tpc' = "next" /\ node' = node + 1
      <3>1. node' - 1 = node
        BY <1>0, <2>3
      <3> QED BY <2>1, <2>3, <3>1 DEF OverlayInv
    <2> QED BY <1>7, <2>2, <2>3 DEF CheckState
  <1>8. CASE UNCHANGED vars
    <2>1. UNCHANGED <<args, node, depth, mediaOverlayDepth, tpc>>
      BY <1>8 DEF vars
    <2> QED BY <2>1, <1>k
  <1> QED
    BY <1>1, <1>2, <1>3, <1>4, <1>5, <1>6, <1>7, <1>8 DEF Next, Thread

(* Which texts are read. *)

(* The places at which a text of this turn has not been begun yet, and those behind. *)
Before == {"unborn", "started", "next", "media", "play", "text"}
Behind == {"speak", "deliver", "offset", "progress", "anchor", "check"}

(* What was spoken lies before the node, or at it once the turn has got that far; what lies
   before it and is to be spoken was; and the loop ends at the end of the range. *)
RangeInv ==
    /\ \A i, j \in 1 .. Len(spoken) : i < j => spoken[i] < spoken[j]
    /\ \A i \in 1 .. Len(spoken) :
          spoken[i] \in Texts /\ spoken[i] <= node /\ (tpc \in Before => spoken[i] < node)
    /\ \A p \in Texts : p < node \/ (p = node /\ tpc \in Behind) =>
          \E i \in 1 .. Len(spoken) : spoken[i] = p
    /\ tpc \in {"finish", "closed"} /\ ~mErrorMessage /\ speechState = "speaking" => node = args.to

(* The contexts that are open since m are those of the depth at m and after it. *)
LEMMA OpenIsDeeper ==
    ASSUME TypeInv, NEW m \in Nat, args.from <= m, NEW q \in Nat, m <= q
    PROVE  OpenSince(m, q) = DepthAt(args, q) - DepthAt(args, m)
PROOF
  <1>0. args \in Sessions /\ args.from \in Nat
    BY RangeBounds DEF TypeInv, TypeOK
  <1>1. ASSUME NEW t
        PROVE  /\ Cardinality(Marked(args, t, q)) = Cardinality(Marked(args, t, m)) + CountOf(t, m, q)
               /\ Cardinality(Marked(args, t, m)) \in Nat /\ CountOf(t, m, q) \in Nat
    <2> DEFINE After == {i \in m + 1 .. q : Has(doc, i, t)}
    <2>0. args.from \in Int /\ m \in Int /\ m + 1 \in Int /\ q \in Int
      BY <1>0
    <2> DEFINE beyond == m + 1
    <2>a. IsFiniteSet(args.from .. m)
      BY <2>0, FS_Interval
    <2>b. beyond \in Int
      BY <2>0
    <2> HIDE DEF beyond
    <2>c. IsFiniteSet(beyond .. q)
      BY <2>0, <2>b, FS_Interval
    <2>1. IsFiniteSet(args.from .. m) /\ IsFiniteSet(m + 1 .. q)
      BY <2>a, <2>c DEF beyond
    <2>2. Marked(args, t, m) \subseteq args.from .. m /\ After \subseteq m + 1 .. q
      BY DEF Marked
    <2>3. IsFiniteSet(Marked(args, t, m)) /\ IsFiniteSet(After)
      BY <2>1, <2>2, FS_Subset
    <2>4. Marked(args, t, q) = Marked(args, t, m) \cup After
      BY <1>0 DEF Marked, doc
    <2>5. Marked(args, t, m) \cap After = {}
      BY <1>0 DEF Marked
    <2>6. CountOf(t, m, q) = Cardinality(After)
      BY DEF CountOf
    <2> HIDE DEF After
    <2>7. Cardinality(Marked(args, t, m)) \in Nat /\ Cardinality(After) \in Nat
      BY <2>3, FS_CardinalityType
    <2>8. Cardinality(Marked(args, t, q)) = Cardinality(Marked(args, t, m)) + Cardinality(After) - Cardinality({})
      BY <2>3, <2>4, <2>5, FS_Union
    <2> QED BY <2>6, <2>7, <2>8, FS_EmptySet
  <1>2. \A r : DepthAt(args, r) =
            Cardinality(Marked(args, "begin_context", r)) - Cardinality(Marked(args, "end_context", r))
    BY DEF DepthAt, Marked
  <1> DEFINE bm == Cardinality(Marked(args, "begin_context", m))
             em == Cardinality(Marked(args, "end_context", m))
             bs == CountOf("begin_context", m, q)
             es == CountOf("end_context", m, q)
  <1>3. /\ bm \in Nat /\ em \in Nat /\ bs \in Nat /\ es \in Nat
        /\ DepthAt(args, q) = (bm + bs) - (em + es) /\ DepthAt(args, m) = bm - em
    BY <1>1, <1>2
  <1>4. OpenSince(m, q) = bs - es
    BY DEF OpenSince
  <1> HIDE DEF bm, em, bs, es
  <1> QED BY <1>3, <1>4

(* The thread remembers an overlay at a text exactly when one narrates it. *)
LEMMA RemembersNarrated ==
    ASSUME TypeInv, \A s \in Sessions : OverlaysApart(s),
           args.mode = "tts_and_media_overlays", args.player,
           node \in args.from .. args.to - 1, TextAt(doc, node),
           Remembers(args, node + 1, node, mediaOverlayDepth)
    PROVE  Narrated(node) <=> mediaOverlayDepth # -1
PROOF
  <1>0. /\ args \in Sessions /\ args.from \in Nat /\ args.to \in Nat /\ node \in Nat
        /\ mediaOverlayDepth \in Int
    <2>1. args \in Sessions /\ mediaOverlayDepth \in Int
      BY DEF TypeInv, TypeOK
    <2>2. args.from \in Nat /\ args.to \in Nat
      BY <2>1, RangeBounds
    <2> QED BY <2>1, <2>2
  <1>1. ASSUME NEW m \in Overlays(args), m < node
        PROVE  (\A q \in m + 1 .. node : OpenSince(m, q) >= 0) <=> Covers(args, m, node)
    <2>1. m \in Nat /\ args.from <= m
      BY <1>0 DEF Overlays
    <2>2. ASSUME NEW q \in m + 1 .. node
          PROVE  OpenSince(m, q) >= 0 <=> DepthAt(args, q) >= DepthAt(args, m)
      <3>1. q \in Nat /\ m <= q /\ args.from <= q
        BY <1>0, <2>1
      <3>2. OpenSince(m, q) = DepthAt(args, q) - DepthAt(args, m)
        BY <2>1, <3>1, OpenIsDeeper
      <3>3. DepthAt(args, q) \in Int /\ DepthAt(args, m) \in Int
        BY <1>0, <2>1, <3>1, DepthNext
      <3> QED BY <3>2, <3>3
    <2> QED BY <2>2 DEF Covers
  <1>2. \A m : m \in Overlays(args) <=> m \in Readable /\ Has(doc, m, "media_ref")
    BY DEF Overlays, Readable, doc
  <1>3. Narrated(node) <=> \E m \in Overlays(args) : m < node /\ Covers(args, m, node)
    BY <1>1, <1>2 DEF Narrated
  <1>4. \A m \in Overlays(args) : m < node + 1 <=> m < node
    <2>1. \A m \in Overlays(args) : m # node /\ m \in Nat
      BY <1>0 DEF OverlaysApart, Overlays, doc
    <2> QED BY <1>0, <2>1
  <1> QED BY <1>3, <1>4 DEF Remembers

(* A text of the range is spoken in its turn exactly when its mode says so. *)
LEMMA SpeaksWanted ==
    ASSUME TypeInv, OverlayInv, \A s \in Sessions : OverlaysApart(s), tpc = "text"
    PROVE  node \in Texts <=> TextAt(doc, node) /\ Speaks
PROOF
  <1>1. node \in Readable
    <2>1. node \in args.from .. args.to /\ node # args.to /\ args.from \in Nat /\ args.to \in Nat
      BY SessionFacts DEF TypeInv, LoopInv, BodyPC
    <2> QED BY <2>1 DEF Readable
  <1>2. args.mode \in Mode
    BY SessionFacts DEF TypeInv, Arguments
  <1>3. CASE args.mode = "tts_only"
    BY <1>1, <1>3 DEF Texts, ToBeSpoken, Speaks
  <1>4. CASE args.mode = "media_overlays_only"
    BY <1>1, <1>4 DEF Texts, ToBeSpoken, Speaks
  <1>5. CASE args.mode = "tts_and_media_overlays" /\ ~args.player
    <2>1. mediaOverlayDepth = -1
      BY <1>5 DEF OverlayInv
    <2>2. ~Narrated(node)
      BY <1>5 DEF Narrated
    <2> QED BY <1>1, <1>5, <2>1, <2>2 DEF Texts, ToBeSpoken, Speaks
  <1>6. CASE args.mode = "tts_and_media_overlays" /\ args.player
    <2>1. Remembers(args, node + 1, node, mediaOverlayDepth)
      BY <1>6 DEF OverlayInv, AtBody
    <2>2. node \in args.from .. args.to - 1
      BY <1>1 DEF Readable
    <2>3. TextAt(doc, node) => (Narrated(node) <=> mediaOverlayDepth # -1)
      BY <1>6, <2>1, <2>2, RemembersNarrated
    <2>4. node \in Texts <=> TextAt(doc, node) /\ ~Narrated(node)
      BY <1>1, <1>6 DEF Texts, ToBeSpoken
    <2>5. Speaks <=> mediaOverlayDepth = -1
      BY <1>6 DEF Speaks
    <2> QED BY <2>3, <2>4, <2>5
  <1> QED BY <1>2, <1>3, <1>4, <1>5, <1>6 DEF Mode

LEMMA TextsStay == ASSUME args' = args PROVE Texts' = Texts
PROOF BY DEF Texts, Readable, ToBeSpoken, Narrated, OpenSince, CountOf, TextAt, Has, doc

(* Every step of the session leaves its arguments alone. *)
LEMMA ArgumentsStay == [Next]_vars => args' = args
PROOF
  <1> SUFFICES ASSUME [Next]_vars PROVE args' = args
    OBVIOUS
  <1>1. CASE Preprocess
    BY <1>1 DEF Preprocess
  <1>2. CASE PreprocessDone
    BY <1>2 DEF PreprocessDone
  <1>3. CASE Construct
    BY <1>3 DEF Construct
  <1>4. CASE Poll
    BY <1>4 DEF Poll
  <1>5. CASE Stop
    BY <1>5 DEF Stop
  <1>6. CASE StopJoined
    BY <1>6 DEF StopJoined
  <1>7. CASE Wait
    BY <1>7 DEF Wait
  <1>8. CASE WaitJoined
    BY <1>8 DEF WaitJoined
  <1>9. CASE Drop
    BY <1>9 DEF Drop
  <1>10. CASE ThreadStarted
    BY <1>10 DEF ThreadStarted
  <1>11. CASE NoMoreNodes
    BY <1>11 DEF NoMoreNodes
  <1>12. CASE BeginNode
    BY <1>12 DEF BeginNode
  <1>13. CASE SkipMedia
    BY <1>13 DEF SkipMedia
  <1>14. CASE OpenMedia
    BY <1>14 DEF OpenMedia
  <1>15. CASE PlayBlock
    BY <1>15 DEF PlayBlock
  <1>16. CASE MediaDone
    BY <1>16 DEF MediaDone
  <1>17. CASE SpeakText
    BY <1>17 DEF SpeakText
  <1>18. CASE SkipText
    BY <1>18 DEF SkipText
  <1>19. CASE Callback
    BY <1>19 DEF Callback
  <1>20. CASE Deliver
    BY <1>20 DEF Deliver
  <1>21. CASE SpeakDone
    BY <1>21 DEF SpeakDone
  <1>22. CASE Throw
    BY <1>22 DEF Throw
  <1>23. CASE ProgressOffset
    BY <1>23 DEF ProgressOffset
  <1>24. CASE Progress
    BY <1>24 DEF Progress
  <1>25. CASE UpdateContext
    BY <1>25 DEF UpdateContext
  <1>26. CASE CheckState
    BY <1>26 DEF CheckState
  <1>27. CASE CloseAudio
    BY <1>27 DEF CloseAudio
  <1>28. CASE Finished
    BY <1>28 DEF Finished
  <1>29. CASE UNCHANGED vars
    BY <1>29 DEF vars
  <1> QED
    BY <1>1, <1>2, <1>3, <1>4, <1>5, <1>6, <1>7, <1>8, <1>9, <1>10, <1>11, <1>12, <1>13, <1>14, <1>15, <1>16, <1>17, <1>18, <1>19, <1>20, <1>21, <1>22, <1>23, <1>24, <1>25, <1>26, <1>27, <1>28, <1>29 DEF Next, Client, Constructor, Joined, Thread

LEMMA RangeNext ==
    ASSUME \A s \in Sessions : OverlaysApart(s)
    PROVE  TypeInv /\ LifeInv /\ OverlayInv /\ RangeInv /\ [Next]_vars => RangeInv'
PROOF
  <1> SUFFICES ASSUME TypeInv, LifeInv, OverlayInv, RangeInv, [Next]_vars PROVE RangeInv'
    OBVIOUS
  <1>0. /\ tpc \in ThreadPC /\ speechState \in {"speaking", "stopped"} /\ args \in Sessions
        /\ node \in Nat /\ args.to \in Nat /\ spoken \in Seq(1 .. Len(doc)) /\ Len(spoken) \in Nat
    <2>1. End \in Nat /\ args.from \in 1 .. End /\ args.to \in args.from .. End /\ node \in 1 .. End
      BY SessionFacts DEF TypeInv, TypeOK
    <2> QED BY <2>1 DEF TypeInv, TypeOK
  <1>t. Texts' = Texts /\ args' = args /\ \A p \in Texts : p \in Int
    <2>1. args.from \in Int /\ args.to \in Int
      BY SessionFacts DEF TypeInv
    <2> QED BY <2>1, ArgumentsStay, TextsStay DEF Texts, Readable
  <1>s. tpc = "text" => (node \in Texts <=> TextAt(doc, node) /\ Speaks)
    BY SpeaksWanted
  <1>l. cpc \in {"preprocess", "enter", "failed"} <=> tpc = "unborn"
    BY DEF LifeInv
  <1> USE <1>0, <1>t DEF RangeInv, Before, Behind, extent, scan, context, progress, loop, client, history, ThreadPC
  <1>1. CASE Preprocess
    BY <1>1 DEF Preprocess
  <1>2. CASE PreprocessDone
    BY <1>2 DEF PreprocessDone
  <1>3. CASE Construct
    <2>1. tpc = "unborn" /\ tpc' \in {"unborn", "started"} /\ UNCHANGED <<node, spoken, mediaOverlayDepth>>
      BY <1>3, <1>l DEF Construct
    <2> QED BY <2>1
  <1>4. CASE Poll
    BY <1>4 DEF Poll
  <1>5. CASE Stop
    BY <1>5 DEF Stop
  <1>6. CASE StopJoined
    BY <1>6 DEF StopJoined
  <1>7. CASE Wait
    BY <1>7 DEF Wait
  <1>8. CASE WaitJoined
    BY <1>8 DEF WaitJoined
  <1>9. CASE Drop
    BY <1>9 DEF Drop
  <1>10. CASE ThreadStarted
    <2>1. UNCHANGED <<node, spoken, mediaOverlayDepth>> /\ tpc = "started"
      BY <1>10 DEF ThreadStarted
    <2>2. CASE tpc' = "next"
      BY <2>1, <2>2
    <2>3. CASE tpc' = "finish" /\ mErrorMessage' = TRUE
      BY <2>1, <2>3
    <2> QED BY <1>10, <2>2, <2>3 DEF ThreadStarted
  <1>11. CASE NoMoreNodes
    BY <1>11 DEF NoMoreNodes
  <1>12. CASE BeginNode
    BY <1>12 DEF BeginNode
  <1>13. CASE SkipMedia
    BY <1>13 DEF SkipMedia
  <1>14. CASE OpenMedia
    BY <1>14 DEF OpenMedia
  <1>15. CASE PlayBlock
    BY <1>15 DEF PlayBlock
  <1>16. CASE MediaDone
    BY <1>16 DEF MediaDone
  <1>17. CASE SpeakText
    <2>1. node \in Texts /\ tpc = "text" /\ tpc' = "speak" /\ spoken' = Append(spoken, node)
          /\ UNCHANGED <<node, mediaOverlayDepth>>
      BY <1>17, <1>s DEF SpeakText
    <2>2. /\ Len(spoken') = Len(spoken) + 1
          /\ \A i \in 1 .. Len(spoken) : spoken'[i] = spoken[i]
          /\ spoken'[Len(spoken) + 1] = node
      BY <2>1
    <2>3. \A i \in 1 .. Len(spoken') : i \in 1 .. Len(spoken) \/ i = Len(spoken) + 1
      BY <2>2
    <2>4. \A i \in 1 .. Len(spoken) : spoken[i] < node /\ spoken[i] \in Texts
      BY <2>1
    <2>5. \A i, j \in 1 .. Len(spoken') : i < j => spoken'[i] < spoken'[j]
      <3> SUFFICES ASSUME NEW i \in 1 .. Len(spoken'), NEW j \in 1 .. Len(spoken'), i < j
                   PROVE  spoken'[i] < spoken'[j]
        OBVIOUS
      <3>1. i \in 1 .. Len(spoken)
        BY <2>2
      <3> QED BY <2>2, <2>3, <2>4, <3>1
    <2>6. \A i \in 1 .. Len(spoken') : spoken'[i] \in Texts /\ spoken'[i] <= node
      BY <2>1, <2>2, <2>3, <2>4
    <2>7. ASSUME NEW p \in Texts, p < node \/ p = node
          PROVE  \E i \in 1 .. Len(spoken') : spoken'[i] = p
      <3>1. CASE p < node
        <4>1. PICK i \in 1 .. Len(spoken) : spoken[i] = p
          BY <3>1
        <4> QED BY <2>2, <4>1
      <3>2. CASE p = node
        BY <2>2, <3>2
      <3> QED BY <2>7, <3>1, <3>2
    <2> QED BY <2>1, <2>5, <2>6, <2>7
  <1>18. CASE SkipText
    <2>1. node \notin Texts /\ tpc = "text" /\ tpc' \in {"offset", "anchor"}
          /\ UNCHANGED <<node, spoken, mediaOverlayDepth>>
      BY <1>18, <1>s DEF SkipText
    <2> QED BY <2>1
  <1>19. CASE Callback
    BY <1>19 DEF Callback
  <1>20. CASE Deliver
    BY <1>20 DEF Deliver
  <1>21. CASE SpeakDone
    BY <1>21 DEF SpeakDone
  <1>22. CASE Throw
    BY <1>22 DEF Throw
  <1>23. CASE ProgressOffset
    BY <1>23 DEF ProgressOffset
  <1>24. CASE Progress
    BY <1>24 DEF Progress
  <1>25. CASE UpdateContext
    BY <1>25 DEF UpdateContext
  <1>26. CASE CheckState
    <2>1. CASE speechState = "stopped"
      BY <1>26, <2>1 DEF CheckState
    <2>2. CASE speechState # "stopped"
      <3>1. tpc = "check" /\ tpc' = "next" /\ node' = node + 1 /\ UNCHANGED <<spoken, mediaOverlayDepth>>
        BY <1>26, <2>2 DEF CheckState
      <3>2. \A p \in Texts : p < node' => p < node \/ p = node
        BY <3>1
      <3> QED BY <3>1, <3>2
    <2> QED BY <2>1, <2>2
  <1>27. CASE CloseAudio
    BY <1>27 DEF CloseAudio
  <1>28. CASE Finished
    BY <1>28 DEF Finished
  <1>29. CASE UNCHANGED vars
    BY <1>29 DEF vars
  <1> QED
    BY <1>1, <1>2, <1>3, <1>4, <1>5, <1>6, <1>7, <1>8, <1>9, <1>10, <1>11, <1>12, <1>13, <1>14, <1>15, <1>16, <1>17, <1>18, <1>19, <1>20, <1>21, <1>22, <1>23, <1>24, <1>25, <1>26, <1>27, <1>28, <1>29 DEF Next, Client, Constructor, Joined, Thread

LEMMA RangeInit == TypeInv /\ Init => RangeInv
PROOF
  <1> SUFFICES ASSUME TypeInv, Init PROVE RangeInv
    OBVIOUS
  <1>1. \A p \in Texts : ~(p < node)
    <2>1. args.from \in Int /\ args.to \in Int
      BY SessionFacts DEF TypeInv
    <2> QED BY <2>1 DEF Init, Texts, Readable
  <1> QED BY <1>1 DEF Init, RangeInv, Before, Behind

(* The texts of any range are given to the engine in document order, each once, none that an
   overlay narrates, and all of the others unless the session is stopped or fails: in every
   mode, if the media items of a session that speaks beside playing are told apart. *)
THEOREM RangeIsRead ==
    ASSUME \A s \in Sessions : OverlaysApart(s)
    PROVE  Spec => []ReadsTheRange
PROOF
  <1>1. TypeInv /\ RangeInv => ReadsTheRange
    <2> SUFFICES ASSUME TypeInv, RangeInv PROVE ReadsTheRange
      OBVIOUS
    <2>1. node \in Int /\ args.from \in Int /\ args.to \in Int /\ Len(spoken) \in Nat
      BY SessionFacts DEF TypeInv, TypeOK
    <2>2. ToSet(spoken) = {spoken[i] : i \in 1 .. Len(spoken)}
      <3>1. spoken \in Seq(1 .. Len(doc))
        BY DEF TypeInv, TypeOK
      <3>2. DOMAIN spoken = 1 .. Len(spoken)
        BY <3>1
      <3> QED BY <3>2 DEF ToSet
    <2>3. \A q \in ToSet(spoken) : q \in Texts /\ q <= node
      BY <2>2 DEF RangeInv
    <2>4. \A p \in Texts : p \in Int /\ p < args.to
      BY <2>1 DEF Texts, Readable
    <2>5. ASSUME NEW p \in Texts \ ToSet(spoken), NEW q \in ToSet(spoken) PROVE q < p
      <3>1. ~(p < node)
        BY <2>2, <2>5 DEF RangeInv
      <3>2. p # q
        BY <2>5
      <3> QED BY <2>1, <2>3, <2>4, <3>1, <3>2
    <2>6. ASSUME tpc = "finish", ~mErrorMessage, speechState = "speaking"
          PROVE  Texts \subseteq ToSet(spoken)
      BY <2>2, <2>4, <2>6 DEF RangeInv
    <2>7. \A i, j \in 1 .. Len(spoken) : i < j => spoken[i] < spoken[j]
      BY DEF RangeInv
    <2> QED BY <2>3, <2>5, <2>6, <2>7 DEF ReadsTheRange
  <1>2. Init => LifeInv
    BY DEF Init, LifeInv
  <1>3. TypeInv /\ LifeInv /\ OverlayInv /\ [Next]_vars => OverlayInv'
    BY OverlayNext
  <1> QED
    BY <1>1, <1>2, <1>3, OverlayInit, RangeInit, TypeInit, TypeNext, LifeNext, RangeNext, PTL DEF Spec
-----------------------------------------------------------------------------
(* The session implements ReadingAloud. *)

(* The texts begun are counted, and only a turn that began after a stop is the last. *)
AloudInv ==
    /\ IsFiniteSet(ToSet(spoken)) /\ Cardinality(ToSet(spoken)) = Len(spoken)
    /\ lastWord \in BOOLEAN
    /\ lastWord => speechState = "stopped" /\ tpc \in Behind \cup {"finish", "closed", "done"}

LEMMA AloudInvNext == TypeInv /\ LifeInv /\ RangeInv /\ AloudInv /\ [Next]_vars => AloudInv'
PROOF
  <1> SUFFICES ASSUME TypeInv, LifeInv, RangeInv, AloudInv, [Next]_vars PROVE AloudInv'
    OBVIOUS
  <1>0. /\ tpc \in ThreadPC /\ cpc \in ClientPC /\ speechState \in {"speaking", "stopped"}
        /\ spoken \in Seq(1 .. Len(doc)) /\ node \in Nat /\ lastWord \in BOOLEAN
    <2>1. node \in 1 .. End /\ End \in Nat
      BY SessionFacts DEF TypeInv, TypeOK
    <2> QED BY <2>1 DEF TypeInv, TypeOK, AloudInv
  <1>l. cpc \in {"preprocess", "enter", "failed"} <=> tpc = "unborn"
    BY DEF LifeInv
  <1> USE <1>0, <1>l DEF AloudInv, Behind, extent, scan, context, progress, loop, client, history, ThreadPC
  <1>1. CASE Preprocess
    BY <1>1 DEF Preprocess
  <1>2. CASE PreprocessDone
    BY <1>2 DEF PreprocessDone
  <1>3. CASE Construct
    <2>1. tpc = "unborn" /\ tpc' \in {"unborn", "started"} /\ UNCHANGED <<speechState, spoken, lastWord>>
      BY <1>3 DEF Construct
    <2> QED BY <2>1
  <1>4. CASE Poll
    BY <1>4 DEF Poll
  <1>5. CASE Stop
    BY <1>5 DEF Stop
  <1>6. CASE StopJoined
    BY <1>6 DEF StopJoined
  <1>7. CASE Wait
    BY <1>7 DEF Wait
  <1>8. CASE WaitJoined
    BY <1>8 DEF WaitJoined
  <1>9. CASE Drop
    BY <1>9 DEF Drop
  <1>10. CASE ThreadStarted
    BY <1>10 DEF ThreadStarted
  <1>11. CASE NoMoreNodes
    BY <1>11 DEF NoMoreNodes
  <1>12. CASE BeginNode
    BY <1>12 DEF BeginNode
  <1>13. CASE SkipMedia
    BY <1>13 DEF SkipMedia
  <1>14. CASE OpenMedia
    BY <1>14 DEF OpenMedia
  <1>15. CASE PlayBlock
    BY <1>15 DEF PlayBlock
  <1>16. CASE MediaDone
    BY <1>16 DEF MediaDone
  <1>17. CASE SpeakText
    <2>1. tpc = "text" /\ tpc' = "speak" /\ spoken' = Append(spoken, node)
      BY <1>17 DEF SpeakText
    <2>2. lastWord' = (speechState = "stopped") /\ speechState' = speechState
      BY <1>17 DEF SpeakText
    <2>3. ToSet(spoken') = ToSet(spoken) \cup {node} /\ Len(spoken') = Len(spoken) + 1
      <3>1. /\ Len(spoken') = Len(spoken) + 1 /\ DOMAIN spoken' = 1 .. Len(spoken) + 1
            /\ \A i \in 1 .. Len(spoken) : spoken'[i] = spoken[i]
            /\ spoken'[Len(spoken) + 1] = node /\ DOMAIN spoken = 1 .. Len(spoken) /\ Len(spoken) \in Nat
        BY <2>1
      <3>2. \A i : i \in 1 .. Len(spoken) + 1 <=> i \in 1 .. Len(spoken) \/ i = Len(spoken) + 1
        BY <3>1
      <3> QED BY <3>1, <3>2 DEF ToSet
    <2>4. node \notin ToSet(spoken)
      <3>1. \A i \in 1 .. Len(spoken) : spoken[i] < node
        BY <2>1 DEF RangeInv, Before
      <3> QED BY <3>1 DEF ToSet
    <2>5. IsFiniteSet(ToSet(spoken')) /\ Cardinality(ToSet(spoken')) = Len(spoken')
      BY <2>3, <2>4, FS_AddElement, ZenonT(60)
    <2>6. lastWord' \in BOOLEAN /\ (lastWord' => speechState' = "stopped")
      BY <2>2, Zenon
    <2> QED BY <2>1, <2>5, <2>6
  <1>18. CASE SkipText
    BY <1>18 DEF SkipText
  <1>19. CASE Callback
    BY <1>19 DEF Callback
  <1>20. CASE Deliver
    BY <1>20 DEF Deliver
  <1>21. CASE SpeakDone
    BY <1>21 DEF SpeakDone
  <1>22. CASE Throw
    BY <1>22 DEF Throw
  <1>23. CASE ProgressOffset
    BY <1>23 DEF ProgressOffset
  <1>24. CASE Progress
    BY <1>24 DEF Progress
  <1>25. CASE UpdateContext
    BY <1>25 DEF UpdateContext
  <1>26. CASE CheckState
    BY <1>26 DEF CheckState
  <1>27. CASE CloseAudio
    BY <1>27 DEF CloseAudio
  <1>28. CASE Finished
    BY <1>28 DEF Finished
  <1>29. CASE UNCHANGED vars
    BY <1>29 DEF vars
  <1> QED
    BY <1>1, <1>2, <1>3, <1>4, <1>5, <1>6, <1>7, <1>8, <1>9, <1>10, <1>11, <1>12, <1>13, <1>14, <1>15, <1>16, <1>17, <1>18, <1>19, <1>20, <1>21, <1>22, <1>23, <1>24, <1>25, <1>26, <1>27, <1>28, <1>29 DEF Next, Client, Constructor, Joined, Thread

LEMMA TextsFinite == ASSUME TypeInv PROVE IsFiniteSet(Texts) /\ Cardinality(Texts) \in Nat
PROOF
  <1>1. IsFiniteSet(args.from .. args.to - 1)
    BY SessionFacts, FS_Interval DEF TypeInv
  <1>2. Texts \subseteq args.from .. args.to - 1
    BY DEF Texts, Readable
  <1>3. IsFiniteSet(Texts)
    BY <1>1, <1>2, FS_Subset
  <1> QED BY <1>3, FS_CardinalityType

(* There is a text left for a turn that begins one, and none at the end of the range. *)
LEMMA BegunAndTotal ==
    ASSUME TypeInv, RangeInv, AloudInv
    PROVE  /\ tpc \in Before /\ node \in Texts => Len(spoken) < Cardinality(Texts)
           /\ tpc \in Before /\ node = args.to => Len(spoken) = Cardinality(Texts)
PROOF
  <1>0. /\ spoken \in Seq(1 .. Len(doc)) /\ node \in Nat /\ Len(spoken) \in Nat
        /\ ToSet(spoken) = {spoken[i] : i \in 1 .. Len(spoken)}
    <2>1. node \in 1 .. End /\ End \in Nat
      BY SessionFacts DEF TypeInv, TypeOK
    <2>2. spoken \in Seq(1 .. Len(doc))
      BY DEF TypeInv, TypeOK
    <2>3. ToSet(spoken) = {spoken[i] : i \in 1 .. Len(spoken)}
      BY <2>2 DEF ToSet
    <2> QED BY <2>1, <2>2, <2>3
  <1>1. ToSet(spoken) \subseteq Texts
    BY <1>0 DEF RangeInv
  <1>2. IsFiniteSet(Texts) /\ Cardinality(Texts) \in Nat
    BY TextsFinite
  <1>3. ASSUME tpc \in Before, node \in Texts PROVE Len(spoken) < Cardinality(Texts)
    <2>1. node \notin ToSet(spoken)
      BY <1>0, <1>3 DEF RangeInv
    <2>2. ToSet(spoken) # Texts
      BY <1>3, <2>1
    <2>3. Cardinality(ToSet(spoken)) < Cardinality(Texts)
      <3>1. /\ Cardinality(ToSet(spoken)) <= Cardinality(Texts)
            /\ Cardinality(Texts) = Cardinality(ToSet(spoken)) => Texts = ToSet(spoken)
        BY <1>1, <1>2, FS_Subset
      <3>2. Cardinality(ToSet(spoken)) \in Nat
        BY <1>0 DEF AloudInv
      <3> QED BY <1>2, <2>2, <3>1, <3>2
    <2> QED BY <2>3 DEF AloudInv
  <1>4. ASSUME tpc \in Before, node = args.to PROVE Len(spoken) = Cardinality(Texts)
    <2>1. \A p \in Texts : p < node
      BY <1>4, SessionFacts DEF TypeInv, Texts, Readable
    <2>2. Texts \subseteq ToSet(spoken)
      BY <1>0, <2>1 DEF RangeInv
    <2>3. Texts = ToSet(spoken)
      BY <1>1, <2>2
    <2> QED BY <2>3 DEF AloudInv
  <1> QED BY <1>3, <1>4

LEMMA AloudInit == TypeInv /\ Init => Aloud!Init
PROOF
  <1> SUFFICES ASSUME TypeInv, Init PROVE Aloud!Init
    OBVIOUS
  <1>1. Cardinality(Texts) \in Nat
    BY TextsFinite
  <1>2. Len(spoken) = 0 /\ Phase = "speaking" /\ ~(mErrorMessage \/ cpc = "failed")
    BY DEF Init, Phase
  <1>3. (mErrorMessage \/ cpc = "failed") = FALSE
    BY <1>2, Zenon
  <1> QED BY <1>1, <1>2, <1>3 DEF Aloud!Init

(* Each step of the session is a step of ReadingAloud or leaves it where it is. *)
LEMMA AloudNext ==
    ASSUME \A s \in Sessions : OverlaysApart(s)
    PROVE  TypeInv /\ LifeInv /\ OverlayInv /\ RangeInv /\ AloudInv /\ [Next]_vars => [Aloud!Next]_Aloud!vars
PROOF
  <1> SUFFICES ASSUME TypeInv, LifeInv, OverlayInv, RangeInv, AloudInv, [Next]_vars PROVE [Aloud!Next]_Aloud!vars
    OBVIOUS
  <1> DEFINE total == Cardinality(Texts)
             begun == Len(spoken)
             failed == mErrorMessage \/ cpc = "failed"
             Quiet == begun' = begun /\ Phase' = Phase /\ failed' = failed
  <1>0. /\ tpc \in ThreadPC /\ cpc \in ClientPC /\ speechState \in {"speaking", "stopped"}
        /\ mErrorMessage \in BOOLEAN /\ lastWord \in BOOLEAN
    BY DEF TypeInv, TypeOK, AloudInv
  <1>t. total' = total
    BY ArgumentsStay, TextsStay
  <1>l. /\ cpc \in {"preprocess", "enter", "failed"} <=> tpc = "unborn"
        /\ speechState = "stopped" /\ cpc # "stopping" => tpc = "done"
        /\ tpc = "unborn" => speechState = "speaking"
    BY DEF LifeInv
  <1>w. lastWord => speechState = "stopped" /\ tpc \in Behind \cup {"finish", "closed", "done"}
    BY DEF AloudInv
  <1>q. Quiet => UNCHANGED Aloud!vars
    BY <1>t DEF Aloud!vars
  <1>f. ASSUME Phase # "over", Phase' = "over", failed' = TRUE, begun' = begun PROVE Aloud!Fail
    BY <1>t, <1>f DEF Aloud!Fail
  <1> HIDE DEF total
  <1> USE <1>0, <1>l, <1>w DEF Phase, Behind, extent, scan, context, progress, loop, client, history, ThreadPC, ClientPC
  <1>1. CASE Preprocess
    <2>1. Quiet
      BY <1>1 DEF Preprocess
    <2> QED BY <2>1, <1>q
  <1>2. CASE PreprocessDone
    <2>1. Quiet
      BY <1>2 DEF PreprocessDone
    <2> QED BY <2>1, <1>q
  <1>3. CASE Construct
    <2>1. cpc = "enter" /\ UNCHANGED <<spoken, speechState, mErrorMessage, lastWord>>
      BY <1>3 DEF Construct
    <2>2. CASE cpc' = "idle" /\ tpc' = "started"
      <3>1. Quiet
        BY <2>1, <2>2
      <3> QED BY <3>1, <1>q
    <2>3. CASE cpc' = "failed" /\ UNCHANGED tpc
      <3>1. Phase = "speaking" /\ Phase' = "over" /\ begun' = begun
        BY <2>1, <2>3
      <3>2. failed' = TRUE
        BY <2>3, Zenon
      <3> QED BY <3>1, <3>2, <1>f DEF Aloud!Next
    <2> QED BY <1>3, <2>2, <2>3 DEF Construct
  <1>4. CASE Poll
    <2>1. Quiet
      BY <1>4 DEF Poll
    <2> QED BY <2>1, <1>q
  <1>5. CASE Stop
    <2>1. UNCHANGED <<spoken, mErrorMessage, lastWord, tpc>> /\ speechState' = "stopped"
          /\ cpc = "idle" /\ cpc' = "stopping"
      BY <1>5 DEF Stop
    <2>2. CASE tpc \in {"finish", "closed", "done"}
      <3>1. Quiet
        BY <2>1, <2>2
      <3> QED BY <3>1, <1>q
    <2>3. CASE tpc \notin {"finish", "closed", "done"}
      <3>1. Phase = "speaking" /\ Phase' = "stopping" /\ begun' = begun
        BY <2>1, <2>3
      <3>2. failed' = failed
        BY <2>1
      <3>3. Aloud!Stop
        BY <3>1, <3>2, <1>t DEF Aloud!Stop, total
      <3> QED BY <3>3 DEF Aloud!Next
    <2> QED BY <2>2, <2>3
  <1>6. CASE StopJoined
    <2>1. Quiet
      BY <1>6 DEF StopJoined
    <2> QED BY <2>1, <1>q
  <1>7. CASE Wait
    <2>1. Quiet
      BY <1>7 DEF Wait
    <2> QED BY <2>1, <1>q
  <1>8. CASE WaitJoined
    <2>1. Quiet
      BY <1>8 DEF WaitJoined
    <2> QED BY <2>1, <1>q
  <1>9. CASE Drop
    <2>1. Quiet
      BY <1>9 DEF Drop
    <2> QED BY <2>1, <1>q
  <1>10. CASE ThreadStarted
    <2>1. tpc = "started" /\ UNCHANGED <<spoken, speechState, lastWord, cpc>>
      BY <1>10 DEF ThreadStarted
    <2>2. CASE tpc' = "next" /\ UNCHANGED mErrorMessage
      <3>1. Quiet
        BY <2>1, <2>2
      <3> QED BY <3>1, <1>q
    <2>3. CASE tpc' = "finish" /\ mErrorMessage' = TRUE
      <3>1. Phase # "over" /\ Phase' = "over" /\ begun' = begun
        BY <2>1, <2>3
      <3>2. failed' = TRUE
        BY <2>3, Zenon
      <3> QED BY <3>1, <3>2, <1>f DEF Aloud!Next
    <2> QED BY <1>10, <2>2, <2>3 DEF ThreadStarted
  <1>11. CASE NoMoreNodes
    <2>1. tpc = "next" /\ node = args.to /\ tpc' = "finish"
          /\ UNCHANGED <<spoken, speechState, mErrorMessage, lastWord, cpc>>
      BY <1>11 DEF NoMoreNodes
    <2>2. begun = total
      BY <2>1, BegunAndTotal DEF total, Before
    <2>3. Phase \in {"speaking", "stopping"} /\ Phase' = "over" /\ begun' = begun
      BY <2>1
    <2>4. failed' = failed
      BY <2>1
    <2>5. Aloud!End
      BY <2>2, <2>3, <2>4, <1>t DEF Aloud!End, total
    <2> QED BY <2>5 DEF Aloud!Next
  <1>12. CASE BeginNode
    <2>1. Quiet
      BY <1>12 DEF BeginNode
    <2> QED BY <2>1, <1>q
  <1>13. CASE SkipMedia
    <2>1. Quiet
      BY <1>13 DEF SkipMedia
    <2> QED BY <2>1, <1>q
  <1>14. CASE OpenMedia
    <2>1. Quiet
      BY <1>14 DEF OpenMedia
    <2> QED BY <2>1, <1>q
  <1>15. CASE PlayBlock
    <2>1. Quiet
      BY <1>15 DEF PlayBlock
    <2> QED BY <2>1, <1>q
  <1>16. CASE MediaDone
    <2>1. Quiet
      BY <1>16 DEF MediaDone
    <2> QED BY <2>1, <1>q
  <1>17. CASE SpeakText
    <2>1. /\ tpc = "text" /\ tpc' = "speak" /\ TextAt(doc, node) /\ Speaks
          /\ UNCHANGED <<speechState, mErrorMessage, cpc>>
          /\ lastWord' = (speechState = "stopped") /\ spoken' = Append(spoken, node)
      BY <1>17 DEF SpeakText
    <2>2. node \in Texts
      BY <2>1, SpeaksWanted
    <2>3. begun < total
      BY <2>1, <2>2, BegunAndTotal DEF total, Before
    <2>4. begun' = begun + 1
      BY <2>1 DEF TypeInv, TypeOK
    <2>5. Phase \in {"speaking", "stopping"} /\ Phase' = IF Phase = "stopping" THEN "ending" ELSE Phase
      <3>1. CASE speechState = "stopped"
        BY <2>1, <3>1
      <3>2. CASE speechState = "speaking"
        BY <2>1, <3>2
      <3> QED BY <3>1, <3>2
    <2>6. failed' = failed
      BY <2>1
    <2>7. Aloud!Say
      BY <2>3, <2>4, <2>5, <2>6, <1>t DEF Aloud!Say, total
    <2> QED BY <2>7 DEF Aloud!Next
  <1>18. CASE SkipText
    <2>1. Quiet
      BY <1>18 DEF SkipText
    <2> QED BY <2>1, <1>q
  <1>19. CASE Callback
    <2>1. Quiet
      BY <1>19 DEF Callback
    <2> QED BY <2>1, <1>q
  <1>20. CASE Deliver
    <2>1. Quiet
      BY <1>20 DEF Deliver
    <2> QED BY <2>1, <1>q
  <1>21. CASE SpeakDone
    <2>1. Quiet
      BY <1>21 DEF SpeakDone
    <2> QED BY <2>1, <1>q
  <1>22. CASE Throw
    <2>1. tpc \in {"speak", "play"} /\ tpc' = "finish" /\ mErrorMessage' = TRUE
          /\ UNCHANGED <<spoken, speechState, lastWord, cpc>>
      BY <1>22 DEF Throw
    <2>2. Phase # "over" /\ Phase' = "over" /\ begun' = begun
      BY <2>1
    <2>3. failed' = TRUE
      BY <2>1, Zenon
    <2> QED BY <2>2, <2>3, <1>f DEF Aloud!Next
  <1>23. CASE ProgressOffset
    <2>1. Quiet
      BY <1>23 DEF ProgressOffset
    <2> QED BY <2>1, <1>q
  <1>24. CASE Progress
    <2>1. Quiet
      BY <1>24 DEF Progress
    <2> QED BY <2>1, <1>q
  <1>25. CASE UpdateContext
    <2>1. Quiet
      BY <1>25 DEF UpdateContext
    <2> QED BY <2>1, <1>q
  <1>26. CASE CheckState
    <2>1. tpc = "check" /\ UNCHANGED <<spoken, speechState, mErrorMessage, lastWord, cpc>>
      BY <1>26 DEF CheckState
    <2>2. CASE speechState = "stopped" /\ tpc' = "finish"
      <3>1. Phase \in {"stopping", "ending"} /\ Phase' = "over" /\ begun' = begun
        BY <2>1, <2>2
      <3>2. failed' = failed
        BY <2>1
      <3>3. Aloud!End
        BY <3>1, <3>2, <1>t DEF Aloud!End, total
      <3> QED BY <3>3 DEF Aloud!Next
    <2>3. CASE tpc' = "next"
      <3>1. Quiet
        BY <2>1, <2>3
      <3> QED BY <3>1, <1>q
    <2> QED BY <1>26, <2>2, <2>3 DEF CheckState
  <1>27. CASE CloseAudio
    <2>1. Quiet
      BY <1>27 DEF CloseAudio
    <2> QED BY <2>1, <1>q
  <1>28. CASE Finished
    <2>1. Quiet
      BY <1>28 DEF Finished
    <2> QED BY <2>1, <1>q
  <1>29. CASE UNCHANGED vars
    <2>1. Quiet
      BY <1>29 DEF vars
    <2> QED BY <2>1, <1>q
  <1> QED
    BY <1>1, <1>2, <1>3, <1>4, <1>5, <1>6, <1>7, <1>8, <1>9, <1>10, <1>11, <1>12, <1>13, <1>14, <1>15, <1>16, <1>17, <1>18, <1>19, <1>20, <1>21, <1>22, <1>23, <1>24, <1>25, <1>26, <1>27, <1>28, <1>29 DEF Next, Client, Constructor, Joined, Thread

(* A session does what ReadingAloud says at every step: a text at a time, at most one begun
   after a stop, and no end before all are read but by a stop or a failure; in every mode, if
   the media items of a session that speaks beside playing are told apart.  That it does end
   is for TLC, as it needs fairness. *)
THEOREM ReadsAloudSafely ==
    ASSUME \A s \in Sessions : OverlaysApart(s)
    PROVE  Spec => Aloud!Init /\ [][Aloud!Next]_Aloud!vars
PROOF
  <1>1. Init => LifeInv
    BY DEF Init, LifeInv
  <1>2. Init => AloudInv
    <2> SUFFICES ASSUME Init PROVE AloudInv
      OBVIOUS
    <2>1. spoken = <<>> /\ lastWord = FALSE
      BY DEF Init
    <2>2. ToSet(spoken) = {} /\ Len(spoken) = 0
      BY <2>1 DEF ToSet
    <2> QED BY <2>1, <2>2, FS_EmptySet DEF AloudInv
  <1>3. TypeInv /\ LifeInv /\ OverlayInv /\ [Next]_vars => OverlayInv'
    BY OverlayNext
  <1> QED
    BY <1>1, <1>2, <1>3, AloudInit, AloudNext, AloudInvNext, OverlayInit, RangeInit, RangeNext, TypeInit, TypeNext,
       LifeNext, PTL DEF Spec
-----------------------------------------------------------------------------
(* What is left of the sink. *)

(* A step opens the sink, writes to it, closes it, or leaves it alone. *)
LEMMA SinkSteps ==
    [Next]_vars => \/ audio' = audio
                   \/ \E outcome \in OpenSink(audio) : audio' = outcome.sink
                   \/ audio' = WriteSink(audio)
                   \/ audio' = CloseSink(audio)
PROOF
  <1> SUFFICES ASSUME [Next]_vars
               PROVE  \/ audio' = audio
                      \/ \E outcome \in OpenSink(audio) : audio' = outcome.sink
                      \/ audio' = WriteSink(audio)
                      \/ audio' = CloseSink(audio)
    OBVIOUS
  <1>1. CASE Preprocess
    BY <1>1 DEF Preprocess
  <1>2. CASE PreprocessDone
    BY <1>2 DEF PreprocessDone
  <1>3. CASE Construct
    BY <1>3 DEF Construct, Started
  <1>4. CASE Poll
    BY <1>4 DEF Poll
  <1>5. CASE Stop
    BY <1>5 DEF Stop
  <1>6. CASE StopJoined
    BY <1>6 DEF StopJoined
  <1>7. CASE Wait
    BY <1>7 DEF Wait
  <1>8. CASE WaitJoined
    BY <1>8 DEF WaitJoined
  <1>9. CASE Drop
    BY <1>9 DEF Drop
  <1>10. CASE ThreadStarted
    BY <1>10 DEF ThreadStarted, Started
  <1>11. CASE NoMoreNodes
    BY <1>11 DEF NoMoreNodes
  <1>12. CASE BeginNode
    BY <1>12 DEF BeginNode
  <1>13. CASE SkipMedia
    BY <1>13 DEF SkipMedia
  <1>14. CASE OpenMedia
    BY <1>14 DEF OpenMedia
  <1>15. CASE PlayBlock
    BY <1>15 DEF PlayBlock, WriteAudio
  <1>16. CASE MediaDone
    BY <1>16 DEF MediaDone
  <1>17. CASE SpeakText
    BY <1>17 DEF SpeakText
  <1>18. CASE SkipText
    BY <1>18 DEF SkipText
  <1>19. CASE Callback
    BY <1>19 DEF Callback
  <1>20. CASE Deliver
    BY <1>20 DEF Deliver, WriteAudio
  <1>21. CASE SpeakDone
    BY <1>21 DEF SpeakDone
  <1>22. CASE Throw
    BY <1>22 DEF Throw
  <1>23. CASE ProgressOffset
    BY <1>23 DEF ProgressOffset
  <1>24. CASE Progress
    BY <1>24 DEF Progress
  <1>25. CASE UpdateContext
    BY <1>25 DEF UpdateContext
  <1>26. CASE CheckState
    BY <1>26 DEF CheckState
  <1>27. CASE CloseAudio
    BY <1>27 DEF CloseAudio
  <1>28. CASE Finished
    BY <1>28 DEF Finished
  <1>29. CASE UNCHANGED vars
    BY <1>29 DEF vars
  <1> QED
    BY <1>1, <1>2, <1>3, <1>4, <1>5, <1>6, <1>7, <1>8, <1>9, <1>10, <1>11, <1>12, <1>13, <1>14, <1>15, <1>16, <1>17, <1>18, <1>19, <1>20, <1>21, <1>22, <1>23, <1>24, <1>25, <1>26, <1>27, <1>28, <1>29 DEF Next, Client, Constructor, Joined, Thread

(* A sink other than ALSA's holds one connection or file while it is open. *)
OneHandle(sink) == sink.kind # "alsa" /\ sink.handles = IF sink.open THEN 1 ELSE 0

LEMMA OneHandleKept ==
    ASSUME NEW sink \in Sink, OneHandle(sink)
    PROVE  /\ \A outcome \in OpenSink(sink) : OneHandle(outcome.sink)
           /\ OneHandle(WriteSink(sink)) /\ OneHandle(CloseSink(sink))
PROOF
  <1>1. ASSUME NEW outcome \in OpenSink(sink) PROVE OneHandle(outcome.sink)
    <2>1. CASE sink.kind = "pulse"
      <3>1. ~sink.open => Connected(sink).open /\ Connected(sink).handles = 1 /\ Connected(sink).kind = sink.kind
        BY DEF OneHandle, Connected, Sink
      <3>2. outcome.sink = sink \/ (~sink.open /\ outcome.sink = Connected(sink))
        BY <1>1, <2>1 DEF OpenSink, OpenPulse, Done, Thrown
      <3> QED BY <2>1, <3>1, <3>2 DEF OneHandle
    <2>2. CASE sink.kind \in {"wav", "ogg"}
      <3> DEFINE opened == [sink EXCEPT !.size = @ + HeaderSize, !.counted = 0]
                 misused == [sink EXCEPT !.badUse = TRUE]
      <3>1. opened.kind = sink.kind /\ opened.open = sink.open /\ opened.handles = sink.handles
        BY DEF Sink
      <3>2. misused.kind = sink.kind /\ misused.open = sink.open /\ misused.handles = sink.handles
        BY DEF Sink
      <3>3. outcome.sink = opened \/ outcome.sink = misused
        <4>1. OpenSink(sink) = OpenFile(sink)
          BY <2>2 DEF OpenSink
        <4>2. outcome = Done(opened) \/ outcome = Done(misused)
          BY <1>1, <4>1 DEF OpenFile
        <4> HIDE DEF opened, misused
        <4> QED BY <4>2 DEF Done
      <3> HIDE DEF opened, misused
      <3> QED BY <3>1, <3>2, <3>3 DEF OneHandle
    <2> QED BY <2>1, <2>2, SinkFields DEF OneHandle, SinkKind
  <1>2. OneHandle(WriteSink(sink))
    BY DEF OneHandle, WriteSink, Sink
  <1>3. OneHandle(CloseSink(sink))
    BY DEF OneHandle, CloseSink, Sink
  <1> QED BY <1>1, <1>2, <1>3

(* A session that is over holds neither a connection to PulseAudio nor an open file,
   whatever failed on the way. *)
THEOREM NothingIsHeld ==
    ASSUME \A s \in Sessions : s.sink # "alsa"
    PROVE  Spec => []NoHandleLeft
PROOF
  <1>1. Init => OneHandle(audio)
    <2> SUFFICES ASSUME Init PROVE OneHandle(audio)
      OBVIOUS
    <2>1. audio = NewSink(args.sink) /\ args.sink # "alsa"
      BY DEF Init
    <2>2. audio.kind = args.sink /\ audio.open = (args.sink # "alsa") /\ audio.handles = IF args.sink = "alsa" THEN 0 ELSE 1
      BY <2>1, Zenon DEF NewSink
    <2>3. audio.open = TRUE
      BY <2>1, <2>2, Zenon
    <2> QED BY <2>1, <2>2, <2>3 DEF OneHandle
  <1>2. TypeInv /\ OneHandle(audio) /\ [Next]_vars => OneHandle(audio)'
    BY SinkSteps, OneHandleKept DEF TypeInv, TypeOK
  <1>3. LifeInv /\ OneHandle(audio) => NoHandleLeft
    BY DEF LifeInv, OneHandle, NoHandleLeft
  <1>4. Init => LifeInv
    BY DEF Init, LifeInv
  <1> QED BY <1>1, <1>2, <1>3, <1>4, TypeInit, TypeNext, LifeNext, PTL DEF Spec
-----------------------------------------------------------------------------
(* What the client is told of the progress. *)

NoTextIn(s, a, b) == \A q \in a .. b : ~TextAt(s.doc, q)

(* The texts of the range up to u begin with the first and end with the last of them. *)
Measures(s, u, offset, length) ==
    \A p \in s.from .. u : TextAt(s.doc, p) =>
        /\ offset <= s.doc[p].begin /\ s.doc[p].end <= length
        /\ NoTextIn(s, s.from, p - 1) => offset = s.doc[p].begin
        /\ NoTextIn(s, p + 1, u) => length = s.doc[p].end

MeasureInv ==
    IF cpc = "preprocess"
    THEN /\ Measures(args, pos - 1, textOffset, textLen)
         /\ NoTextIn(args, args.from, pos - 1) => textOffset = NoOffset
         /\ inRange <=> pos > args.from
         /\ args.from < args.to => pos <= args.to
    ELSE Measures(args, args.to - 1, textOffset, textLen)

(* The text that is read next begins at the offset. *)
BeginsNext(s, n, offset) ==
    \A q \in n .. s.to - 1 : TextAt(s.doc, q) /\ NoTextIn(s, n, q - 1) => offset = s.doc[q].begin

BeforeText == {"next", "media", "play", "text", "speak", "deliver", "offset"}
AfterText == {"progress", "anchor", "check"}

PlaceInv ==
    /\ tpc \in {"unborn", "started"} => node = args.from
    /\ tpc \in {"unborn", "started", "next", "media", "play", "text", "anchor", "check"} => speakingPos = 0
    /\ tpc \in BeforeText => BeginsNext(args, node, currentOffset)
    /\ tpc \in AfterText => BeginsNext(args, node + 1, currentOffset)
    /\ tpc \in {"speak", "deliver"} => speakingPos <= doc[node].end - doc[node].begin
    /\ tpc = "progress" => TextAt(doc, node) /\ currentOffset = doc[node].end

(* When the last text of the range is read, everything is read. *)
Complete(s, n, told) ==
    NoTextIn(s, n, s.to - 1) => NoTextIn(s, s.from, n - 1) \/ told.num = told.den

CompleteInv ==
    /\ mProgress.num <= mProgress.den
    /\ tpc \in BeforeText \cup {"progress"} => Complete(args, node, mProgress)
    /\ tpc \in {"anchor", "check"} => Complete(args, node + 1, mProgress)
    /\ tpc \in {"finish", "closed"} =>
           mErrorMessage \/ speechState = "stopped" \/ Complete(args, args.to, mProgress)
    /\ spoken # <<>> => ~NoTextIn(args, args.from, args.to - 1)

(* The entries of the contents that were passed, but for the first. *)
Passed(s, n, entry) ==
    \A k \in 2 .. Len(s.listing) : k <= entry <=> \E q \in AnchorsAt(s.doc, s.listing[k]) : q <= n

ContextInv ==
    args.listing # <<>> =>
        /\ tpc # "unborn" => mRefEntry >= 1 /\ mRefEntryFrom = mRefEntry + 1
        /\ tpc = "started" => node = args.from
        /\ tpc \in ({"started", "progress", "anchor"} \cup BeforeText) => Passed(args, node - 1, mRefEntry)
        /\ tpc = "check" => Passed(args, node, mRefEntry)

LEMMA RangeFacts ==
    ASSUME NEW s \in Sessions
    PROVE  /\ Len(s.doc) \in Nat /\ Len(s.listing) \in Nat /\ s.from \in Nat /\ s.to \in Nat
           /\ 1 <= s.from /\ s.from <= s.to /\ s.to <= Len(s.doc) + 1
           /\ \A p \in 1 .. Len(s.doc) : TextAt(s.doc, p) =>
                 /\ s.doc[p].begin \in Nat /\ s.doc[p].end \in Nat
                 /\ s.doc[p].begin <= s.doc[p].end /\ s.doc[p].end < Word
           /\ \A p, q \in 1 .. Len(s.doc) : TextAt(s.doc, p) /\ TextAt(s.doc, q) /\ p < q =>
                 /\ s.doc[p].end <= s.doc[q].begin
                 /\ NoTextIn(s, p + 1, q - 1) => s.doc[p].end = s.doc[q].begin
PROOF
  <1>1. s \in Arguments /\ TextInOrder(s.doc) /\ InDocument(s)
    BY SessionAssumption
  <1>2. s.doc \in Seq(Item) /\ s.listing \in Seq(Anchor) /\ s.from \in Nat /\ s.to \in Nat
    BY <1>1 DEF Arguments
  <1>3. ASSUME NEW p \in 1 .. Len(s.doc)
        PROVE  s.doc[p].begin \in Nat /\ s.doc[p].end \in Nat
    <2>1. s.doc[p] \in Item
      BY <1>2
    <2> QED BY <2>1 DEF Item
  <1>4. Len(s.doc) \in Nat /\ Len(s.listing) \in Nat /\ 1 <= s.from /\ s.from <= s.to /\ s.to <= Len(s.doc) + 1
    BY <1>1, <1>2 DEF InDocument
  <1> QED BY <1>1, <1>2, <1>3, <1>4 DEF TextInOrder, NoTextIn

(* One text more is measured, *)
LEMMA OneMeasured ==
    ASSUME NEW s \in Sessions, NEW u \in Int, s.from <= u, u <= Len(s.doc), TextAt(s.doc, u),
           NEW offset \in Offset, NEW length \in Offset, Measures(s, u - 1, offset, length),
           NoTextIn(s, s.from, u - 1) => offset = NoOffset,
           NEW offset2, offset2 = IF offset = NoOffset THEN s.doc[u].begin ELSE offset
    PROVE  Measures(s, u, offset2, s.doc[u].end)
PROOF
  <1>1. /\ Len(s.doc) \in Nat /\ s.from \in Nat /\ 1 <= s.from
        /\ \A p \in 1 .. Len(s.doc) : TextAt(s.doc, p) =>
              /\ s.doc[p].begin \in Nat /\ s.doc[p].end \in Nat
              /\ s.doc[p].begin <= s.doc[p].end /\ s.doc[p].end < Word
        /\ \A p, q \in 1 .. Len(s.doc) : TextAt(s.doc, p) /\ TextAt(s.doc, q) /\ p < q => s.doc[p].end <= s.doc[q].begin
    BY RangeFacts
  <1>2. Word \in Nat /\ offset \in Int /\ NoOffset = Word - 1 /\ offset <= NoOffset
    BY SessionAssumption DEF Offset, NoOffset
  <1>3. u \in 1 .. Len(s.doc)
    BY <1>1
  <1> DEFINE b == s.doc[u].begin
             e == s.doc[u].end
  <1>4. b \in Nat /\ e \in Nat /\ b <= e /\ b <= NoOffset
    BY <1>1, <1>2, <1>3
  <1>5. offset2 <= b
    <2>1. CASE offset = NoOffset
      BY <1>4, <2>1
    <2>2. CASE offset # NoOffset
      <3>1. PICK p \in s.from .. u - 1 : TextAt(s.doc, p)
        BY <2>2 DEF NoTextIn
      <3>2. offset <= s.doc[p].begin
        BY <3>1 DEF Measures
      <3>3. p \in 1 .. Len(s.doc) /\ p < u
        BY <1>1, <3>1
      <3>4. s.doc[p].begin <= s.doc[p].end /\ s.doc[p].end <= b /\ s.doc[p].begin \in Nat /\ s.doc[p].end \in Nat
        BY <1>1, <1>3, <3>1, <3>3
      <3> QED
        BY <1>2, <1>4, <2>2, <3>2, <3>4, SMTT(30)
    <2> QED
      BY <2>1, <2>2
  <1>6. ASSUME NEW p \in s.from .. u, TextAt(s.doc, p), p # u
        PROVE  /\ offset2 <= s.doc[p].begin /\ s.doc[p].end <= e
               /\ NoTextIn(s, s.from, p - 1) => offset2 = s.doc[p].begin
               /\ ~NoTextIn(s, p + 1, u)
    <2>1. p \in s.from .. u - 1 /\ p \in 1 .. Len(s.doc) /\ p < u
      BY <1>1, <1>6
    <2>2. s.doc[p].begin <= s.doc[p].end /\ s.doc[p].end <= b /\ s.doc[p].begin \in Nat /\ s.doc[p].end \in Nat
      BY <1>1, <1>3, <1>6, <2>1
    <2>3. offset <= s.doc[p].begin /\ (NoTextIn(s, s.from, p - 1) => offset = s.doc[p].begin)
      BY <1>6, <2>1 DEF Measures
    <2>4. ~NoTextIn(s, p + 1, u)
      BY <2>1 DEF NoTextIn
    <2>5. CASE offset = NoOffset
      <3>1. s.doc[p].begin = b /\ offset2 = b
        <4> HIDE DEF b
        <4>1. offset2 = b
          BY <2>5 DEF b
        <4> QED
          BY <1>2, <1>4, <2>2, <2>3, <2>5, <4>1, SMTT(30)
      <3> QED
        BY <1>4, <2>2, <2>4, <3>1
    <2>6. CASE offset # NoOffset
      BY <1>4, <2>2, <2>3, <2>4, <2>6
    <2> QED
      BY <2>5, <2>6
  <1>7. NoTextIn(s, s.from, u - 1) => offset2 = b
    OBVIOUS
  <1> QED
    BY <1>4, <1>5, <1>6, <1>7 DEF Measures

(* and what is no text changes nothing. *)
LEMMA NoneMeasured ==
    ASSUME NEW s \in Sessions, NEW u \in Int, ~TextAt(s.doc, u),
           NEW offset, NEW length, Measures(s, u - 1, offset, length)
    PROVE  /\ Measures(s, u, offset, length)
           /\ NoTextIn(s, s.from, u) => NoTextIn(s, s.from, u - 1)
PROOF
  <1>1. s.from \in Nat
    BY RangeFacts
  <1>2. NoTextIn(s, s.from, u) => NoTextIn(s, s.from, u - 1)
    BY <1>1 DEF NoTextIn
  <1>3. ASSUME NEW p \in s.from .. u, TextAt(s.doc, p)
        PROVE  p \in s.from .. u - 1 /\ (NoTextIn(s, p + 1, u) => NoTextIn(s, p + 1, u - 1))
    BY <1>1, <1>3 DEF NoTextIn
  <1> QED
    BY <1>2, <1>3 DEF Measures

LEMMA MeasureInit == TypeInv /\ Init => MeasureInv
PROOF
  <1> SUFFICES ASSUME TypeInv, Init PROVE MeasureInv
    OBVIOUS
  <1>1. args \in Sessions /\ cpc = "preprocess" /\ pos = 1 /\ inRange = FALSE /\ textOffset = NoOffset
    BY DEF Init
  <1>2. args.from \in Nat /\ args.to \in Nat /\ 1 <= args.from /\ args.from <= args.to
    BY <1>1, RangeFacts
  <1>3. Measures(args, pos - 1, textOffset, textLen)
    BY <1>1, <1>2 DEF Measures
  <1> QED
    BY <1>1, <1>2, <1>3 DEF MeasureInv

LEMMA MeasureNext ==
    ASSUME \A s \in Sessions : MeasuredWhole(s)
    PROVE  TypeInv /\ MeasureInv /\ [Next]_vars => MeasureInv'
PROOF
  <1> SUFFICES ASSUME TypeInv, MeasureInv, [Next]_vars PROVE MeasureInv'
    OBVIOUS
  <1>1. /\ args \in Sessions /\ args' = args /\ MeasuredWhole(args) /\ inRange \in BOOLEAN
        /\ pos \in 1 .. Len(args.doc) + 1 /\ textOffset \in Offset /\ textLen \in Offset
    BY ArgumentsStay DEF TypeInv, TypeOK, End, doc
  <1>2. /\ args.from \in Nat /\ args.to \in Nat /\ 1 <= args.from /\ args.from <= args.to
        /\ args.to <= Len(args.doc) + 1 /\ Len(args.doc) \in Nat /\ pos \in Nat /\ 1 <= pos
    BY <1>1, RangeFacts
  <1>3. /\ args.from <= Len(args.doc) => ~TextAt(args.doc, args.from)
        /\ args.to <= Len(args.doc) => ~TextAt(args.doc, args.to)
    BY <1>1 DEF MeasuredWhole
  <1>4. cpc \in ClientPC
    BY DEF TypeInv, TypeOK
  <1>5. CASE Preprocess
    <2>1. /\ cpc = "preprocess" /\ pos <= Len(args.doc) /\ pos' = pos + 1
          /\ Measures(args, pos - 1, textOffset, textLen)
          /\ NoTextIn(args, args.from, pos - 1) => textOffset = NoOffset
          /\ inRange <=> pos > args.from
          /\ args.from < args.to => pos <= args.to
      BY <1>1, <1>2, <1>5 DEF Preprocess, MeasureInv, End, doc
    <2>2. CASE inRange /\ pos = args.to
      <3>1. UNCHANGED extent /\ cpc' = "enter"
        BY <1>2, <1>3, <1>5, <2>1, <2>2 DEF Preprocess, doc
      <3>2. textOffset' = textOffset /\ textLen' = textLen
        BY <3>1 DEF extent
      <3>3. Measures(args, args.to - 1, textOffset, textLen)
        BY <2>1, <2>2
      <3> QED
        BY <1>1, <3>1, <3>2, <3>3 DEF MeasureInv
    <2>3. CASE inRange /\ pos # args.to
      <3>1. /\ cpc' = "preprocess" /\ inRange' = inRange /\ pos' - 1 = pos
            /\ IF TextAt(args.doc, pos) THEN CountText(pos) ELSE UNCHANGED extent
        BY <1>2, <1>5, <2>1, <2>3 DEF Preprocess, doc
      <3>2. pos > args.from /\ (args.from < args.to => pos < args.to)
        BY <1>2, <2>1, <2>3
      <3>3. Measures(args, pos, textOffset', textLen') /\ (NoTextIn(args, args.from, pos) => textOffset' = NoOffset)
        <4>1. CASE TextAt(args.doc, pos)
          <5>1. textOffset' = (IF textOffset = NoOffset THEN args.doc[pos].begin ELSE textOffset)
                /\ textLen' = args.doc[pos].end
            BY <3>1, <4>1 DEF CountText, doc
          <5>2. Measures(args, pos, textOffset', args.doc[pos].end)
            BY <1>1, <1>2, <2>1, <3>2, <4>1, <5>1, OneMeasured
          <5>3. ~NoTextIn(args, args.from, pos)
            BY <1>2, <3>2, <4>1 DEF NoTextIn
          <5> QED
            BY <5>1, <5>2, <5>3
        <4>2. CASE ~TextAt(args.doc, pos)
          <5>1. textOffset' = textOffset /\ textLen' = textLen
            BY <3>1, <4>2 DEF extent
          <5>2. Measures(args, pos, textOffset, textLen)
                /\ (NoTextIn(args, args.from, pos) => NoTextIn(args, args.from, pos - 1))
            BY <1>1, <1>2, <2>1, <4>2, NoneMeasured
          <5> QED
            BY <2>1, <5>1, <5>2
        <4> QED
          BY <4>1, <4>2
      <3>4. /\ inRange' <=> pos' > args.from
            /\ args.from < args.to => pos' <= args.to
        BY <1>2, <2>1, <2>3, <3>1, <3>2
      <3> QED
        BY <1>1, <3>1, <3>3, <3>4 DEF MeasureInv
    <2>4. CASE ~inRange
      <3>1. cpc' = "preprocess" /\ inRange' = (pos = args.from) /\ pos' - 1 = pos /\ UNCHANGED extent
        BY <1>2, <1>5, <2>1, <2>4 DEF Preprocess
      <3>2. textOffset' = textOffset /\ textLen' = textLen
        BY <3>1 DEF extent
      <3>3. pos <= args.from
        BY <1>2, <2>1, <2>4
      <3>4. CASE pos = args.from
        <4>1. ~TextAt(args.doc, pos)
          BY <1>3, <2>1, <3>4
        <4>2. Measures(args, pos, textOffset, textLen)
              /\ (NoTextIn(args, args.from, pos) => NoTextIn(args, args.from, pos - 1))
          BY <1>1, <1>2, <2>1, <4>1, NoneMeasured
        <4>3. inRange'
          BY <3>1, <3>4, Zenon
        <4>4. pos' > args.from /\ (args.from < args.to => pos' <= args.to)
          BY <1>2, <2>1, <3>4
        <4> QED
          BY <1>1, <2>1, <3>1, <3>2, <4>2, <4>3, <4>4 DEF MeasureInv
      <3>5. CASE pos # args.from
        <4>1. pos < args.from
          BY <1>2, <3>3, <3>5
        <4>2. Measures(args, pos, textOffset, textLen)
              /\ (NoTextIn(args, args.from, pos) => NoTextIn(args, args.from, pos - 1))
          BY <1>2, <4>1 DEF Measures, NoTextIn
        <4>3. ~inRange'
          BY <3>1, <3>5, Zenon
        <4>4. ~(pos' > args.from) /\ (args.from < args.to => pos' <= args.to)
          BY <1>2, <2>1, <4>1
        <4> QED
          BY <1>1, <2>1, <3>1, <3>2, <4>2, <4>3, <4>4 DEF MeasureInv
      <3> QED
        BY <3>4, <3>5
    <2> QED
      BY <1>1, <2>2, <2>3, <2>4
  <1>6. CASE PreprocessDone
    <2>1. cpc = "preprocess" /\ pos = Len(args.doc) + 1 /\ cpc' = "enter" /\ UNCHANGED extent
      BY <1>6 DEF PreprocessDone, End, doc
    <2>2. /\ Measures(args, pos - 1, textOffset, textLen)
          /\ args.from < args.to => pos <= args.to
      BY <2>1 DEF MeasureInv
    <2>3. Measures(args, args.to - 1, textOffset, textLen)
      <3>1. CASE args.from < args.to
        <4>1. pos = args.to
          BY <1>2, <2>1, <2>2, <3>1
        <4> QED
          BY <2>2, <4>1
      <3>2. CASE args.from = args.to
        BY <1>2, <3>2 DEF Measures
      <3> QED
        BY <1>2, <3>1, <3>2
    <2> QED
      BY <1>1, <2>1, <2>3 DEF MeasureInv, extent
  <1>7. CASE UNCHANGED <<extent, scan>> /\ (cpc = "preprocess" <=> cpc' = "preprocess")
    BY <1>1, <1>7 DEF MeasureInv, extent, scan
  <1>8. CASE Client /\ ~Preprocess /\ ~PreprocessDone
    <2>1. UNCHANGED <<extent, scan>> /\ (cpc = "preprocess" <=> cpc' = "preprocess")
      BY <1>8, <1>4 DEF Client, Constructor, Construct, Poll, Stop, Wait, Joined, StopJoined, WaitJoined, Drop, client, ClientPC
    <2> QED
      BY <1>7, <2>1
  <1>9. CASE Thread
    <2>1. UNCHANGED <<extent, scan, cpc>>
      BY <1>9 DEF Thread, ThreadStarted, NoMoreNodes, BeginNode, SkipMedia, OpenMedia, PlayBlock, MediaDone, SpeakText,
            SkipText, Callback, Deliver, SpeakDone, Throw, ProgressOffset, Progress, UpdateContext, CheckState, CloseAudio,
            Finished, client
    <2> QED
      BY <1>7, <2>1
  <1>10. CASE UNCHANGED vars
    BY <1>7, <1>10 DEF vars, client
  <1> QED
    BY <1>5, <1>6, <1>8, <1>9, <1>10 DEF Next

(* The steps that pass a text, or an item that is none, to the text that is read next. *)
LEMMA PassesItem ==
    ASSUME NEW s, NEW n \in Int, ~TextAt(s.doc, n), NEW offset, BeginsNext(s, n, offset)
    PROVE  BeginsNext(s, n + 1, offset)
PROOF
  <1> SUFFICES ASSUME NEW q \in n + 1 .. s.to - 1, TextAt(s.doc, q), NoTextIn(s, n + 1, q - 1)
               PROVE  offset = s.doc[q].begin
    BY DEF BeginsNext
  <1>1. q \in n .. s.to - 1
    OBVIOUS
  <1>2. NoTextIn(s, n, q - 1)
    BY DEF NoTextIn
  <1> QED
    BY <1>1, <1>2 DEF BeginsNext

LEMMA PassesText ==
    ASSUME NEW s \in Sessions, NEW n \in s.from .. s.to - 1, TextAt(s.doc, n)
    PROVE  BeginsNext(s, n + 1, s.doc[n].end)
PROOF
  <1>1. /\ Len(s.doc) \in Nat /\ s.from \in Nat /\ s.to \in Nat /\ 1 <= s.from /\ s.to <= Len(s.doc) + 1
        /\ \A p, q \in 1 .. Len(s.doc) : 
              TextAt(s.doc, p) /\ TextAt(s.doc, q) /\ p < q /\ NoTextIn(s, p + 1, q - 1)
                  => s.doc[p].end = s.doc[q].begin
    BY RangeFacts
  <1> SUFFICES ASSUME NEW q \in n + 1 .. s.to - 1, TextAt(s.doc, q), NoTextIn(s, n + 1, q - 1)
               PROVE  s.doc[n].end = s.doc[q].begin
    BY DEF BeginsNext
  <1>2. n \in 1 .. Len(s.doc) /\ q \in 1 .. Len(s.doc) /\ n < q
    BY <1>1
  <1> QED
    BY <1>1, <1>2

LEMMA AtText ==
    ASSUME NEW s \in Sessions, NEW n \in s.from .. s.to - 1, TextAt(s.doc, n), NEW offset, BeginsNext(s, n, offset)
    PROVE  offset = s.doc[n].begin
PROOF
  <1>1. s.from \in Nat /\ s.to \in Nat
    BY RangeFacts
  <1>2. NoTextIn(s, n, n - 1) /\ n \in n .. s.to - 1
    BY <1>1 DEF NoTextIn
  <1> QED
    BY <1>2 DEF BeginsNext

LEMMA AtStart ==
    ASSUME NEW s \in Sessions, NEW offset, NEW length, Measures(s, s.to - 1, offset, length)
    PROVE  BeginsNext(s, s.from, offset)
PROOF BY DEF Measures, BeginsNext

LEMMA PlaceInit == TypeInv /\ Init => PlaceInv
PROOF BY DEF Init, PlaceInv, BeforeText, AfterText

(* What a text that is read measures. *)
LEMMA InRange ==
    ASSUME NEW s \in Sessions, NEW n \in s.from .. s.to - 1, TextAt(s.doc, n),
           NEW offset \in Offset, NEW length \in Offset, Measures(s, s.to - 1, offset, length),
           NEW read \in Int, s.doc[n].begin <= read, read <= s.doc[n].end
    PROVE  /\ Wrap(read - offset) <= Wrap(length - offset)
           /\ NoTextIn(s, n + 1, s.to - 1) /\ read = s.doc[n].end => Wrap(read - offset) = Wrap(length - offset)
PROOF
  <1>1. offset <= s.doc[n].begin /\ s.doc[n].end <= length
        /\ (NoTextIn(s, n + 1, s.to - 1) => length = s.doc[n].end)
    BY DEF Measures
  <1>2. n \in 1 .. Len(s.doc)
    <2>1. s.from \in Nat /\ s.to \in Nat /\ 1 <= s.from /\ s.to <= Len(s.doc) + 1 /\ Len(s.doc) \in Nat
      BY RangeFacts
    <2> QED
      BY <2>1
  <1>3. s.doc[n].begin \in Nat /\ s.doc[n].end \in Nat
    BY <1>2, RangeFacts
  <1>4. offset \in Int /\ length \in Int /\ 0 <= offset /\ length < Word /\ Word \in Nat /\ Word > 0
    BY SessionAssumption DEF Offset
  <1> DEFINE a == read - offset
             b == length - offset
  <1>5. a \in Int /\ b \in Int /\ 0 <= a /\ a <= b /\ b < Word
    BY <1>1, <1>3, <1>4
  <1>6. NoTextIn(s, n + 1, s.to - 1) /\ read = s.doc[n].end => a = b
    BY <1>1
  <1> HIDE DEF a, b
  <1>7. a % Word = a /\ b % Word = b
    BY <1>4, <1>5
  <1>8. Wrap(a) = a /\ Wrap(b) = b
    BY <1>7 DEF Wrap
  <1>9. Wrap(a) <= Wrap(b) /\ (NoTextIn(s, n + 1, s.to - 1) /\ read = s.doc[n].end => Wrap(a) = Wrap(b))
    BY <1>5, <1>6, <1>8
  <1> QED
    BY <1>9 DEF a, b

LEMMA PlaceNext ==
    ASSUME \A s \in Sessions : MeasuredWhole(s)
    PROVE  TypeInv /\ LifeInv /\ MeasureInv /\ PlaceInv /\ [Next]_vars => PlaceInv'
PROOF
  <1> SUFFICES ASSUME TypeInv, LifeInv, MeasureInv, PlaceInv, [Next]_vars PROVE PlaceInv'
    OBVIOUS
  <1>0. /\ args \in Sessions /\ args' = args /\ doc = args.doc /\ doc' = args.doc
        /\ node \in Int /\ node \in args.from .. args.to /\ args.from \in Nat /\ args.to \in Nat
        /\ tpc \in BodyPC => node \in args.from .. args.to - 1
        /\ tpc \in {"speak", "deliver", "offset"} => TextAt(args.doc, node)
        /\ tpc \in ThreadPC /\ speakingPos \in Int
    <2>1. args \in Sessions /\ args' = args
      BY ArgumentsStay DEF TypeInv, TypeOK
    <2>2. args.from \in Nat /\ args.to \in Nat /\ Len(args.doc) \in Nat
      BY <2>1, RangeFacts
    <2> QED
      BY <2>1, <2>2 DEF TypeInv, TypeOK, LoopInv, doc, Offset
  <1>1. tpc # "unborn" => Measures(args, args.to - 1, textOffset, textLen)
    BY DEF LifeInv, MeasureInv
  <1> USE <1>0 DEF BeforeText, AfterText, BodyPC
  <1>2. CASE UNCHANGED <<tpc, node, currentOffset, speakingPos>>
    BY <1>2 DEF PlaceInv
  <1>3. CASE Client /\ ~Construct
    <2>1. UNCHANGED <<tpc, node, currentOffset, speakingPos>>
      BY <1>3 DEF Client, Constructor, Preprocess, PreprocessDone, Poll, Stop, Wait, Joined, StopJoined, WaitJoined, Drop, loop, progress
    <2> QED
      BY <1>2, <2>1
  <1>4. CASE Construct
    <2>1. tpc = "unborn"
      BY <1>4 DEF Construct, LifeInv
    <2>2. tpc' \in {"unborn", "started"} /\ UNCHANGED <<node, speakingPos>>
      BY <1>4, <2>1 DEF Construct, loop
    <2> QED
      BY <2>1, <2>2 DEF PlaceInv
  <1>5. CASE ThreadStarted
    <2>1. tpc = "started" /\ UNCHANGED <<node, speakingPos>>
      BY <1>5 DEF ThreadStarted, loop
    <2>2. node = args.from /\ speakingPos = 0
      BY <2>1 DEF PlaceInv
    <2>3. CASE tpc' = "finish"
      BY <2>3 DEF PlaceInv
    <2>4. CASE tpc' = "next"
      <3>1. currentOffset' = textOffset
        BY <1>5, <2>4 DEF ThreadStarted, Started
      <3>2. BeginsNext(args, args.from, textOffset)
        BY <1>1, <2>1, AtStart
      <3> QED
        BY <2>1, <2>2, <2>4, <3>1, <3>2 DEF PlaceInv
    <2> QED
      BY <1>5, <2>3, <2>4 DEF ThreadStarted
  <1>6. CASE /\ tpc' \in {"next", "media", "play", "text"}
             /\ tpc \in {"next", "media", "play", "text"}
             /\ UNCHANGED <<node, currentOffset, speakingPos>>
    BY <1>6 DEF PlaceInv
  <1>7. CASE BeginNode \/ SkipMedia \/ OpenMedia \/ PlayBlock \/ MediaDone
    <2>1. /\ tpc' \in {"next", "media", "play", "text"} /\ tpc \in {"next", "media", "play", "text"}
          /\ UNCHANGED <<node, currentOffset, speakingPos>>
      BY <1>7 DEF BeginNode, SkipMedia, OpenMedia, PlayBlock, MediaDone, loop, progress
    <2> QED
      BY <1>6, <2>1
  <1>8. CASE tpc' \in {"finish", "closed", "done"}
    BY <1>8 DEF PlaceInv
  <1>9. CASE NoMoreNodes \/ Throw \/ CloseAudio \/ Finished
    <2>1. tpc' \in {"finish", "closed", "done"}
      BY <1>9 DEF NoMoreNodes, Throw, CloseAudio, Finished
    <2> QED
      BY <1>8, <2>1
  <1>10. CASE SpeakText
    <2>1. tpc = "text" /\ tpc' = "speak" /\ TextAt(args.doc, node) /\ UNCHANGED <<node, currentOffset, speakingPos>>
      BY <1>10 DEF SpeakText, progress
    <2>2. node \in 1 .. Len(args.doc) /\ speakingPos = 0 /\ BeginsNext(args, node, currentOffset)
      <3>1. 1 <= args.from /\ args.to <= Len(args.doc) + 1 /\ Len(args.doc) \in Nat
        BY RangeFacts
      <3> QED
        BY <2>1, <3>1 DEF PlaceInv
    <2>3. 0 <= args.doc[node].end - args.doc[node].begin
      <3>1. /\ args.doc[node].begin \in Nat /\ args.doc[node].end \in Nat
            /\ args.doc[node].begin <= args.doc[node].end
        BY <2>1, <2>2, RangeFacts
      <3> QED
        BY <3>1
    <2> QED
      BY <2>1, <2>2, <2>3 DEF PlaceInv
  <1>11. CASE SkipText
    <2>1. tpc = "text" /\ UNCHANGED <<node, currentOffset, speakingPos>>
          /\ tpc' = IF TextAt(args.doc, node) THEN "offset" ELSE "anchor"
      BY <1>11 DEF SkipText, loop, progress
    <2>2. speakingPos = 0 /\ BeginsNext(args, node, currentOffset)
      BY <2>1 DEF PlaceInv
    <2>3. CASE TextAt(args.doc, node)
      BY <2>1, <2>2, <2>3 DEF PlaceInv
    <2>4. CASE ~TextAt(args.doc, node)
      <3>1. BeginsNext(args, node + 1, currentOffset)
        BY <2>2, <2>4, PassesItem
      <3> QED
        BY <2>1, <2>2, <2>4, <3>1 DEF PlaceInv
    <2> QED
      BY <2>3, <2>4
  <1>12. CASE Callback
    <2>1. tpc = "speak" /\ tpc' = "deliver" /\ UNCHANGED <<node, currentOffset>>
      BY <1>12 DEF Callback
    <2>2. BeginsNext(args, node, currentOffset) /\ speakingPos <= args.doc[node].end - args.doc[node].begin
      BY <2>1 DEF PlaceInv
    <2>3. speakingPos' <= args.doc[node].end - args.doc[node].begin
      <3>1. CASE UNCHANGED speakingPos
        BY <2>2, <3>1
      <3>2. CASE \E p \in 0 .. args.doc[node].end - args.doc[node].begin : speakingPos' = p
        BY <3>2
      <3> QED
        BY <1>12, <3>1, <3>2 DEF Callback, OnTextRange
    <2> QED
      BY <2>1, <2>2, <2>3 DEF PlaceInv
  <1>13. CASE Deliver \/ SpeakDone
    <2>1. tpc \in {"speak", "deliver"} /\ tpc' \in {"speak", "offset"} /\ UNCHANGED <<node, currentOffset, speakingPos>>
      BY <1>13 DEF Deliver, SpeakDone, loop, progress
    <2> QED
      BY <2>1 DEF PlaceInv
  <1>14. CASE ProgressOffset
    <2>1. tpc = "offset" /\ tpc' = "progress" /\ currentOffset' = args.doc[node].end /\ UNCHANGED <<node, speakingPos>>
      BY <1>14 DEF ProgressOffset, ReadUpTo, loop
    <2>2. BeginsNext(args, node + 1, args.doc[node].end)
      BY <2>1, PassesText
    <2> QED
      BY <2>1, <2>2 DEF PlaceInv
  <1>15. CASE Progress
    <2>1. tpc = "progress" /\ tpc' = "anchor" /\ speakingPos' = 0 /\ UNCHANGED <<node, currentOffset>>
      BY <1>15 DEF Progress, OnTextRange, loop
    <2> QED
      BY <2>1 DEF PlaceInv
  <1>16. CASE UpdateContext
    <2>1. tpc = "anchor" /\ tpc' = "check" /\ UNCHANGED <<node, currentOffset, speakingPos>>
      BY <1>16 DEF UpdateContext, loop, progress
    <2> QED
      BY <2>1 DEF PlaceInv
  <1>17. CASE CheckState
    <2>1. CASE speechState = "stopped"
      BY <1>8, <1>17, <2>1 DEF CheckState
    <2>2. CASE speechState # "stopped"
      <3>1. tpc = "check" /\ tpc' = "next" /\ node' = node + 1 /\ UNCHANGED <<currentOffset, speakingPos>>
        BY <1>17, <2>2 DEF CheckState, progress
      <3> QED
        BY <3>1 DEF PlaceInv
    <2> QED
      BY <2>1, <2>2
  <1>18. CASE UNCHANGED vars
    BY <1>2, <1>18 DEF vars, loop, progress
  <1> QED
    BY <1>3, <1>4, <1>5, <1>7, <1>9, <1>10, <1>11, <1>12, <1>13, <1>14, <1>15, <1>16, <1>17, <1>18
    DEF Next, Client, Constructor, Thread

LEMMA CompleteInit == TypeInv /\ Init => CompleteInv
PROOF BY DEF Init, CompleteInv, BeforeText

LEMMA NothingRead == ASSUME NEW s \in Sessions, NEW told PROVE Complete(s, s.from, told)
PROOF
  <1>1. s.from \in Nat
    BY RangeFacts
  <1> QED
    BY <1>1 DEF Complete, NoTextIn

LEMMA ItemRead ==
    ASSUME NEW s \in Sessions, NEW n \in s.from .. s.to, ~TextAt(s.doc, n), NEW told, Complete(s, n, told)
    PROVE  Complete(s, n + 1, told)
PROOF
  <1>1. s.from \in Nat /\ s.to \in Nat
    BY RangeFacts
  <1>2. NoTextIn(s, n + 1, s.to - 1) => NoTextIn(s, n, s.to - 1)
    BY <1>1 DEF NoTextIn
  <1>3. NoTextIn(s, s.from, n - 1) => NoTextIn(s, s.from, (n + 1) - 1)
    BY <1>1 DEF NoTextIn
  <1> QED
    BY <1>2, <1>3 DEF Complete

LEMMA TextIsNotRead ==
    ASSUME NEW s \in Sessions, NEW n \in s.from .. s.to - 1, TextAt(s.doc, n), NEW told
    PROVE  Complete(s, n, told)
PROOF
  <1>1. s.from \in Nat /\ s.to \in Nat
    BY RangeFacts
  <1> QED
    BY <1>1 DEF Complete, NoTextIn

(* What is told when a place in a text is. *)
LEMMA Told ==
    ASSUME TypeInv, NEW n \in args.from .. args.to - 1, TextAt(args.doc, n),
           Measures(args, args.to - 1, textOffset, textLen), NEW offset \in Int, NEW p \in Int,
           args.doc[n].begin <= offset + p, offset + p <= args.doc[n].end, OnTextRange(offset, p)
    PROVE  /\ mProgress'.num <= mProgress'.den
           /\ NoTextIn(args, n + 1, args.to - 1) /\ offset + p = args.doc[n].end => mProgress'.num = mProgress'.den
PROOF
  <1>1. mProgress'.num = Wrap((offset + p) - textOffset) /\ mProgress'.den = Wrap(textLen - textOffset)
    <2> DEFINE a == Wrap(offset + p - textOffset)
               b == Wrap(textLen - textOffset)
    <2>1. mProgress' = [num |-> a, den |-> b]
      BY DEF OnTextRange, Percentage
    <2>2. offset + p - textOffset = (offset + p) - textOffset
      BY DEF TypeInv, TypeOK, Offset
    <2>3. a = Wrap((offset + p) - textOffset)
      BY <2>2
    <2> HIDE DEF a, b
    <2>4. mProgress'.num = a /\ mProgress'.den = b
      BY <2>1
    <2> QED
      BY <2>3, <2>4 DEF b
  <1>2. args \in Sessions /\ textOffset \in Offset /\ textLen \in Offset /\ offset + p \in Int
    BY DEF TypeInv, TypeOK
  <1> DEFINE read == offset + p
  <1>3. /\ Wrap(read - textOffset) <= Wrap(textLen - textOffset)
        /\ NoTextIn(args, n + 1, args.to - 1) /\ read = args.doc[n].end
              => Wrap(read - textOffset) = Wrap(textLen - textOffset)
    <2> HIDE DEF read
    <2>1. read \in Int
      BY <1>2 DEF read
    <2>2. args.doc[n].begin <= read /\ read <= args.doc[n].end
      BY DEF read
    <2> QED
      BY <1>2, <2>1, <2>2, InRange
  <1> QED
    BY <1>1, <1>3

LEMMA CompleteNext ==
    ASSUME \A s \in Sessions : MeasuredWhole(s)
    PROVE  TypeInv /\ LifeInv /\ MeasureInv /\ PlaceInv /\ CompleteInv /\ [Next]_vars => CompleteInv'
PROOF
  <1> SUFFICES ASSUME TypeInv, LifeInv, MeasureInv, PlaceInv, CompleteInv, [Next]_vars PROVE CompleteInv'
    OBVIOUS
  <1>0. /\ args \in Sessions /\ args' = args /\ doc = args.doc /\ doc' = args.doc
        /\ node \in Int /\ node \in args.from .. args.to /\ args.from \in Nat /\ args.to \in Nat
        /\ tpc \in BodyPC => node \in args.from .. args.to - 1
        /\ tpc \in {"speak", "deliver", "offset"} => TextAt(args.doc, node)
        /\ tpc \in ThreadPC /\ speakingPos \in Int /\ currentOffset \in Int /\ speechState \in {"speaking", "stopped"}
    <2>1. args \in Sessions /\ args' = args
      BY ArgumentsStay DEF TypeInv, TypeOK
    <2>2. args.from \in Nat /\ args.to \in Nat /\ Len(args.doc) \in Nat
      BY <2>1, RangeFacts
    <2> QED
      BY <2>1, <2>2 DEF TypeInv, TypeOK, LoopInv, doc, Offset
  <1>1. tpc # "unborn" => Measures(args, args.to - 1, textOffset, textLen)
    BY DEF LifeInv, MeasureInv
  <1>2. spoken # <<>> => ~NoTextIn(args, args.from, args.to - 1)
    BY DEF CompleteInv
  <1> USE <1>0 DEF BeforeText, BodyPC
  <1>3. CASE UNCHANGED <<tpc, node, mProgress, mErrorMessage, spoken>> /\ (speechState = "stopped" => speechState' = "stopped")
    BY <1>3 DEF CompleteInv
  <1>4. CASE Client /\ ~Construct
    <2>1. UNCHANGED <<tpc, node, mProgress, mErrorMessage, spoken>> /\ (speechState = "stopped" => speechState' = "stopped")
      BY <1>4 DEF Client, Constructor, Preprocess, PreprocessDone, Poll, Stop, Wait, Joined, StopJoined, WaitJoined, Drop,
            loop, progress, history
    <2> QED
      BY <1>3, <2>1
  <1>5. CASE Construct
    <2>1. tpc = "unborn" /\ tpc' \in {"unborn", "started"} /\ UNCHANGED <<node, spoken>>
      BY <1>5 DEF Construct, LifeInv, loop, history
    <2>2. mProgress'.num <= mProgress'.den
      BY <1>5 DEF Construct, Started, CompleteInv
    <2> QED
      BY <1>2, <2>1, <2>2 DEF CompleteInv
  <1>6. CASE ThreadStarted
    <2>1. tpc = "started" /\ node' = node /\ spoken' = spoken
      BY <1>6 DEF ThreadStarted, loop, history
    <2>2. mProgress'.num <= mProgress'.den
      BY <1>6 DEF ThreadStarted, Started, CompleteInv
    <2>3. node = args.from
      BY <2>1 DEF PlaceInv
    <2>4. Complete(args, args.from, mProgress')
      BY NothingRead
    <2>5. tpc' = "next" \/ (tpc' = "finish" /\ mErrorMessage' = TRUE)
      BY <1>6 DEF ThreadStarted
    <2> QED
      BY <1>2, <2>1, <2>2, <2>3, <2>4, <2>5 DEF CompleteInv
  <1>7. CASE NoMoreNodes
    <2>1. tpc = "next" /\ tpc' = "finish" /\ node = args.to /\ UNCHANGED <<node, mProgress, spoken>>
      BY <1>7 DEF NoMoreNodes, loop, progress, history
    <2> QED
      BY <1>2, <2>1 DEF CompleteInv
  <1>8. CASE BeginNode \/ SkipMedia \/ OpenMedia \/ PlayBlock \/ MediaDone \/ Deliver \/ SpeakDone \/ ProgressOffset
    <2>1. tpc \in BeforeText /\ tpc' \in BeforeText \cup {"progress"} /\ UNCHANGED <<node, mProgress, spoken>>
      BY <1>8 DEF BeginNode, SkipMedia, OpenMedia, PlayBlock, MediaDone, Deliver, SpeakDone, ProgressOffset,
            loop, progress, history
    <2> QED
      BY <1>2, <2>1 DEF CompleteInv
  <1>9. CASE SpeakText
    <2>1. tpc = "text" /\ tpc' = "speak" /\ TextAt(args.doc, node) /\ UNCHANGED <<node, mProgress>>
      BY <1>9 DEF SpeakText, progress
    <2>2. ~NoTextIn(args, args.from, args.to - 1)
      BY <2>1 DEF NoTextIn
    <2> QED
      BY <2>1, <2>2 DEF CompleteInv
  <1>10. CASE SkipText
    <2>1. tpc = "text" /\ UNCHANGED <<node, mProgress, spoken>>
          /\ tpc' = IF TextAt(args.doc, node) THEN "offset" ELSE "anchor"
      BY <1>10 DEF SkipText, loop, progress, history
    <2>2. Complete(args, node, mProgress)
      BY <2>1 DEF CompleteInv
    <2>3. CASE TextAt(args.doc, node)
      BY <1>2, <2>1, <2>2, <2>3 DEF CompleteInv
    <2>4. CASE ~TextAt(args.doc, node)
      <3>1. Complete(args, node + 1, mProgress)
        BY <2>2, <2>4, ItemRead
      <3> QED
        BY <1>2, <2>1, <2>4, <3>1 DEF CompleteInv
    <2> QED
      BY <2>3, <2>4
  <1>11. CASE Callback
    <2>1. tpc = "speak" /\ tpc' = "deliver" /\ UNCHANGED <<node, spoken>>
      BY <1>11 DEF Callback, history
    <2>2. mProgress'.num <= mProgress'.den
      <3>1. CASE UNCHANGED mProgress
        BY <3>1 DEF CompleteInv
      <3>2. ASSUME NEW p \in 0 .. args.doc[node].end - args.doc[node].begin, OnTextRange(currentOffset, p)
            PROVE  mProgress'.num <= mProgress'.den
        <4>1. currentOffset = args.doc[node].begin
          <5>1. BeginsNext(args, node, currentOffset)
            BY <2>1 DEF PlaceInv
          <5> QED
            BY <2>1, <5>1, AtText
        <4>2. p \in Int /\ 0 <= p /\ p <= args.doc[node].end - args.doc[node].begin
          OBVIOUS
        <4>3. args.doc[node].end \in Int
          <5>1. 1 <= args.from /\ args.to <= Len(args.doc) + 1 /\ Len(args.doc) \in Nat
            BY RangeFacts
          <5>2. node \in 1 .. Len(args.doc)
            BY <2>1, <5>1
          <5> QED
            BY <2>1, <5>2, RangeFacts
        <4>4. args.doc[node].begin <= currentOffset + p /\ currentOffset + p <= args.doc[node].end
          BY <4>1, <4>2, <4>3
        <4> QED
          BY <1>1, <2>1, <3>2, <4>2, <4>4, Told
      <3> QED
        BY <1>11, <3>1, <3>2 DEF Callback
    <2>3. Complete(args, node, mProgress')
      BY <2>1, TextIsNotRead
    <2> QED
      BY <1>2, <2>1, <2>2, <2>3 DEF CompleteInv
  <1>12. CASE Throw
    <2>1. tpc' = "finish" /\ mErrorMessage' = TRUE /\ UNCHANGED <<mProgress, spoken>>
      BY <1>12 DEF Throw, progress, history
    <2> QED
      BY <1>2, <2>1 DEF CompleteInv
  <1>13. CASE Progress
    <2>1. tpc = "progress" /\ tpc' = "anchor" /\ OnTextRange(currentOffset, 0) /\ UNCHANGED <<node, spoken>>
      BY <1>13 DEF Progress, loop, history
    <2>2. TextAt(args.doc, node) /\ currentOffset = args.doc[node].end
      BY <2>1 DEF PlaceInv
    <2>3. args.doc[node].begin <= currentOffset + 0 /\ currentOffset + 0 = args.doc[node].end
      <3>1. 1 <= args.from /\ args.to <= Len(args.doc) + 1 /\ Len(args.doc) \in Nat
        BY RangeFacts
      <3>2. node \in 1 .. Len(args.doc)
        BY <2>1, <3>1
      <3>3. args.doc[node].begin <= args.doc[node].end
        BY <2>2, <3>2, RangeFacts
      <3> QED
        BY <2>2, <3>3
    <2>4. /\ mProgress'.num <= mProgress'.den
          /\ NoTextIn(args, node + 1, args.to - 1) => mProgress'.num = mProgress'.den
      <3>1. currentOffset + 0 <= args.doc[node].end /\ 0 \in Int
        BY <2>3
      <3> QED
        BY <1>1, <2>1, <2>2, <2>3, <3>1, Told
    <2>5. Complete(args, node + 1, mProgress')
      BY <2>4 DEF Complete
    <2> QED
      BY <1>2, <2>1, <2>4, <2>5 DEF CompleteInv
  <1>14. CASE UpdateContext
    <2>1. tpc = "anchor" /\ tpc' = "check" /\ UNCHANGED <<node, mProgress, spoken>>
      BY <1>14 DEF UpdateContext, loop, progress, history
    <2> QED
      BY <1>2, <2>1 DEF CompleteInv
  <1>15. CASE CheckState
    <2>1. tpc = "check" /\ UNCHANGED <<mProgress, spoken, speechState>>
      BY <1>15 DEF CheckState, progress, history
    <2>2. CASE speechState = "stopped"
      BY <1>2, <1>15, <2>1, <2>2 DEF CheckState, CompleteInv
    <2>3. CASE speechState # "stopped"
      <3>1. tpc' = "next" /\ node' = node + 1
        BY <1>15, <2>3 DEF CheckState
      <3> QED
        BY <1>2, <2>1, <3>1 DEF CompleteInv
    <2> QED
      BY <2>2, <2>3
  <1>16. CASE CloseAudio
    <2>1. tpc = "finish" /\ tpc' = "closed" /\ UNCHANGED <<mProgress, spoken, speechState, mErrorMessage>>
      BY <1>16 DEF CloseAudio, progress, history
    <2> QED
      BY <1>2, <2>1 DEF CompleteInv
  <1>17. CASE Finished
    <2>1. tpc' = "done" /\ UNCHANGED <<mProgress, spoken>>
      BY <1>17 DEF Finished, progress, history
    <2> QED
      BY <1>2, <2>1 DEF CompleteInv
  <1>18. CASE UNCHANGED vars
    BY <1>3, <1>18 DEF vars, loop, progress, history
  <1> QED
    BY <1>4, <1>5, <1>6, <1>7, <1>8, <1>9, <1>10, <1>11, <1>12, <1>13, <1>14, <1>15, <1>16, <1>17, <1>18
    DEF Next, Client, Constructor, Thread

LEMMA PassesEntry ==
    ASSUME NEW s \in Sessions, ListingFollows(s), NEW n \in 1 .. Len(s.doc), Has(s.doc, n, "anchor"),
           NEW entry \in 1 .. Len(s.listing) - 1, Passed(s, n - 1, entry), s.listing[entry + 1] = s.doc[n].anchor
    PROVE  Passed(s, n, entry + 1)
PROOF
  <1>1. Len(s.listing) \in Nat /\ Len(s.doc) \in Nat
    BY RangeFacts
  <1>2. n \in AnchorsAt(s.doc, s.listing[entry + 1])
    BY DEF AnchorsAt
  <1> SUFFICES ASSUME NEW k \in 2 .. Len(s.listing)
               PROVE  k <= entry + 1 <=> \E q \in AnchorsAt(s.doc, s.listing[k]) : q <= n
    BY DEF Passed
  <1>3. \A q \in AnchorsAt(s.doc, s.listing[k]) : q \in Int
    BY <1>1 DEF AnchorsAt
  <1>4. CASE k <= entry
    <2>1. PICK q \in AnchorsAt(s.doc, s.listing[k]) : q <= n - 1
      BY <1>4 DEF Passed
    <2> QED
      BY <1>1, <1>3, <1>4, <2>1
  <1>5. CASE k = entry + 1
    BY <1>1, <1>2, <1>5
  <1>6. CASE k > entry + 1
    <2>1. entry + 1 \in 2 .. k - 1
      BY <1>1, <1>6
    <2>2. \A q \in AnchorsAt(s.doc, s.listing[k]) : n < q
      BY <1>2, <2>1 DEF ListingFollows
    <2> QED
      BY <1>1, <1>3, <1>6, <2>2
  <1> QED
    BY <1>1, <1>4, <1>5, <1>6

LEMMA PassesNoEntry ==
    ASSUME NEW s \in Sessions, ListingFollows(s), NEW n \in 1 .. Len(s.doc), NEW entry \in 1 .. Len(s.listing),
           Passed(s, n - 1, entry),
           ~(Has(s.doc, n, "anchor") /\ entry + 1 \in 1 .. Len(s.listing) /\ s.listing[entry + 1] = s.doc[n].anchor)
    PROVE  Passed(s, n, entry)
PROOF
  <1>1. Len(s.listing) \in Nat /\ Len(s.doc) \in Nat
    BY RangeFacts
  <1> SUFFICES ASSUME NEW k \in 2 .. Len(s.listing)
               PROVE  k <= entry <=> \E q \in AnchorsAt(s.doc, s.listing[k]) : q <= n
    BY DEF Passed
  <1>2. \A anchor : \A q \in AnchorsAt(s.doc, anchor) : q \in Int
    BY <1>1 DEF AnchorsAt
  <1>3. CASE k <= entry
    <2>1. PICK q \in AnchorsAt(s.doc, s.listing[k]) : q <= n - 1
      BY <1>3 DEF Passed
    <2> QED
      BY <1>1, <1>2, <1>3, <2>1
  <1>4. CASE k > entry
    <2>1. SUFFICES ASSUME NEW q \in AnchorsAt(s.doc, s.listing[k]), q <= n
                   PROVE  FALSE
      BY <1>4
    <2>2. ~(q <= n - 1)
      BY <1>4 DEF Passed
    <2>3. q = n
      BY <1>1, <1>2, <2>1, <2>2
    <2>4. Has(s.doc, n, "anchor") /\ s.doc[n].anchor = s.listing[k]
      BY <2>3 DEF AnchorsAt
    <2>5. entry + 1 \in 2 .. k - 1
      BY <1>1, <1>4, <2>4
    <2>6. entry + 1 \in 2 .. Len(s.listing)
      BY <1>1, <2>5
    <2>7. PICK r \in AnchorsAt(s.doc, s.listing[entry + 1]) : TRUE
      BY <2>6 DEF ListingFollows
    <2>8. r < n
      BY <2>3, <2>5 DEF ListingFollows
    <2>9. r <= n - 1
      BY <1>1, <1>2, <2>6, <2>8
    <2>10. entry + 1 <= entry
      BY <2>6, <2>9 DEF Passed
    <2> QED
      BY <1>1, <2>10
  <1> QED
    BY <1>1, <1>3, <1>4

LEMMA ContextInit == TypeInv /\ Init => ContextInv
PROOF BY DEF Init, ContextInv, BeforeText

LEMMA ContextNext ==
    ASSUME \A s \in Sessions : ListingFollows(s)
    PROVE  TypeInv /\ LifeInv /\ PlaceInv /\ ContextInv /\ [Next]_vars => ContextInv'
PROOF
  <1> SUFFICES ASSUME TypeInv, LifeInv, PlaceInv, ContextInv, [Next]_vars PROVE ContextInv'
    OBVIOUS
  <1> SUFFICES ASSUME args.listing # <<>> PROVE ContextInv'
    BY ArgumentsStay DEF ContextInv
  <1>0. /\ args \in Sessions /\ args' = args /\ doc = args.doc /\ ListingFollows(args)
        /\ Len(args.doc) \in Nat /\ args.from \in Nat /\ args.to \in Nat /\ 1 <= args.from /\ args.to <= Len(args.doc) + 1
        /\ node \in Int /\ node \in args.from .. args.to
        /\ tpc \in BodyPC => node \in 1 .. Len(args.doc)
        /\ tpc \in ThreadPC /\ Len(args.listing) \in Nat
        /\ mRefEntry \in 0 .. Len(args.listing) /\ mRefEntryFrom \in 1 .. Len(args.listing) + 1
    <2>1. args \in Sessions /\ args' = args
      BY ArgumentsStay DEF TypeInv, TypeOK
    <2>2. /\ args.from \in Nat /\ args.to \in Nat /\ Len(args.doc) \in Nat /\ Len(args.listing) \in Nat
          /\ 1 <= args.from /\ args.to <= Len(args.doc) + 1
      BY <2>1, RangeFacts
    <2> QED
      BY <2>1, <2>2 DEF TypeInv, TypeOK, LoopInv, doc
  <1> USE <1>0 DEF BeforeText, BodyPC
  <1>1. tpc # "unborn" => mRefEntry >= 1 /\ mRefEntryFrom = mRefEntry + 1
    BY DEF ContextInv
  <1>2. CASE UNCHANGED <<tpc, node, mRefEntry, mRefEntryFrom>>
    BY <1>2 DEF ContextInv
  <1>3. CASE Client /\ ~Construct
    <2>1. UNCHANGED <<tpc, node, mRefEntry, mRefEntryFrom>>
      BY <1>3 DEF Client, Constructor, Preprocess, PreprocessDone, Poll, Stop, Wait, Joined, StopJoined, WaitJoined, Drop,
            loop, context
    <2> QED
      BY <1>2, <2>1
  <1>4. CASE Construct
    <2>1. tpc = "unborn" /\ tpc' \in {"unborn", "started"} /\ node' = node /\ mRefEntry' = 1 /\ mRefEntryFrom' = 2
      BY <1>4 DEF Construct, LifeInv, FirstEntry, loop
    <2>2. node = args.from
      BY <2>1 DEF PlaceInv
    <2>3. Passed(args, args.from - 1, 1)
      <3> SUFFICES ASSUME NEW k \in 2 .. Len(args.listing), NEW q \in AnchorsAt(args.doc, args.listing[k])
                   PROVE  ~(q <= args.from - 1)
        BY DEF Passed
      <3>1. args.from <= q /\ q \in Int
        BY DEF ListingFollows, AnchorsAt
      <3> QED
        BY <3>1
    <2> QED
      BY <2>1, <2>2, <2>3 DEF ContextInv
  <1>5. CASE ThreadStarted
    <2>1. tpc = "started" /\ tpc' \in {"next", "finish"} /\ UNCHANGED <<node, mRefEntry, mRefEntryFrom>>
      BY <1>5 DEF ThreadStarted, loop, context
    <2> QED
      BY <1>1, <2>1 DEF ContextInv
  <1>6. CASE tpc \in BodyPC \cup {"next"} /\ tpc # "check"
    <2>1. Passed(args, node - 1, mRefEntry)
      BY <1>6 DEF ContextInv
    <2>2. CASE UpdateContext
      <3>1. tpc = "anchor" /\ tpc' = "check" /\ node' = node /\ node \in 1 .. Len(args.doc)
            /\ IF ReachesEntry THEN NextEntry ELSE UNCHANGED context
        BY <2>2 DEF UpdateContext, loop
      <3>2. CASE ReachesEntry
        <4>1. /\ Has(args.doc, node, "anchor") /\ mRefEntry + 1 \in 1 .. Len(args.listing)
              /\ args.listing[mRefEntry + 1] = args.doc[node].anchor
          BY <1>1, <1>6, <3>2 DEF ReachesEntry
        <4>2. mRefEntry \in 1 .. Len(args.listing) - 1
          BY <1>1, <1>6, <4>1
        <4>3. Passed(args, node, mRefEntry + 1)
          BY <2>1, <3>1, <4>1, <4>2, PassesEntry
        <4>4. mRefEntry' = mRefEntry + 1 /\ mRefEntryFrom' = mRefEntry' + 1
          BY <1>1, <1>6, <3>1, <3>2 DEF NextEntry
        <4> QED
          BY <1>1, <1>6, <3>1, <4>3, <4>4 DEF ContextInv
      <3>3. CASE ~ReachesEntry
        <4>1. ~(/\ Has(args.doc, node, "anchor") /\ mRefEntry + 1 \in 1 .. Len(args.listing)
                /\ args.listing[mRefEntry + 1] = args.doc[node].anchor)
          BY <1>1, <1>6, <3>3 DEF ReachesEntry
        <4>2. mRefEntry \in 1 .. Len(args.listing)
          BY <1>1, <1>6
        <4>3. Passed(args, node, mRefEntry)
          BY <2>1, <3>1, <4>1, <4>2, PassesNoEntry
        <4>4. mRefEntry' = mRefEntry /\ mRefEntryFrom' = mRefEntryFrom
          BY <3>1, <3>3 DEF context
        <4> QED
          BY <1>1, <1>6, <3>1, <4>3, <4>4 DEF ContextInv
      <3> QED
        BY <3>2, <3>3
    <2>3. CASE Thread /\ ~UpdateContext
      <3>1. UNCHANGED <<node, mRefEntry, mRefEntryFrom>> /\ tpc' \in BeforeText \cup {"progress", "anchor", "finish"}
        BY <1>6, <2>3 DEF Thread, ThreadStarted, NoMoreNodes, BeginNode, SkipMedia, OpenMedia, PlayBlock, MediaDone, SpeakText,
            SkipText, Callback, Deliver, SpeakDone, Throw, ProgressOffset, Progress, CheckState, CloseAudio, Finished,
            loop, context
      <3> QED
        BY <1>1, <1>6, <2>1, <3>1 DEF ContextInv
    <2> QED
      BY <1>2, <1>3, <1>4, <2>2, <2>3 DEF Next, vars, loop, context
  <1>7. CASE CheckState
    <2>1. tpc = "check" /\ UNCHANGED <<mRefEntry, mRefEntryFrom>>
          /\ (tpc' = "finish" \/ (tpc' = "next" /\ node' = node + 1))
      BY <1>7 DEF CheckState, context
    <2> QED
      BY <1>1, <2>1 DEF ContextInv
  <1>8. CASE CloseAudio \/ Finished
    <2>1. tpc \in {"finish", "closed"} /\ tpc' \in {"closed", "done"} /\ UNCHANGED <<mRefEntry, mRefEntryFrom>>
      BY <1>8 DEF CloseAudio, Finished, context
    <2> QED
      BY <1>1, <2>1 DEF ContextInv
  <1>9. CASE Thread /\ ~(tpc \in BodyPC \cup {"next"} /\ tpc # "check")
    <2>1. ThreadStarted \/ CheckState \/ CloseAudio \/ Finished
      BY <1>9 DEF Thread, NoMoreNodes, BeginNode, SkipMedia, OpenMedia, PlayBlock, MediaDone, SpeakText,
            SkipText, Callback, Deliver, SpeakDone, Throw, ProgressOffset, Progress, UpdateContext
    <2> QED
      BY <1>5, <1>7, <1>8, <2>1
  <1>10. CASE UNCHANGED vars
    BY <1>2, <1>10 DEF vars, loop, context
  <1> QED
    BY <1>3, <1>4, <1>6, <1>9, <1>10 DEF Next

(* position() lies in the text that is spoken, completed() is a percentage that is full when
   the range was read, and context() is the entry of the contents that the text belongs to:
   for every range whose measures preprocess_events takes rightly and that the entries of the
   contents follow, whatever the document, the engine, the mode and the client. *)
THEOREM ProgressIsTold ==
    ASSUME \A s \in Sessions : MeasuredWhole(s) /\ ListingFollows(s)
    PROVE  Spec => []ProgressIsTrue
PROOF
  <1> DEFINE Inv == TypeInv /\ LifeInv /\ MeasureInv /\ PlaceInv /\ CompleteInv /\ ContextInv
  <1>1. Init => Inv
    <2>1. Init => LifeInv
      BY DEF Init, LifeInv
    <2> QED
      BY <2>1, TypeInit, MeasureInit, PlaceInit, CompleteInit, ContextInit
  <1>2. Inv /\ [Next]_vars => Inv'
    BY TypeNext, LifeNext, MeasureNext, PlaceNext, CompleteNext, ContextNext
  <1>3. Inv => ProgressIsTrue
    <2> SUFFICES ASSUME Inv PROVE ProgressIsTrue
      OBVIOUS
    <2>1. args \in Sessions /\ ListingFollows(args)
      BY DEF TypeInv, TypeOK
    <2>2. /\ Len(args.doc) \in Nat /\ Len(args.listing) \in Nat /\ args.from \in Nat /\ args.to \in Nat
          /\ 1 <= args.from /\ args.from <= args.to /\ args.to <= Len(args.doc) + 1
      BY <2>1, RangeFacts
    <2>3. PositionInText
      <3> SUFFICES ASSUME tpc \in {"speak", "deliver"}
                   PROVE  Position \in doc[node].begin .. doc[node].end
        BY DEF PositionInText
      <3>1. node \in args.from .. args.to - 1 /\ TextAt(args.doc, node)
        BY <2>2 DEF TypeInv, LoopInv, BodyPC, doc
      <3>2. node \in 1 .. Len(args.doc)
        BY <2>2, <3>1
      <3> DEFINE b == args.doc[node].begin
                 e == args.doc[node].end
      <3>3. b \in Nat /\ e \in Nat /\ b <= e /\ e < Word
        BY <2>1, <3>1, <3>2, RangeFacts
      <3>4. currentOffset = b
        <4>1. BeginsNext(args, node, currentOffset)
          BY DEF PlaceInv, BeforeText
        <4> QED
          BY <2>1, <3>1, <4>1, AtText
      <3>5. speakingPos \in Offset /\ speakingPos <= e - b
        BY DEF PlaceInv, doc, TypeInv, TypeOK
      <3>6. Word \in Nat /\ Word > 0
        BY SessionAssumption
      <3> HIDE DEF b, e
      <3>7. currentOffset + speakingPos \in Int /\ 0 <= currentOffset + speakingPos
            /\ b <= currentOffset + speakingPos /\ currentOffset + speakingPos <= e
        BY <3>3, <3>4, <3>5, <3>6 DEF Offset
      <3>8. Position = currentOffset + speakingPos
        <4> DEFINE place == currentOffset + speakingPos
        <4>1. place \in Int /\ 0 <= place /\ place < Word
          BY <3>3, <3>6, <3>7
        <4> HIDE DEF place
        <4>2. place % Word = place
          BY <3>6, <4>1
        <4> QED
          BY <4>2 DEF Position, Wrap, place
      <3>9. Position \in b .. e
        BY <3>3, <3>7, <3>8
      <3> QED
        BY <3>9 DEF b, e, doc
    <2>4. ProgressIsPercentage
      BY DEF CompleteInv, ProgressIsPercentage
    <2>5. ReadIsComplete
      <3> SUFFICES ASSUME tpc = "closed", ~mErrorMessage, speechState = "speaking", spoken # <<>>
                   PROVE  mProgress.num = mProgress.den
        BY DEF ReadIsComplete
      <3>1. Complete(args, args.to, mProgress) /\ ~NoTextIn(args, args.from, args.to - 1)
        BY DEF CompleteInv
      <3>2. NoTextIn(args, args.to, args.to - 1)
        BY <2>2 DEF NoTextIn
      <3> QED
        BY <3>1, <3>2 DEF Complete
    <2>6. ContextIsEnclosing
      <3> SUFFICES ASSUME tpc \in {"speak", "deliver"}, EntriesBefore(node) # {}
                   PROVE  mRefEntry = Max(EntriesBefore(node))
        BY DEF ContextIsEnclosing
      <3> DEFINE S == EntriesBefore(node)
      <3>1. S = {k \in 1 .. Len(args.listing) : \E q \in 1 .. node : q \in AnchorsAt(args.doc, args.listing[k])}
        BY DEF EntriesBefore, doc
      <3>2. node \in 1 .. Len(args.doc) /\ TextAt(args.doc, node)
        BY <2>2 DEF TypeInv, LoopInv, BodyPC, doc
      <3>3. args.listing # <<>>
        BY <3>1
      <3>4. mRefEntry >= 1 /\ Passed(args, node - 1, mRefEntry)
        BY <3>3 DEF ContextInv, BeforeText
      <3>5. mRefEntry \in 1 .. Len(args.listing)
        BY <2>2, <3>4 DEF TypeInv, TypeOK
      <3>6. ASSUME NEW k \in 2 .. Len(args.listing)
            PROVE  k \in S <=> k <= mRefEntry
        <4>1. \A q \in AnchorsAt(args.doc, args.listing[k]) : q # node /\ q \in 1 .. Len(args.doc)
          BY <2>1, <3>2 DEF ListingFollows, AnchorsAt
        <4>2. k \in S <=> \E q \in AnchorsAt(args.doc, args.listing[k]) : q <= node
          BY <2>2, <3>1, <3>2, <4>1
        <4>3. k \in S <=> \E q \in AnchorsAt(args.doc, args.listing[k]) : q <= node - 1
          BY <2>2, <3>2, <4>1, <4>2
        <4> QED
          BY <3>4, <4>3 DEF Passed
      <3>7. mRefEntry \in S
        <4>1. CASE mRefEntry \in 2 .. Len(args.listing)
          BY <3>6, <4>1
        <4>2. CASE mRefEntry = 1
          <5>1. PICK k \in S : TRUE
            BY <3>1
          <5>2. k = 1
            BY <2>2, <3>1, <3>6, <4>2, <5>1
          <5> QED
            BY <4>2, <5>1, <5>2
        <4> QED
          BY <2>2, <3>5, <4>1, <4>2
      <3>8. \A k \in S : mRefEntry >= k
        BY <2>2, <3>1, <3>5, <3>6
      <3>9. S \subseteq Int
        BY <3>1
      <3> HIDE DEF S
      <3>10. Max(S) = mRefEntry
        <4>1. \A x \in S : (\A y \in S : x >= y) => x = mRefEntry
          BY <3>7, <3>8, <3>9
        <4> QED
          BY <3>7, <3>8, <4>1 DEF Max
      <3> QED
        BY <3>10 DEF S
    <2> QED
      BY <2>3, <2>4, <2>5, <2>6 DEF ProgressIsTrue
  <1> QED
    BY <1>1, <1>2, <1>3, PTL DEF Spec
=============================================================================
