--------------------------- MODULE SpeechSession ---------------------------
(***************************************************************************)
(* A speech session: the speech_impl object that tts::engines::speak       *)
(* returns (engines/engines.cpp), the TTS thread its constructor starts,   *)
(* the engine that calls back into it on that thread, the audio sink it    *)
(* writes to, and the client thread that polls, stops, waits and drops it. *)
(*                                                                         *)
(* The two threads share speechState, the progress members and the context *)
(* entry without a lock.  Every shared member is one machine word and is   *)
(* re-read through a virtual call each time, so a step below reads or      *)
(* writes at most one of the members the other thread looks at.            *)
(***************************************************************************)
EXTENDS DocumentItems, AudioSink, FiniteSets, FiniteSetsExt, SequencesExt

CONSTANTS Sessions,     \* the argument tuples speak() may be called with
          Word,         \* size_t is a number modulo Word
          MaxBuffers    \* bound: callbacks per speak(), blocks per media item

Mode == {"tts_only", "media_overlays_only", "tts_and_media_overlays"}

Arguments == [doc : Seq(Item), listing : Seq(Anchor), from : Nat, to : Nat, mode : Mode,
              engine : {"espeak", "pico"}, sink : SinkKind, player : BOOLEAN]

\* A reader lays the text items out one after the other, each from where the
\* one before it ends (document.cpp:113).
TextInOrder(doc) ==
    \A p, q \in 1 .. Len(doc) :
        /\ TextAt(doc, p) => doc[p].begin <= doc[p].end /\ doc[p].end < Word
        /\ TextAt(doc, p) /\ TextAt(doc, q) /\ p < q =>
               /\ doc[p].end <= doc[q].begin
               /\ (\A r \in p + 1 .. q - 1 : ~TextAt(doc, r)) => doc[p].end = doc[q].begin

InDocument(s) ==
    /\ s.from \in 1 .. Len(s.doc) + 1
    /\ s.to \in s.from .. Len(s.doc) + 1

ASSUME SessionAssumption ==
    /\ Word \in Nat \ {0}
    /\ MaxBuffers \in Nat
    /\ Sessions \subseteq Arguments
    /\ \A s \in Sessions : TextInOrder(s.doc) /\ InDocument(s)

VARIABLES
    args,           \* engine, audio, mFrom, mTo, mMediaOverlays, the listing
    audio,          \* the sink
    speechState,
    mErrorMessage,  \* not empty
    mRefEntry, mRefEntryFrom,         \* positions in the listing; mRefEntry 0 is nullptr
    currentOffset, speakingPos, textOffset, textLen,
    mProgress,      \* the percentage, as [num, den]
    inRange, pos,   \* preprocess_events: in_range and the node it is at
    tpc,            \* where the TTS thread is
    node, depth, mediaOverlayDepth,   \* its locals
    buffers,        \* callbacks or blocks of the current item
    cpc,            \* where the client thread is
    seen,           \* what is_speaking() last told the client
    joined,         \* pthread_join has returned
    spoken, played, \* history: the items given to the engine, the media items played
    late,           \* history: buffers written after stop() changed the state,
    lastWord        \* and whether a text was begun after that

extent == <<textOffset, textLen>>
scan == <<inRange, pos>>
context == <<mRefEntry, mRefEntryFrom>>
progress == <<currentOffset, speakingPos, mProgress>>
loop == <<node, depth, mediaOverlayDepth, buffers>>
client == <<cpc, seen, joined>>
history == <<spoken, played, late, lastWord>>

vars == <<args, audio, speechState, mErrorMessage, context, progress, extent, scan,
          tpc, loop, client, history>>

doc == args.doc
End == Len(doc) + 1

-----------------------------------------------------------------------------
(* size_t arithmetic. *)

Wrap(n) == n % Word
NoOffset == Word - 1                      \* textOffset(-1)

Percentage(a, b) == [num |-> Wrap(a), den |-> Wrap(b)]

\* ontextrange, with the offset the thread has just stored.
OnTextRange(offset, p) ==
    /\ speakingPos' = p
    /\ mProgress' = Percentage(offset + p - textOffset, textLen - textOffset)

-----------------------------------------------------------------------------
(* The client: the constructor, then the calls of cainteoir::tts::speech.  *)

Init ==
    /\ args \in Sessions
    /\ audio = NewSink(args.sink)
    /\ speechState = "speaking"
    /\ mErrorMessage = FALSE
    /\ mRefEntry = 0
    /\ mRefEntryFrom = 1
    /\ currentOffset = 0
    /\ speakingPos = 0
    /\ textOffset = NoOffset
    /\ textLen = 0
    /\ mProgress = [num |-> 0, den |-> 1]
    /\ inRange = FALSE
    /\ pos = 1
    /\ tpc = "unborn"
    /\ node = args.from
    /\ depth = 0
    /\ mediaOverlayDepth = -1
    /\ buffers = 0
    /\ cpc = "preprocess"
    /\ seen = TRUE
    /\ joined = FALSE
    /\ spoken = <<>>
    /\ played = <<>>
    /\ late = 0
    /\ lastWord = FALSE

CountText(p) ==
    /\ textOffset' = IF textOffset = NoOffset THEN doc[p].begin ELSE textOffset
    /\ textLen' = doc[p].end

\* preprocess_events: one iteration of its loop over the whole document.
Preprocess ==
    /\ cpc = "preprocess"
    /\ pos < End
    /\ IF inRange
       THEN /\ IF TextAt(doc, pos) THEN CountText(pos) ELSE UNCHANGED extent
            /\ cpc' = IF pos = args.to THEN "enter" ELSE cpc
            /\ UNCHANGED inRange
       ELSE /\ inRange' = (pos = args.from)
            /\ UNCHANGED <<extent, cpc>>
    /\ pos' = pos + 1
    /\ UNCHANGED <<args, audio, speechState, mErrorMessage, context, progress, tpc, loop,
                   seen, joined, history>>

PreprocessDone ==
    /\ cpc = "preprocess"
    /\ pos = End
    /\ cpc' = "enter"
    /\ UNCHANGED <<args, audio, speechState, mErrorMessage, context, progress, extent, scan,
                   tpc, loop, seen, joined, history>>

\* started(): open the sink and reset the progress.
Started(ok) ==
    \E outcome \in OpenSink(audio) :
        /\ outcome.ok = ok
        /\ audio' = outcome.sink
        /\ IF ok
           THEN /\ mProgress' = [num |-> 0, den |-> 1]
                /\ currentOffset' = textOffset
           ELSE UNCHANGED <<mProgress, currentOffset>>

\* The first contents entry is taken for the root document and passed over.
FirstEntry ==
    IF args.listing = <<>>
    THEN UNCHANGED context
    ELSE mRefEntry' = 1 /\ mRefEntryFrom' = 2

\* The rest of the constructor: the first contents entry, started(), and the
\* thread; when started() throws the caller gets no session.
Construct ==
    /\ cpc = "enter"
    /\ FirstEntry
    /\ \/ Started(TRUE)  /\ cpc' = "idle" /\ tpc' = "started"
       \/ Started(FALSE) /\ cpc' = "failed" /\ UNCHANGED tpc
    /\ UNCHANGED <<args, speechState, mErrorMessage, speakingPos, extent, scan, loop, seen,
                   joined, history>>

\* is_speaking()
Poll ==
    /\ cpc = "idle"
    /\ seen' = (speechState = "speaking")
    /\ UNCHANGED <<args, audio, speechState, mErrorMessage, context, progress, extent, scan,
                   tpc, loop, cpc, joined, history>>

\* Mutant: stop() closes the sink under the thread.
StopAndClose ==
    /\ cpc = "idle"
    /\ ~joined
    /\ speechState' = "stopped"
    /\ audio' = CloseSink(audio)
    /\ cpc' = "stopping"
    /\ UNCHANGED <<args, mErrorMessage, context, progress, extent, scan, tpc, loop,
                   seen, joined, history>>

\* stop(): the state first, then the join.  A second join is undefined, and
\* no client of the repository makes one.
Stop ==
    /\ cpc = "idle"
    /\ ~joined
    /\ speechState' = "stopped"
    /\ cpc' = "stopping"
    /\ UNCHANGED <<args, audio, mErrorMessage, context, progress, extent, scan, tpc, loop,
                   seen, joined, history>>

StopJoined ==
    /\ cpc = "stopping"
    /\ tpc = "done"
    /\ joined' = TRUE
    /\ cpc' = "idle"
    /\ UNCHANGED <<args, audio, speechState, mErrorMessage, context, progress, extent, scan,
                   tpc, loop, seen, history>>

\* wait(): the join, then the state.
Wait ==
    /\ cpc = "idle"
    /\ ~joined
    /\ cpc' = "waiting"
    /\ UNCHANGED <<args, audio, speechState, mErrorMessage, context, progress, extent, scan,
                   tpc, loop, seen, joined, history>>

WaitJoined ==
    /\ cpc = "waiting"
    /\ tpc = "done"
    /\ joined' = TRUE
    /\ speechState' = "stopped"
    /\ cpc' = "idle"
    /\ UNCHANGED <<args, audio, mErrorMessage, context, progress, extent, scan, tpc, loop,
                   seen, history>>

\* The last reference goes: the client has seen is_speaking() return false, as
\* the command line client does (apps/cainteoir.cpp:411), or it has joined.
Drop ==
    /\ cpc = "idle"
    /\ ~seen \/ joined
    /\ cpc' = "dropped"
    /\ UNCHANGED <<args, audio, speechState, mErrorMessage, context, progress, extent, scan,
                   tpc, loop, seen, joined, history>>

-----------------------------------------------------------------------------
(* The TTS thread: speak_tts_thread.                                       *)

ThreadStarted ==
    /\ tpc = "started"
    /\ \/ Started(TRUE)  /\ tpc' = "next" /\ UNCHANGED mErrorMessage
       \/ Started(FALSE) /\ tpc' = "finish" /\ mErrorMessage' = TRUE
    /\ UNCHANGED <<args, speechState, context, speakingPos, extent, scan, loop, client,
                   history>>

NoMoreNodes ==
    /\ tpc = "next"
    /\ node = args.to
    /\ tpc' = "finish"
    /\ UNCHANGED <<args, audio, speechState, mErrorMessage, context, progress, extent, scan,
                   loop, client, history>>

\* The head of the loop body: onevent and the context depth.
Begins == IF Has(doc, node, "begin_context") THEN 1 ELSE 0

BeginNode ==
    /\ tpc = "next"
    /\ node # args.to
    /\ IF Has(doc, node, "end_context")
       THEN /\ mediaOverlayDepth' = IF depth + Begins = mediaOverlayDepth THEN -1 ELSE mediaOverlayDepth
            /\ depth' = depth + Begins - 1
       ELSE /\ depth' = depth + Begins
            /\ UNCHANGED mediaOverlayDepth
    /\ buffers' = 0
    /\ tpc' = "media"
    /\ UNCHANGED <<args, audio, speechState, mErrorMessage, context, progress, extent, scan,
                   node, client, history>>

PlaysMedia ==
    /\ Has(doc, node, "media_ref")
    /\ args.mode \in {"media_overlays_only", "tts_and_media_overlays"}
    /\ args.player

SkipMedia ==
    /\ tpc = "media"
    /\ ~PlaysMedia
    /\ tpc' = "text"
    /\ UNCHANGED <<args, audio, speechState, mErrorMessage, context, progress, extent, scan,
                   loop, client, history>>

OpenMedia ==
    /\ tpc = "media"
    /\ PlaysMedia
    /\ tpc' = "play"
    /\ played' = Append(played, node)
    /\ UNCHANGED <<args, audio, speechState, mErrorMessage, context, progress, extent, scan,
                   loop, client, spoken, late, lastWord>>

\* onaudiodata
WriteAudio ==
    /\ audio' = WriteSink(audio)
    /\ late' = IF speechState = "stopped" THEN late + 1 ELSE late

\* One block of the media item; the loop does not look at the state.
PlayBlock ==
    /\ tpc = "play"
    /\ buffers < MaxBuffers
    /\ WriteAudio
    /\ buffers' = buffers + 1
    /\ UNCHANGED <<args, speechState, mErrorMessage, context, progress, extent, scan, tpc,
                   node, depth, mediaOverlayDepth, client, spoken, played, lastWord>>

MediaDone ==
    /\ tpc = "play"
    /\ mediaOverlayDepth' = depth
    /\ tpc' = "text"
    /\ UNCHANGED <<args, audio, speechState, mErrorMessage, context, progress, extent, scan,
                   node, depth, buffers, client, history>>

\* Mutant: an item that is more than a text is not spoken.
SpeaksPlain == args.mode = "tts_only" /\ doc[node].type = {"text"}

\* The media modes of a text item.
Speaks ==
    \/ args.mode = "tts_only"
    \/ args.mode = "tts_and_media_overlays" /\ mediaOverlayDepth = -1

SpeakText ==
    /\ tpc = "text"
    /\ TextAt(doc, node)
    /\ Speaks
    /\ spoken' = Append(spoken, node)
    /\ lastWord' = (speechState = "stopped")
    /\ buffers' = 0
    /\ tpc' = "speak"
    /\ UNCHANGED <<args, audio, speechState, mErrorMessage, context, progress, extent, scan,
                   node, depth, mediaOverlayDepth, client, played, late>>

SkipText ==
    /\ tpc = "text"
    /\ ~(TextAt(doc, node) /\ Speaks)
    /\ tpc' = IF TextAt(doc, node) THEN "offset" ELSE "anchor"
    /\ UNCHANGED <<args, audio, speechState, mErrorMessage, context, progress, extent, scan,
                   loop, client, history>>

\* Mutant: the callback does not look at the state.
NotStopped == TRUE

MayContinue == speechState = "speaking"

\* The engine calls back: espeak reports word positions and audio, pico audio
\* only; either looks at the state first and gives up when it is stopped.
Callback ==
    /\ tpc = "speak"
    /\ buffers < MaxBuffers
    /\ MayContinue
    /\ buffers' = buffers + 1
    /\ tpc' = "deliver"
    /\ \/ args.engine = "espeak" /\ \E p \in 0 .. doc[node].end - doc[node].begin :
              OnTextRange(currentOffset, p)
       \/ UNCHANGED <<speakingPos, mProgress>>
    /\ UNCHANGED <<args, audio, speechState, mErrorMessage, context, currentOffset, extent,
                   scan, node, depth, mediaOverlayDepth, client, history>>

Deliver ==
    /\ tpc = "deliver"
    /\ WriteAudio \/ UNCHANGED <<audio, late>>         \* numsamples may be 0
    /\ tpc' = "speak"
    /\ UNCHANGED <<args, speechState, mErrorMessage, context, progress, extent, scan, loop,
                   client, spoken, played, lastWord>>

\* speak() returns: the text is finished, or a callback found the state stopped.
SpeakDone ==
    /\ tpc = "speak"
    /\ tpc' = "offset"
    /\ UNCHANGED <<args, audio, speechState, mErrorMessage, context, progress, extent, scan,
                   loop, client, history>>

\* An exception leaves the loop: pico's check_return, or the converter that
\* set_target builds (audio/ffmpeg_player.cpp:231).
Throw ==
    /\ \/ tpc = "speak" /\ args.engine = "pico"
       \/ tpc = "play" /\ buffers = 0
    /\ mErrorMessage' = TRUE
    /\ tpc' = "finish"
    /\ UNCHANGED <<args, audio, speechState, context, progress, extent, scan, loop, client,
                   history>>

ReadUpTo(p) == doc[p].end

\* progress(node.range.end()): two stores the client may read between.
ProgressOffset ==
    /\ tpc = "offset"
    /\ currentOffset' = ReadUpTo(node)
    /\ tpc' = "progress"
    /\ UNCHANGED <<args, audio, speechState, mErrorMessage, context, speakingPos,
                   mProgress, extent, scan, loop, client, history>>

Progress ==
    /\ tpc = "progress"
    /\ OnTextRange(currentOffset, 0)
    /\ tpc' = "anchor"
    /\ UNCHANGED <<args, audio, speechState, mErrorMessage, context, currentOffset, extent,
                   scan, loop, client, history>>

\* The contents entry whose turn it is, when this is its anchor.
ReachesEntry ==
    /\ Has(doc, node, "anchor")
    /\ mRefEntryFrom \in 1 .. Len(args.listing)
    /\ args.listing[mRefEntryFrom] = doc[node].anchor

\* Mutant: ++mRefEntryFrom is missing.
EntryReached == mRefEntry' = mRefEntryFrom /\ UNCHANGED mRefEntryFrom

NextEntry == mRefEntry' = mRefEntryFrom /\ mRefEntryFrom' = mRefEntryFrom + 1

UpdateContext ==
    /\ tpc = "anchor"
    /\ IF ReachesEntry THEN NextEntry ELSE UNCHANGED context
    /\ tpc' = "check"
    /\ UNCHANGED <<args, audio, speechState, mErrorMessage, progress, extent, scan, loop,
                   client, history>>

\* Mutant: a stopped session is held, as if it were paused.
CheckStateHolds ==
    /\ tpc = "check"
    /\ speechState # "stopped"
    /\ tpc' = "next" /\ node' = node + 1
    /\ UNCHANGED <<args, audio, speechState, mErrorMessage, context, progress, extent,
                   scan, depth, mediaOverlayDepth, buffers, client, history>>

\* Mutant: the loop goes on.
CheckStateIgnored ==
    /\ tpc = "check"
    /\ tpc' = "next" /\ node' = node + 1
    /\ UNCHANGED <<args, audio, speechState, mErrorMessage, context, progress, extent,
                   scan, depth, mediaOverlayDepth, buffers, client, history>>

CheckState ==
    /\ tpc = "check"
    /\ IF speechState = "stopped"
       THEN tpc' = "finish" /\ UNCHANGED node
       ELSE tpc' = "next" /\ node' = node + 1
    /\ UNCHANGED <<args, audio, speechState, mErrorMessage, context, progress, extent, scan,
                   depth, mediaOverlayDepth, buffers, client, history>>

\* Mutant: the client sees the end before the sink is closed.
FinishedFirst ==
    /\ tpc = "finish"
    /\ speechState' = "stopped"
    /\ tpc' = "closed"
    /\ UNCHANGED <<args, audio, mErrorMessage, context, progress, extent, scan, loop,
                   client, history>>

\* finished(): close the sink, then let the client see the end.
CloseAudio ==
    /\ tpc = "finish"
    /\ audio' = CloseSink(audio)
    /\ tpc' = "closed"
    /\ UNCHANGED <<args, speechState, mErrorMessage, context, progress, extent, scan, loop,
                   client, history>>

Finished ==
    /\ tpc = "closed"
    /\ speechState' = "stopped"
    /\ tpc' = "done"
    /\ UNCHANGED <<args, audio, mErrorMessage, context, progress, extent, scan, loop, client,
                   history>>

-----------------------------------------------------------------------------
Constructor == Preprocess \/ PreprocessDone \/ Construct
Joined == StopJoined \/ WaitJoined
Client == Constructor \/ Poll \/ Stop \/ Wait \/ Joined \/ Drop

Thread ==
    \/ ThreadStarted \/ NoMoreNodes \/ BeginNode
    \/ SkipMedia \/ OpenMedia \/ PlayBlock \/ MediaDone
    \/ SpeakText \/ SkipText \/ Callback \/ Deliver \/ SpeakDone \/ Throw
    \/ ProgressOffset \/ Progress \/ UpdateContext \/ CheckState
    \/ CloseAudio \/ Finished

Next == Client \/ Thread

Spec == Init /\ [][Next]_vars

\* The scheduler runs both threads; a join returns once its thread has ended.
\* Nothing obliges a client to poll, stop, wait or drop.
Fairness == WF_vars(Constructor) /\ WF_vars(Thread) /\ WF_vars(Joined)

FairSpec == Spec /\ Fairness

-----------------------------------------------------------------------------
(* Type correctness *)

ClientPC == {"preprocess", "enter", "idle", "stopping", "waiting", "failed", "dropped"}

ThreadPC == {"unborn", "started", "next", "media", "play", "text", "speak", "deliver",
             "offset", "progress", "anchor", "check", "finish", "closed", "done"}

Offset == 0 .. Word - 1

\* Every variable stays within its type.
TypeOK ==
    /\ args \in Sessions
    /\ audio \in Sink
    /\ speechState \in {"speaking", "stopped"}
    /\ mErrorMessage \in BOOLEAN
    /\ mRefEntry \in 0 .. Len(args.listing)
    /\ mRefEntryFrom \in 1 .. Len(args.listing) + 1
    /\ currentOffset \in Offset /\ speakingPos \in Offset
    /\ textOffset \in Offset /\ textLen \in Offset
    /\ mProgress \in [num : Offset, den : Offset \cup {1}]
    /\ inRange \in BOOLEAN /\ pos \in 1 .. End
    /\ tpc \in ThreadPC
    /\ node \in 1 .. End
    /\ depth \in Int /\ mediaOverlayDepth \in Int
    /\ buffers \in 0 .. MaxBuffers
    /\ cpc \in ClientPC /\ seen \in BOOLEAN /\ joined \in BOOLEAN
    /\ spoken \in Seq(1 .. Len(doc)) /\ played \in Seq(1 .. Len(doc))
    /\ late \in Nat

-----------------------------------------------------------------------------
(* What a session promises *)

\* Once is_speaking() has answered false, or stop() or wait() has returned,
\* the thread is past its last access to the session, and the sink is closed:
\* the client may drop the session and read the file.
ClientSeesEnd == ~seen \/ joined => tpc = "done" /\ ~audio.open

\* No call reaches a sink through a null handle, and none is made after the
\* sink was closed.
SinkUsedWhileOpen == ~audio.badUse

\* The items to read, and how many contexts are open at q since m.
Readable == args.from .. args.to - 1

CountOf(t, m, q) == Cardinality({i \in m + 1 .. q : Has(doc, i, t)})
OpenSince(m, q) == CountOf("begin_context", m, q) - CountOf("end_context", m, q)

\* A media overlay covers the rest of the context its media item is in.
Narrated(p) ==
    /\ args.player
    /\ \E m \in Readable : /\ m < p
                        /\ Has(doc, m, "media_ref")
                        /\ \A q \in m + 1 .. p : OpenSince(m, q) >= 0

\* What docs/api/src/engines.md says each mode reads aloud.
ToBeSpoken(p) ==
    /\ TextAt(doc, p)
    /\ CASE args.mode = "tts_only" -> TRUE
         [] args.mode = "media_overlays_only" -> FALSE
         [] args.mode = "tts_and_media_overlays" -> ~Narrated(p)

\* The texts a session is to speak.
Texts == {p \in Readable : ToBeSpoken(p)}

\* The engine is given the texts of the range in document order, each once, and
\* none that a media overlay narrates; none is passed over, and none is left out
\* unless the session is stopped or fails.
ReadsTheRange ==
    /\ \A i, j \in 1 .. Len(spoken) : i < j => spoken[i] < spoken[j]
    /\ ToSet(spoken) \subseteq Texts
    /\ \A p \in Texts \ ToSet(spoken), q \in ToSet(spoken) : q < p
    /\ tpc = "finish" /\ ~mErrorMessage /\ speechState = "speaking" => Texts \subseteq ToSet(spoken)

\* position() lies inside the text being spoken.
Position == Wrap(currentOffset + speakingPos)

PositionInText ==
    tpc \in {"speak", "deliver"} => Position \in doc[node].begin .. doc[node].end

\* position() never lies beyond the last text of the range.
PositionInRange == cpc \notin {"preprocess", "enter", "failed"} => Position <= textLen

\* completed() is a percentage.
ProgressIsPercentage == mProgress.num <= mProgress.den

\* A session that read its range to the end is complete.
ReadIsComplete ==
    tpc = "closed" /\ ~mErrorMessage /\ speechState = "speaking" /\ spoken # <<>> =>
        mProgress.num = mProgress.den

\* context() is the last contents entry whose anchor comes before the text
\* being read.
EntriesBefore(p) ==
    {k \in 1 .. Len(args.listing) : \E q \in 1 .. p : q \in AnchorsAt(doc, args.listing[k])}

ContextIsEnclosing ==
    tpc \in {"speak", "deliver"} /\ EntriesBefore(node) # {} =>
        mRefEntry = Max(EntriesBefore(node))

\* preprocess_events passes over the item a range begins with and takes in the
\* item after its end: it measures a range that has no text in these places.
MeasuredWhole(s) ==
    /\ s.from <= Len(s.doc) => ~TextAt(s.doc, s.from)
    /\ s.to <= Len(s.doc) => ~TextAt(s.doc, s.to)

\* The entries of the contents are taken in turn: all but the first, which is
\* taken for the root document, have an anchor that is no text in the range,
\* and these follow each other as the entries do.
ListingFollows(s) ==
    \A k \in 2 .. Len(s.listing) :
        /\ AnchorsAt(s.doc, s.listing[k]) # {}
        /\ \A p \in AnchorsAt(s.doc, s.listing[k]) :
               /\ s.from <= p /\ ~TextAt(s.doc, p)
               /\ \A j \in 2 .. k - 1 : \A q \in AnchorsAt(s.doc, s.listing[j]) : q < p

\* How many contexts are open at q of those that begin in the range of s.
DepthAt(s, q) ==
    Cardinality({i \in s.from .. q : Has(s.doc, i, "begin_context")})
        - Cardinality({i \in s.from .. q : Has(s.doc, i, "end_context")})

Overlays(s) == {m \in s.from .. s.to - 1 : Has(s.doc, m, "media_ref")}

\* The context that m is in is still open at q.
Covers(s, m, q) == \A r \in m + 1 .. q : DepthAt(s, r) >= DepthAt(s, m)

\* The media items of a session that speaks beside playing: none is a text, none
\* is at the depth -1, which also says that there is no overlay, and none is in
\* a context within that of another, as the thread remembers one depth.
OverlaysApart(s) ==
    s.mode = "tts_and_media_overlays" /\ s.player =>
        /\ \A m \in Overlays(s) : ~TextAt(s.doc, m) /\ DepthAt(s, m) # -1
        /\ \A m, n \in Overlays(s) : m < n /\ Covers(s, m, n) => DepthAt(s, n) = DepthAt(s, m)

\* What a client is told of the progress while it is made: the position, how
\* much of the range was read and which entry of the contents it is in.
ProgressIsTrue == PositionInText /\ ProgressIsPercentage /\ ReadIsComplete /\ ContextIsEnclosing

\* After stop() has changed the state at most the buffer whose callback was
\* under way reaches the sink.
StopIsImmediate == late <= 1

\* A session that is over holds no connection to its device.
NoHandleLeft == tpc = "done" => audio.handles = 0

\* A recording is readable once the session is over.
RecordingIsReadable == tpc = "done" => HeaderMatchesFile(audio)

\* stop() and wait() return, and a session ends whether or not they are called.
JoinReturns == cpc \in {"stopping", "waiting"} ~> joined
SessionEnds == JoinReturns /\ []<>(cpc = "failed" \/ tpc = "done")

-----------------------------------------------------------------------------
(* The session implements ReadingAloud. *)

Phase ==
    IF cpc = "failed" \/ tpc \in {"finish", "closed", "done"} THEN "over"
    ELSE IF speechState # "stopped" THEN "speaking"
    ELSE IF lastWord THEN "ending" ELSE "stopping"

Aloud == INSTANCE ReadingAloud WITH
    total <- Cardinality(Texts), begun <- Len(spoken), phase <- Phase,
    failed <- mErrorMessage \/ cpc = "failed"

\* Reading texts in turn, at most one begun after a stop, an end in every case.
ReadsAloud == Aloud!Spec
=============================================================================
