# Cainteoir Text-to-Speech: a verification project

TLA+ models of the engine (`src/libcainteoir`, used by `src/apps` and
`src/examples`), TLC runs over small instances of them, and TLAPS proofs.
Paths below are those of the repository; `engines.cpp` stands for
`src/libcainteoir/engines/engines.cpp`, and so on.

## 1. The system

Cainteoir reads documents aloud. A parser turns a file (ePub, XHTML, RTF, SSML,
plain text, mail ...) into a sequence of *document items*; a *speech session*
walks a range of that sequence on a thread of its own and hands every text to a
*text-to-speech engine*, which calls back with audio that the session writes to
an *audio sink*. Beside the engines that do everything themselves (eSpeak, Pico)
the library has its own pipeline: text is cut into words, words become
phonemes (dictionary, rules), phonemes get a duration and a pitch (prosody), and
a unit synthesizer (MBROLA) turns those into audio.

| Component | Source | State | Operations | What is hard | What makes it correct |
|---|---|---|---|---|---|
| Speech session | `engines/engines.cpp` | speech state, error, progress and position, contents entry, depth of contexts and of the media overlay | constructor, thread loop, `stop`, `wait`, `is_speaking`, callbacks | two threads without a lock, errors in the loop, a range that starts and ends anywhere | the texts of the range are read once and in order, a client that sees the end may drop the session, every session ends |
| Engines | `engines/espeak.cpp`, `engines/pico.cpp`, `engines.cpp` | selected voice, loaded resources, active engine | constructor, `select_voice`, `speak` | a call of Pico that throws, half-way through loading a voice or speaking a text | what is loaded is one voice; a text is spoken whole, and only an exception leaves some of it for the next |
| MBROLA synthesizer | `engines/mbrola.cpp` | a child process, three pipes, a state machine | constructor, `bind`, `synthesize` | two processes; "is it idle?" is asked after "is there data?" | every phrase is flushed, every warning told, it ends |
| Audio sinks | `audio/*.cpp` | handle or file, header counts | `open`, `write`, `close` | opened twice, closed once | written while open, nothing left behind |
| Document | `document.cpp` | items, anchor map, contents | constructor, `children`, `indexof` | one item is filled by many readers; anchors missing or out of order | what is in the file, in order, once |
| Parsers | `parsers/*.cpp` | a stack of contexts, the current item | `read` | tags left out or crossing, state kept from tag to tag, two readers in step (media overlays) | balanced contexts, each text in its place, the audio of a text at its text |
| Text reader | `tts/text_reader.*` | a state machine over code points, a match buffer, a saved state | `read` | tokens across items and across the buffer's end | every visible character in one token, ranges true |
| Dictionary | `dictionary/*.cpp`, `apps/dictionary.cpp` | entries, a depth guard, a stack of files | `pronounce`, phrases, readers and writers | entries that refer to each other, lines that cannot be read | what is written is read, what is resolved is what is said |
| Language files | `synthesizer/compiler.cpp`, `cainteoir_file_reader.cpp` | sections, offsets, string tables | the parsers of a definition, the writer, the loader | offsets computed instead of looked up | what is loaded is what was defined |
| Letter to phoneme | `tts/lexical_rewrite_rules.cpp`, `tts/letter_to_phoneme.cpp` | the rules, a position, the previous phoneme | `reset`, `read` | rule order, contexts, look ahead that calls the reader itself | every letter belongs to one rule, what is looked ahead to comes |
| Phoneme sets | `phoneme/*.cpp` | tables of transcriptions, state of a parser | parse, write | longest match, marks before and after, state kept between texts | what is written reads back |
| Phoneme conversion | `phoneme/phoneme_to_phoneme.cpp`, `phoneme_stress.cpp` | two queues | `read`, placing stress | queues whose order matters; errors in the middle | the longest rule applies, no syllable loses its stress |
| Prosody and units | `synthesizer/*.cpp` | iterators, remaining offsets, a phoneme of lookahead | `read` | cutting durations into units without losing any | every phoneme once, shares add up, pitch and duration kept |
| Styles | `css/*.cpp` | a lexer, the styles read so far | `parse`, `marker`, quantities | declarations that are unknown or incomplete | the last rule holds, markers count, quantities mean what is written |
| Media player | `audio/ffmpeg_player.cpp` | decoder, window of time, resampler | `set_interval`, `set_target`, `read` | sample windows at the ends of an interval | (not modelled) |
| Objects | `object.cpp`, `range.hpp`, `buffers/*.cpp` | reference-counted values, views of buffers | assignment, references | aliasing | (not modelled by themselves) |
| Metadata | `rdf/*.cpp`, `languages.cpp` | an RDF graph | statements, listings, queries | what a reader says is read back by another | the table of contents is the document's |

Interaction: the client (`apps/cainteoir.cpp`) builds a document, asks
`tts::engines::speak` for a session and then only polls `is_speaking`, reads the
progress, and calls `stop` or `wait`. The session's thread calls the engine; the
engine calls `state`, `ontextrange` and `onaudiodata` of the session from inside
`speak`. The session and the client share members that no lock protects. The
MBROLA synthesizer shares nothing with its child but pipes and `/proc`. All the rest is
readers that pull from readers through shared pointers: an ePub reader from the reader of a chapter and of an
overlay, a unit reader from the prosody reader, a dictionary from the text reader. What goes wrong
there is a sequence of calls, not an interleaving: state that one call keeps and a later call uses.

The hazards this code is exposed to, each at its line and with the properties
that would catch it, are in `PROJECT.json`.

## 2. Modules

| Module | Models | Uses |
|---|---|---|
| `DocumentItems` | the item type, the anchor map, `children(from, to)` as a session uses them | |
| `AudioSink` | `open`, `write` and `close` of the four sinks | |
| `ReadingAloud` | what a session promises, with no thread in it | |
| `SpeechSession`, `MCSpeech` | the session, its thread, its client and the engine | `DocumentItems`, `AudioSink`; refines `ReadingAloud` |
| `SpeechSessionProofs` | theorems on the session | `SpeechSession` |
| `Engines`, `MCEngines` | the set of engines, eSpeak's and Pico's voices, how Pico is fed a text | |
| `EnginesProofs` | theorems on voices and texts | `Engines` |
| `MbrolaSynthesizer`, `MCMbrola` | the unit synthesizer that drives an `mbrola` process through pipes | |
| `MbrolaProofs` | theorems on the synthesizer | `MbrolaSynthesizer` |
| `ProsodyReader` | phonemes to phones: grouping, durations, one phoneme of lookahead | |
| `UnitReader` | phones to the units of a voice; it pulls from the prosody reader | `ProsodyReader` |
| `DiphoneReader` | phones to diphones, with their pitch envelopes | |
| `ReaderProofs` | theorems on the three readers | `UnitReader`, `DiphoneReader`, `Induction` |
| `Syllables` | the syllable reader and the placement of stress | |
| `PhonemeConverter` | phonemes to phonemes by rules, with a queue of what was read too far, and the loop of the program around it | `Syllables` |
| `ConverterProofs` | theorems on syllables, stress and accents | `PhonemeConverter`, `Induction` |
| `PhonemeSets` | phoneme files, and the readers and writers of the five types of scheme | |
| `MCReaders` | instances of the readers above | all of them |
| `Induction` | induction over numbers and functions defined by recursion, stated without a parameter that is an operator; sequences joined together | |
| `Once` | values that are computed once, folds from the left | |
| `XmlReader` | `xml::reader` over a sequence of lexemes | |
| `DocumentEvents` | the item a reader hands over, and the document that keeps it | |
| `Metadata` | RDF statements, listings, navigation, locations | |
| `HtmlReader` | the tree builder that puts tags right, and the reader that makes items of it | `XmlReader`, `Metadata` |
| `RtfReader` | the reader of this format | `XmlReader`, `Metadata` |
| `Documents`, `MCDocuments` | the choice of the parser, the reader of SSML and the construction of a document | the readers above |
| `Epub`, `MCPublications` | the container, package, table of contents and overlay, and the publication that reads them all | `HtmlReader` |
| `Markup` | writes documents from trees for the two MC modules, and says what items mean | `XmlReader` |
| `TextReader` | the state machine that cuts text into tokens | |
| `DataFiles` | the tokens of text data, the cursor over binary data | |
| `Dictionary`, `DictionaryApp`, `MCWords` | dictionaries and their files; the program that lists, resolves and compares them | `TextReader`, `Syllables`, `DataFiles` |
| `TextProofs` | theorems on the text reader and on that program | `DictionaryApp`, `Induction` |
| `RuleMatching` | matching of rewrite rules and letter-to-phoneme rules, with look ahead | |
| `LanguageCompiler` | from a language definition to a language file | `RuleMatching`, `DataFiles` |
| `LetterToPhoneme`, `MCLanguage` | loading that file and pronouncing words with it | `LanguageCompiler` |
| `LetterProofs` | theorems on the pronunciation of words | `LetterToPhoneme`, `Induction` |
| `StyleSheets`, `MCStyles` | counter styles, markers and quantities | |

### SpeechSession

The state is the members of `speech_impl` that the two threads share (their names
are kept), the locals of `speak_tts_thread` (`node`, `depth`,
`mediaOverlayDepth`), two program counters `tpc` and `cpc`, what the client has
learnt (`seen`, `joined`), and history that only properties read (`spoken`,
`played`, `late`, `lastWord`).

*Steps.* Every virtual call and every shared member is a place where the threads
may interleave, so one action touches at most one member the other thread
looks at: `progress()` is two actions (`ProgressOffset`, `Progress`), `finished()`
is `CloseAudio` then `Finished`, `stop()` is `Stop` then `StopJoined`, a callback
looks at the state in `Callback` and writes in `Deliver`. The constructor runs before
there is a thread, one item of `preprocess_events` at a time.

*The engine* is what the code of the two engines lets it do: any number of
callbacks (at most `MaxBuffers`) per text, eSpeak with a word position inside
the text, either with audio or none; it returns at any point, Pico may throw.

*The client* is any sequence of polls, with a stop, a wait and a drop, in which a
session is joined at most once and dropped only by a client that has seen its
end or joined it. A second join is undefined behaviour and no client in the
repository makes one.

*Left out:* elapsed and total time, the callbacks the client registers
(they change nothing of the session), the content of texts. A corrupt media
file that ends in `set_interval` (`audio/ffmpeg_player.cpp`) is not a behaviour here.

### AudioSink

A sink is a record and an operation is the set of its outcomes, as it is used by
two threads in turn. One buffer is one byte; a file keeps the size it has and
the size its header announces; a device counts the connections the operating
system holds. Standard output, on which `close` returns early (`wav.cpp:113`), is not a kind of sink.

### Engines

Constructing the engines, selecting a voice and speaking are the steps of one client;
only a stop comes from outside, at any moment while a text is spoken. A voice of Pico is a
definition and two files, each of which may be missing at first and be installed
later. Every call of Pico may throw: `pico_initialize` in the constructor, the eight calls of `load_voice` (the definition, load, name and add
of two files, the engine; `Loading` is what those before a call have left), put, get and reset while speaking. Loads throw for a
missing file; the constant `Faulty` says whether any call may also fail of itself.
A text is its size in bytes; `Pico` takes between one byte and `MaxPut`
at a time, and speaks what it holds when it finds the end of a sentence. An exception ends `speak` without a reset, so that what Pico holds (`pending`)
stays there until the engine is disposed of, and is heard with the next text; a stop resets.

### MbrolaSynthesizer

Two processes. The library's state is `synthesize()`'s own (`state`, the message buffer,
stdio's buffer of the pho file) with a program counter for where it is inside
`pipe_t::read`: reading, asking `/proc` whether the process sleeps, or in `select`. The
`mbrola` process, modelled from what the library relies on (marked external), keeps the phones it
reads until a flush, warns of an unknown phone as it reads it, and blocks on a full pipe. A
warning is two halves of a line, so that a read may split it. A phone may be one whose unit the voice lacks, for which `write_diphone` puts out
no line. It has no `return`, so what its caller sees is a choice (`WriteResults`); a caller that sees false takes the text to be over,
and `unseen` is the history of what was written and seen to fail.

### ProsodyReader, UnitReader, DiphoneReader

Each is a pull reader: its variables are the members and the output so far, an action is
one call of `read()`. `UnitReader` calls `ProsodyReader`'s action when its own state says that
it needs a phone, as the code does through the shared pointer. Durations and the voice's
table of units are constants, so every phone may be unknown to either.

### Syllables, PhonemeConverter

`read()` of the converter is several actions, one per phoneme that it looks at, with its locals
in `reading`; the recursion at its end is a second entry. An error of the source leaves it in
the middle of a match. The syllable reader is an operator on a sequence of phonemes, as its
state does not outlive the call. `read_phonemes` and `main` of the application cut the
output into chunks and go on after an error.

### PhonemeSets

A phoneme is a function from fields to values, a text a sequence of lexemes. Reading a
phoneme file (`phoneme_file_reader`, whose stack has a file per `.import`) and building the tables
of a scheme are operators, computed once into the variable `tables`. The writer and the reader are
records with the members of the code. A behaviour of the module is a client with one writer and one
reader: `WriteAPhoneme` for each phoneme, `FlushPhonemes`, then `OpenText` and `ReadAPhoneme` on a text
with errors first and, with the *same* reader after `reset`, on what was written.

### XmlReader, HtmlReader, RtfReader

Text is a sequence of *lexemes*, not of characters: a punctuation mark, a blank, a pair such as `--`, a run of
letters. This keeps every decision of the tokenizers and none of their loops over letters. A reader is a
record with the members of the class, and `Read`, `TreeRead`, `ReadHtml` are `read()`: functions from a reader to
the reader after the call. The tree builder keeps the stack of open elements and the insertion mode;
the reader keeps the stack of contexts, each with the handler that treats its nodes, as the
code keeps a stack of virtual `context`s.

### Documents, Epub

`Documents`: `createDocumentReader` finds the format from magic patterns or the root element and makes
the reader; a step of `read` is one node of an HTML document, or one item otherwise, and what a reader delivers
is added to the document (`DocumentEvents`). `Epub`: the container, the package (`OpfStep`, one XML node at a
time, its procedures a stack with their locals), the table of contents and then each chapter, in the states
of `mState`. The overlay's text and audio live in `mTextRef` and `mMediaItem` between pairs, as in the code. An
archive is a function from names to texts.

Reading a document takes a step after every node, and a reader that went on for ever without an item would be invisible to
`WF_vars` if a step left all variables alone. `odd` is a ghost that flips at every step, so that such a loop is a behaviour
and not a stutter; `WF_odd(Goes)` is weak fairness of the step that flips it. Nothing reads it.

### TextReader

A step is an event of the document or one turn of the loop of `read()`. The members are variables
of the same names; each character in the match buffer carries where it came from, which is how a
property can say that what a token holds is what its range names. The transition table of
`text_reader.fsm` is a function of state and character category. `TextSpec(d)` is the reader on the document `d`, a sequence of items that
have a text or none; `DictionaryApp` runs it as the program does. `Interrupted(text)` says that a text is empty or ends where what
follows decides whether its last character belongs to the token before it (a quote or hyphen after a letter, a space after punctuation,
a line that ends in a hyphen).

### Dictionary, DictionaryApp

A dictionary is a function from words to sequences of entries, as `dictionary` is a hash map of objects; the formatter goes
through it in any order. Loading takes one turn of a reader's loop at a time, over the stack of files that imports make.
`PronouncedAt` is one call of `pronounce`; `said` stands for what its calls of itself return, and `pronounce` is the function that satisfies this
recursion, over words and depths. `MaxDepth` is where the model gives up on a recursion that the code does not end: a call behind it is `deep`, which
`RecursionIsCaught` looks for. The phases of `DictionaryApp` are those of `main`. `Characters` are those that words and files are written with.

### LanguageCompiler, RuleMatching, LetterToPhoneme

The compiler has an action per token, in the loop that reads it. The written file is a sequence of
sections with the offsets that the writer *computes*; `LoadSection` walks it by those offsets, so a wrong
one shows as a wrong section. `Reset` takes a word through the rewriting
rules; `ReadPhoneme` and `ReadMatch` are the two halves of `read()`. The states of `next_match`'s loop are operators:
`Match` is a rule (`Left`, `Context` and `Right` of it), `Tried` a group of them, `Sought` one call. `Right` contains the look ahead
(`Ahead`), which calls `next_match` with a copy of part of the state: `seek` stands for what its calls of itself return, and
`next_match` is the function that satisfies this recursion. `PlainLanguage` describes the languages whose rules are sequences of elements that
begin with the letter of their group, and whose pronunciation rules have letters as context.

### StyleSheets

A step is one token of the sheet, in the procedure that takes it (`parsing`). `marker` and the readers of quantities
are operators; a number is a pair of integers, so that no rounding hides an error of scale. The notes and the conversions of lengths are the tables of the code, entry by
entry, so `QuantityIsMeant` can compare each note with its neighbours and its octave, and each conversion with how many of a unit are an inch.

## 3. Runs

| Run | Instance | Question |
|---|---|---|
| `session_whole` | plain text with and without contents, a page with nested contexts and a line break, a page with a media overlay; 3 modes, 2 engines, 4 sinks | a session over a whole document: what the client may rely on, the progress, liveness, and the refinement of `ReadingAloud` |
| `session_part` | every pair of contents entries (none included) of the page; whole documents on PulseAudio and files | the right texts are read for any range; what a stop lets through; what stays open |
| `voices` | 2 engines of 2 voices, each engine built or not; the second file of one voice may be missing, and any call of Pico may fail; texts of 0, 3 and 9 bytes | after any history of failures the active voice is one of its engine and Pico holds one voice; a text that is spoken is spoken whole, and only an exception leaves some of it for the next |
| `mbrola_phrases` | texts of one to three phrases with up to four unknown phones, and one with a unit that is missing; writes that are seen to fail | no phone that was seen to be written is kept back, warnings come once and in time, it ends |
| `readers` | every sequence of up to 5 phonemes in which a mark follows what it marks; of up to 3 phones with one of 6 envelopes and 2 durations; every transcription of up to 4 phonemes, one kind of which cannot be read, under 3 placements of stress; 9 phoneme files of five types with up to 3 phonemes each | lookahead loses nothing, shares and pitch are kept, rules apply longest first, what a scheme writes it reads back |
| `language` | 128 languages (64 subsets of six optional rules, with and without rewriting and a locale), every word of up to 3 of 4 letters | the file says what the definition says; every letter of a word is pronounced |
| `words` | every text of up to 3 of 14 kinds of characters, in one or two items; dictionaries of up to 3 of 13 kinds of lines and cmudict files of 2; 7 modes of the program | no visible text is lost, ranges are true, dictionaries survive a round trip, resolving is not a change of meaning |
| `documents` | HTML of one or two of 12 blocks, in 3 forms (all tags, without html, head and body, without implied end tags), with or without title and metadata; SSML of up to 2 of 4 parts, RTF of up to 2 of 5, plain text, compressed text, and files that are no document | everything in the file is in the document, once and in place |
| `publications` | spines of up to 3 chapters, each text, spoken, half spoken, missing or a picture; overlays of one's own or shared; no table of contents, ncx or nav; four kinds of metadata; a package that is at the top, in a directory, or cannot be found | chapters in order, audio at its text, the book knows itself |
| `styles` | sheets of one rule with up to 2 of 15 declarations, or of two rules; every form of a time, frequency and length | markers count, quantities mean what they say, a sheet is read to its end |
| `find_units`, `find_recursion` | one small instance each | the disagreements of section 5 |

### Properties that have parts

`ProgressIsTrue` (session): the position lies in the text being read, the percentage is one and grows with the
texts, a range that was read completely is at 100 %, and the contents entry is the last one the reading has passed.
`HeardIsDiagnosed` (MBROLA): whoever hears audio was told of its unknown phones, each once.
`SpeakEnds` (engines): an accepted text comes to an end, and all of it was heard, behind what exceptions had left of others, unless it is stopped or fails.
`DiphonesAreThePhones`: the diphones form a chain over the phones, their durations add up, offsets ascend,
the contour is that of the phones, and no point of it is lost.
`SyllablesKeepStress`: syllables partition the phonemes and a stress stays in its syllable.
`DictionaryIsKept`: a dictionary is its lines in order, listed it reads back as itself, compared with itself it has no differences.
`ReadersEnd`, `SheetIsRead`, `WordEnds`, `ProgramEnds`, `DocumentIsRead` of `documents`, `PublicationIsRead`, `Finishes`, `SessionEnds` are liveness;
`DocumentIsRead` of `words` is the safety of the text reader.
`ResolvedIsSaid`: a word that is said as another, at most five entries on, is written with its phonemes, and one that is put together of words that have phonemes with
the sounds of all of them. Where the word stands for itself its parts are divided by hyphens, elsewhere by marks of stress, as `pronounce` has it at depth 0 and below.
The type invariants of the session and the engines are proved (section 4) and not run again.
Some theorems of section 4 have a hypothesis on the input. `MCSpeech` and `MCReaders` assume (and TLC so evaluates) that the instances
of the runs satisfy it where it is one on constants, and that those on which a finding of section 5 is seen do not.

### Bounds

`MaxBuffers = 2` callbacks or blocks per item: one before and one after
any step of the other thread. `Word = 16` is the size of `size_t`: offsets in the
documents reach 5, so that `size_t(-1)` is far from any and wrapping is visible.
The documents of a session are the smallest that hold a heading, nested contexts, an item that
begins and ends a context, two texts in a context, a narrated text next to one
that is not, and a text before and after each.

`mbrola_phrases`: the audio pipe holds 2 blocks, so that it fills; the error pipe holds 8 halves of lines, more than
the warnings of a phrase, and the message buffer 5, so that some texts fill it and others do not. The input pipe has no bound: a phrase
is smaller than a pipe. A `select` times out (after 60 s) only when `mbrola` cannot go on. `WriteResults = {TRUE, FALSE}` is both of what a function without `return` may be seen to give.

`voices`: `Int16 = 16` stands for 2^16, so the sizes 0, 3 and 9 are nothing, a short text and one
that is negative as a `pico_Int16`; `MaxPut = 3` makes a text of 3 one call and leaves
room for a stop or an exception between two. `MaxLeft = 3`: another text is spoken only where no more than one put's worth is left of those before it,
as texts that keep failing would leave more and more.

`readers`: 5 phonemes are a triphthong, or a joined pair with two marks, and one phoneme on each
side; 3 phones have an inner one whose halves meet both kinds of
neighbour; 4 phonemes are the longest rule and one more, and a nucleus with the longest
coda before another. The phoneme files have every kind of line (marks before, after, conditions, tones, code points,
imports, comments) and two that are refused.

`language`: the rules are the features of `tests/letter2phoneme`, each with and without the others: left and right contexts,
classes, features, look ahead for a phoneme, optional conditions. Three letters are a context on both sides of a rule.
`LanguagesArePlain` has TLC evaluate that all of them are `PlainLanguage`s, as `LettersArePronounced` needs.

`words`: `SplitAt = 3` is the size of the match buffer, so every text of three characters fills it; `MaxDepth = 8`
is beyond the depth the code tests for (5). The characters are one for each category the state machine tells apart.

`documents`, `publications`: two blocks (or chapters) are enough for what the first leaves behind to be seen in the second; three
chapters, for one that is missing between two that are not. Each block holds a shape that the readers treat in a way of its own (a list in a list, an item
that is not in a list, a script, an anchor, preformatted text, a CDATA section, a table of contents).
The text of an instance is *written from its meaning* by `Markup`, and the properties compare what was read with
that meaning, so they do not repeat the reader's rules. The model was compared with the expected outputs of the repository's own tests:
of the 108 HTML documents under `tests/` 97 give the same items, and all 5 SSML documents and the RTF documents do; where the
other 11 differ was not settled, and no run rests on their constructs.

`styles`: one rule shows what every pair of declarations makes of each other; two rules, what the second does to the first of the same name.

`CHECK_DEADLOCK FALSE`: sessions, readers and programs end, and then have nothing more to do.

### Fairness

Session (`FairSpec`): the constructor and the TTS thread are each run by the
scheduler (`WF` of `Constructor` and of `Thread`), and `pthread_join` returns when the
thread has ended (`WF` of `Joined`). No fairness is given to the engine's choice to call
back again: `MaxBuffers` bounds it, as a text is finite. The client owes nothing:
`SessionEnds` holds with a client that never polls, stops or waits, and says of one that joins that the join returns. MBROLA: both processes are scheduled
(`WF(Library)`, `WF(Mbrola)`). Engines: `WF(SpeakText)`, the session's thread runs and Pico answers; no
stop is owed. All others are single readers whose client reads to the end: `WF` of the next step.

Every property has a mutant: a version of one definition with a bug that code of this
kind could have, under which the run must find the property violated.

## 4. Proofs

`SpeechSessionProofs` proves, for every set of documents and sessions that
satisfies `SessionAssumption` (a reader lays texts out in order, a range lies in its
document, in that order), every word size and every bound:

* `TypeCorrect`: `Spec => []TypeOK`. `TypeOK` is not inductive: that the offsets stay
  in range needs `LoopInv`: the node lies in the range, before its end inside the loop
  body, is a text where the engine runs, and an open sink has a handle to close.
* `EndIsFinal`: `Spec => []ClientSeesEnd`, from `LifeInv`: there is no thread before the
  constructor has started it, the state is `stopped` only at the end or while the
  client is inside `stop`, and the sink is closed by then.
* `SinkIsUsedWhileOpen`: `Spec => []SinkUsedWhileOpen`, from `OpenInv`: files are open
  from their creation, devices once `started()` has returned, both until
  `finished()`; it needs `LifeInv` for the constructor's `started()` to come before
  the thread's.
* `SpeechStopsAtOnce`: `Spec => []StopIsImmediate` when no media item is played (with one it
  fails, section 5), from `LateInv`: only a callback
  that looked at the state before the stop is still on its way to the sink.
* `RangeIsRead`: `Spec => []ReadsTheRange` in every mode, when the overlays of each session are told apart (`OverlaysApart`). `RangeInv` says that what was
  spoken is what the range has before the node and no overlay narrates, the current text included once the engine was entered; `OverlayInv`, that
  `mediaOverlayDepth` is the depth of the last overlay while its context is open. The theorem is about what is spoken; of what is played it claims nothing.
  `OverlaysApart` is a condition on sessions that speak beside playing. It says that no media item is a text, that none is at depth -1, which also means "no overlay" (section 5),
  and that of two in nested contexts neither is deeper, as the thread remembers one depth.
  It holds for the sessions of both runs and fails where section 5 says so; TLC evaluates this as `OverlayAssumption` of `MCSpeech`.
* `ReadsAloudSafely`: the session refines `ReadingAloud`: its initial states are initial states there, and every step is a step of `Aloud!Next` or
  a stutter, under `OverlaysApart` as well. `AloudInv` relates the abstract state to where the two threads are; the proof is a case per action.
  With fairness, `ReadsAloud`, it stays with TLC.
* `NothingIsHeld`: `Spec => []NoHandleLeft` when no session uses ALSA: `OneHandle` counts at most one
  connection, and none where the sink is closed. With ALSA it fails (section 5).
* `ProgressIsTold`: `Spec => []ProgressIsTrue` when every session is measured whole and its listing follows the text. `MeasureInv`: what the constructor
  measures begins with the first and ends with the last text of the range that it has passed. `PlaceInv`: the offset is where the next text
  begins, or this one ends, and the place lies in the text, whichever of the steps of `progress()` and `ontextrange` the thread is between.
  `CompleteInv`: once no text is left the range is told to be read. `ContextInv`: the entry is the last
  one whose anchor was passed. `MeasuredWhole` excludes ranges whose first item or whose end is a text, which the constructor counts wrongly;
  `ListingFollows`, listings out of order or that begin before the range (section 5).

`EnginesProofs` proves, for every set of voices, files and texts and every set of engines
that satisfies `EnginesAssumption`:

* `LoadsOneVoice`: `Spec => []OneVoiceLoaded`. The induction is on `Consistent(pico)`: the files
  Pico holds are those of one voice, and an engine has all of them, its definition and
  the selected voice's name. `FreeVoice` shows that freeing leaves nothing (`Freed`) and
  `LoadVoice` that a load from there, failing at any of its eight calls, ends `Consistent`.
* `AlwaysAVoice`: `Spec => []VoiceOfActive`, from `VoiceInv`: the active engine names a
  voice of its own, and there is one once construction is over. It holds
  whichever selections fail, but says only that a voice is *named*: that it can speak
  is `SelectedSpeaks`, which section 5 shows to be weaker than one would like.
* `NothingIsLeft`: `Spec => []NothingLeftOver`: between two texts Pico holds nothing, unless an exception ended the last one and the engine that
  held it is still there. From `TextInv`: there is an engine wherever Pico holds something, and the end of a text is told to be over only when
  it holds nothing; a `speak` that returns has come to that or was reset.
* `SpokenIsWhole`: `Spec => WholeText` when no text has 2^16 bytes or more. `SpokenInv`: of a text that is being spoken, what is heard, pending and not put
  yet make up its size and what was left before. With longer texts it fails (section 5).
* `EnginesTyped`: `Spec => []TypeOK`, from the three invariants above and `NamesTyped`.

`MbrolaProofs` proves, for every text, every size of pipe and buffer and every schedule of the two processes:

* `PhrasesAreFlushed`: `Spec => []EveryPhraseFlushed`: where the library waits for audio all it wrote is flushed, and when it is through, what is not
  flushed are phones whose writes were seen to fail (`unseen`). `FlushInv`: outside the loop over phones the last line on
  its way to `mbrola`, in stdio's buffer, in the pipe or read already, is a flush; when `synthesize()` asks for phones what is
  not flushed is in `unseen`. No hypothesis on `WriteResults` is needed.
* `WarningsInOrder`: `Spec => []WarnedOnce`, the part of `HeardIsDiagnosed` that says none is reported twice, out of order or
  without cause. `WarnInv` lists the places an unknown phone passes on its way, from the phones not yet written, through
  the pipes and `mbrola`, the buffer of the message and the lines cut from it, to the reports: each place holds
  phones that all come before those of the place behind it, and in their order (`Places`); the halves of lines
  alternate wherever they wait (`Turns`, `Halves`), so that what a read splits or a full buffer loses is never put together as
  another line. Lemmas say what concatenation, a prefix and a tail do to such a sequence. No hypothesis on `WriteResults` is needed.
* `HeardPhonesAreDiagnosed`: `Spec => []HeardIsDiagnosed`. What was heard of the unknown phones has been warned of, and a warning
  is in a place from which it must reach the report before `synthesize()` may return. `HeardInv`: the header is
  the first that `mbrola` says, and the constructor takes it (`HeaderInv`); what is read is what the state asks for (`ReadInv`);
  lines stay whole wherever they wait, as the buffer has room for all warnings of the text (`WholeInv`, with `WarningsAreFew`, which counts
  them); so an unknown phone that was spoken is in the error pipe, in the lines or reported (`DiagnosedInv`), and where phones are asked for, what was
  heard is reported (`ReportedInv`). `WarningsFit` is a condition inside the property: a buffer that fills drops lines, as in the code.

`Induction` proves once what makes the rest possible. The library's induction theorems take an operator as a parameter, which the
provers here cannot instantiate; `SetInduction` says the same of a *set* of numbers, and follows from what the library proves of the
cardinality of finite sets (the successor would map a finite set into itself less an element, one to one). `InductionTo` and `LeastNumber`
follow from it, and `RecursionTo`: a function that is defined by a recursion on `0 .. N` exists and satisfies its equations. So the sums, concatenations and
texts that are defined by recursive functions can be reasoned about for every input. `RecursionBelow` says it of any recursion whose calls have a smaller
measure, which is what `next_match` is.

`ReaderProofs` proves, for every input, duration model and voice table:

* `PhonemesReadOnce` and `MarksStay`: `UnitSpec => []EveryPhonemeOnce` and
  `UnitSpec => []MarksFollowTheirPhoneme`. Their invariant `ReaderInv` needs, beside types, that
  `First`, where the next call begins, is behind all that was read, and `MarkInv`: what lies
  before it either was a second phoneme or is known not to be followed by a mark. `LooksAhead` states
  once what a call does to the lookahead.
* `UnitsEndWithTheirPhone`: `UnitSpec => []UnitIsOfPhoneme` when every entry of the table has
  a unit, from `UnitInv`: between two calls the next unit lies before
  the end of its phone's. The hypothesis is needed: an entry of none passes its end (section 5).
* `UnitsAreThePhones`: `UnitSpec => []UnitsOfPhonemes` when every entry of the table has one unit or two and the first begins where its phone does (`OneUnitOrTwo`; with three
  `find_units` refutes it). `GivenInv`: the units that were given and those that remain of the current phone are the units expected of the phones
  read so far, their lengths and pitches included. `FlattenIs` and `FlattenStep` say by induction what
  `FlattenSeq` makes of a longer sequence.

It also proves, for every sequence of phones and envelopes, of `DiphoneInit /\ [][DiphoneNext]_diphoneVars`:

* `DiphonesChain`: `[]Chained`, from `ChainInv`: one diphone was given for each phone taken, the half that is kept is that of the last one taken, and
  the pause that ends the text is given once.
* `DiphonesKeepThePhones`: the diphones are the halves of the phones, each pair of halves lasts as long as its phone, the points of a half are in
  order and none is lost. `DurationInv` sums durations by a recursive function; `EnvelopeInv` says of each half which of the
  phone's points it has. `SplitStep` is an induction over the loop that cuts an envelope in two.
* `DiphonesSpeakThePhones`: `[]DiphonesAreThePhones`, so with the contour, when every envelope is `Interpolable`: the points around the
  middle are as far from it as each other or have the same pitch. Elsewhere the code interpolates from the wrong end (section 5).

`TextProofs` proves `DocumentsAreRead`: `TextSpec(d) => []DocumentIsRead` for every document `d`, categories and lower case of characters and
size of the match buffer, when no text of `d` is `Interrupted`. Tokens are characters of the text, in order, in lower case and in their ranges;
ranges do not overlap; and each visible character is in a token exactly once. The invariant `TextInv` is a conjunction:

* `InputInv`: what was read is the beginning of the document, and the item that is read lies where its text does;
* `MachineInv`: the state of the machine is one that the character before can lead to, and where it is no end of a token, the last two
  characters join; so it is one at the end of an item, which is where `Interrupted` is used;
* `MatchInv`: the match buffer holds the visible text between where the token begins and where the machine stands;
* `SavedInv`: it holds as much for the place that the reader goes back to when what it read ahead is no part of the token;
* `TokensInv`: the tokens given are of the text, follow each other, and have all visible text before the buffer's.

The steps are a lemma each for an item, a character that is passed, kept or ends a token, and the end of the document.
TLC checked the invariant on the instance of `words` and on all texts of five characters before it was proved.
Without the hypothesis the property fails (section 5). `ProgramReadsDocument` says the same of the dictionary program, whatever it does
with dictionaries: its document is read as it is when it is `Whole`, which is that no text of it is `Interrupted` (`DocumentIsRead` has it as a premise, as
the reader breaks the claim without it); and where the documents of all command lines are `Whole`, `Spec => []TextIsTokens(DocumentText)`.
The steps of the program are steps of the text reader or leave it alone (`StepOfText`).

`TextProofs` also proves `WordsAreSaid`, `Spec => []ResolvedIsSaid` of that program, for all files, documents, command lines and any number of words. The files may
hold anything: what cannot be read is thrown, and a dictionary has only what was read. What the proof rests on is

* types, from the characters up: `FileTokensTyped` and `CmuTokensTyped` (the tokens of a file, of any text), `PhonemesRead` (what is read of a transcription),
  `ReadFileTyped` (a turn of a dictionary's reader), `TextNextTyped` (a step of the text reader on any document, so also on one that is `Interrupted`: a token
  may then hold a character of the buffer that was never written, `LooseToken`), `AddEntryTyped`;
* `FlattenTyped`, `FlattenFirst` and `FlattenJoined`, by induction: what `FlattenSeq` makes of sequences, its first element, and of two of them joined;
* `WordsOfTyped` and `TogetherExists`: a word falls into finitely many parts, and saying them one after the other has a result;
* `CallsExist`, by `RecursionBelow` with the depth that is left as measure: there is a function that satisfies the recursion of `pronounce`, as a call
  depends only on those one deeper (`CallSame`). `PronounceIs` says that `pronounce` is one;
* `ChainSaid`: the calls follow the say-as entries (`SaidAs`), so what a word is said as is found at a depth of at most five, where the code still follows;
* `TogetherSounds`: the sounds of parts that are said one after the other are those of the parts, whatever stress they were given and syllable breaks were put between;
  with `ChainSaid` this is `ResolvedIs`, which says what `pronounce` returns for each word of the dictionary.

`AppInv` is the invariant of the program: the types of reader, dictionaries and tokens, and, in the phases that write, `PrintedInv`: no line is of a word that remains,
and the first line of every other word is that of its first entry, if this one has a line. It is needed since words are written in any order, and a word with several entries
has several lines. `FormatPrints` is the step that writes a word, with lines that come behind all others.

`DictionaryAssumption` and `ProgramAssumption` are on the constants: files are of `Characters`, those of the text reader and the
unwritten one are among them, what a phoneme set writes for a sound is none of its marks, and `MaxDepth` is behind the depth that is followed; TLC evaluates them in `words`.
In trying to prove it the property was found to be said wrongly where no instance reaches: it divided a word that stands for itself at marks of stress, not at
hyphens, and took the first line of a word for that of its first entry even where this one has no line.

`ConverterProofs` proves `SyllablesKeepTheStress`, for every set of transcriptions, sounds, classes and rules of an accent:
`ConverterInit /\ [][ConverterNext]_converterVars => [](Proper => SyllablesKeepStress)`. In every chunk that is printed the syllables follow
each other, each has one vowel at most and every vowel is in one, no boundary parts an affricate, and a stress is moved within its
syllable. The argument is mostly not about steps:

* `ReadOne` says what one turn of the loop of `syllable_reader_t::read` does to `Reads`, what is known before a coda is found; from it
  `SyllableIs`, about one call, and by induction from the end `SyllablesFollow`, about all calls (`Follows`).
* `Parted` and `OneNucleus` follow from the places where syllables lie; `Places` says that no two have a place in common.
* `PlacedIs` says by induction what moving each syllable's stress makes of a chunk (`Moved`), in which the order of the syllables is of no
  matter; `StressKept` and `BackAgain` need nothing else, as `SameSyllables` says that syllables are a matter of sounds.
* `AccentInv` and `ChunksInv` are the invariant: what is queued, replaced, returned and printed are phonemes. It needs that a queue which is empty when
  nothing matched means that the source is at its end, as `read()` then returns the head of the queue.

`Proper` has two parts, and both are needed. What is joined is joined to a consonant: of a transcription that ends in the first half of an affricate the reader
finds no last syllable, and before a break it ends the syllable in between. No onset has another stress than its nucleus:
moved to the nucleus and back it would be the onset's stress, moved directly the nucleus's. The instance of `readers` is `Proper` throughout.

It also proves `AccentsAreApplied`, for every set of transcriptions and rules:
`PrefixesAreRules => (ConverterInit /\ [][ConverterNext]_converterVars => []AccentIsApplied)`. What the converter prints is `Rewritten(input)`, the
longest rule applied from the left each time, although `read()` reads ahead, queues what it read too far and has its source interrupted by errors.

* `RewrittenIs` to `RewriteLongest` are about the recursion `Rewritten`: a phoneme that no rule begins with stays, the longest rule is replaced, and
  the rest is converted by itself. `OnwardExists` and `OnwardSame` of `Induction` are what they rest on: a recursion from the other end.
* `ConvertInv` is the invariant. `m` is what was read since the last replacement. What was returned, what is left of a replacement and the
  conversion of `m`, the queue and the source are the conversion of what follows the last error, when no error is ahead (`After`); the queue holds one
  phoneme, and two when nothing matched (`QueueInv`); `m` has the sounds of `entry`, and its first phoneme the prosody that is kept (`Taken`).
* `NoRuleGoesOn`, `NothingGoesOn` and `MatchEnds`: when the trie has no way on, or the input ends, the match is the longest rule for whatever follows.
* There is a lemma for each action (`ReplaceHolds` to `EndReadHolds`). `ThrowHolds` is the one where `After` begins anew.

The hypothesis says that the prefixes of a rule of two sounds and more are rules. It is needed: `FireOnly` breaks it and the property (section 5). All
accents in `data/accents` satisfy it; the two that have rules of three phonemes have their prefixes too (`en-US.ptp:44`, "Fix for partial FIRE match").
`RulesAssumption` has TLC evaluate it for the rules of `readers`. That `"unspecified"` is no stress is an assumption on `Stress`: `ipa::unspecified` has
bits outside of the mask that prosody is read with. TLC checked the invariant on all transcriptions of five phonemes, with a rule
that replaces by nothing, before it was proved.

`LetterProofs` proves, for every language file, word and locale, `Spec => [](PlainLanguage(lang) => EveryLetterPronounced)` (`LettersArePronounced`): when a word
was read to its end, each of its letters that is no boundary is in the part of the word that one of the rules was found for, and each rule that was found has the letters it spoke
as its context and what was said as its phonemes. Boundaries are passed over, nothing else. And `EachMatchMovesOn`: a `read()` that needs a rule moves on in
the word, not beyond its end, or it stops there; this is the measure by which a word ends. The argument is mostly about what the loop of `next_match` returns:

* `ForwardIs` and `ContextFacts`, by induction over the elements: a context never goes back, leaves the text or matches without moving over its first letter, and one
  of letters is the text it was matched with.
* `RightExists`, `RightTyped`, `MatchTyped` and `TriedTyped`: the elements of a right context, a rule and a group of rules give a result, which is one of a rule
  at this place or a failure, whatever a look ahead returns (`Answering`).
* `RightSame` to `SoughtSame`: they ask for a look ahead only behind the first letter of the rule. So `next_match`, which calls itself through its own look ahead, is defined:
  `SeekExists` is `RecursionBelow` with the distance from the end of the text as measure.
* `SeekTells`, from the end of the text on: a match is a rule of the group of the first letter that is no boundary (`Found`), and the null match means
  that there is no such letter (`Ends`).
* `RewriteTyped`: what a word is rewritten to is a sequence of its letters and those of the replacements.
* `ReadingInv` is the invariant: a word is only read with a language that is loaded, which no step changes; the letters before `mCurrent` are covered (`Covered`), each rule
  spoke its own letters (`AllSpoken`), and where the reading ended nothing but boundaries is left. TLC checked it on the instance of `language` before.

`PlainLanguage` is needed: a rule in the group of another letter would never be the one that is looked up, and a class in a context stands for other letters than
it is written with. The compiler files each rule under the first letter of its context, and the context may not be empty.

Only model-checked:

* *Liveness*, and the refinement with fairness: out of the prover's reach.
* What rests on RECURSIVE operators, in whose modules the prover loses its solver: the parsers, publications, phoneme sets and style
  sheets (`XmlReader`, `HtmlReader`, `RtfReader`, `Documents`, `Metadata`, `Epub`, `Markup`,
  `PhonemeSets`, `StyleSheets`), with `TranscriptionsReadBack`, `ItemsOfDocument`, `KnowsItself`, `ChaptersInOrder`,
  `AudioFollowsItsText`, `MarkersCount` and `QuantityIsMeant`. No theorem's module reaches one of these.
* `DictionaryIsKept`: that a listing reads back is stated with a recursive operator of `MCWords`, that a dictionary is its lines, of the files of the instance.
* `AheadComesTrue` and `LoadedIsCompiled`, which are about the languages of the instance. The first is not true of every language: a look ahead behind another goes on
  with the first phoneme of its own rule as the previous one, and letters of the right context move the place it looks at (section 5, `LookAheadIsAsRead`). The
  second compares a file with what the definitions of the instance mean (`Means`).

## 5. Where the code and its documentation part

Each `find_*` run violates one property; `PROJECT.json` quotes the line it comes from.

| Run | What the code does |
|---|---|
| `find_units` | of three units the second gets the length of the third (`units.cpp:112`) |
| `find_recursion` | a word of two parts that is said as itself twice passes the test of the depth and recurses for ever (`dictionary.cpp:199`) |

More were met while modelling. The ones in this table are each seen by changing one constant of a configuration;
the runs keep to instances without them, so that everything else is checked. The definitions they name are in the modules for this.

| Property | Seen with | What the code does |
|---|---|---|
| `ContextIsEnclosing` | `Sessions <- FromLastEntry` | the context stays at the first entry when the range starts later (`engines.cpp:239`; `docs/api/src/engines.md:75`) |
| `StopIsImmediate` | `Sessions <- NarratedSessions` | a stop waits for the whole media item (`engines.cpp:164`; `engines.md:22`) |
| `ReadIsComplete` | `Sessions <- ToLastEntry` | the text after the range is counted, so 100 % is not reached |
| `ProgressIsPercentage` | `Sessions <- FromOnlyEntry` | the percentage wraps when the range's first item is its only text |
| `PositionInRange` | `Sessions <- FromLastEntry` | `position()` adds a new offset and an old place |
| `NoHandleLeft` | `Sessions <- AlsaSessions` | the ALSA device is opened twice and closed once |
| `RecordingIsReadable` | `Sessions <- WavSessions` | a WAV recording has a second header in its audio |
| `ReadsTheRange` | `Sessions <- NestedSessions` | a narrated text is spoken too when the range starts in nested contexts: depth -1 is also "no overlay" |
| `WholeText` | `Sizes = {2, 18}`, `Builds <- OnlyPico` | of a text of 2^16 + n bytes Pico speaks n (`pico.cpp:214`) |
| `SelectedSpeaks` | the run's constants | after a failed load the old voice is still named, and selecting it again does nothing (`pico.cpp:243`); also `Garbage <- Pico2`, a member read before it is set (`pico.cpp:155`) |
| `InstalledSelectable` | `Faulty = FALSE` | a voice whose load failed keeps its definition, and cannot be loaded again, though its files have been installed |
| `AllSynthesized` | the run's constants | the library believes a process that sleeps for a moment to have nothing more to say |
| `VoiceOpens` | the run's constants | the same while it waits for the header |
| `SameContour` | phones with the envelope `Aside` | the pitch at the middle is interpolated with the distance from the wrong end (`diphone.cpp:99`) |
| `UnitIsOfPhoneme` | a table with `num_units = 0` | the end of a phone's units is passed (`units.cpp:118`) |
| `AccentIsApplied` | `Rules <- FireOnly`, `Transcribed <- Price` | a rule that fails after three phonemes leaves them out of order (`phoneme_to_phoneme.cpp:159`; `data/accents/en-US.ptp:44`) |
| `LookAheadIsAsRead` | the constants of `language` | a look ahead goes on with the previous phoneme of its start, so it may foresee what is not read (`letter_to_phoneme.cpp:483`; `docs/langdb-format.md`) |
| `EventsEnd` | `Contents <- EndlessRtf` | an RTF document whose last paragraph is not ended is delivered again and again (`rtf.cpp:431`; `docs/api/src/document.md:269`) |
| `EntryIsThere` | `Contents <- LinkAfterToc` | the last entry of a table of contents follows any link behind it (`xhtml.cpp:1271`; `document.md:123`) |

Others were found in reading, and are in the models as the code has them, or outside their instances:

* *Engines.* What Pico holds when an exception ends `speak` is heard with the next text, as only a stop resets (`pico.cpp:288`, `298`, `304`): `left` in `WholeText`.
* *Phoneme sets.* `initialize()` of the arpabet and espeak readers keeps the stress (espeak: the index) of the text before
  (`docs/api/src/phoneme.md` says that a reset loses state). The source of a modifier `a => b` is never compared. The arpabet writer drops a phoneme it
  does not know and says it wrote it. A phoneme file that ends in a comment or a transcription without a newline is read for ever. A word pause at the
  start of a line is not read back by espeak; an unjoined `t S` is read back joined. A transcription that is a prefix of one reads as phonemes with no features.
* *Text reader.* A token that goes on in the next item and has to be given back (after a quote, a hyphen or a space) loses the text before it, and later
  ranges are shifted; an empty text in between puts a character into two tokens (`text_reader.cpp:106`). `Interrupted` describes both.
* *Dictionaries.* Entries listed with both a dictionary and nested arrays end the program; the last line without a newline is lost;
  a file that imports itself is read for ever; a directive without a value swallows the next word; a say-as phrase does not read back.
* *Language files.* `docs/langdb-format.md` numbers conditions from `\x21`, the code from 1. A class without members moves every later offset by 7.
* *XML.* Surplus end tags pop an empty list; a DTD that ends in `]` without `>` is read for ever; a DOCTYPE is read twice; a last `>` gives an empty text;
  the default namespace is applied to attributes.
* *HTML.* The comments at 680 and 834 say that a tag's end matches its start, which crossing tags do not keep. Text directly in the body or a section is not
  delivered; a list directly in a list closes the outer one; a second list in a table of contents creates the listing again.
* *Publications.* A navPoint without content gets the place of the one before (`ncx.cpp:109`); the constructor of the overlay reader drops the node after `<body>` (`smil.cpp:88`);
  an overlay text that is not in its chapter holds back the audio of all later ones (`epub.cpp`); an item without a media type ends the program.
* *SSML* reports only the innermost of several contexts that begin together, and every end as the end of an emphasis. *RTF* refuses a hexadecimal digit 0.
* *Styles.* A sheet that ends inside a declaration is read for ever; the markers of cyclic styles are one off from CSS;
  fixed, symbolic, alphabetic and additive styles print no numeral; `system` after `range` resets the range.

Places where the build decides what happens (a member read before it is set, an iterator moved before the first element, `back()` of an empty list)
are a choice over outcomes where an instance reaches them (`Garbage`, `WriteResults`), and are not reached by the instances otherwise. A class that no
definition names is one such place: `letter_to_phoneme.cpp:85` clears its table of classes, so nothing matches, and `lexical_rewrite_rules.cpp:92` does not, so the rewrite rules read what
is there. `ClassesAreDefined` has TLC evaluate that the languages of the instance define theirs.

## 6. Plan

The order is that of what goes wrong most expensively: first what runs concurrently, then what
keeps state over many calls, then what only computes.

1. Done: the session, its sinks and its refinement; engines; MBROLA; prosody, units and
   diphones; phoneme conversion.
2. Done: *text to phonemes*. Tokens, dictionaries, language files, rules, phoneme sets. They are checked one by one; a run in which a
   document's text goes through all of them up to `ProsodyReader` is left.
3. Done: *documents*. XML, HTML, SSML, RTF, plain text, publications. Left: mail, PDF, RDF/XML, and archives of any files.
4. Done: language files and styles. Left: voice files and unit sets.
5. Done: *proofs* of all safety properties of sessions, engines, MBROLA, prosody, units, diphones, the phoneme converter and the text reader,
   and that the letters of a word are pronounced. Left: the language compiler, and `ProgressIsPercentage` for
   ranges that do not begin with a text.
6. Left: the window of samples of the media player; objects that refer to each other and views of buffers.

## 7. Not modelled

* Elapsed and total time, client callbacks that keep no state of the library, message wording.
* The content of audio, the Vorbis encoder, resampling; `sigproc/` (numeric code without state). The media player decodes with FFmpeg; a session
  sees it as a sequence of blocks.
* Formats: character encodings and compression (functions from bytes to bytes), mail headers, PDF (read by poppler), RDF/XML, archives but for
  the names of their files. What depends on their result is modelled with that result.
* Language tags, formatters and the query language of the metadata: tables and string functions.
* Pitch model and durations as numbers: constants of the models. Voice files but for the length of their sections.
* Objects, ranges and buffers as containers. Where a module rests on one it models what the container does there.
* Undefined behaviour that no client of the repository reaches: a second join, a session that is dropped unjoined, a context asked of an empty
  listing, a voice selected while a session speaks. An input pipe of MBROLA that fills, and its process, which is never waited for.
* A sink that is standard output. Of the table of HTML entities the models have the one that the documents use.
* Nothing here says how long a step takes.
