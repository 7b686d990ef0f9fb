----------------------------- MODULE TextReader -----------------------------
(***************************************************************************)
(* text_reader (tts/text_reader.cpp) and its state machine                 *)
(* (tts/text_reader.fsm): the events of a document become words, numbers,  *)
(* punctuation and paragraphs, each with the range of the text it is from. *)
(*                                                                         *)
(* A step is an event of the document or one turn of the loop of read();   *)
(* a client reads until read() returns false.  Text is a sequence of       *)
(* characters; what the buffer holds says where each of them came from, so *)
(* that what a token says can be compared with the text.                   *)
(***************************************************************************)
EXTENDS Integers, Sequences, FiniteSets

CONSTANTS
    Category,       \* what a character is to the state machine: fsm::language
    ScriptOf,       \* the script of a character of category Lo
    Lower,          \* ucd::tolower
    SplitAt         \* how many characters fill mMatchBuffer: 500 bytes in the code

VARIABLES
    document,       \* the events of the document reader
    delivered,      \* how many of them were read
    content,        \* the text that is read, from mCurrent on to mLast
    base,           \* how much text was before it
    mCurrent,
    mReaderState,   \* "need_text", "have_text", "end_paragraph", "end"
    mState,
    mMatchBuffer,   \* the memory of the buffer, as far as it was ever written
    mMatchCurrent,  \* how much of it is in use
    mMatchNext, mMatchLast,
    mNeedEndPara,
    saved,          \* mHaveSavedState, mSavedState, mSavedCurrent, ...
    current_script,
    tokens          \* what read() has delivered

inputVars == <<document, delivered, content, base, mCurrent, mReaderState>>
matchVars == <<mState, mMatchBuffer, mMatchCurrent, mMatchNext, mMatchLast, saved, current_script, tokens>>
textVars == <<inputVars, matchVars, mNeedEndPara>>

Spaces == {"Cc", "Cf", "Cn", "Co", "Cs", "Ii", "Zl", "Zp", "Zs", "SH"}
Marks == {"Lm", "Mc", "Me", "Mn"}
Numbers == {"Nd", "Nl", "No"}
Punctuation == {"Pc", "Pd", "Pe", "Pf", "Pi", "Po", "Ps", "RQ", "AP", "HM"}
Symbols == {"Sc", "Sk", "Sm", "So"}
Quotes == {"RQ", "AP"}
Languages == Spaces \cup Marks \cup Numbers \cup Punctuation \cup Symbols \cup {"Lu", "Ll", "Lt", "Lo", "PS", "LF"}

Terminal == {"S1", "E1", "P1", "Y1", "N1", "L1", "L2", "L3", "L4", "L5", "L6", "L7"}
WithQuote == {"Q1", "Q2", "Q3", "Q4", "Q5"}
WithHyphen == {"H1", "H2", "H3", "H4", "H5", "H6"}
States == {"S0", "S2", "P2"} \cup Terminal \cup WithQuote \cup WithHyphen
Silent == {"S0", "S2", "P2", "H2", "H3", "H5", "H6"}    \* emit: false
Advancing == {"S0", "S2"}

Edges ==
    {<<{"S0", "S2"}, Spaces, "S0">>, <<{"S0", "S2"}, {"Lu"}, "L1">>, <<{"S0", "S2"}, {"Ll"}, "L4">>,
     <<{"S0", "S2"}, {"Lt"}, "L6">>, <<{"S0", "S2"}, {"Lo"}, "L7">>, <<{"S0", "S2", "E1"}, Marks, "E1">>,
     <<{"S0", "S2", "N1"}, Numbers, "N1">>, <<{"S0", "S2"}, Punctuation, "P1">>, <<{"S0", "S2"}, Symbols, "Y1">>,
     <<{"S0", "S1", "S2"}, {"PS"}, "S1">>, <<{"S0"}, {"LF"}, "S2">>, <<{"S1", "S2"}, {"LF"}, "S1">>,
     <<{"P1"}, {"Zs"}, "P2">>,
     <<{"L1", "L2", "Q2", "Q5"}, {"Lu"}, "L2">>, <<{"L1", "L3", "L6", "Q2", "Q3", "H4", "H5", "H6"}, {"Ll"}, "L3">>,
     <<{"L1"}, {"Lt"}, "L5">>, <<{"L1"}, Quotes, "Q2">>, <<{"L2"}, {"Ll", "Lt"}, "L5">>, <<{"L2"}, Quotes, "Q5">>,
     <<{"Q5", "Q4", "L5"}, {"Ll"}, "L5">>,
     <<{"L4", "Q1", "H1", "H2", "H3"}, {"Ll"}, "L4">>, <<{"L3", "L4", "L5", "L6"}, {"Lt", "Lu"}, "L5">>,
     <<{"Q1"}, {"Lu"}, "L5">>, <<{"L4"}, Quotes, "Q1">>, <<{"L4"}, {"HM"}, "H1">>, <<{"L4"}, {"SH"}, "H2">>,
     <<{"H1", "H2"}, {"LF"}, "H3">>, <<{"L3"}, Quotes, "Q3">>, <<{"L3"}, {"HM"}, "H4">>, <<{"L3"}, {"SH"}, "H6">>,
     <<{"H4", "H6"}, {"LF"}, "H5">>, <<{"L5"}, Quotes, "Q4">>, <<{"L7"}, {"Lo", "Lm"}, "L7">>}

transitions ==
    [s \in States |-> [l \in Languages |->
        LET to == {e[3] : e \in {edge \in Edges : s \in edge[1] /\ l \in edge[2]}}
        IN  IF to = {} THEN "terminal" ELSE CHOOSE state \in to : TRUE]]

value(s) ==
    CASE s \in {"L1", "L2", "Q2", "Q5"} -> "word_uppercase"
      [] s \in {"L4", "Q1", "H1", "H2", "H3"} -> "word_lowercase"
      [] s \in {"L3", "L6", "Q3", "H4", "H5", "H6"} -> "word_capitalized"
      [] s \in {"L5", "Q4"} -> "word_mixedcase"
      [] s = "L7" -> "word_script"
      [] s = "N1" -> "number"
      [] s \in {"P1", "P2"} -> "punctuation"
      [] s = "Y1" -> "symbol"
      [] s = "S1" -> "paragraph"
      [] OTHER -> "error"

TextInit(events) ==
    /\ document = events /\ delivered = 0
    /\ content = <<>> /\ base = 0 /\ mCurrent = 1
    /\ mReaderState = "need_text"
    /\ mState = "S0"
    /\ mMatchBuffer = <<>> /\ mMatchCurrent = 0
    /\ mMatchNext = 0 /\ mMatchLast = 0
    /\ mNeedEndPara = FALSE
    /\ saved = [have |-> FALSE, state |-> "S0", current |-> 1, match |-> 0, last |-> 0]
    /\ current_script = "Zzzz"
    /\ tokens = <<>>

-----------------------------------------------------------------------------
\* An event of the document.  A text begins with what a token may go back to.
Event == document[delivered + 1]

SavedForItem ==
    IF saved.have THEN [saved EXCEPT !.have = FALSE, !.current = 1]
    ELSE [saved EXCEPT !.current = 1, !.state = mState, !.match = mMatchCurrent, !.last = mMatchLast]

ReadText ==
    /\ mReaderState = "need_text" /\ delivered < Len(document) /\ Event.type = "text"
    /\ base' = base + Len(content)
    /\ content' = Event.content
    /\ delivered' = delivered + 1
    /\ mCurrent' = 1
    /\ mReaderState' = "have_text"
    /\ saved' = SavedForItem
    /\ UNCHANGED <<document, mState, mMatchBuffer, mMatchCurrent, mMatchNext, mMatchLast, mNeedEndPara,
                   current_script, tokens>>

ReadOther ==
    /\ mReaderState = "need_text" /\ delivered < Len(document) /\ Event.type # "text"
    /\ delivered' = delivered + 1
    /\ mReaderState' = IF Event.type = "end_context" /\ Event.block /\ mNeedEndPara
                       THEN "end_paragraph" ELSE "need_text"
    /\ UNCHANGED <<document, content, base, mCurrent, matchVars, mNeedEndPara>>

-----------------------------------------------------------------------------
\* A token of the first n characters of the buffer, whose text ends at last.
Matched(memory, n, state, last) ==
    /\ tokens' = Append(tokens, [type |-> value(state), state |-> state, next |-> mMatchNext, last |-> last,
                                 text |-> [i \in 1 .. n |-> IF i \in DOMAIN memory THEN memory[i] ELSE [c |-> "?", at |-> 0]]])
    /\ mMatchBuffer' = memory
    /\ mMatchCurrent' = 0
    /\ mMatchNext' = last
    /\ mMatchLast' = last
    /\ saved' = [saved EXCEPT !.have = FALSE]
    /\ mState' = "S0"
    /\ current_script' = "Zzzz"

EndParagraph ==
    /\ mReaderState = "end_paragraph"
    /\ IF mState # "S0"
       THEN Matched(mMatchBuffer, mMatchCurrent, mState, mMatchLast) /\ UNCHANGED <<mReaderState, mNeedEndPara>>
       ELSE /\ tokens' = Append(tokens, [type |-> "paragraph", state |-> "end", text |-> <<>>,
                                         next |-> mMatchNext, last |-> mMatchLast])
            /\ mReaderState' = "need_text"
            /\ mNeedEndPara' = FALSE
            /\ mMatchNext' = mMatchLast
            /\ current_script' = "Zzzz"
            /\ UNCHANGED <<mState, mMatchBuffer, mMatchCurrent, mMatchLast, saved>>
    /\ UNCHANGED <<document, delivered, content, base, mCurrent>>

\* read() when the document is at its end: what is in the buffer, then false.
EndOfText ==
    /\ mReaderState = "need_text" /\ delivered = Len(document)
    /\ IF mMatchCurrent = 0
       THEN mReaderState' = "end" /\ UNCHANGED matchVars
       ELSE Matched(mMatchBuffer, mMatchCurrent, mState, mMatchLast) /\ UNCHANGED mReaderState
    /\ UNCHANGED <<document, delivered, content, base, mCurrent, mNeedEndPara>>

EndOfContent ==
    /\ mReaderState = "have_text" /\ mCurrent > Len(content)
    /\ mReaderState' = "need_text"
    /\ current_script' = "Zzzz"
    /\ UNCHANGED <<document, delivered, content, base, mCurrent, mState, mMatchBuffer, mMatchCurrent, mMatchNext, mMatchLast,
                   mNeedEndPara, saved, tokens>>

Codepoint == content[mCurrent]
ScriptChanged == Category[Codepoint] = "Lo" /\ current_script \notin {"Zzzz", ScriptOf[Codepoint]}
Language == IF ScriptChanged THEN "Cc" ELSE Category[Codepoint]

\* The character does not continue the token, which goes back to the last end
\* state it was in when it is not in one.
EndToken ==
    /\ mReaderState = "have_text" /\ mCurrent <= Len(content)
    /\ transitions[mState][Language] = "terminal"
    /\ IF mState \in Terminal
       THEN Matched(mMatchBuffer, mMatchCurrent, mState, mMatchLast) /\ UNCHANGED mCurrent
       ELSE /\ Matched(mMatchBuffer, saved.match + 1, saved.state, saved.last + 1)
            /\ mCurrent' = saved.current
    /\ UNCHANGED <<document, delivered, content, base, mReaderState, mNeedEndPara>>

\* The character as it is in a token, and the buffer when it is written there.
Put(memory, n, read) == IF n \in DOMAIN memory THEN [memory EXCEPT ![n] = read] ELSE Append(memory, read)
Emitted(state) == [c |-> IF state \in WithQuote THEN "'" ELSE Lower[Codepoint], at |-> base + mCurrent]
Written(state) == IF state \in Silent THEN mMatchBuffer ELSE Put(mMatchBuffer, mMatchCurrent + 1, Emitted(state))

\* Mutant: what is saved is the match after the character.
SavedBehind(state) ==
    IF state \in Terminal
    THEN [have |-> TRUE, state |-> state, current |-> mCurrent + 1, match |-> mMatchCurrent + 1, last |-> mMatchLast]
    ELSE saved

SavedAt(state) ==
    IF state \in Terminal
    THEN [have |-> TRUE, state |-> state, current |-> mCurrent + 1, match |-> mMatchCurrent, last |-> mMatchLast]
    ELSE saved

\* The character continues the token, which is split when the buffer is full.
ReadCharacter ==
    /\ mReaderState = "have_text" /\ mCurrent <= Len(content)
    /\ LET state == transitions[mState][Language]
           used == IF state \in Silent THEN mMatchCurrent ELSE mMatchCurrent + 1
       IN  /\ state # "terminal"
           /\ mNeedEndPara' = (mNeedEndPara \/ mState # state)
           /\ mCurrent' = mCurrent + 1
           /\ IF state \notin Silent /\ used >= SplitAt
              THEN Matched(Written(state), used, state, mMatchLast + 1)
              ELSE /\ mMatchBuffer' = Written(state)
                   /\ mMatchCurrent' = used
                   /\ mMatchLast' = mMatchLast + 1
                   /\ mMatchNext' = IF state \in Advancing THEN mMatchNext + 1 ELSE mMatchNext
                   /\ mState' = state
                   /\ saved' = SavedAt(state)
                   /\ current_script' = IF Category[Codepoint] = "Lo" THEN ScriptOf[Codepoint] ELSE current_script
                   /\ UNCHANGED tokens
    /\ UNCHANGED <<document, delivered, content, base, mReaderState>>

ReadToken ==
    \/ ReadText \/ ReadOther
    \/ EndParagraph \/ EndOfText \/ EndOfContent
    \/ EndToken \/ ReadCharacter

TextSpec(events) == TextInit(events) /\ [][ReadToken]_textVars
-----------------------------------------------------------------------------
(* What a text reader is to do.                                             *)

Char == DOMAIN Category
Item == [type : {"text"}, content : Seq(Char)] \cup [type : {"begin_context", "end_context"}, block : BOOLEAN]

\* Each character is of a category and has a lower case, and there are characters.
ASSUME TextAssumption ==
    /\ Category \in [Char -> Languages]
    /\ "'" \in Char /\ Lower \in [Char -> Char]
    /\ SplitAt \in Nat \ {0}

\* The text that the first n items hold, and all of it.
TextTo(events) ==
    LET upto[n \in 0 .. Len(events)] ==
            IF n = 0 THEN <<>> ELSE upto[n - 1] \o (IF events[n].type = "text" THEN events[n].content ELSE <<>>)
    IN  upto
DocumentText == TextTo(document)[Len(document)]

\* The characters that are to be in a token.
Visible(char) == Category[char] \notin Spaces \cup {"LF"}

\* What the state machine reads on after, without an end state: the two
\* categories before such a state.
Letters == {"Lu", "Ll", "Lt"}
Joins(before, last) ==
    \/ before \in Letters /\ last \in Quotes \cup {"HM", "SH"}
    \/ before \in Punctuation /\ last = "Zs"
    \/ before \in {"HM", "SH"} /\ last = "LF"

\* A text that ends there, or has no character.
JoinsAt(text, i) == \E before \in IF i = 1 THEN Languages ELSE {Category[text[i - 1]]} : Joins(before, Category[text[i]])
Interrupted(text) == text = <<>> \/ JoinsAt(text, Len(text))

Positions(token) == {token.text[i].at : i \in DOMAIN token.text}

\* A token is characters of the text in their order, in lower case and all of
\* them in its range, and the ranges of tokens do not overlap.
IsFrom(text, read) ==
    /\ read.at \in 1 .. Len(text)
    /\ \/ read.c = Lower[text[read.at]]
       \/ read.c = "'" /\ Category[text[read.at]] \in Quotes
IsOfText(text, token) ==
    /\ \A i \in DOMAIN token.text : IsFrom(text, token.text[i]) /\ token.text[i].at \in token.next + 1 .. token.last
    /\ \A i, j \in DOMAIN token.text : i < j => token.text[i].at < token.text[j].at

\* Every token is text of the document in its range, and each character that can
\* be seen is in exactly one of them.
TextIsTokens(text) ==
    /\ \A k \in DOMAIN tokens : IsOfText(text, tokens[k])
    /\ \A j, k \in DOMAIN tokens : j < k => tokens[j].last <= tokens[k].next
    /\ mReaderState = "end" =>
           \A p \in DOMAIN text : Visible(text[p]) =>
               Cardinality({k \in DOMAIN tokens : p \in Positions(tokens[k])}) = 1

\* No text of the document is empty, or ends inside of what may be a token.
Whole(events) == \A i \in DOMAIN events : events[i].type = "text" => ~Interrupted(events[i].content)

\* Documents that are whole are read as they are; of the others a token may be
\* lost or broken where a text ends.
DocumentIsRead == Whole(document) => TextIsTokens(DocumentText)
=============================================================================
