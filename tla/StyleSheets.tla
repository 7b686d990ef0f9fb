----------------------------- MODULE StyleSheets -----------------------------
(***************************************************************************)
(* Style sheets of counter styles: css::reader (css/reader.cpp), what      *)
(* style_manager makes of them (css/style_manager.cpp), and times,         *)
(* frequencies and lengths (css/units.cpp).                                *)
(*                                                                         *)
(* A style sheet is a sequence of lexemes, a run of letters or of digits   *)
(* being one of them; a step is one token.                                 *)
(***************************************************************************)
EXTENDS DocumentEvents

CONSTANTS
    Infinity,       \* the largest value of the type int
    Integer         \* atoi: what the lexemes of digits stand for

VARIABLES
    sheet, mCurrent,
    token,          \* css::reader: type and value
    parsing,        \* where parse and parse_counter_style are
    mCounterStyles,
    current,        \* the name of the counter style that is read
    name,           \* the name of the property that is read
    pending         \* what was read of a value that has several tokens

cssVars == <<sheet, mCurrent, token, parsing, mCounterStyles, current, name, pending>>

-----------------------------------------------------------------------------
ClassOfLexeme == ("{" :> "open_block") @@ ("}" :> "close_block") @@ (":" :> "colon") @@ (";" :> "semicolon")
                 @@ ("," :> "comma") @@ ("@counter-style" :> "at_keyword")
TypeOfLexeme(l) ==
    CASE l \in DOMAIN ClassOfLexeme -> ClassOfLexeme[l]
      [] l \in DOMAIN Integer -> "integer"
      [] l \in {"/", "*", "\"", "."} -> "error"
      [] OTHER -> "identifier"

\* Where a comment ends that begins at i.
CommentEnd(text, i) ==
    CHOOSE j \in i + 3 .. Len(text) + 2 :
        /\ j > Len(text) \/ text[j] = "*" \/ (j < Len(text) /\ text[j + 1] = "/")
        /\ \A k \in i + 3 .. j - 1 : text[k] # "*" /\ text[k + 1] # "/"

\* read(): the next token and where the text goes on after it.
RECURSIVE NextToken(_, _)
NextToken(text, i) ==
    CASE i > Len(text) -> [type |-> "error", value |-> "", at |-> i, more |-> FALSE]
      [] i <= Len(text) /\ text[i] = " " -> NextToken(text, i + 1)
      [] i < Len(text) /\ text[i] = "/" /\ text[i + 1] = "*" -> NextToken(text, CommentEnd(text, i) + 2)
      [] i <= Len(text) /\ text[i] = "'" ->
            LET closing == {j \in i + 1 .. Len(text) : text[j] = "'"}
            IN  IF closing = {} THEN [type |-> "error", value |-> "", at |-> Len(text) + 1, more |-> TRUE]
                ELSE LET j == CHOOSE k \in closing : \A l \in closing : k <= l
                     IN  [type |-> "string", value |-> IF j = i + 1 THEN "" ELSE text[i + 1], at |-> j + 1, more |-> TRUE]
      [] OTHER -> [type |-> TypeOfLexeme(text[i]), value |-> text[i], at |-> i + 1, more |-> TRUE]

-----------------------------------------------------------------------------
infinite == <<-Infinity - 1, Infinity>>
get_auto_range(system) ==
    CASE system \in {"alphabetic", "symbolic"} -> <<1, Infinity>>
      [] system = "additive" -> <<0, Infinity>>
      [] OTHER -> infinite

counter_style == [system |-> "symbolic", initial_symbol_value |-> 1, symbols |-> <<>>, additive_symbols |-> <<>>,
                  negative_prefix |-> "-", negative_suffix |-> "", prefix |-> "", suffix |-> ".",
                  range |-> get_auto_range("symbolic")]

-----------------------------------------------------------------------------
CssInit(text) ==
    /\ sheet = text /\ mCurrent = 1
    /\ token = [type |-> "error", value |-> "", at |-> 1, more |-> TRUE]
    /\ parsing = "rule"
    /\ mCounterStyles = <<>>
    /\ current = "" /\ name = ""
    /\ pending = <<>>

\* A token is read where the parser is `from`; is(t) is what it asks of it.
ReadAt(from, Then(_)) ==
    /\ parsing = from
    /\ \E t \in {NextToken(sheet, mCurrent)} :
        /\ token' = t
        /\ mCurrent' = t.at
        /\ Then(t)
    /\ UNCHANGED sheet

Style == mCounterStyles[current]
Set(style) == mCounterStyles' = [mCounterStyles EXCEPT ![current] = style]
Keep == UNCHANGED <<mCounterStyles, current, name, pending>>

Rule ==
    ReadAt("rule", LAMBDA t :
        /\ parsing' = IF ~t.more THEN "end" ELSE IF t.type = "at_keyword" /\ t.value = "@counter-style" THEN "name" ELSE "rule"
        /\ Keep)

\* create_counter_style: a style of the same name is replaced.
Name ==
    ReadAt("name", LAMBDA t :
        IF t.type # "identifier" THEN parsing' = "rule" /\ Keep
        ELSE /\ parsing' = "block"
             /\ current' = t.value
             /\ mCounterStyles' = (t.value :> counter_style) @@ mCounterStyles
             /\ UNCHANGED <<name, pending>>)

BlockBegin ==
    ReadAt("block", LAMBDA t : parsing' = (IF t.type = "open_block" THEN "property" ELSE "rule") /\ Keep)

Property ==
    ReadAt("property", LAMBDA t :
        /\ parsing' = CASE ~t.more \/ t.type = "close_block" -> "rule"
                        [] t.more /\ t.type = "identifier" -> "colon"
                        [] OTHER -> "property"
        /\ name' = t.value
        /\ UNCHANGED <<mCounterStyles, current, pending>>)

Colon ==
    ReadAt("colon", LAMBDA t : parsing' = (IF t.type = "colon" THEN "value" ELSE "property") /\ Keep)

Systems == {"cyclic", "fixed", "symbolic", "alphabetic", "numeric", "additive"}

\* Mutant: a semicolon that was read already is not seen.
AfterValueSkips(t) == parsing' = IF parsing = "skip" /\ t.type = "semicolon" THEN "property" ELSE "skip"

\* The end of a property: a token that was read may be it already.
AfterValue(t) == parsing' = IF t.type = "semicolon" THEN "property" ELSE "skip"

\* Where a value goes on is `more`; each of its parts is read in a step.
ValueToken ==
    ReadAt("value", LAMBDA t :
        LET Is(property, type) == t.more /\ name = property /\ t.type = type
            system == IF t.value \in Systems THEN t.value ELSE Style.system
        IN  /\ CASE ~t.more -> parsing' = "property" /\ UNCHANGED <<mCounterStyles, pending>>
                 [] Is("system", "identifier") ->
                      /\ Set([Style EXCEPT !.system = system, !.range = get_auto_range(system)])
                      /\ IF t.value = "fixed" THEN parsing' = "fixed" ELSE AfterValue(t)
                      /\ UNCHANGED pending
                 [] Is("negative", "string") ->
                      Set([Style EXCEPT !.negative_prefix = t.value]) /\ parsing' = "negative" /\ UNCHANGED pending
                 [] Is("prefix", "string") -> Set([Style EXCEPT !.prefix = t.value]) /\ AfterValue(t) /\ UNCHANGED pending
                 [] Is("suffix", "string") -> Set([Style EXCEPT !.suffix = t.value]) /\ AfterValue(t) /\ UNCHANGED pending
                 [] t.more /\ name = "range" ->
                      IF t.type = "identifier" /\ t.value = "auto"
                      THEN Set([Style EXCEPT !.range = get_auto_range(Style.system)]) /\ AfterValue(t) /\ UNCHANGED pending
                      ELSE LET low == IF t.type = "integer" THEN Integer[t.value] ELSE infinite[1]
                           IN  IF t.type = "integer" \/ (t.type = "identifier" /\ t.value = "infinite")
                               THEN parsing' = "range" /\ pending' = <<low>> /\ UNCHANGED mCounterStyles
                               ELSE AfterValue(t) /\ UNCHANGED <<mCounterStyles, pending>>
                 [] Is("symbols", "string") ->
                      Set([Style EXCEPT !.symbols = <<t.value>>]) /\ parsing' = "symbols" /\ UNCHANGED pending
                 [] Is("additive-symbols", "integer") ->
                      /\ Set([Style EXCEPT !.additive_symbols = <<>>])
                      /\ parsing' = "weight" /\ pending' = <<Integer[t.value]>>
                 [] OTHER -> AfterValue(t) /\ UNCHANGED <<mCounterStyles, pending>>
            /\ UNCHANGED <<current, name>>)

FixedStart ==
    ReadAt("fixed", LAMBDA t :
        /\ IF t.type = "integer" THEN Set([Style EXCEPT !.initial_symbol_value = Integer[t.value]]) ELSE UNCHANGED mCounterStyles
        /\ AfterValue(t)
        /\ UNCHANGED <<current, name, pending>>)

NegativeSuffix ==
    ReadAt("negative", LAMBDA t :
        /\ IF t.type = "string" THEN Set([Style EXCEPT !.negative_suffix = t.value]) ELSE UNCHANGED mCounterStyles
        /\ AfterValue(t)
        /\ UNCHANGED <<current, name, pending>>)

\* The second value of a range, and then the token after it.
Range2 ==
    ReadAt("range", LAMBDA t :
        LET high == IF t.type = "integer" THEN Integer[t.value] ELSE infinite[2]
        IN  /\ IF t.type = "integer" \/ (t.type = "identifier" /\ t.value = "infinite")
               THEN /\ parsing' = "skip"
                    /\ IF pending[1] <= high THEN Set([Style EXCEPT !.range = <<pending[1], high>>])
                       ELSE UNCHANGED mCounterStyles
               ELSE AfterValue(t) /\ UNCHANGED mCounterStyles
            /\ UNCHANGED <<current, name, pending>>)

MoreSymbols ==
    ReadAt("symbols", LAMBDA t :
        /\ IF t.type = "string" THEN Set([Style EXCEPT !.symbols = Append(@, t.value)]) /\ UNCHANGED parsing
           ELSE UNCHANGED mCounterStyles /\ AfterValue(t)
        /\ UNCHANGED <<current, name, pending>>)

\* Weights and symbols in turn, with commas between them.
AdditiveSymbol ==
    \/ ReadAt("weight", LAMBDA t :
            /\ IF t.type = "string"
               THEN Set([Style EXCEPT !.additive_symbols = Append(@, <<pending[1], t.value>>)]) /\ parsing' = "comma"
               ELSE UNCHANGED mCounterStyles /\ IF t.type = "integer" THEN parsing' = "weight" ELSE AfterValue(t)
            /\ pending' = IF t.type = "integer" THEN <<Integer[t.value]>> ELSE pending
            /\ UNCHANGED <<current, name>>)
    \/ ReadAt("comma", LAMBDA t :
            /\ CASE t.type = "comma" -> parsing' = "next" /\ UNCHANGED pending
                 [] t.type = "integer" -> parsing' = "weight" /\ pending' = <<Integer[t.value]>>
                 [] OTHER -> AfterValue(t) /\ UNCHANGED pending
            /\ UNCHANGED <<mCounterStyles, current, name>>)
    \/ ReadAt("next", LAMBDA t :
            /\ IF t.type = "integer" THEN parsing' = "weight" /\ pending' = <<Integer[t.value]>>
               ELSE AfterValue(t) /\ UNCHANGED pending
            /\ UNCHANGED <<mCounterStyles, current, name>>)

\* Up to the semicolon, wherever it is.
SkipToSemicolon ==
    ReadAt("skip", LAMBDA t : AfterValue(t) /\ Keep)

CssNext ==
    \/ Rule \/ Name \/ BlockBegin
    \/ Property \/ Colon
    \/ ValueToken \/ FixedStart \/ NegativeSuffix \/ Range2 \/ MoreSymbols \/ AdditiveSymbol
    \/ SkipToSemicolon
-----------------------------------------------------------------------------
(* Times, frequencies and lengths (css/units.cpp).  A text is a sequence of *)
(* characters.  A number is a fraction <<n, d>>: what float rounds is left  *)
(* out, and so is an int that overflows.                                    *)

Digits == [d \in {"0", "1", "2", "3", "4", "5", "6", "7", "8", "9"} |->
    CHOOSE n \in 0 .. 9 : ToString(n) = d]

Error == [error |-> TRUE, value |-> <<0, 1>>, units |-> "inherit"]
Quantity(n, d, units) == [error |-> FALSE, value |-> <<n, d>>, units |-> units]
Unset == [error |-> FALSE, value |-> <<0, 1>>, units |-> "inherit"]

Times(q, n, d) == <<q[1] * n, q[2] * d>>
SameNumber(p, q) == p[1] * q[2] = q[1] * p[2]

\* A quantity in other units, when `in` says how many of a base unit each is.
As(q, units, in) ==
    CASE q.units \notin DOMAIN in \/ units \notin DOMAIN in -> Error
      [] q.units = units /\ units \in DOMAIN in -> q
      [] OTHER -> [error |-> FALSE, units |-> units,
                   value |-> Times(Times(q.value, in[q.units][1], in[q.units][2]), in[units][2], in[units][1])]

-----------------------------------------------------------------------------
\* Letters move from one unit to another; everything else is invalid.
time_unit_state_transitions ==
    (<<"value", "h">> :> "hours") @@ (<<"value", "m">> :> "m...") @@ (<<"value", "s">> :> "seconds")
    @@ (<<"m...", "i">> :> "mi...") @@ (<<"m...", "s">> :> "milliseconds") @@ (<<"mi...", "n">> :> "minutes")

Moved(table, state, c) == IF <<state, c>> \in DOMAIN table THEN table[<<state, c>>] ELSE "invalid"

IsClock(p) == p.state \in {"value", "clock"}

SmilDigit(p, c) ==
    IF ~IsClock(p) THEN [p EXCEPT !.state = "invalid"]
    ELSE [p EXCEPT !.accumulator = 10 * @ + Digits[c],
                   !.value = IF p.is_fraction THEN 10 * @ ELSE @,
                   !.divisor = IF p.is_fraction THEN 10 * @ ELSE @,
                   !.digits = IF p.is_fraction THEN @ ELSE @ + 1]

\* Mutant: only what is left of the last colon is multiplied.
SmilColonLate(p) ==
    IF p.groups = 3 \/ p.digits = 0 \/ (p.groups > 1 /\ p.digits # 2) THEN [p EXCEPT !.state = "thrown"]
    ELSE [p EXCEPT !.state = IF IsClock(p) THEN "clock" ELSE "invalid",
                   !.value = @ + 60 * p.accumulator, !.accumulator = 0, !.digits = 0, !.groups = @ + 1]

SmilColon(p) ==
    IF p.groups = 3 \/ p.digits = 0 \/ (p.groups > 1 /\ p.digits # 2) THEN [p EXCEPT !.state = "thrown"]
    ELSE [p EXCEPT !.state = IF IsClock(p) THEN "clock" ELSE "invalid",
                   !.value = 60 * (@ + p.accumulator), !.accumulator = 0, !.digits = 0, !.groups = @ + 1]

SmilPoint(p) ==
    CASE IsClock(p) /\ p.is_fraction -> [p EXCEPT !.state = "thrown"]
      [] IsClock(p) /\ ~p.is_fraction -> [p EXCEPT !.is_fraction = TRUE]
      [] OTHER -> [p EXCEPT !.state = "invalid"]

Letters == {"h", "i", "m", "n", "s", "x"}

SmilCharacter(p, c) ==
    CASE p.state = "thrown" -> p
      [] p.state # "thrown" /\ c \in DOMAIN Digits -> SmilDigit(p, c)
      [] p.state # "thrown" /\ c = ":" -> SmilColon(p)
      [] p.state # "thrown" /\ c = "." -> SmilPoint(p)
      [] p.state # "thrown" /\ c \in Letters -> [p EXCEPT !.state = Moved(time_unit_state_transitions, @, c)]
      [] OTHER -> [p EXCEPT !.state = "thrown"]

SmilTime(p) ==
    LET n == p.value + p.accumulator
    IN  CASE p.groups > 1 /\ p.digits # 2 -> Error
          [] ~(p.groups > 1 /\ p.digits # 2) /\ p.state = "hours" -> Quantity(3600 * n, p.divisor, "seconds")
          [] ~(p.groups > 1 /\ p.digits # 2) /\ p.state = "minutes" -> Quantity(60 * n, p.divisor, "seconds")
          [] ~(p.groups > 1 /\ p.digits # 2) /\ p.state \in {"value", "clock", "seconds"} -> Quantity(n, p.divisor, "seconds")
          [] ~(p.groups > 1 /\ p.digits # 2) /\ p.state = "milliseconds" -> Quantity(n, p.divisor, "milliseconds")
          [] OTHER -> Error

parse_smil_time(text) ==
    IF text = <<>> THEN Unset
    ELSE With(Each(SmilCharacter, [state |-> "value", value |-> 0, accumulator |-> 0, digits |-> 0, divisor |-> 1,
                                   groups |-> 1, is_fraction |-> FALSE], text), SmilTime)

time_as(q, units) == As(q, units, ("seconds" :> <<1000, 1>>) @@ ("milliseconds" :> <<1, 1>>))

-----------------------------------------------------------------------------
Notes == <<"C", "C#", "D", "D#", "E", "F", "F#", "G", "G#", "A", "A#", "B">>
NoteNames == {Notes[i] : i \in DOMAIN Notes}

frequency_unit_state_transitions ==
    (<<"value", ".">> :> "fraction value")
    @@ [key \in {"value", "fraction value"} \X {"k"} |-> "k..."]
    @@ [key \in {"value", "fraction value"} \X {"H"} |-> "H..."]
    @@ (<<"k...", "H">> :> "kH...") @@ (<<"kH...", "z">> :> "kilohertz") @@ (<<"H...", "z">> :> "hertz")
    @@ [key \in {"empty"} \X {"A", "B", "C", "D", "E", "F", "G"} |-> key[2]]
    @@ [key \in {"A", "C", "D", "F", "G"} \X {"#"} |-> key[1] \o "#"]
    @@ (<<"D", "b">> :> "C#") @@ (<<"E", "b">> :> "D#") @@ (<<"G", "b">> :> "F#") @@ (<<"A", "b">> :> "G#")
    @@ (<<"B", "b">> :> "A#")

FrequencyCharacter(p, c) ==
    CASE p.state = "thrown" -> p
      [] c \in DOMAIN Digits /\ p.state \in {"empty", "value"} ->
            [p EXCEPT !.state = "value", !.accumulator = 10 * @ + Digits[c]]
      [] c \in DOMAIN Digits /\ p.state = "fraction value" ->
            [p EXCEPT !.accumulator = 10 * @ + Digits[c], !.value = 10 * @, !.divisor = 10 * @]
      [] c \in DOMAIN Digits /\ p.state \in NoteNames ->
            [p EXCEPT !.state = "musical note", !.value = Digits[c], !.note = p.state]
      [] c \in DOMAIN Digits /\ p.state \notin {"thrown", "empty", "value", "fraction value"} \cup NoteNames ->
            [p EXCEPT !.state = "invalid"]
      [] c \in {".", "k", "H", "z", "#", "b"} \cup NoteNames /\ p.state # "thrown" ->
            [p EXCEPT !.state = Moved(frequency_unit_state_transitions, @, c)]
      [] OTHER -> [p EXCEPT !.state = "thrown"]

\* The notes of the octaves 0 to 8, in hundredths of a hertz.  The octave of the
\* text is the row, and nothing looks at the end of the table.
music_note_frequencies ==
    <<<<1635, 1732, 1835, 1945, 2060, 2183, 2312, 2450, 2596, 2750, 2914, 3087>>,
      <<3270, 3465, 3671, 3889, 4120, 4365, 4625, 4900, 5191, 5500, 5827, 6174>>,
      <<6541, 6930, 7342, 7778, 8241, 8731, 9250, 9800, 10383, 11000, 11654, 12347>>,
      <<13081, 13859, 14683, 15556, 16481, 17461, 18500, 19600, 20765, 22000, 23308, 24694>>,
      <<26163, 27718, 29366, 31113, 32963, 34923, 36999, 39200, 41530, 44000, 46616, 49388>>,
      <<52325, 55437, 58733, 62225, 65925, 69846, 73999, 78399, 83061, 88000, 93233, 98777>>,
      <<104650, 110873, 117466, 124451, 131851, 139691, 147998, 156798, 166122, 176000, 186466, 197553>>,
      <<209300, 221746, 234932, 248902, 263702, 279383, 295996, 313596, 332244, 352000, 372931, 395107>>,
      <<418601, 443492, 469863, 497803, 527404, 558765, 591991, 627193, 664488, 704000, 745862, 790213>>>>
Beyond == [error |-> FALSE, value |-> <<0, 1>>, units |-> "past the table"]

parse_frequency(text) ==
    LET p == Each(FrequencyCharacter,
                  [state |-> "empty", value |-> 0, accumulator |-> 0, divisor |-> 1, note |-> ""], text)
    IN  IF text = <<>> THEN Unset
        ELSE With(p, LAMBDA q :
            CASE q.state \in {"value", "fraction value", "hertz"} -> Quantity(q.value + q.accumulator, q.divisor, "hertz")
              [] q.state = "kilohertz" -> Quantity(q.value + q.accumulator, q.divisor, "kilohertz")
              [] q.state = "musical note" ->
                    IF q.value \notin 0 .. Len(music_note_frequencies) - 1 THEN Beyond
                    ELSE Quantity(music_note_frequencies[q.value + 1][CHOOSE i \in DOMAIN Notes : Notes[i] = q.note], 100, "hertz")
              [] OTHER -> Error)

frequency_as(q, units) == As(q, units, ("kilohertz" :> <<1000, 1>>) @@ ("hertz" :> <<1, 1>>))

-----------------------------------------------------------------------------
\* By how much a length is multiplied, from each unit to each other: the
\* constants of the conversion, and the cases as they are written.
Over(p, q) == <<p[1] * q[2], p[2] * q[1]>>

LengthFactors ==
    LET One == <<1, 1>>
        points_in_pica == <<12, 1>>
        points_in_inch == <<72, 1>>
        picas_in_inch == Over(points_in_inch, points_in_pica)
        centimeters_in_inch == <<254, 100>>
        centimeters_in_point == Over(centimeters_in_inch, points_in_inch)
        centimeters_in_pica == Over(centimeters_in_inch, picas_in_inch)
        millimeters_in_centimeter == <<10, 1>>
        millimeters_in_inch == <<254, 10>>
        millimeters_in_point == Over(millimeters_in_inch, points_in_inch)
        millimeters_in_pica == Over(millimeters_in_inch, picas_in_inch)
        pixels_in_inch == <<96, 1>>
        pixels_in_point == Over(pixels_in_inch, points_in_inch)
        pixels_in_pica == Over(pixels_in_inch, picas_in_inch)
        pixels_in_centimeter == Over(pixels_in_inch, centimeters_in_inch)
        pixels_in_millimeter == Over(pixels_in_inch, millimeters_in_inch)
    IN  [millimeters |->
            [millimeters |-> One, centimeters |-> Over(One, millimeters_in_centimeter), inches |-> Over(One, millimeters_in_inch),
             points |-> Over(One, millimeters_in_point), picas |-> Over(One, millimeters_in_pica), pixels |-> pixels_in_millimeter],
         centimeters |->
            [millimeters |-> millimeters_in_centimeter, centimeters |-> One, inches |-> Over(One, centimeters_in_inch),
             points |-> Over(One, centimeters_in_point), picas |-> Over(One, centimeters_in_pica), pixels |-> pixels_in_centimeter],
         inches |->
            [millimeters |-> millimeters_in_inch, centimeters |-> centimeters_in_inch, inches |-> One,
             points |-> points_in_inch, picas |-> picas_in_inch, pixels |-> pixels_in_inch],
         points |->
            [millimeters |-> millimeters_in_point, centimeters |-> centimeters_in_point, inches |-> Over(One, points_in_inch),
             points |-> One, picas |-> Over(One, points_in_pica), pixels |-> pixels_in_point],
         picas |->
            [millimeters |-> millimeters_in_pica, centimeters |-> centimeters_in_pica, inches |-> Over(One, picas_in_inch),
             points |-> points_in_pica, picas |-> One, pixels |-> pixels_in_pica],
         pixels |->
            [millimeters |-> Over(One, pixels_in_millimeter), centimeters |-> Over(One, pixels_in_centimeter),
             inches |-> Over(One, pixels_in_inch), points |-> Over(One, pixels_in_point), picas |-> Over(One, pixels_in_pica), pixels |-> One]]

length_as(q, units) ==
    IF q.units \notin DOMAIN LengthFactors \/ units \notin DOMAIN LengthFactors THEN Error
    ELSE LET factor == LengthFactors[q.units][units]
         IN  [error |-> FALSE, units |-> units, value |-> Times(q.value, factor[1], factor[2])]
==============================================================================
