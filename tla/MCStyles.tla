------------------------------- MODULE MCStyles -------------------------------
(***************************************************************************)
(* Instances of StyleSheets: style sheets of up to two rules written from   *)
(* their declarations, and quantities written in every form.  An instance   *)
(* is a style sheet or a quantity.                                         *)
(***************************************************************************)
EXTENDS StyleSheets, SequencesExt

VARIABLES rules,        \* the rules of the style sheet
          quantity      \* what the quantity is
stylesVars == <<cssVars, rules, quantity>>

MCInteger == ("1" :> 1) @@ ("3" :> 3) @@ ("5" :> 5) @@ ("10" :> 10)
MCInfinity == 99

Quote(s) == <<"'">> \o (IF s = "" THEN <<>> ELSE <<s>>) \o <<"'">>

\* A declaration: how it is written, and what becomes of a style by it.
Meant(style, property) ==
    CASE property \in {"cyclic", "numeric", "alphabetic", "additive"} ->
            [style EXCEPT !.system = property, !.range = IF property = "alphabetic" THEN <<1, Infinity>>
                                                         ELSE IF property = "additive" THEN <<0, Infinity>> ELSE <<-Infinity - 1, Infinity>>]
      [] property = "fixed" -> [style EXCEPT !.system = "fixed", !.initial_symbol_value = 3, !.range = <<-Infinity - 1, Infinity>>]
      [] property = "symbols" -> [style EXCEPT !.symbols = <<"o", "i", "z">>]
      [] property = "prefix" -> [style EXCEPT !.prefix = "("]
      [] property = "suffix" -> [style EXCEPT !.suffix = ""]
      [] property = "negative" -> [style EXCEPT !.negative_prefix = "(", !.negative_suffix = ")"]
      [] property = "range" -> [style EXCEPT !.range = <<1, 5>>]
      [] property = "from" -> [style EXCEPT !.range = <<3, Infinity>>]
      [] property = "additive-symbols" -> [style EXCEPT !.additive_symbols = <<<<10, "X">>, <<1, "I">>>>]
      [] property \in {"backwards", "unknown", "comment"} -> style

Declares(property) ==
    LET Says(name_, value) == <<name_, ":", " ">> \o value \o <<";", " ">>
    IN  CASE property \in {"cyclic", "numeric", "alphabetic", "additive"} -> Says("system", <<property>>)
          [] property = "fixed" -> Says("system", <<"fixed", " ", "3">>)
          [] property = "symbols" -> Says("symbols", Quote("o") \o <<" ">> \o Quote("i") \o Quote("z"))
          [] property = "prefix" -> Says("prefix", Quote("("))
          [] property = "suffix" -> Says("suffix", Quote(""))
          [] property = "negative" -> Says("negative", Quote("(") \o <<" ">> \o Quote(")"))
          [] property = "range" -> Says("range", <<"1", " ", "5">>)
          [] property = "from" -> Says("range", <<"3", " ", "infinite">>)
          [] property = "backwards" -> Says("range", <<"5", " ", "1">>)
          [] property = "additive-symbols" -> Says("additive-symbols", <<"10", " ">> \o Quote("X") \o <<",", " ", "1", " ">> \o Quote("I"))
          [] property = "unknown" -> Says("unknown", <<"a", " ", "3", " ">> \o Quote(";"))
          [] property = "comment" -> <<"/", "*", "x", "y", ";", "*", "/", " ">>

Properties == {"cyclic", "numeric", "alphabetic", "additive", "fixed", "symbols", "prefix", "suffix", "negative", "range", "from",
               "additive-symbols", "backwards", "unknown", "comment"}
Few == {"numeric", "symbols", "from", "unknown"}

Rule_(name_, properties) == [name |-> name_, properties |-> properties]
Sheets ==
    {<<Rule_("a", p)>> : p \in UNION {[1 .. n -> Properties] : n \in 0 .. 2}}
    \cup {<<Rule_("a", p), Rule_(n, q)>> : p \in UNION {[1 .. n -> Few] : n \in 0 .. 2}, n \in {"a", "b"}, q \in [1 .. 1 -> Properties]}

WrittenRule(rule) == <<"@counter-style", " ", rule.name, " ", "{", " ">> \o FlattenSeq([i \in DOMAIN rule.properties |-> Declares(rule.properties[i])]) \o <<"}", " ">>
SheetOf(sheet_) == FlattenSeq([i \in DOMAIN sheet_ |-> WrittenRule(sheet_[i])])

Fresh == [system |-> "symbolic", initial_symbol_value |-> 1, symbols |-> <<>>, additive_symbols |-> <<>>,
          negative_prefix |-> "-", negative_suffix |-> "", prefix |-> "", suffix |-> ".", range |-> <<1, Infinity>>]

\* The last rule of a name is the one that holds.
StylesMeant ==
    [n \in {rules[i].name : i \in DOMAIN rules} |->
        LET last == CHOOSE i \in DOMAIN rules : rules[i].name = n /\ \A j \in DOMAIN rules : j > i => rules[j].name # n
        IN  FoldLeft(Meant, Fresh, rules[last].properties)]

-----------------------------------------------------------------------------
\* Quantities: a time as a clock shows it or counted in a unit, a frequency in
\* hertz or as a note, or what is none of them.
Characters_(n) == IF n < 10 THEN <<ToString(n)>> ELSE <<ToString(n \div 10), ToString(n % 10)>>
Two(n) == <<ToString(n \div 10), ToString(n % 10)>>
Fraction(tenths) == IF tenths = 0 THEN <<>> ELSE <<".", ToString(tenths)>>
InSeconds == ("h" :> <<3600, 1>>) @@ ("min" :> <<60, 1>>) @@ ("s" :> <<1, 1>>) @@ ("ms" :> <<1, 1000>>) @@ ("" :> <<1, 1>>)
PerInch == [millimeters |-> <<254, 10>>, centimeters |-> <<254, 100>>, inches |-> <<1, 1>>, points |-> <<72, 1>>,
            picas |-> <<6, 1>>, pixels |-> <<96, 1>>]
Unit == ("h" :> <<"h">>) @@ ("min" :> <<"m", "i", "n">>) @@ ("s" :> <<"s">>) @@ ("ms" :> <<"m", "s">>) @@ ("" :> <<>>)

Quantities ==
    [form : {"clock"}, h : {-1, 0, 1, 12}, m : {0, 7, 59}, s : {0, 5, 30}, tenths : {0, 5}]
    \cup [form : {"count"}, n : {0, 3, 45}, tenths : {0, 5}, unit : DOMAIN InSeconds]
    \cup [form : {"hertz", "kilohertz", "plain"}, n : {0, 4, 44}, tenths : {0, 5}]
    \cup [form : {"note"}, note : NoteNames, octave : 0 .. 8]
    \cup [form : {"wrong"}, text : {<<"1", "h", "x">>, <<"1", "m">>, <<"1", ".", "5", ".", "1">>, <<"1", ":", "5">>, <<"1", ":", ":", "0", "5">>,
                                     <<"1", ":", "0", "0", ":", "0", "0", ":", "0", "0">>, <<"1", "s", "5">>}]
    \cup [form : {"length"}, unit : DOMAIN PerInch]

TextOf(q) ==
    CASE q.form = "clock" -> (IF q.h < 0 THEN Characters_(q.m) ELSE Characters_(q.h) \o <<":">> \o Two(q.m)) \o <<":">> \o Two(q.s) \o Fraction(q.tenths)
      [] q.form = "count" -> Characters_(q.n) \o Fraction(q.tenths) \o Unit[q.unit]
      [] q.form \in {"hertz", "kilohertz", "plain"} ->
            Characters_(q.n) \o Fraction(q.tenths) \o (CASE q.form = "hertz" -> <<"H", "z">> [] q.form = "kilohertz" -> <<"k", "H", "z">> [] OTHER -> <<>>)
      [] q.form = "note" ->
            (IF q.note \in {"C#", "D#", "F#", "G#", "A#"} THEN <<SubSeq(q.note, 1, 1), "#">> ELSE <<q.note>>) \o <<ToString(q.octave)>>
      [] q.form = "wrong" -> q.text
      [] q.form = "length" -> <<>>

Is(q, n, d, units) == ~q.error /\ q.units = units /\ SameNumber(q.value, <<n, d>>)

-----------------------------------------------------------------------------
Init == \/ rules \in Sheets /\ quantity = [form |-> "none"] /\ CssInit(SheetOf(rules))
        \/ rules = <<>> /\ quantity \in Quantities /\ CssInit(<<>>)
Next == CssNext /\ UNCHANGED <<rules, quantity>>
Spec == Init /\ [][Next]_stylesVars /\ WF_stylesVars(Next)

\* A marker has the numerals of its count: no two items have the same, as far
\* as the system has more than one.
MarkersCount ==
    parsing = "end" =>
        \A n \in DOMAIN mCounterStyles :
            LET style == mCounterStyles[n]
                Value(k) == LET text == marker(style, k)
                                digits == SelectSeq(text, LAMBDA l : l \in ToSet(style.symbols))
                            IN  FoldLeft(LAMBDA total, l : 3 * total + (CHOOSE i \in 1 .. 3 : style.symbols[i] = l) - 1, 0, digits)
            IN  style.symbols # <<>> =>
                    /\ style.system = "numeric" => \A k \in 0 .. 30 : Value(k) = k
                    /\ style.system = "cyclic" => \A k \in 0 .. 30 : marker(style, k) = marker(style, k + 3) /\ marker(style, k) # marker(style, k + 1)

\* A quantity is as much as it is meant to be, in each of its units.  A note is
\* twice the one an octave below to the hundredth, a semitone is a factor
\* between 1.059 and 1.060, and A4 is 440 Hz.
QuantityIsMeant ==
    LET q == quantity
        time == parse_smil_time(TextOf(q))
        frequency == parse_frequency(TextOf(q))
    IN  CASE q.form = "none" -> TRUE
          [] q.form = "clock" ->
                Is(time_as(time, "seconds"), 36000 * (IF q.h < 0 THEN 0 ELSE q.h) + 600 * q.m + 10 * q.s + q.tenths, 10, "seconds")
          [] q.form = "count" ->
                Is(time_as(time, "seconds"), InSeconds[q.unit][1] * (10 * q.n + q.tenths), 10 * InSeconds[q.unit][2], "seconds")
          [] q.form \in {"hertz", "plain"} -> Is(frequency_as(frequency, "hertz"), 10 * q.n + q.tenths, 10, "hertz")
          [] q.form = "kilohertz" -> Is(frequency_as(frequency, "hertz"), 1000 * (10 * q.n + q.tenths), 10, "hertz")
          [] q.form = "note" ->
                LET Cents(of, octave) == LET f == parse_frequency(TextOf([form |-> "note", note |-> of, octave |-> octave]))
                                         IN  (f.value[1] * 100) \div f.value[2]
                    here == Cents(q.note, q.octave)
                    place == SelectInSeq(Notes, LAMBDA n : n = q.note)
                IN  /\ ~frequency.error /\ frequency.units = "hertz"
                    /\ q.octave < 8 => Cents(q.note, q.octave + 1) - 2 * here \in -1 .. 1
                    /\ place < 12 => LET next == Cents(Notes[place + 1], q.octave) IN 1000 * next \in 1059 * here .. 1060 * here
                    /\ q.note = "A" /\ q.octave = 4 => Is(frequency, 440, 1, "hertz")
          [] q.form = "wrong" -> time.error
          [] q.form = "length" ->
                LET inch == Quantity(PerInch[q.unit][1], PerInch[q.unit][2], q.unit)
                IN  \A units \in DOMAIN PerInch : Is(length_as(inch, units), PerInch[units][1], PerInch[units][2], units)

\* A style sheet is read to its end, and is then what its declarations say, in
\* their order: what is unknown or wrong is passed over up to its semicolon,
\* and no further.
SheetIsRead == <>[](parsing = "end" /\ mCounterStyles = StylesMeant)
=============================================================================
