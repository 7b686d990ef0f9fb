------------------------------ MODULE MCReaders ------------------------------
(* One of four readers of phonemes at a time: the unit reader on all short  *)
(* inputs in which a mark follows what it marks, with a voice that has      *)
(* phones of one and two units; the diphone reader on short sequences of    *)
(* phones with the envelopes of the pitch model's tones and of the pho      *)
(* files of tests/diphone; the phoneme converter on short transcriptions,   *)
(* with rules like those of data/accents/en-US.ptp; and the readers of      *)
(* schemes, on files like those of data/phonemeset.                         *)
EXTENDS UnitReader, DiphoneReader, PhonemeConverter, PhonemeSets

CONSTANTS MaxPhonemes, MaxPhones, MaxLength

\* At most two marks in a row, on a sound or on the end of a joined pair.
MarksInPlace(s) ==
    \A i \in 1 .. Len(s) :
        s[i] \in Mark => /\ i > 1 /\ s[i - 1] \in {"sound", "long", "joined"} \cup Mark
                          /\ i > 3 => ~(s[i - 1] \in Mark /\ s[i - 2] \in Mark)

SmallInputs ==
    {s \in UNION {[1 .. n -> Kind \ {"unspecified"}] : n \in 0 .. MaxPhonemes} : MarksInPlace(s)}

\* A model that knows diphthongs and affricates, but not every pair.
SmallDurations ==
    {<<"sound", "unspecified">>, <<"long", "unspecified">>, <<"sound", "non_syllabic">>,
     <<"joined", "sound">>, <<"sound", "diacritized">>, <<"joined", "unspecified">>}

Starts == <<0, 0, 60, 0, 30, 60>>

\* A sound of two units, a diphthong that shares the first unit with a single
\* one, and no long or diacritized sounds.
Voice ==
    [p \in {<<"sound", "unspecified">>, <<"sound", "non_syllabic">>, <<"joined", "sound">>} |->
        IF p[1] = "joined" THEN [first_unit |-> 0, num_units |-> 1]
        ELSE IF p[2] = "unspecified" THEN [first_unit |-> 1, num_units |-> 2]
        ELSE [first_unit |-> 3, num_units |-> 1]]

\* A diphthong of three units.
OneGlide == {<<>>, <<"sound", "non_syllabic">>}
GlideVoice == [p \in {<<"sound", "non_syllabic">>} |-> [first_unit |-> 3, num_units |-> 3]]

-----------------------------------------------------------------------------
PitchAt(o, p) == [offset |-> o, pitch |-> p]

NoTone == <<>>
Level == <<PitchAt(0, 120), PitchAt(100, 120)>>
Rising == <<PitchAt(0, 100), PitchAt(100, 120)>>
Falling == <<PitchAt(0, 120), PitchAt(100, 100)>>
Peaking == <<PitchAt(0, 100), PitchAt(50, 120), PitchAt(100, 100)>>
Beside == <<PitchAt(0, 100), PitchAt(45, 120), PitchAt(55, 110), PitchAt(100, 110)>>

Tones ==
    UNION {[1 .. n -> [duration : {20, 40},
                       envelope : {NoTone, Level, Rising, Falling, Peaking, Beside}]] :
               n \in 0 .. MaxPhones}

\* An envelope whose points lie nearer to one side of the middle.
Aside == <<PitchAt(0, 100), PitchAt(20, 120), PitchAt(70, 170), PitchAt(100, 170)>>

\* The interpolation is right for every phone that is read, not for any phone;
\* and the shares are for one of the voices, not for the other.
ASSUME ReadersAssumption ==
    /\ \A s \in Phones : \A i \in 1 .. Len(s) : Interpolable(s[i].envelope)
    /\ ~Interpolable(Aside)
    /\ OneUnitOrTwo = (Table = Voice)

-----------------------------------------------------------------------------
Sounds == {"a", "i", "e", "t", "t_", "S", "newline"}
Classes ==
    [s \in Sounds |->
        CASE s = "a" -> "vowel"
          [] s \in {"i", "e"} -> "glide"
          [] s \in {"t", "S"} -> "consonant"
          [] s = "t_" -> "joined"
          [] s = "newline" -> "break"]

Said(s, t) == [sound |-> s, stress |-> t]
Unstressed(s) == Said(s, "unstressed")

\* PRICE and FIRE, and t_S to two phonemes.
Accent ==
    [r \in {<<"a", "i">>, <<"a", "i", "e">>, <<"t_", "S">>, <<"e">>} |->
        CASE r = <<"a", "i">> -> <<Unstressed("a"), Unstressed("i")>>
          [] r = <<"a", "i", "e">> -> <<Unstressed("a"), Unstressed("i"), Unstressed("t")>>
          [] r = <<"t_", "S">> -> <<Unstressed("S")>>
          [] r = <<"e">> -> <<Unstressed("e"), Unstressed("t")>>]

\* The same without the rule for PRICE, and that word.
FireOnly ==
    [r \in {<<"a", "i", "e">>} |-> <<Unstressed("a"), Unstressed("i"), Unstressed("t")>>]
Price == {<<Unstressed("a"), Unstressed("i"), Unstressed("t")>>}

\* A prefix of a rule is a rule in this accent, not in FireOnly.
ASSUME RulesAssumption == PrefixesAreRules = (Rules = Accent)

Letters ==
    {Said("a", "primary"), Said("t", "primary"), Unreadable}
        \cup {Unstressed(s) : s \in Sounds \ {"a", "t"}}

\* A joined phoneme is followed by what it is joined to.
Joins(s) ==
    \A i \in 1 .. Len(s) :
        s[i] = Unstressed("t_") => i < Len(s) /\ s[i + 1] \in {Unstressed("S"), Said("t", "primary")}

Transcriptions == {s \in UNION {[1 .. n -> Letters] : n \in 0 .. MaxLength} : Joins(s)}

-----------------------------------------------------------------------------
\* What the phonemes of the files below are made of.
Feature(f, v) == [field |-> f, value |-> v]
SomeFeatures ==
    [con |-> Feature("type", "none"), vwl |-> Feature("type", "vwl"), pau |-> Feature("type", "pau"), sbr |-> Feature("type", "sbr"),
     vls |-> Feature("voicing", "none"), vcd |-> Feature("voicing", "vcd"),
     alv |-> Feature("place", "alv"), pla |-> Feature("place", "pla"), blb |-> Feature("place", "none"),
     stp |-> Feature("manner", "none"), frc |-> Feature("manner", "frc"), imp |-> Feature("manner", "imp"), clk |-> Feature("manner", "clk"),
     low |-> Feature("height", "low"), mid |-> Feature("height", "mid"), hgh |-> Feature("height", "hgh"),
     cnt |-> Feature("backness", "cnt"), fnt |-> Feature("backness", "fnt"),
     unr |-> Feature("rounded", "none"), rnd |-> Feature("rounded", "rnd"),
     nzd |-> Feature("coarticulation", "nzd"), ejc |-> Feature("ejective", "ejc"), tie |-> Feature("tie", "tie"),
     nsy |-> Feature("syllabicity", "nsy"), lng |-> Feature("length", "lng"), est |-> Feature("length", "est"),
     st1 |-> Feature("stress", "primary"), st2 |-> Feature("stress", "secondary"), st3 |-> Feature("stress", "extra"),
     ts1 |-> Feature("start", "1"), ts2 |-> Feature("start", "2"), ts3 |-> Feature("start", "3"), ts4 |-> Feature("start", "4"), ts5 |-> Feature("start", "5"),
     tm1 |-> Feature("middle", "1"), tm2 |-> Feature("middle", "2"), tm3 |-> Feature("middle", "3"), tm4 |-> Feature("middle", "4"), tm5 |-> Feature("middle", "5"),
     te1 |-> Feature("end", "1"), te2 |-> Feature("end", "2"), te3 |-> Feature("end", "3"), te4 |-> Feature("end", "4"), te5 |-> Feature("end", "5")]
SomeLists ==
    <<<<"hgh", "mid", "low">>, <<"fnt", "cnt">>, <<"unr", "rnd">>, <<"vcd", "vls">>, <<"blb", "alv", "pla">>, <<"stp", "frc", "clk", "imp">>,
      <<"vwl", "ejc", "pau", "sbr">>, <<"nzd">>, <<"nsy">>, <<"st1", "st2", "st3">>, <<"est", "lng">>,
      <<"ts5", "ts4", "ts3", "ts2", "ts1">>, <<"tm5", "tm4", "tm3", "tm2", "tm1">>, <<"te5", "te4", "te3", "te2", "te1">>, <<"tie">>>>
CodePoints == ("0020" :> " ") @@ ("000A" :> "\n")

P(features) == Each(SetFeature, Zero, features)
t_ == <<"vls", "alv", "stp">>
t_tied == <<"vls", "alv", "stp", "tie">>
sh == <<"vls", "pla", "frc">>
b_ == <<"vcd", "blb", "stp">>
a_ == <<"low", "fnt", "unr", "vwl">>
i_ == <<"hgh", "fnt", "unr", "vwl", "nsy">>
schwa == <<"mid", "cnt", "unr", "vwl">>

Joined(seqs) == FlattenSeq(seqs)
Group(ps) ==
    <<"/">> \o Joined([k \in DOMAIN ps |->
        <<"{">> \o Joined([j \in DOMAIN ps[k] |-> IF j = 1 THEN <<ps[k][j]>> ELSE <<",", ps[k][j]>>]) \o <<"}">>]) \o <<"/">>
Line(text, definition) == text \o <<"\t">> \o definition \o <<"\n">>
Of(type) == <<".type", "\t", type, "\n">>

\* Like ascii-ipa.phon, with tones.
Ascii ==
    Of("kirshenbaum") \o Joined(<<
        Line(<<"\\", "u", "000A">>, Group(<<<<"pau">>>>)), Line(<<"\\", "u", "0020">>, Group(<<<<"pau", "est">>>>)),
        Line(<<"'">>, <<"<", "\t", "=", "st1">>), Line(<<"'", "'">>, <<"<", "\t", "=", "st3">>),
        Line(<<"t">>, Group(<<t_>>)), Line(<<"S">>, Group(<<sh>>)), Line(<<"b">>, Group(<<b_>>)), Line(<<"a">>, Group(<<a_>>)),
        <<"#", " ", "t", "\n">>, Line(<<"~">>, <<"?", "vwl", ">", "\t", "=", "nzd">>),
        Line(<<"%">>, <<"?", "vls", ">", "\t", "=", "ejc">>), Line(<<"%">>, <<"?", "vcd", ">", "\t", "stp", " ", "=", ">", " ", "imp">>),
        Line(<<":">>, <<">", "\t", "=", "lng">>), Line(<<"_">>, <<">", "\t", "=", "tie">>),
        Line(<<"1">>, <<"^", "1">>), Line(<<"3">>, <<"^", "3">>), Line(<<"5">>, <<"^", "5">>)>>)
Base_ == Of("ipa") \o Joined(<<Line(<<"t">>, Group(<<t_>>)), Line(<<"a">>, Group(<<a_>>)), Line(<<"~">>, <<">", "\t", "=", "nzd">>)>>)
Ipa == Of("ipa") \o <<".import", "\t", "base", "\n">> \o Line(<<"b">>, Group(<<b_>>))
Arpabet ==
    Joined(<<Line(<<"P", "A", "U">>, Group(<<<<"pau", "est">>>>)), Line(<<"A", "A">>, Group(<<a_>>)), Line(<<"A", "Y">>, Group(<<a_, i_>>)),
             Line(<<"A", "X">>, Group(<<schwa>>)), Line(<<"B">>, Group(<<b_>>)), Line(<<"C", "H">>, Group(<<t_tied, sh>>)),
             Line(<<"T">>, Group(<<t_>>)), Line(<<"S", "H">>, Group(<<sh>>))>>)
Espeak == Of("espeak") \o Joined(<<Line(<<";">>, <<"/", "/">>), Line(<<"t">>, Group(<<t_>>)), Line(<<"t", "S">>, Group(<<t_tied, sh>>)),
                                   Line(<<"b">>, Group(<<b_>>)), Line(<<"a">>, Group(<<a_>>)), Line(<<"a", "I">>, Group(<<a_, i_>>))>>)
Spanish == Of("espeak") \o Line(<<"a">>, Group(<<schwa>>))

SomeFiles ==
    (<<"ascii-ipa">> :> Ascii) @@ (<<"base">> :> Base_) @@ (<<"ipa">> :> Ipa)
        @@ (<<"cmu">> :> (Of("arpabet") \o Arpabet)) @@ (<<"radio">> :> (Of("festvox") \o Arpabet))
        @@ (<<"espeak", "en", "-", "US">> :> Espeak) @@ (<<"espeak", "es">> :> Spanish)
        @@ (<<"twice">> :> (Of("ipa") \o Line(<<"a", "\t", "t">>, Group(<<a_>>)))) @@ (<<"pairs">> :> (Of("ipa") \o Line(<<"a">>, Group(<<a_, i_>>))))
SomeSchemes == (DOMAIN SomeFiles \ {<<"base">>}) \cup {<<"features">>}

UpTo_(ps, n) == {Joined(s) : s \in UNION {[1 .. k -> ps] : k \in 0 .. n}}
One(features) == <<P(features)>>
Plain == {One(t_), One(b_), One(a_)}
ToSay ==
    [name \in SomeSchemes |->
        CASE name = <<"features">> -> UpTo_(Plain \cup {One(a_ \o <<"st1", "nzd">>), One(<<"pau">>)}, 2)
          [] name = <<"ascii-ipa">> ->
                UpTo_(Plain \cup {One(t_tied) \o One(sh), One(t_ \o <<"ejc">>), One(<<"vcd", "blb", "imp">>), One(a_ \o <<"st1", "nzd", "lng">>),
                                  One(a_ \o <<"st3">>), One(a_ \o <<"ts1">>), One(a_ \o <<"ts5", "tm3", "te1">>), One(<<"vls", "blb", "clk">>),
                                  One(<<"pau">>), One(<<"pau", "est">>)}, 2)
          [] name = <<"ipa">> -> UpTo_(Plain \cup {One(a_ \o <<"nzd">>), One(sh)}, 2)
          [] name \in {<<"cmu">>, <<"radio">>} ->
                {s \in UpTo_(Plain \cup {One(t_tied) \o One(sh), One(sh), One(a_ \o <<"st1">>), One(a_ \o <<"st2">>) \o One(i_), One(schwa), One(<<"pau">>)}, 3) :
                    s # <<>> => Last(s) # P(<<"pau">>)}
          [] name = <<"espeak", "en", "-", "US">> ->
                UpTo_(Plain \cup {One(t_tied) \o One(sh), One(a_ \o <<"st1">>), One(a_ \o <<"st2">>) \o One(i_), One(a_) \o One(<<"pau">>),
                                  One(b_) \o One(<<"pau", "est">>), One(<<"sbr">>)}, 3)
          [] OTHER -> {<<>>}]
\* Texts with errors, half transcriptions and other languages.
BeforeThat ==
    [name \in SomeSchemes |->
        CASE name = <<"features">> -> {<<"{", "vls", ",", "alv">>, <<"t", "{", "low", "}">>, <<"{", "zzz", "}">>}
          [] name = <<"ascii-ipa">> -> {<<"~", "a">>, <<"a", "Q", "t">>, <<"'">>, <<"{", "vls">>}
          [] name \in {<<"cmu">>, <<"radio">>} -> {<<"A", "Q", "1", " ", "T">>, <<"T", " ", "A", "Q">>, <<"1", "C">>, <<"T", "-", "B", "!">>}
          [] name = <<"espeak", "en", "-", "US">> -> {<<"t", "(", "e", "s">>, <<"_", ":", "(", "es", ")", "a">>, <<"a", "Q", "t">>}
          [] OTHER -> {<<>>}]

-----------------------------------------------------------------------------
VARIABLES reader,   \* the reader that is used
          odd       \* whether a reader of a scheme has taken an odd number of steps

readersVars == <<unitVars, diphoneVars, converterVars, setVars, reader, odd>>

\* The readers that are not used have nothing to read.
ReadersInit ==
    /\ reader \in {"units", "diphones", "converter", "set"}
    /\ odd = FALSE
    /\ IF reader = "units" THEN TRUE ELSE phonemes = <<>>
    /\ IF reader = "diphones" THEN TRUE ELSE mPhones = <<>>
    /\ IF reader = "converter" THEN TRUE ELSE input = <<>> /\ stress = "as_transcribed"
    /\ IF reader = "set" THEN TRUE
       ELSE scheme = <<"features">> /\ unwritten = <<>> /\ unread = <<<<"{", "zzz", "}">>>>
    /\ UnitInit /\ DiphoneInit /\ ConverterInit /\ SetInit

ReadUnits ==
    reader = "units" /\ UnitNext /\ UNCHANGED <<diphoneVars, converterVars, setVars, reader, odd>>
ReadDiphones ==
    reader = "diphones" /\ DiphoneNext /\ UNCHANGED <<unitVars, converterVars, setVars, reader, odd>>
ReadPhonemes ==
    reader = "converter" /\ ConverterNext /\ UNCHANGED <<unitVars, diphoneVars, setVars, reader, odd>>
ReadASet ==
    reader = "set" /\ SetNext /\ odd' = ~odd /\ UNCHANGED <<unitVars, diphoneVars, converterVars, reader>>

ReadersNext == ReadUnits \/ ReadDiphones \/ ReadPhonemes \/ ReadASet

\* A reader of a scheme has a next step until it is done or has failed.
SetGoes == reader = "set" /\ setPhase \in {"write", "open", "read"} /\ odd' = ~odd
ReadersSpec ==
    /\ ReadersInit /\ [][ReadersNext]_readersVars
    /\ WF_readersVars(ReadUnits \/ ReadDiphones \/ ReadPhonemes) /\ WF_odd(SetGoes)

\* A client that reads until false comes to an end, with everything read: the
\* readers go on after what they skip and what they cannot read.
ReadersEnd ==
    /\ reader = "units" => AllUnitsRead
    /\ reader = "diphones" => AllDiphonesRead
    /\ reader = "converter" => Exits
    /\ reader = "set" => <>(setPhase \in {"done", "refused"})
=============================================================================
