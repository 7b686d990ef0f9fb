----------------------------- MODULE MCLanguage -----------------------------
(* Instances of LetterToPhoneme: languages put together from the features of *)
(* tests/letter2phoneme, one rule after the other, and short words.          *)
EXTENDS LetterToPhoneme

Text(s) == [type |-> "text", is |-> s]
Key(s) == Text(<<s>>)
Says(s) == [type |-> "phonemes", is |-> s]

MCFeaturesIn == [e \in {"{vel}", "{vwl}"} |-> IF e = "{vel}" THEN {"vel"} ELSE {"vwl"}]
MCPhonemesIn == [e \in {"/k/"} |-> <<"K">>]
MCFeaturesOf == [p \in {"unspecified", "K", "G", "N", "E", "A", "S"} |->
                    CASE p \in {"K", "G"} -> {"vel"} [] p \in {"A", "E"} -> {"vwl"} [] OTHER -> {}]

\* A rule: its left, context and right text, its phonemes and its condition.
Rule(left, context, right, value, when) ==
    [tokens |-> (IF left = <<>> THEN <<>> ELSE <<Text(left)>>) \o <<Text(context)>>
                \o (IF right = <<>> THEN <<>> ELSE <<Text(right)>>) \o <<Says(value)>>
                \o (IF when = <<>> THEN <<>> ELSE <<Text(when)>>),
     means |-> [conditions |-> IF when = <<>> THEN <<>> ELSE <<[flag |-> "c1", set |-> when[1] = "@"]>>,
                context |-> context,
                left |-> IF left = <<>> THEN <<>> ELSE Tail(Reverse(left)),
                right |-> IF right = <<>> THEN <<>> ELSE Tail(right),
                value |-> value]]

Optional ==
    <<Rule(<<>>, <<"c">>, <<"(", "/k/">>, <<>>, <<>>),
      Rule(<<>>, <<"n">>, <<"(", "{vel}">>, <<"N">>, <<>>),
      Rule(<<"_", ")">>, <<"a">>, <<"(", "H">>, <<"E">>, <<>>),
      Rule(<<>>, <<"a">>, <<"(", "{vel}", "_">>, <<"E">>, <<"!", "us">>),
      Rule(<<"{vwl}", ")">>, <<"k">>, <<>>, <<"G">>, <<>>),
      Rule(<<>>, <<"a">>, <<"(", "{vel}">>, <<"A", "S">>, <<"@", "us">>)>>

Default == <<Rule(<<>>, <<"a">>, <<>>, <<"A">>, <<>>), Rule(<<>>, <<"c">>, <<>>, <<"K">>, <<>>),
             Rule(<<>>, <<"k">>, <<>>, <<"K">>, <<>>), Rule(<<>>, <<"n", "c">>, <<>>, <<"N", "K">>, <<>>), Rule(<<>>, <<"n">>, <<>>, <<"S">>, <<>>)>>

Rewriting == <<Text(<<"n", "n">>), Text(<<"n", ":">>), Text(<<"_", ")">>), Text(<<"c">>), Text(<<"(", "_">>), Text(<<"k">>)>>
RewritingMeans ==
    ("n" :> <<[conditions |-> <<>>, context |-> <<"n", "n">>, left |-> <<>>, right |-> <<>>, value |-> <<"n", ":">>]>>)
    @@ ("c" :> <<[conditions |-> <<>>, context |-> <<"c">>, left |-> <<"_">>, right |-> <<"_">>, value |-> <<"k">>]>>)

Chosen(rules) == [i \in 1 .. Cardinality(rules) |->
                     Optional[CHOOSE r \in rules : Cardinality({q \in rules : q < r}) = i - 1]] \o Default

Definition(rules, rewriting) ==
    <<[type |-> "directive", is |-> <<".locale">>], [type |-> "directive_contents", is |-> <<"en">>],
      Key("boundary"), Key(":"), Key("classdef"), Key("H"), Text(<<"k", "a">>), Key("c"), Key("end"),
      Key("set"), Text(<<"@", "us">>), Key("if"), Text(<<"locale=", "en">>)>>
    \o (IF rewriting THEN <<Key("set"), Text(<<"!", "us">>), Key("if"), Text(<<"locale=", "en-US">>), Key("rewrite")>> \o Rewriting \o <<Key("end")>> ELSE <<>>)
    \o <<Key("rules")>> \o FlattenSeq([i \in DOMAIN Chosen(rules) |-> Chosen(rules)[i].tokens]) \o <<Key("end")>>
    \o <<Key("dictionary"), Key("words")>>

Means(rules, rewriting) ==
    [classes |-> "H" :> <<<<"k", "a">>, <<"c">>>>,
     rewrite |-> IF rewriting THEN RewritingMeans ELSE NoEntries,
     l2p |-> [l \in {"a", "c", "k", "n"} |->
                 LET of == SelectSeq(Chosen(rules), LAMBDA r : r.means.context[1] = l)
                 IN  [i \in DOMAIN of |-> of[i].means]],
     flags |-> IF rewriting THEN {} ELSE {"c1"},
     boundary |-> ":"]

MCSources == [c \in (SUBSET (1 .. Len(Optional))) \X BOOLEAN |-> Definition(c[1], c[2])]
MCDictionaries == <<"words">> :> (<<"a", "k">> :> <<"A">>)
MCWords == UNION {[1 .. n -> {"a", "c", "k", "n"}] : n \in 1 .. 3}
ASSUME ClassesAreDefined == \A s \in DOMAIN MCSources : Classes \subseteq DOMAIN Means(s[1], s[2]).classes
ASSUME LanguagesArePlain == \A s \in DOMAIN MCSources : PlainLanguage(Means(s[1], s[2]))

MCLocales == {<<"en-US">>, <<"en">>}
MCFlags == <<"c1", "c2">>

\* What a language file says is what its definition says: the sections, their
\* order and offsets and the string tables do not come between.
LoadedIsCompiled ==
    /\ compiled \in {"no", "yes"}
    /\ loaded \in {"no", "yes"}
    /\ loaded = "yes" => lang = Means(source[1], source[2])
=============================================================================
