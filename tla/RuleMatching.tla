---------------------------- MODULE RuleMatching ----------------------------
(***************************************************************************)
(* How the rules of a language are matched against a text: the lexical     *)
(* rewrite rules (tts/lexical_rewrite_rules.cpp) and the letter-to-phoneme *)
(* rules (tts/letter_to_phoneme.cpp).                                      *)
(*                                                                         *)
(* A text is a sequence of letters, a position one of 1 .. Len(text) + 1.  *)
(* The code interprets the characters of a pattern; here a pattern is a    *)
(* sequence of elements: letters, and one element for each class, feature  *)
(* block {...} and phoneme block /.../, read the way Kind says.            *)
(***************************************************************************)
EXTENDS Once, SequencesExt

CONSTANTS
    Space,          \* the letters that are white space
    Flags,          \* the elements that name a condition, in the order of their numbers
    Classes,        \* the elements that name a class
    FeaturesIn,     \* feature block -> the features it asks for
    PhonemesIn,     \* phoneme block -> the phonemes it asks for
    FeaturesOf      \* phoneme -> the features it has

ASSUME MatchingAssumption == "unspecified" \in DOMAIN FeaturesOf

Phonemes == DOMAIN FeaturesOf

Kind(e) ==
    CASE e = "_" -> "boundary"
      [] e \in Classes -> "class"
      [] e \in DOMAIN FeaturesIn -> "features"
      [] e \in DOMAIN PhonemesIn -> "phonemes"
      [] OTHER -> "letter"

\* A rule is its pattern taken apart at ")" and "(", behind its conditions
\* (a mark and the number of a flag): the left context is written nearest first.
Parts(pattern) ==
    LET mark == SelectInSeq(pattern, LAMBDA e : e \notin {"@", "!"} \cup ToSet(Flags))
        conditions == IF mark = 0 THEN Len(pattern) ELSE mark - 1
        rest == SubSeq(pattern, conditions + 1, Len(pattern))
        UpTo(s, m) == LET i == SelectInSeq(s, LAMBDA e : e = m) IN IF i = 0 THEN s ELSE SubSeq(s, 1, i - 1)
        After(s, m) == LET i == SelectInSeq(s, LAMBDA e : e = m)
                       IN  IF i = 0 THEN <<>> ELSE SubSeq(s, i + 1, Len(s))
    IN  [conditions |-> [i \in 1 .. conditions \div 2 |->
                            [flag |-> pattern[2 * i], set |-> pattern[2 * i - 1] = "@"]],
         context |-> UpTo(UpTo(rest, "("), ")"),
         left |-> UpTo(After(UpTo(rest, "("), ")"), "("),
         right |-> After(rest, "(")]

Mismatch == -1

StartsAt(text, p, s) == p + Len(s) <= Len(text) + 1 /\ SubSeq(text, p, p + Len(s) - 1) = s
EndsAt(text, p, s) == p >= Len(s) /\ SubSeq(text, p - Len(s) + 1, p) = s

\* The first member of a class that matches decides.
match_classdef(class, text, p) ==
    LET i == SelectInSeq(class, LAMBDA s : StartsAt(text, p, s))
    IN  IF i = 0 THEN Mismatch ELSE p + Len(class[i])

match_classdef_back(class, text, p) ==
    LET i == SelectInSeq(class, LAMBDA s : EndsAt(text, p, s))
    IN  IF i = 0 THEN Mismatch ELSE p - Len(class[i])

\* The position after a letter or class that begins at p.  A class without a
\* definition matches nothing as far as the code clears its table of classes:
\* the letter-to-phoneme rules do, the rewrite rules read what happens to be
\* there, so the languages here define the classes they use.
Forward(lang, text, e, p) ==
    CASE Kind(e) = "letter" -> IF StartsAt(text, p, <<e>>) THEN p + 1 ELSE Mismatch
      [] Kind(e) = "class" /\ e \in DOMAIN lang.classes -> match_classdef(lang.classes[e], text, p)
      [] OTHER -> Mismatch

\* The position before a letter or class that ends at p.
Backward(lang, text, e, p) ==
    CASE Kind(e) = "letter" -> IF EndsAt(text, p, <<e>>) THEN p - 1 ELSE Mismatch
      [] Kind(e) = "class" /\ e \in DOMAIN lang.classes -> match_classdef_back(lang.classes[e], text, p)
      [] OTHER -> Mismatch

\* How far the elements match one after the other.
Along(Step(_, _), elements, p) ==
    LET Further(m, e) ==
            IF ~m.ok THEN m
            ELSE With(Step(e, m.at), LAMBDA q : IF q = Mismatch THEN [m EXCEPT !.ok = FALSE] ELSE [m EXCEPT !.at = q])
    IN  Each(Further, [at |-> p, ok |-> TRUE], elements)

ContextOfOne(lang, text, rule, p) ==
    [Along(LAMBDA e, q : Forward(lang, text, e, q), rule.context, p) EXCEPT !.at = p + 1]
Context(lang, text, rule, p) == Along(LAMBDA e, q : Forward(lang, text, e, q), rule.context, p)

-----------------------------------------------------------------------------
(* Lexical rewrite rules.                                                   *)

RewriteLeft(lang, text, e, p) ==
    IF Kind(e) = "boundary"
    THEN IF p = 0 \/ text[p] \in Space THEN p ELSE Mismatch
    ELSE Backward(lang, text, e, p)

RewriteRight(lang, text, e, p) ==
    IF Kind(e) = "boundary"
    THEN IF p > Len(text) \/ text[p] \in Space THEN p ELSE Mismatch
    ELSE Forward(lang, text, e, p)

Rewrites(lang, text, rule, p) ==
    /\ Context(lang, text, rule, p).ok
    /\ Along(LAMBDA e, q : RewriteLeft(lang, text, e, q), rule.left, p - 1).ok
    /\ Along(LAMBDA e, q : RewriteRight(lang, text, e, q), rule.right, Context(lang, text, rule, p).at).ok

Group(groups, letter) == IF letter \in DOMAIN groups THEN groups[letter] ELSE <<>>

\* What is written for the text from p on: the replacement of the first rule
\* that matches, or the letter itself.
Rewritten(lang, text) ==
    LET from[p \in 1 .. Len(text) + 1] ==
            IF p > Len(text) THEN <<>>
            ELSE LET group == Group(lang.rewrite, text[p])
                     i == SelectInSeq(group, LAMBDA rule : Rewrites(lang, text, rule, p))
                 IN  IF i = 0 THEN <<text[p]>> \o from[p + 1]
                     ELSE group[i].value \o from[Context(lang, text, group[i], p).at]
    IN  from[1]

\* Without a rule the text is passed on.
rewrite(lang, text) == IF DOMAIN lang.rewrite = {} THEN text ELSE Rewritten(lang, text)

-----------------------------------------------------------------------------
(* Letter-to-phoneme rules.                                                 *)

\* @c and !c
ConditionsHold(lang, rule) ==
    \A i \in 1 .. Len(rule.conditions) :
        (rule.conditions[i].flag \in lang.flags) = rule.conditions[i].set

HasFeatures(phoneme, e) == FeaturesIn[e] \subseteq FeaturesOf[phoneme]

\* The left context also knows the boundary letter and the previous phoneme,
\* which it looks at without moving.
PhonemeLeft(lang, text, previous, e, p) ==
    CASE Kind(e) = "boundary" -> IF p = 0 THEN p ELSE IF text[p] = lang.boundary THEN p - 1 ELSE Mismatch
      [] Kind(e) = "features" -> IF HasFeatures(previous, e) THEN p ELSE Mismatch
      [] OTHER -> Backward(lang, text, e, p)

\* The blocks of features that follow each other from i on.
FeatureBlocks(right, i) ==
    LET other == {j \in i .. Len(right) : Kind(right[j]) # "features"}
    IN  (IF other = {} THEN Len(right) + 1 ELSE CHOOSE j \in other : \A k \in other : j <= k) - i

\* Nothing but features may follow features on the left.
FeaturesLast(left) ==
    \A i \in 2 .. Len(left) : Kind(left[i - 1]) = "features" => Kind(left[i]) = "features"

Result(kind) == [kind |-> kind, next |-> 0, phonemes |-> <<>>, ahead |-> <<>>]
Failed(at) == [Result("failed") EXCEPT !.next = at]

\* What an element that looks ahead makes of the rule `seen` that is found there:
\* its phonemes are in the block, or have the features of the blocks from i on.
Ahead(go, rule, i, seen) ==
    LET e == rule.right[i]
        blocks == FeatureBlocks(rule.right, i)
        used == IF Len(seen.phonemes) < blocks THEN Len(seen.phonemes) ELSE blocks
        Behind(j) == With(go[<<j, seen.next>>], LAMBDA rest : [rest EXCEPT !.ahead = seen.phonemes \o @])
    IN  CASE seen.kind = "end" -> Result("failed")
          [] seen.kind \notin {"match", "end"} -> seen
          [] seen.kind = "match" /\ Kind(e) = "phonemes" ->
                IF seen.phonemes = PhonemesIn[e] THEN Behind(i + 1) ELSE Result("failed")
          [] seen.kind = "match" /\ Kind(e) = "features" ->
                IF /\ \A k \in 1 .. used : HasFeatures(seen.phonemes[k], rule.right[i + k - 1])
                   /\ used < Len(seen.phonemes) => i + blocks > Len(rule.right)
                THEN Behind(i + used) ELSE Result("failed")

\* The elements of the right context from the i-th on, at position r: `go` tells
\* what the later ones give, `seek` what the rules give further on in the text.
RightAt(go, seek, lang, text, rule, previous, i, r) ==
    LET e == rule.right[i]
        Moved(q) == IF q = Mismatch THEN Result("failed") ELSE go[<<i + 1, q>>]
    IN  IF i > Len(rule.right) THEN Result("match")
        ELSE CASE Kind(e) = "boundary" ->
                    Moved(IF r > Len(text) THEN r ELSE IF text[r] = lang.boundary THEN r + 1 ELSE Mismatch)
               [] Kind(e) \in {"letter", "class"} -> Moved(Forward(lang, text, e, r))
               [] OTHER -> With(seek[<<r, IF rule.value = <<>> THEN previous ELSE rule.value[1], TRUE>>],
                                LAMBDA seen : Ahead(go, rule, i, seen))

Right(seek, lang, text, rule, previous, first) ==
    LET go[y \in (1 .. Len(rule.right) + 1) \X (first .. Len(text) + 1)] ==
            RightAt(go, seek, lang, text, rule, previous, y[1], y[2])
    IN  go[<<1, first>>]

Left(lang, text, rule, previous, p) ==
    /\ FeaturesLast(rule.left)
    /\ Along(LAMBDA e, q : PhonemeLeft(lang, text, previous, e, q), rule.left, p - 1).ok

\* A rule at position p; one that does not match tells where its context ended.
Match(seek, lang, text, rule, previous, p) ==
    LET Behind(context) ==
            IF context.ok /\ Left(lang, text, rule, previous, p)
            THEN With(Right(seek, lang, text, rule, previous, context.at),
                      LAMBDA right : CASE right.kind = "failed" -> Failed(context.at)
                                       [] right.kind = "match" -> [right EXCEPT !.next = context.at, !.phonemes = rule.value]
                                       [] OTHER -> right)
            ELSE Failed(context.at)
    IN  IF ConditionsHold(lang, rule) THEN With(Context(lang, text, rule, p), Behind) ELSE Failed(p)

\* The rules of a group, one after the other, until one does not fail.
Tried(seek, lang, text, group, previous, p) ==
    Each(LAMBDA before, rule : IF before.kind = "failed" THEN Match(seek, lang, text, rule, previous, p) ELSE before,
         Failed(p), group)

\* One call of next_match; `seek` is what its calls of itself return.  A look
\* ahead goes on where the last rule stopped matching.
Sought(seek, lang, text, p, previous, ignore) ==
    LET Again(at) == IF at > p THEN seek[<<at, previous, TRUE>>] ELSE Result("loops")
    IN  IF p > Len(text) THEN Result("end")
        ELSE IF text[p] = lang.boundary THEN seek[<<p + 1, previous, ignore>>]
        ELSE IF text[p] \notin DOMAIN lang.l2p THEN Result("throw")
        ELSE With(Tried(seek, lang, text, lang.l2p[text[p]], previous, p),
                  LAMBDA tried : CASE tried.kind = "failed" -> IF ignore THEN Again(tried.next) ELSE Result("throw")
                                   [] tried.kind = "match" /\ tried.phonemes = <<>> /\ ignore -> Again(tried.next)
                                   [] OTHER -> tried)

\* next_match: what the rules give at position `from`, where `ignore` is set for
\* a look ahead: elision rules are passed over then.  "end" stands for the null
\* match and "loops" for a call that calls itself with its own arguments.
next_match(lang, text, from, previous, ignore) ==
    LET seek[x \in (1 .. Len(text) + 1) \X Phonemes \X BOOLEAN] == Sought(seek, lang, text, x[1], x[2], x[3])
    IN  seek[<<from, previous, ignore>>]
=============================================================================
