-------------------------- MODULE LanguageCompiler --------------------------
(***************************************************************************)
(* compile_language of synthesizer/compiler.cpp: the tokens of a language  *)
(* definition become the sections of a language file.  One action reads a  *)
(* token, in the loop of compile_language itself (section "") or of        *)
(* parse_rules, parse_rewrite, parse_classdef or parse_conditional.        *)
(*                                                                         *)
(* The text of a token is a sequence of letters; a keyword is one letter.  *)
(***************************************************************************)
EXTENDS RuleMatching, DataFiles

CONSTANTS
    Sources,        \* the definitions by name: sequences of tokens [type, is]
    Dictionaries    \* file name -> word -> phonemes, of the words that can be pronounced

VARIABLES
    source,         \* the name of the definition
    next,           \* how many were read
    section,        \* the loop that reads
    part,           \* what parse_rules and parse_rewrite hold: context, left and right
    lastRule,       \* the group of the rule parse_rules read last
    item,           \* what the other parsers hold
    db,             \* what compile_language collected
    file,           \* what was written
    compiled        \* "no", "yes" or why it failed

compilerVars == <<source, next, section, part, lastRule, item, db, file, compiled>>

NoPart == [context |-> <<>>, left |-> <<>>, right |-> <<>>]
NoItem == [name |-> "", members |-> <<>>, step |-> 0]
NoEntries == [x \in {} |-> <<>>]

NoDatabase ==
    [locale |-> <<>>, phonemeset |-> <<>>, boundary |-> " ", conditionals |-> <<>>, names |-> <<>>,
     classdefs |-> NoEntries, rewrite |-> NoEntries, l2p |-> NoEntries, dict |-> NoEntries]

CompilerInit ==
    /\ source \in DOMAIN Sources
    /\ next = 0
    /\ section = ""
    /\ part = NoPart /\ lastRule = "" /\ item = NoItem
    /\ db = NoDatabase
    /\ file = NewFile
    /\ compiled = "no"

Token == Sources[source][next + 1]
Reads == compiled = "no" /\ next < Len(Sources[source]) /\ next' = next + 1
IsText(word) == Token.type = "text" /\ Token.is = <<word>>

Fails(why) == compiled' = why /\ UNCHANGED <<section, part, lastRule, item, db>>

\* compile_language: a keyword starts the parser of its block.
ReadKeyword ==
    /\ section = ""
    /\ Reads
    /\ section' = CASE Token.type = "directive" /\ Token.is \in {<<".locale">>, <<".phonemeset">>} -> Token.is[1]
                    [] Token.type = "text" /\ Token.is \in {<<k>> : k \in {"rules", "rewrite", "classdef",
                                                                           "set", "dictionary", "boundary"}} -> Token.is[1]
                    [] OTHER -> ""
    /\ part' = NoPart /\ lastRule' = "" /\ item' = NoItem
    /\ UNCHANGED <<source, db, file, compiled>>

\* .locale, .phonemeset, boundary and dictionary take the token that follows.
ReadValue ==
    /\ section \in {".locale", ".phonemeset", "boundary", "dictionary"}
    /\ Reads
    /\ section' = ""
    /\ CASE section = ".locale" -> db' = [db EXCEPT !.locale = Token.is]
         [] section = ".phonemeset" -> db' = [db EXCEPT !.phonemeset = Token.is]
         [] section = "boundary" -> db' = IF Token.type = "text" THEN [db EXCEPT !.boundary = Token.is[1]] ELSE db
         [] section = "dictionary" ->
                db' = IF Token.is \in DOMAIN Dictionaries THEN [db EXCEPT !.dict = Dictionaries[Token.is] @@ @] ELSE db
    /\ compiled' = IF section = "dictionary" /\ Token.is \notin DOMAIN Dictionaries
                   THEN "unsupported dictionary format" ELSE compiled
    /\ UNCHANGED <<source, part, lastRule, item, file>>

\* Where the text of a rule belongs: xy) is the left, (xy the right context.
Placed(p, text) ==
    IF Last(text) = ")" THEN [p EXCEPT !.left = text]
    ELSE IF Head(text) = "(" THEN [p EXCEPT !.right = text]
    ELSE [p EXCEPT !.context = text]

Pattern(p) == p.context \o Reverse(p.left) \o p.right
Added(groups, p, value) ==
    (Head(p.context) :> Append(Group(groups, Head(p.context)), [pattern |-> Pattern(p), value |-> value])) @@ groups

\* parse_rules: a condition behind a rule is put before its pattern.
ReadRules ==
    /\ section = "rules"
    /\ Reads
    /\ UNCHANGED <<source, item, file>>
    /\ CASE IsText("end") /\ part.left = <<>> ->
                /\ section' = ""
                /\ UNCHANGED <<part, lastRule, db, compiled>>
         [] Token.type = "text" /\ ~(IsText("end") /\ part.left = <<>>) ->
                LET conditional == Head(Token.is) \in {"@", "!"} /\ lastRule # ""
                    known == Tail(Token.is) \in ToSet(db.names)
                    flag == Flags[SelectInSeq(db.names, LAMBDA n : n = Tail(Token.is))]
                    last == Len(db.l2p[lastRule])
                IN  IF conditional /\ ~known THEN Fails("rule conditional not found")
                    ELSE /\ db' = IF conditional
                                  THEN [db EXCEPT !.l2p[lastRule][last].pattern = <<Head(Token.is), flag>> \o @]
                                  ELSE db
                         /\ part' = Placed(part, Token.is)
                         /\ UNCHANGED <<section, lastRule, compiled>>
         [] Token.type = "phonemes" /\ part.context # <<>> ->
                /\ db' = [db EXCEPT !.l2p = Added(@, part, Token.is)]
                /\ lastRule' = Head(part.context)
                /\ part' = NoPart
                /\ UNCHANGED <<section, compiled>>
         [] OTHER -> UNCHANGED <<section, part, lastRule, db, compiled>>

\* parse_rewrite: the second text that is no context is the replacement.
ReadRewrite ==
    /\ section = "rewrite"
    /\ Reads
    /\ UNCHANGED <<source, lastRule, item, file, compiled>>
    /\ LET bare == Token.type = "text" /\ Placed(NoPart, Token.is).context # <<>>
           replacement == part.context # <<>> /\ (Token.type = "string" \/ bare)
       IN  CASE IsText("end") -> section' = "" /\ UNCHANGED <<part, db>>
             [] replacement /\ ~IsText("end") ->
                    /\ db' = [db EXCEPT !.rewrite = Added(@, part, Token.is)]
                    /\ part' = NoPart
                    /\ UNCHANGED section
             [] Token.type = "text" /\ ~replacement /\ ~IsText("end") ->
                    /\ part' = Placed(part, Token.is)
                    /\ UNCHANGED <<section, db>>
             [] OTHER -> UNCHANGED <<section, part, db>>

\* parse_classdef: the name of the class, its members, end.
ReadClassdef ==
    /\ section = "classdef"
    /\ Reads
    /\ UNCHANGED <<source, part, lastRule, file, compiled>>
    /\ IF item.step = 0
       THEN IF Token.type = "text" /\ Len(Token.is) = 1
            THEN item' = [item EXCEPT !.name = Token.is[1], !.step = 1] /\ UNCHANGED <<section, db>>
            ELSE section' = "" /\ UNCHANGED <<item, db>>
       ELSE IF IsText("end")
       THEN /\ section' = ""
            /\ db' = IF item.name \in Classes THEN [db EXCEPT !.classdefs = (item.name :> item.members) @@ @] ELSE db
            /\ UNCHANGED item
       ELSE /\ item' = IF Token.type = "text" THEN [item EXCEPT !.members = Append(@, Token.is)] ELSE item
            /\ UNCHANGED <<section, db>>

\* parse_conditional: set @name if locale=value.
ReadSet ==
    /\ section = "set"
    /\ Reads
    /\ UNCHANGED <<source, part, lastRule, file>>
    /\ LET wrong == \/ Token.type # "text"
                    \/ item.step = 0 /\ (Len(Token.is) <= 1 \/ Head(Token.is) \notin {"@", "!"})
                    \/ item.step = 1 /\ Token.is # <<"if">>
                    \/ item.step = 2 /\ Head(Token.is) # "locale="
           names == IF Tail(item.members) \in ToSet(db.names) THEN db.names ELSE Append(db.names, Tail(item.members))
           full == item.step = 0 /\ Len(db.names) = Len(Flags)
       IN  IF full THEN Fails("too many conditional variables")
           ELSE IF wrong THEN Fails("invalid conditional expression")
           ELSE IF item.step < 2
           THEN /\ item' = [item EXCEPT !.step = @ + 1, !.members = IF item.step = 0 THEN Token.is ELSE @]
                /\ UNCHANGED <<section, db, compiled>>
           ELSE /\ db' = [db EXCEPT !.names = names,
                                    !.conditionals = Append(@, [c |-> SelectInSeq(names, LAMBDA n : n = Tail(item.members)),
                                                                set |-> Head(item.members) = "@",
                                                                value |-> Tail(Token.is)])]
                /\ section' = ""
                /\ UNCHANGED <<item, compiled>>

-----------------------------------------------------------------------------
(* The sections, in the order the code writes them; the entries of a map    *)
(* come in the order of their keys.                                         *)

EachOf(groups, Write(_, _), out) == Each(Write, out, SetToSeq(DOMAIN groups))

Rows(rules) == [i \in DOMAIN rules |-> <<rules[i].pattern, rules[i].value>>]

Written ==
    LET Header(out) == Section(out, "LANGDB", [boundary |-> db.boundary], 17, <<<<db.locale, db.phonemeset>>>>)
        Conditionals(out) ==
            LET n == Len(db.conditionals)
            IN  IF n = 0 THEN out
                ELSE Section(out, "CND", [entries |-> n, of |-> [i \in 1 .. n |-> [c |-> db.conditionals[i].c, set |-> db.conditionals[i].set]]],
                             5 + n * 6, [i \in 1 .. n |-> <<db.conditionals[i].value>>])
        Class(out, c) ==
            LET members == db.classdefs[c]
            IN  Section(out, "CLS", [entries |-> Len(members) + 1, of |-> c], 6 + (Len(members) + 1) * 4,
                        [i \in DOMAIN members |-> <<members[i]>>])
        Rules(out, magic, groups, c) ==
            LET rows == Append(Rows(groups[c]), <<<<>>, <<>>>>)
            IN  Section(out, magic, [entries |-> Len(rows), of |-> c], 6 + Len(rows) * 8, rows)
        Rewrite(out, c) == Rules(out, "LRR", db.rewrite, c)
        LetterToPhoneme(out, c) == Rules(out, "L2P", db.l2p, c)
        words == SetToSeq(DOMAIN db.dict)
        WithWords(out) == IF words = <<>> THEN out
                          ELSE Section(out, "DIC", [entries |-> Len(words)], 5 + Len(words) * 8,
                                       [i \in DOMAIN words |-> <<words[i], db.dict[words[i]]>>])
        Sections(out) == EachOf(db.l2p, LetterToPhoneme, EachOf(db.rewrite, Rewrite, EachOf(db.classdefs, Class, out)))
    IN  With(Header(NewFile), LAMBDA h : With(Sections(Conditionals(h)), WithWords))

\* The tokens end: a block that is still open is what it is.
WriteFile ==
    /\ compiled = "no"
    /\ next = Len(Sources[source])
    /\ db' = NoDatabase
    /\ IF section = "set" THEN file' = file /\ compiled' = "invalid conditional expression"
       ELSE file' = Written /\ compiled' = "yes"
    /\ UNCHANGED <<source, next, section, part, lastRule, item>>

Compile == ReadKeyword \/ ReadValue \/ ReadRules \/ ReadRewrite \/ ReadClassdef \/ ReadSet \/ WriteFile
=============================================================================
