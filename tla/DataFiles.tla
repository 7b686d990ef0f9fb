----------------------------- MODULE DataFiles ------------------------------
(***************************************************************************)
(* The files of the engine's data: the text files they are written in, as  *)
(* the tokens that are read of them, and the binary files that they are    *)
(* compiled to.                                                            *)
(***************************************************************************)
EXTENDS Once, SequencesExt

(* cainteoir_file_reader (cainteoir_file_reader.cpp): the tokens of the     *)
(* text files that dictionaries, phoneme sets, languages and voices are     *)
(* written in.  A file is a sequence of characters; what read() returns     *)
(* one after the other, until it returns false, is FileTokensOf(file).      *)

Newline == {"\r", "\n"}
LineEnd == Newline \cup {"#"}

\* The reader before its next character, c the one it looks at.  `used` says
\* that this turn of the loop moved on to the next character.
NewReader == [state |-> "start", match |-> <<>>, used |-> FALSE, tokens |-> <<>>]

Skip(r) == [r EXCEPT !.used = TRUE]
Go(r, state) == [r EXCEPT !.state = state]
Begin(r, state) == [r EXCEPT !.state = state, !.match = <<>>]
Open(r, state) == Skip(Begin(r, state))
Take(r, c) == [Skip(r) EXCEPT !.match = Append(@, c)]
Return(r, type, state) ==
    [r EXCEPT !.state = state, !.tokens = Append(@, [type |-> type, is |-> r.match])]

Trimmed(text) ==
    LET last == SelectLastInSeq(text, LAMBDA c : c # " ")
    IN  SubSeq(text, 1, IF last = 0 THEN 1 ELSE last)

Contents(r, c) ==
    CASE c = "/" -> Open(r, "in_phonemes")
      [] c = "\"" -> Open(r, "in_string")
      [] OTHER -> Begin(r, "in_text")

\* One turn of the loop.
Turn(r, c) ==
    CASE r.state = "start" ->
            (CASE c \in {"\r", "\n", "\t", " "} -> Skip(r)
               [] c = "#" -> Go(r, "in_comment")
               [] c = "." -> Begin(r, "in_directive")
               [] OTHER -> Contents(r, c))
      [] r.state = "in_line_contents" ->
            (CASE c \in LineEnd -> Go(r, "start") [] c \in {"\t", " "} -> Skip(r) [] OTHER -> Contents(r, c))
      [] r.state = "in_comment" -> IF c \in Newline THEN Go(r, "start") ELSE Skip(r)
      [] r.state = "in_directive" ->
            (CASE c \in LineEnd -> Go(r, "start")
               [] c = "\t" -> Return(r, "directive", "pre_directive_body")
               [] OTHER -> Take(r, c))
      [] r.state = "pre_directive_body" ->
            (CASE c \in LineEnd -> Go(r, "start")
               [] c = "\t" -> Skip(r)
               [] c = "\"" -> Open(r, "in_directive_string")
               [] OTHER -> Begin(r, "in_directive_body"))
      [] r.state = "in_directive_body" ->
            IF c \in LineEnd THEN Return([r EXCEPT !.match = Trimmed(@)], "directive_contents", "start") ELSE Take(r, c)
      [] r.state = "in_phonemes" ->
            (CASE c \in LineEnd \cup {"\t"} -> Go(r, "start")
               [] c = "/" -> Skip(Return(r, "phonemes", "in_line_contents"))
               [] OTHER -> Take(r, c))
      [] r.state = "in_text" ->
            IF c \in LineEnd \cup {"\t", " "}
            THEN Return(r, "text", IF c = "\t" THEN "in_line_contents" ELSE "start") ELSE Take(r, c)
      [] r.state \in {"in_string", "in_directive_string"} ->
            (CASE c \in Newline \cup {"\t"} -> Go(r, "start")
               [] c = "\"" -> IF r.state = "in_string" THEN Skip(Return(r, "string", "in_line_contents"))
                              ELSE Skip(Return(r, "directive_contents", "start"))
               [] OTHER -> Take(r, c))

\* A character is looked at until one of the states it leads to moves on.
ReadChar(r, c) ==
    LET turn(q) == IF q.used THEN q ELSE Turn(q, c)
    IN  With(With(turn([r EXCEPT !.used = FALSE]), turn), turn)

FileTokensOf(file) == Each(ReadChar, NewReader, file).tokens

-----------------------------------------------------------------------------
(* The binary files of voices and languages: what binary_file_writer        *)
(* (synthesizer/compiler.cpp) writes and native_endian_buffer               *)
(* (include/cainteoir/buffer.hpp) finds in it.  A file is its sections and  *)
(* strings by position.  The writer does not look where it is: mOffset,     *)
(* what it says of positions, is a sum of its own, and size is where the    *)
(* bytes really go.                                                         *)

STRING_TABLE_HEADER_SIZE == 7

NewFile == [size |-> 0, mOffset |-> 0, mStrings |-> <<>>, mStringTable |-> <<>>,
            sections |-> <<>>, strings |-> <<>>]

begin_section(out, magic, section_size, has_pstr_fields) ==
    [out EXCEPT !.mOffset = @ + section_size + (IF has_pstr_fields THEN STRING_TABLE_HEADER_SIZE ELSE 0),
                !.sections = (out.size :> [magic |-> magic, rows |-> <<>>]) @@ @,
                !.size = @ + section_size]

\* The offset of a string; a string is written once for each section.
PStr(out, s) == IF s \in DOMAIN out.mStringTable THEN out.mStringTable[s] ELSE out.mOffset

pstrUnterminated(out, s) ==
    IF s \in DOMAIN out.mStringTable THEN out
    ELSE [out EXCEPT !.mStringTable = (s :> out.mOffset) @@ @,
                     !.mStrings = Append(@, s),
                     !.mOffset = @ + Len(s)]
pstr(out, s) ==
    IF s \in DOMAIN out.mStringTable THEN out
    ELSE [out EXCEPT !.mStringTable = (s :> out.mOffset) @@ @,
                     !.mStrings = Append(@, s),
                     !.mOffset = @ + Len(s) + 1]

str(out, s) == [out EXCEPT !.strings = (out.size :> s) @@ @, !.size = @ + Len(s) + 1]

end_section(out) ==
    IF out.mStrings = <<>> THEN out
    ELSE LET table == [out EXCEPT !.sections = (out.size :> [magic |-> "STR", next |-> out.mOffset]) @@ @,
                                  !.size = @ + STRING_TABLE_HEADER_SIZE]
         IN  With(Each(str, table, out.mStrings),
                  LAMBDA o : [o EXCEPT !.mStrings = <<>>, !.mStringTable = <<>>])

\* A section at `at` whose rows are sequences of strings, with what else is in it.
Section(out, magic, data, section_size, rows) ==
    LET at == out.size
        Row(o, row) ==
            With(Each(pstr, o, row),
                 LAMBDA w : [w EXCEPT !.sections[at].rows = Append(@, [i \in DOMAIN row |-> PStr(w, row[i])])])
        body == Each(Row, begin_section(out, magic, section_size, TRUE), rows)
    IN  With(body, LAMBDA o : end_section([o EXCEPT !.sections[at] = @ @@ data]))

\* What a pstr field of the file is: a text nobody wrote, when no string begins there.
Unwritten == <<"?">>
StringAt(file, offset) == IF offset \in DOMAIN file.strings THEN file.strings[offset] ELSE Unwritten
=============================================================================
