----------------------------- MODULE TextProofs -----------------------------
(***************************************************************************)
(* What a text reader makes of a document, for every document and every    *)
(* size of its buffer; and what the dictionary program says of the words   *)
(* of its dictionary, for all files, documents and command lines.          *)
(***************************************************************************)
EXTENDS DictionaryApp, Induction

-----------------------------------------------------------------------------
(* The state machine.                                                      *)

LetterStates == {"L1", "L2", "L3", "L4", "L5", "L6"}
HyphenStates == {"H1", "H2", "H4", "H6"}

(* An edge of the state machine leads from s by a character of category l to e. *)
Leads(s, l, e) == \E edge \in Edges : s \in edge[1] /\ l \in edge[2] /\ e = edge[3]

LEMMA TransitionLeads ==
    ASSUME NEW s \in States, NEW l \in Languages, transitions[s][l] # "terminal"
    PROVE  Leads(s, l, transitions[s][l])
<1> DEFINE to == {e[3] : e \in {edge \in Edges : s \in edge[1] /\ l \in edge[2]}}
<1>1. transitions[s][l] = IF to = {} THEN "terminal" ELSE CHOOSE state \in to : TRUE
  BY DEF transitions
<1>2. to # {} /\ transitions[s][l] \in to
  <2> HIDE DEF to
  <2> QED
    BY <1>1
<1> QED
  BY <1>2 DEF Leads

(* There is a way on from every state in which no token has begun. *)
LEMMA AdvancingLeads ==
    ASSUME NEW s \in Advancing, NEW l \in Languages
    PROVE  transitions[s][l] # "terminal"
<1> DEFINE to == {e[3] : e \in {edge \in Edges : s \in edge[1] /\ l \in edge[2]}}
<1>1. s \in States
  BY DEF Advancing, States
<1>2. transitions[s][l] = IF to = {} THEN "terminal" ELSE CHOOSE state \in to : TRUE
  BY <1>1 DEF transitions
<1>3. \E edge \in Edges : s \in edge[1] /\ l \in edge[2]
  BY DEF Edges, Advancing, Languages, Spaces, Marks, Numbers, Punctuation, Symbols
<1>4. \A edge \in Edges : edge[3] # "terminal"
  BY DEF Edges
<1>5. to # {} /\ "terminal" \notin to
  BY <1>3, <1>4
<1> HIDE DEF to
<1> QED
  BY <1>2, <1>5

(* What a state stands for: the categories of the character that led to it. *)
LEMMA LedBy ==
    ASSUME NEW s, NEW l, NEW e, Leads(s, l, e)
    PROVE  /\ e \in Silent => l \in Spaces \cup {"LF"}
           /\ e \in WithQuote => l \in Quotes
           /\ e \in LetterStates => l \in Letters
           /\ e = "P1" => l \in Punctuation
           /\ e \in HyphenStates => l \in {"HM", "SH"}
           /\ e \in {"H3", "H5"} => l = "LF"
           /\ e = "P2" => l = "Zs"
           /\ l = "Lo" => e = "L7"
<1> USE DEF Leads, Edges
<1>1. e \in Silent => l \in Spaces \cup {"LF"}
  BY DEF Silent, Spaces
<1>2. e \in WithQuote => l \in Quotes
  BY DEF WithQuote
<1>3. e \in LetterStates => l \in Letters
  BY DEF LetterStates, Letters
<1>4. e = "P1" => l \in Punctuation
  <2>1. e \in {"P1"} => l \in Punctuation
    OBVIOUS
  <2> QED
    BY <2>1
<1>5. e \in HyphenStates => l \in {"HM", "SH"}
  BY DEF HyphenStates
<1>6. e \in {"H3", "H5"} => l = "LF"
  OBVIOUS
<1>7. e = "P2" => l = "Zs"
  <2>1. e \in {"P2"} => l \in {"Zs"}
    OBVIOUS
  <2> QED
    BY <2>1
<1>8. l = "Lo" => e = "L7"
  BY DEF Spaces, Marks, Numbers, Punctuation, Symbols, Quotes
<1> QED
  BY <1>1, <1>2, <1>3, <1>4, <1>5, <1>6, <1>7, <1>8

(* The states that a state is led to from. *)
LEMMA LedFrom ==
    ASSUME NEW s, NEW l, NEW e, Leads(s, l, e)
    PROVE  /\ e \in States
           /\ e \in Advancing => s \in Advancing
           /\ e \notin Terminal \cup Advancing => s \notin Advancing
           /\ e \in WithQuote \cup HyphenStates => s \in LetterStates
           /\ e \in {"H3", "H5"} => s \in HyphenStates
           /\ e = "P2" => s = "P1"
           /\ s = "L7" => e = "L7" /\ l # "Cc"
<1> USE DEF Leads, Edges
<1>1. e \in States
  BY DEF States, Terminal, WithQuote, WithHyphen
<1>2. e \in Advancing => s \in Advancing
  BY DEF Advancing
<1>3. e \notin Terminal \cup Advancing => s \notin Advancing
  BY DEF Advancing, Terminal
<1>4. e \in WithQuote \cup HyphenStates => s \in LetterStates
  BY DEF WithQuote, HyphenStates, LetterStates
<1>5. e \in {"H3", "H5"} => s \in HyphenStates
  BY DEF HyphenStates
<1>6. e = "P2" => s = "P1"
  <2>1. e \in {"P2"} => s \in {"P1"}
    OBVIOUS
  <2> QED
    BY <2>1
<1>7. s = "L7" => e = "L7" /\ l # "Cc"
  OBVIOUS
<1> QED
  BY <1>1, <1>2, <1>3, <1>4, <1>5, <1>6, <1>7

-----------------------------------------------------------------------------
(* The text of a document.                                                 *)

AllText(events) == TextTo(events)[Len(events)]
TextIn(item) == IF item.type = "text" THEN item.content ELSE <<>>
Begins(s, t) == Len(s) <= Len(t) /\ \A i \in 1 .. Len(s) : s[i] = t[i]

LEMMA TextInItem ==
    ASSUME NEW item \in Item
    PROVE  TextIn(item) \in Seq(Char)
BY DEF Item, TextIn

(* TextTo is defined by recursion; this is what it satisfies. *)
LEMMA TextToIs ==
    ASSUME NEW d \in Seq(Item)
    PROVE  /\ TextTo(d)[0] = <<>>
           /\ \A n \in 1 .. Len(d) : TextTo(d)[n] = TextTo(d)[n - 1] \o TextIn(d[n])
           /\ \A n \in 0 .. Len(d) : TextTo(d)[n] \in Seq(Char)
<1> DEFINE N == Len(d)
           F == [p \in (1 .. N) \X Seq(Char) |-> p[2] \o TextIn(d[p[1]])]
           IsText(f) == f = [n \in 0 .. N |-> IF n = 0 THEN <<>> ELSE f[n - 1] \o TextIn(d[n])]
<1>1. N \in Nat /\ \A n \in 1 .. N : TextIn(d[n]) \in Seq(Char)
  <2>1. N \in Nat /\ \A n \in 1 .. N : d[n] \in Item
    OBVIOUS
  <2> QED
    BY <2>1, TextInItem
<1>2. F \in Steps(N, Seq(Char))
  <2> HIDE DEF N
  <2> QED
    BY <1>1 DEF Steps
<1>3. \A n \in 1 .. N, s \in Seq(Char) : F[<<n, s>>] = s \o TextIn(d[n])
  OBVIOUS
<1> HIDE DEF N, F
<1>4. PICK f \in [0 .. N -> Seq(Char)] : IsRecursion(f, N, <<>>, F)
  <2>1. <<>> \in Seq(Char)
    OBVIOUS
  <2> QED
    BY <1>1, <1>2, <2>1, RecursionTo
<1>5. IsText(f)
  <2>1. ASSUME NEW n \in 0 .. N
        PROVE  f[n] = IF n = 0 THEN <<>> ELSE f[n - 1] \o TextIn(d[n])
    <3>1. CASE n = 0
      BY <1>4, <3>1 DEF IsRecursion
    <3>2. CASE n # 0
      <4>1. n \in 1 .. N /\ n - 1 \in 0 .. N
        BY <1>1, <3>2
      <4>2. f[n - 1] \in Seq(Char)
        BY <4>1
      <4> QED
        BY <1>3, <1>4, <3>2, <4>1, <4>2 DEF IsRecursion
    <3> QED
      BY <3>1, <3>2
  <2> QED
    BY <2>1
<1>6. TextTo(d) = CHOOSE g : IsText(g)
  BY DEF TextTo, N, TextIn
<1> HIDE DEF IsText
<1>7. IsText(TextTo(d))
  BY <1>5, <1>6
<1> DEFINE g == TextTo(d)
<1> HIDE DEF g
<1>8. g[0] = <<>> /\ \A n \in 1 .. N : g[n] = g[n - 1] \o TextIn(d[n])
  <2>1. 0 \in 0 .. N /\ \A n \in 1 .. N : n \in 0 .. N /\ n # 0
    BY <1>1
  <2>2. g = [n \in 0 .. N |-> IF n = 0 THEN <<>> ELSE g[n - 1] \o TextIn(d[n])]
    BY <1>7 DEF IsText, g
  <2> QED
    BY <2>1, <2>2
<1> DEFINE S == {n \in 0 .. N : g[n] \in Seq(Char)}
<1>9. Inductive(S, N)
  <2>1. 0 \in S
    <3>1. g[0] \in Seq(Char)
      <4>1. <<>> \in Seq(Char)
        OBVIOUS
      <4> QED
        BY <1>8, <4>1
    <3> QED
      BY <1>1, <3>1
  <2>2. ASSUME NEW n \in 0 .. N - 1, n \in S
        PROVE  n + 1 \in S
    <3>1. n + 1 \in 1 .. N /\ n + 1 \in 0 .. N /\ (n + 1) - 1 = n /\ g[n] \in Seq(Char)
      BY <1>1, <2>2
    <3>2. g[n + 1] = g[n] \o TextIn(d[n + 1]) /\ TextIn(d[n + 1]) \in Seq(Char)
      BY <1>1, <1>8, <3>1
    <3>3. g[n + 1] \in Seq(Char)
      BY <3>1, <3>2
    <3> QED
      BY <3>1, <3>3
  <2> QED
    BY <2>1, <2>2 DEF Inductive
<1>10. \A n \in 0 .. N : g[n] \in Seq(Char)
  <2> HIDE DEF S
  <2>1. \A n \in 0 .. N : n \in S
    BY <1>1, <1>9, InductionTo
  <2> QED
    BY <2>1 DEF S
<1> QED
  BY <1>8, <1>10 DEF g, N

LEMMA BeginsOn ==
    ASSUME NEW s \in Seq(Char), NEW t \in Seq(Char), NEW u \in Seq(Char), Begins(s, t)
    PROVE  Begins(s, t \o u)
<1>1. Len(t \o u) = Len(t) + Len(u) /\ \A i \in 1 .. Len(t) : (t \o u)[i] = t[i]
  OBVIOUS
<1> QED
  BY <1>1 DEF Begins

(* What was read is the beginning of the text. *)
LEMMA TextToBegins ==
    ASSUME NEW d \in Seq(Item), NEW n \in 0 .. Len(d)
    PROVE  Begins(TextTo(d)[n], AllText(d))
<1> DEFINE N == Len(d)
           T == TextTo(d)
           S == {m \in 0 .. N : n <= m => Begins(T[n], T[m])}
<1>1. N \in Nat /\ n \in 0 .. N
  OBVIOUS
<1>2. /\ \A m \in 1 .. N : T[m] = T[m - 1] \o TextIn(d[m])
      /\ \A m \in 0 .. N : T[m] \in Seq(Char)
      /\ \A m \in 1 .. N : TextIn(d[m]) \in Seq(Char)
  <2>1. \A m \in 1 .. N : d[m] \in Item
    OBVIOUS
  <2> QED
    BY <2>1, TextToIs, TextInItem
<1> HIDE DEF N, T
<1>3. Inductive(S, N)
  <2>1. 0 \in S
    <3>1. T[n] \in Seq(Char)
      BY <1>1, <1>2
    <3>2. n <= 0 => n = 0
      BY <1>1
    <3> QED
      BY <1>1, <3>1, <3>2 DEF Begins
  <2>2. ASSUME NEW m \in 0 .. N - 1, m \in S
        PROVE  m + 1 \in S
    <3>1. m + 1 \in 1 .. N /\ m + 1 \in 0 .. N /\ m \in 0 .. N /\ (m + 1) - 1 = m
      BY <1>1
    <3>2. T[m] \in Seq(Char) /\ T[n] \in Seq(Char) /\ T[m + 1] \in Seq(Char) /\ TextIn(d[m + 1]) \in Seq(Char)
          /\ T[m + 1] = T[m] \o TextIn(d[m + 1])
      BY <1>1, <1>2, <3>1
    <3>3. CASE n <= m
      <4>1. Begins(T[n], T[m])
        BY <2>2, <3>3
      <4>2. Begins(T[n], T[m + 1])
        BY <3>2, <4>1, BeginsOn
      <4> QED
        BY <3>1, <4>2
    <3>4. CASE ~(n <= m)
      <4>1. n <= m + 1 => n = m + 1
        BY <1>1, <3>1, <3>4
      <4>2. Begins(T[m + 1], T[m + 1])
        BY <3>2 DEF Begins
      <4> QED
        BY <3>1, <4>1, <4>2
    <3> QED
      BY <3>3, <3>4
  <2> QED
    BY <2>1, <2>2 DEF Inductive
<1>4. N \in S
  <2> HIDE DEF S
  <2> QED
    BY <1>1, <1>3, InductionTo
<1> QED
  BY <1>1, <1>4 DEF AllText, N, T

-----------------------------------------------------------------------------
(***************************************************************************)
(* The inductive invariant.                                                *)
(***************************************************************************)
Read == [c : Char, at : Nat]
Reading == {"need_text", "have_text", "end_paragraph", "end"}

(* What was read is the beginning of the document: the item that is read is *)
(* where it is in the text, and no item ends inside of a token.             *)
InputInv(d) ==
    /\ document = d
    /\ delivered \in 0 .. Len(d)
    /\ content \in Seq(Char) /\ base \in Nat
    /\ content # <<>> => ~Interrupted(content)
    /\ mReaderState = "have_text" => content # <<>>
    /\ base + Len(content) = Len(TextTo(d)[delivered])
    /\ base + Len(content) <= Len(AllText(d))
    /\ \A i \in 1 .. Len(content) : content[i] = AllText(d)[base + i]
    /\ mCurrent \in 1 .. Len(content) + 1
    /\ mReaderState \in Reading
    /\ mReaderState # "have_text" => mCurrent = Len(content) + 1
    /\ mMatchLast = base + mCurrent - 1
    /\ mReaderState = "end" => delivered = Len(d) /\ mMatchCurrent = 0

(* The state is one that the character before leads to, and where it is not *)
(* an end state the two characters before join.                             *)
Before == Category[content[mCurrent - 1]]
MachineInv ==
    /\ mState \in States
    /\ mCurrent > 1 => /\ mState \in {"L1", "L2", "L3", "L4", "L5", "L6"} => Before \in Letters
                       /\ mState = "P1" => Before \in Punctuation
                       /\ mState \in {"H1", "H2", "H4", "H6"} => Before \in {"HM", "SH"}
    /\ mState \notin Terminal \cup Advancing => mCurrent > 1 /\ JoinsAt(content, mCurrent - 1)
    /\ current_script # "Zzzz" => mState = "L7"

(* The first n characters of a memory are from the text between next and    *)
(* last, in their order, and every character there that is to be in a token *)
(* is one of them.                                                          *)
Holds(text, memory, n, next, last) ==
    /\ n \in 0 .. Len(memory)
    /\ next \in Nat /\ last \in Nat /\ next <= last /\ last <= Len(text)
    /\ \A i \in 1 .. n : IsFrom(text, memory[i]) /\ memory[i].at \in next + 1 .. last
    /\ \A i, j \in 1 .. n : i < j => memory[i].at < memory[j].at
    /\ \A p \in next + 1 .. last : Visible(text[p]) => \E i \in 1 .. n : memory[i].at = p

MatchInv(text) ==
    /\ mMatchBuffer \in Seq(Read)
    /\ Holds(text, mMatchBuffer, mMatchCurrent, mMatchNext, mMatchLast)
    /\ mState \in Advancing => mMatchCurrent = 0 /\ mMatchNext = mMatchLast /\ ~saved.have

(* What the token may go back to holds as well. *)
SavedType == [have : BOOLEAN, state : States, current : Nat, match : Nat, last : Nat]
SavedInv(text) ==
    /\ saved \in SavedType
    /\ mState \notin Advancing =>
           /\ Holds(text, mMatchBuffer, saved.match + 1, mMatchNext, saved.last + 1)
           /\ saved.match + 1 <= mMatchCurrent /\ saved.last + 1 <= mMatchLast
           /\ mReaderState = "have_text" => /\ saved.last + 1 = base + saved.current - 1
                                            /\ saved.current \in 1 .. mCurrent
    /\ mState \in Terminal =>
           /\ saved.match + 1 = mMatchCurrent /\ saved.last + 1 = mMatchLast
           /\ saved.have \/ (mReaderState = "have_text" /\ mCurrent = 1)

(* The tokens are of the text, one after the other, and all that is to be in *)
(* a token and was passed over is in one.                                    *)
TokenTypes == {value(s) : s \in States} \cup {"paragraph"}
Token == [type : TokenTypes, state : States \cup {"end"}, next : Nat, last : Nat, text : Seq(Read)]
TokensInv(text) ==
    /\ tokens \in Seq(Token)
    /\ \A k \in DOMAIN tokens : IsOfText(text, tokens[k]) /\ tokens[k].last <= mMatchNext
    /\ \A j, k \in DOMAIN tokens : j < k => tokens[j].last <= tokens[k].next
    /\ \A p \in 1 .. mMatchNext : Visible(text[p]) => \E k \in DOMAIN tokens : p \in Positions(tokens[k])

TextInv(d) ==
    /\ InputInv(d) /\ MachineInv
    /\ MatchInv(AllText(d)) /\ SavedInv(AllText(d)) /\ TokensInv(AllText(d))

-----------------------------------------------------------------------------
(* What a memory holds.                                                    *)

LEMMA PutIs ==
    ASSUME NEW memory \in Seq(Read), NEW n \in 0 .. Len(memory), NEW e \in Read
    PROVE  /\ Put(memory, n + 1, e) \in Seq(Read)
           /\ n + 1 \in 1 .. Len(Put(memory, n + 1, e))
           /\ Put(memory, n + 1, e)[n + 1] = e
           /\ \A i \in 1 .. n : Put(memory, n + 1, e)[i] = memory[i]
<1>1. Len(memory) \in Nat /\ DOMAIN memory = 1 .. Len(memory) /\ n \in Nat /\ n <= Len(memory)
  OBVIOUS
<1>2. CASE n + 1 \in DOMAIN memory
  <2>1. Put(memory, n + 1, e) = [memory EXCEPT ![n + 1] = e]
    BY <1>2 DEF Put
  <2>2. [memory EXCEPT ![n + 1] = e] \in Seq(Read) /\ Len([memory EXCEPT ![n + 1] = e]) = Len(memory)
    BY <1>1, <1>2
  <2>3. [memory EXCEPT ![n + 1] = e][n + 1] = e /\ \A i \in 1 .. n : [memory EXCEPT ![n + 1] = e][i] = memory[i]
    BY <1>1, <1>2
  <2>4. n + 1 \in 1 .. Len(memory)
    BY <1>1, <1>2
  <2> QED
    BY <2>1, <2>2, <2>3, <2>4
<1>3. CASE n + 1 \notin DOMAIN memory
  <2>1. Put(memory, n + 1, e) = Append(memory, e)
    BY <1>3 DEF Put
  <2>2. n = Len(memory)
    <3>1. n + 1 \notin 1 .. Len(memory)
      BY <1>1, <1>3
    <3>2. PICK l \in Nat : l = Len(memory)
      BY <1>1
    <3>3. n \in Nat /\ n <= l /\ n + 1 \notin 1 .. l
      BY <1>1, <3>1, <3>2
    <3>4. n = l
      BY <3>3
    <3> QED
      BY <3>2, <3>4
  <2>3. /\ Append(memory, e) \in Seq(Read) /\ Len(Append(memory, e)) = n + 1 /\ Append(memory, e)[n + 1] = e
        /\ \A i \in 1 .. n : Append(memory, e)[i] = memory[i]
    BY <1>1, <2>2
  <2> QED
    BY <1>1, <2>1, <2>3
<1> QED
  BY <1>2, <1>3

(* A character that is written is held, and what was held before as well. *)
LEMMA HoldsWritten ==
    ASSUME NEW text \in Seq(Char), NEW memory \in Seq(Read), NEW n, NEW next, NEW last,
           Holds(text, memory, n, next, last),
           NEW e \in Read, e.at = last + 1, IsFrom(text, e)
    PROVE  Holds(text, Put(memory, n + 1, e), n + 1, next, last + 1)
<1> DEFINE m == Put(memory, n + 1, e)
<1>1. /\ n \in 0 .. Len(memory) /\ Len(memory) \in Nat /\ n \in Nat
      /\ next \in Nat /\ last \in Nat /\ next <= last /\ last <= Len(text)
      /\ \A i \in 1 .. n : IsFrom(text, memory[i]) /\ memory[i].at \in next + 1 .. last
      /\ \A i, j \in 1 .. n : i < j => memory[i].at < memory[j].at
      /\ \A p \in next + 1 .. last : Visible(text[p]) => \E i \in 1 .. n : memory[i].at = p
  BY DEF Holds
<1>2. m \in Seq(Read) /\ n + 1 \in 1 .. Len(m) /\ m[n + 1] = e /\ \A i \in 1 .. n : m[i] = memory[i]
  <2>1. n \in 0 .. Len(memory)
    BY <1>1
  <2>2. /\ Put(memory, n + 1, e) \in Seq(Read)
        /\ n + 1 \in 1 .. Len(Put(memory, n + 1, e))
        /\ Put(memory, n + 1, e)[n + 1] = e
        /\ \A i \in 1 .. n : Put(memory, n + 1, e)[i] = memory[i]
    BY <2>1, PutIs
  <2> QED
    BY <2>2
<1> HIDE DEF m
<1>3. last + 1 <= Len(text) /\ Len(text) \in Nat
  BY DEF IsFrom
<1>4. ASSUME NEW i \in 1 .. n + 1
      PROVE  IsFrom(text, m[i]) /\ m[i].at \in next + 1 .. last + 1
  <2>1. CASE i = n + 1
    BY <1>1, <1>2, <2>1
  <2>2. CASE i # n + 1
    <3>1. i \in 1 .. n
      BY <1>1, <2>2
    <3>2. m[i] = memory[i] /\ IsFrom(text, memory[i]) /\ memory[i].at \in next + 1 .. last
      BY <1>1, <1>2, <3>1
    <3> QED
      BY <1>1, <3>2
  <2> QED
    BY <2>1, <2>2
<1>5. ASSUME NEW i \in 1 .. n + 1, NEW j \in 1 .. n + 1, i < j
      PROVE  m[i].at < m[j].at
  <2>1. i \in 1 .. n /\ m[i] = memory[i] /\ memory[i].at \in next + 1 .. last
    BY <1>1, <1>2, <1>5
  <2>2. CASE j = n + 1
    BY <1>1, <1>2, <2>1, <2>2
  <2>3. CASE j # n + 1
    <3>1. j \in 1 .. n /\ m[j] = memory[j]
      BY <1>1, <1>2, <2>3
    <3> QED
      BY <1>1, <1>5, <2>1, <3>1
  <2> QED
    BY <2>2, <2>3
<1>6. ASSUME NEW p \in next + 1 .. last + 1, Visible(text[p])
      PROVE  \E i \in 1 .. n + 1 : m[i].at = p
  <2>1. CASE p = last + 1
    <3>1. m[n + 1].at = p /\ n + 1 \in 1 .. n + 1
      BY <1>1, <1>2, <2>1
    <3> QED
      BY <3>1
  <2>2. CASE p # last + 1
    <3>1. p \in next + 1 .. last
      BY <1>1, <2>2
    <3>2. PICK i \in 1 .. n : memory[i].at = p
      BY <1>1, <1>6, <3>1
    <3>3. i \in 1 .. n + 1 /\ m[i].at = p
      BY <1>1, <1>2, <3>2
    <3> QED
      BY <3>3
  <2> QED
    BY <2>1, <2>2
<1>7. n + 1 \in 0 .. Len(m) /\ next <= last + 1 /\ last + 1 \in Nat
  BY <1>1, <1>2
<1> QED
  BY <1>1, <1>3, <1>4, <1>5, <1>6, <1>7 DEF Holds, m

(* A character that is to be in no token is passed over. *)
LEMMA HoldsPassed ==
    ASSUME NEW text \in Seq(Char), NEW memory \in Seq(Read), NEW n, NEW next, NEW last,
           Holds(text, memory, n, next, last),
           last + 1 <= Len(text), ~Visible(text[last + 1])
    PROVE  Holds(text, memory, n, next, last + 1)
<1>1. /\ next \in Nat /\ last \in Nat /\ next <= last /\ Len(text) \in Nat
      /\ \A i \in 1 .. n : IsFrom(text, memory[i]) /\ memory[i].at \in next + 1 .. last
      /\ \A p \in next + 1 .. last : Visible(text[p]) => \E i \in 1 .. n : memory[i].at = p
  BY DEF Holds
<1>2. \A i \in 1 .. n : memory[i].at \in next + 1 .. last + 1
  BY <1>1
<1>3. \A p \in next + 1 .. last + 1 : Visible(text[p]) => p \in next + 1 .. last
  BY <1>1
<1> QED
  BY <1>1, <1>2, <1>3 DEF Holds

(* What is written behind what is held does not change it. *)
LEMMA HoldsBefore ==
    ASSUME NEW text \in Seq(Char), NEW memory \in Seq(Read), NEW n, NEW next, NEW last,
           Holds(text, memory, n, next, last),
           NEW k \in 0 .. Len(memory), n <= k, NEW e \in Read
    PROVE  Holds(text, Put(memory, k + 1, e), n, next, last)
<1> DEFINE m == Put(memory, k + 1, e)
<1>1. n \in 0 .. Len(memory) /\ Len(memory) \in Nat /\ k \in Nat
  BY DEF Holds
<1>2. m \in Seq(Read) /\ k + 1 \in 1 .. Len(m) /\ \A i \in 1 .. k : m[i] = memory[i]
  BY PutIs
<1> HIDE DEF m
<1>3. n \in 0 .. Len(m) /\ \A i \in 1 .. n : m[i] = memory[i]
  BY <1>1, <1>2
<1> QED
  BY <1>3 DEF Holds, m

(* Nothing is held between a place and itself. *)
LEMMA HoldsNothing ==
    ASSUME NEW text \in Seq(Char), NEW memory \in Seq(Read), NEW last \in Nat, last <= Len(text)
    PROVE  Holds(text, memory, 0, last, last)
<1>1. 0 \in 0 .. Len(memory) /\ 1 .. 0 = {} /\ last + 1 .. last = {}
  OBVIOUS
<1> QED
  BY <1>1 DEF Holds

-----------------------------------------------------------------------------
(* Tokens.                                                                 *)

(* A token of what is held is of the text. *)
LEMMA HeldIsOfText ==
    ASSUME NEW text \in Seq(Char), NEW token \in Token,
           Holds(text, token.text, Len(token.text), token.next, token.last)
    PROVE  IsOfText(text, token)
<1>1. token.text \in Seq(Read) /\ DOMAIN token.text = 1 .. Len(token.text)
  BY DEF Token
<1> QED
  BY <1>1 DEF Holds, IsOfText

(* Such a token, behind the others, leaves out nothing. *)
LEMMA TokenAdded ==
    ASSUME NEW text \in Seq(Char), TokensInv(text), NEW token \in Token,
           Holds(text, token.text, Len(token.text), token.next, token.last), token.next = mMatchNext,
           tokens' = Append(tokens, token), mMatchNext' = token.last
    PROVE  TokensInv(text)'
<1> DEFINE n == Len(tokens)
<1>1. /\ tokens \in Seq(Token) /\ n \in Nat /\ DOMAIN tokens = 1 .. n
      /\ \A k \in 1 .. n : tokens[k] \in Token
  BY DEF TokensInv
<1>2. /\ \A k \in 1 .. n : IsOfText(text, tokens[k]) /\ tokens[k].last <= mMatchNext
      /\ \A j, k \in 1 .. n : j < k => tokens[j].last <= tokens[k].next
      /\ \A p \in 1 .. mMatchNext : Visible(text[p]) => \E k \in 1 .. n : p \in Positions(tokens[k])
  BY <1>1 DEF TokensInv
<1>3. /\ mMatchNext \in Nat /\ token.last \in Nat /\ mMatchNext <= token.last
      /\ \A p \in mMatchNext + 1 .. token.last : Visible(text[p]) => \E i \in 1 .. Len(token.text) : token.text[i].at = p
  BY DEF Holds
<1>4. /\ tokens' \in Seq(Token) /\ Len(tokens') = n + 1 /\ DOMAIN tokens' = 1 .. n + 1
      /\ tokens'[n + 1] = token /\ \A k \in 1 .. n : tokens'[k] = tokens[k]
  BY <1>1
<1>5. \A k \in 1 .. n : tokens[k].last \in Nat
  BY <1>1 DEF Token
<1> HIDE DEF n
<1>6. ASSUME NEW k \in 1 .. n + 1
      PROVE  IsOfText(text, tokens'[k]) /\ tokens'[k].last <= token.last
  <2>1. CASE k = n + 1
    BY <1>3, <1>4, <2>1, HeldIsOfText
  <2>2. CASE k # n + 1
    <3>1. k \in 1 .. n
      BY <1>1, <2>2
    <3> QED
      BY <1>2, <1>3, <1>4, <1>5, <3>1
  <2> QED
    BY <2>1, <2>2
<1>7. ASSUME NEW j \in 1 .. n + 1, NEW k \in 1 .. n + 1, j < k
      PROVE  tokens'[j].last <= tokens'[k].next
  <2>1. j \in 1 .. n
    BY <1>1, <1>7
  <2>2. CASE k = n + 1
    BY <1>2, <1>4, <2>1, <2>2
  <2>3. CASE k # n + 1
    <3>1. k \in 1 .. n
      BY <1>1, <2>3
    <3> QED
      BY <1>2, <1>4, <1>7, <2>1, <3>1
  <2> QED
    BY <2>2, <2>3
<1>8. ASSUME NEW p \in 1 .. token.last, Visible(text[p])
      PROVE  \E k \in 1 .. n + 1 : p \in Positions(tokens'[k])
  <2>1. CASE p <= mMatchNext
    <3>1. p \in 1 .. mMatchNext
      BY <1>3, <2>1
    <3>2. PICK k \in 1 .. n : p \in Positions(tokens[k])
      BY <1>2, <1>8, <3>1
    <3>3. k \in 1 .. n + 1 /\ p \in Positions(tokens'[k])
      BY <1>1, <1>4, <3>2
    <3> QED
      BY <3>3
  <2>2. CASE ~(p <= mMatchNext)
    <3>1. p \in mMatchNext + 1 .. token.last
      BY <1>3, <2>2
    <3>2. PICK i \in 1 .. Len(token.text) : token.text[i].at = p
      BY <1>3, <1>8, <3>1
    <3>3. DOMAIN token.text = 1 .. Len(token.text)
      BY DEF Token
    <3>4. p \in Positions(token)
      BY <3>2, <3>3 DEF Positions
    <3>5. n + 1 \in 1 .. n + 1 /\ p \in Positions(tokens'[n + 1])
      BY <1>1, <1>4, <3>4
    <3> QED
      BY <3>5
  <2> QED
    BY <2>1, <2>2
<1> QED
  BY <1>4, <1>6, <1>7, <1>8 DEF TokensInv

(* What a token is matched of is held, and so is the token. *)
LEMMA MatchedTokens ==
    ASSUME NEW text \in Seq(Char), TokensInv(text), NEW memory \in Seq(Read), NEW n, NEW state \in States, NEW last,
           Holds(text, memory, n, mMatchNext, last), Matched(memory, n, state, last)
    PROVE  TokensInv(text)'
<1> DEFINE of == [i \in 1 .. n |-> IF i \in DOMAIN memory THEN memory[i] ELSE [c |-> "?", at |-> 0]]
           token == [type |-> value(state), state |-> state, next |-> mMatchNext, last |-> last, text |-> of]
<1>1. n \in 0 .. Len(memory) /\ Len(memory) \in Nat /\ mMatchNext \in Nat /\ last \in Nat
  BY DEF Holds
<1>2. of \in Seq(Read) /\ Len(of) = n /\ \A i \in 1 .. n : of[i] = memory[i]
  <2>1. \A i \in 1 .. n : i \in DOMAIN memory /\ memory[i] \in Read
    BY <1>1
  <2>2. of \in [1 .. n -> Read]
    BY <2>1
  <2>3. \A i \in 1 .. n : of[i] = memory[i]
    BY <2>1
  <2> HIDE DEF of
  <2> QED
    BY <1>1, <2>2, <2>3
<1>3. tokens' = Append(tokens, token) /\ mMatchNext' = last
  BY DEF Matched
<1> HIDE DEF of
<1>4. token \in Token
  <2>1. value(state) \in TokenTypes
    BY DEF TokenTypes
  <2> QED
    BY <1>1, <1>2, <2>1 DEF Token
<1>5. token.text = of /\ token.next = mMatchNext /\ token.last = last
  OBVIOUS
<1> HIDE DEF token
<1>6. Holds(text, of, n, mMatchNext, last)
  <2>1. n \in 0 .. Len(of)
    BY <1>1, <1>2
  <2>2. /\ \A i \in 1 .. n : IsFrom(text, memory[i]) /\ memory[i].at \in mMatchNext + 1 .. last
        /\ \A i, j \in 1 .. n : i < j => memory[i].at < memory[j].at
        /\ \A p \in mMatchNext + 1 .. last : Visible(text[p]) => \E i \in 1 .. n : memory[i].at = p
        /\ mMatchNext <= last /\ last <= Len(text)
    BY DEF Holds
  <2>3. \A i \in 1 .. n : IsFrom(text, of[i]) /\ of[i].at \in mMatchNext + 1 .. last
    BY <1>2, <2>2
  <2>4. \A i, j \in 1 .. n : i < j => of[i].at < of[j].at
    BY <1>2, <2>2
  <2>5. \A p \in mMatchNext + 1 .. last : Visible(text[p]) => \E i \in 1 .. n : of[i].at = p
    BY <1>2, <2>2
  <2> QED
    BY <1>1, <2>1, <2>2, <2>3, <2>4, <2>5 DEF Holds
<1> QED
  BY <1>2, <1>3, <1>4, <1>5, <1>6, TokenAdded

-----------------------------------------------------------------------------
(* The steps.                                                              *)

LEMMA AllTextType ==
    ASSUME NEW d \in Seq(Item)
    PROVE  AllText(d) \in Seq(Char) /\ Len(AllText(d)) \in Nat
<1>1. Len(d) \in 0 .. Len(d)
  OBVIOUS
<1>2. AllText(d) \in Seq(Char)
  BY <1>1, TextToIs DEF AllText
<1> QED
  BY <1>2

LEMMA TextInitInv ==
    ASSUME NEW d \in Seq(Item), TextInit(d)
    PROVE  TextInv(d)
<1> USE DEF TextInit
<1>1. Len(d) \in Nat /\ Len(AllText(d)) \in Nat /\ AllText(d) \in Seq(Char) /\ TextTo(d)[0] = <<>>
  <2>1. Len(d) \in Nat
    OBVIOUS
  <2> QED
    BY <2>1, AllTextType, TextToIs
<1>2. InputInv(d)
  <2>1. content = <<>> /\ Len(content) = 0 /\ content \in Seq(Char) /\ Len(TextTo(d)[0]) = 0
    BY <1>1
  <2> QED
    BY <1>1, <2>1 DEF InputInv, Reading
<1>3. MachineInv
  BY DEF MachineInv, States, Advancing, Terminal
<1>4. MatchInv(AllText(d))
  <2>1. Holds(AllText(d), <<>>, 0, 0, 0)
    <3>1. <<>> \in Seq(Read)
      OBVIOUS
    <3>2. 0 \in Nat /\ 0 <= Len(AllText(d))
      BY <1>1
    <3> QED
      BY <1>1, <3>1, <3>2, HoldsNothing
  <2> QED
    BY <2>1 DEF MatchInv
<1>5. SavedInv(AllText(d))
  BY DEF SavedInv, SavedType, States, Advancing, Terminal
<1>6. TokensInv(AllText(d))
  <2>1. tokens \in Seq(Token) /\ DOMAIN tokens = {} /\ 1 .. mMatchNext = {}
    OBVIOUS
  <2> QED
    BY <2>1 DEF TokensInv
<1> QED
  BY <1>2, <1>3, <1>4, <1>5, <1>6 DEF TextInv

(* What a match leaves, whatever it was made of. *)
LEMMA MatchedInv ==
    ASSUME NEW text \in Seq(Char), TokensInv(text), saved \in SavedType,
           NEW memory \in Seq(Read), NEW n, NEW state \in States, NEW last,
           Holds(text, memory, n, mMatchNext, last), Matched(memory, n, state, last)
    PROVE  /\ MachineInv' /\ MatchInv(text)' /\ SavedInv(text)' /\ TokensInv(text)'
           /\ mMatchLast' = last /\ mMatchCurrent' = 0
<1>1. /\ mMatchBuffer' = memory /\ mMatchCurrent' = 0 /\ mMatchNext' = last /\ mMatchLast' = last
      /\ saved' = [saved EXCEPT !.have = FALSE] /\ mState' = "S0" /\ current_script' = "Zzzz"
  BY DEF Matched
<1>2. last \in Nat /\ last <= Len(text)
  BY DEF Holds
<1>3. Holds(text, memory, 0, last, last)
  BY <1>2, HoldsNothing
<1>4. MatchInv(text)'
  <2>1. saved'.have = FALSE
    BY <1>1 DEF SavedType
  <2> QED
    BY <1>1, <1>3, <2>1 DEF MatchInv
<1>5. "S0" \in States /\ "S0" \in Advancing /\ "S0" \notin Terminal
  BY DEF States, Advancing, Terminal
<1>6. MachineInv'
  BY <1>1, <1>5 DEF MachineInv
<1>7. SavedInv(text)'
  <2>1. saved' \in SavedType
    BY <1>1 DEF SavedType
  <2> QED
    BY <1>1, <1>5, <2>1 DEF SavedInv
<1> QED
  BY <1>1, <1>4, <1>6, <1>7, MatchedTokens

(* Where no character is read the state is an end state or silent: no item  *)
(* ends inside of what may be a token.                                      *)
LEMMA AtItems ==
    ASSUME NEW d, InputInv(d), MachineInv, mReaderState # "have_text"
    PROVE  mState \in Terminal \cup Advancing
<1> SUFFICES ASSUME mState \notin Terminal \cup Advancing
             PROVE  FALSE
  OBVIOUS
<1>1. mCurrent > 1 /\ JoinsAt(content, mCurrent - 1)
  BY DEF MachineInv
<1>2. mCurrent = Len(content) + 1 /\ Len(content) \in Nat
  BY DEF InputInv
<1>3. content # <<>> /\ mCurrent - 1 = Len(content)
  BY <1>1, <1>2
<1>4. Interrupted(content)
  BY <1>1, <1>3 DEF Interrupted
<1> QED
  BY <1>3, <1>4 DEF InputInv

LEMMA ReadTextInv ==
    ASSUME NEW d \in Seq(Item), Whole(d), TextInv(d), ReadText
    PROVE  TextInv(d)'
<1> DEFINE t == AllText(d)
           T == TextTo(d)
<1>1. InputInv(d) /\ MachineInv /\ MatchInv(t) /\ SavedInv(t) /\ TokensInv(t)
  BY DEF TextInv
<1>2. /\ mReaderState = "need_text" /\ delivered < Len(d) /\ Event.type = "text" /\ document = d
      /\ base' = base + Len(content) /\ content' = Event.content /\ delivered' = delivered + 1
      /\ mCurrent' = 1 /\ mReaderState' = "have_text" /\ saved' = SavedForItem
      /\ UNCHANGED <<document, mState, mMatchBuffer, mMatchCurrent, mMatchNext, mMatchLast, current_script, tokens>>
  BY <1>1 DEF ReadText, InputInv
<1>3. /\ delivered \in 0 .. Len(d) /\ Len(d) \in Nat /\ Len(content) \in Nat /\ base \in Nat
      /\ base + Len(content) = Len(T[delivered]) /\ mCurrent = Len(content) + 1 /\ mMatchLast = base + mCurrent - 1
  BY <1>1, <1>2 DEF InputInv
<1>4. delivered + 1 \in 1 .. Len(d) /\ delivered + 1 \in 0 .. Len(d) /\ (delivered + 1) - 1 = delivered
  BY <1>2, <1>3
<1>5. mState \in Terminal \cup Advancing
  <2>1. mReaderState # "have_text"
    BY <1>2
  <2> QED
    BY <1>1, <2>1, AtItems
<1>6. content' \in Seq(Char) /\ ~Interrupted(content') /\ TextIn(d[delivered + 1]) = content'
  <2>1. d[delivered + 1] \in Item /\ d[delivered + 1].type = "text" /\ content' = d[delivered + 1].content
    BY <1>2, <1>4 DEF Event
  <2>2. delivered + 1 \in DOMAIN d
    BY <1>4
  <2>3. TextIn(d[delivered + 1]) = content'
    BY <2>1 DEF TextIn
  <2> QED
    BY <2>1, <2>2, <2>3, TextInItem DEF Whole
<1>7. content' # <<>> /\ Len(content') \in Nat
  BY <1>6 DEF Interrupted
<1>8. T[delivered + 1] = T[delivered] \o content' /\ T[delivered] \in Seq(Char) /\ Begins(T[delivered + 1], t)
  BY <1>3, <1>4, <1>6, TextToIs, TextToBegins
<1> HIDE DEF T, t
<1>9. /\ Len(T[delivered + 1]) = Len(T[delivered]) + Len(content')
      /\ \A i \in 1 .. Len(content') : T[delivered + 1][Len(T[delivered]) + i] = content'[i]
  BY <1>6, <1>8
<1>10. base' \in Nat /\ base' = Len(T[delivered]) /\ base' + Len(content') = Len(T[delivered + 1])
  <2>1. Len(T[delivered]) = base + Len(content)
    BY <1>3
  <2> QED
    BY <1>2, <1>3, <1>9, <2>1
<1>11. /\ base' + Len(content') <= Len(t)
       /\ \A i \in 1 .. Len(content') : content'[i] = t[base' + i]
  <2>1. Len(T[delivered + 1]) <= Len(t) /\ \A i \in 1 .. Len(T[delivered + 1]) : T[delivered + 1][i] = t[i]
    BY <1>8 DEF Begins
  <2>2. ASSUME NEW i \in 1 .. Len(content')
        PROVE  content'[i] = t[base' + i]
    <3>1. base' + i \in 1 .. Len(T[delivered + 1])
      BY <1>7, <1>10
    <3>2. T[delivered + 1][base' + i] = content'[i]
      BY <1>9, <1>10
    <3> QED
      BY <2>1, <3>1, <3>2
  <2> QED
    BY <1>10, <2>1, <2>2
<1>12. mMatchLast' = base' /\ mMatchLast = base'
  BY <1>2, <1>3
<1>13. InputInv(d)'
  <2>1. mCurrent' \in 1 .. Len(content') + 1
    BY <1>2, <1>7
  <2>2. mMatchLast' = base' + mCurrent' - 1
    BY <1>2, <1>10, <1>12
  <2> QED
    BY <1>2, <1>4, <1>6, <1>7, <1>10, <1>11, <2>1, <2>2 DEF InputInv, Reading, T, t
<1>14. MachineInv'
  BY <1>1, <1>2, <1>5 DEF MachineInv
<1>15. saved \in SavedType /\ mState \in States /\ mMatchCurrent \in Nat /\ mMatchLast \in Nat
  BY <1>1 DEF SavedInv, MachineInv, MatchInv, Holds
<1>16. /\ saved' \in SavedType /\ saved'.current = 1
       /\ saved.have => saved'.match = saved.match /\ saved'.last = saved.last
       /\ ~saved.have => ~saved'.have
  BY <1>2, <1>15 DEF SavedForItem, SavedType
<1>17. MatchInv(t)'
  BY <1>1, <1>2, <1>16 DEF MatchInv
<1>18. SavedInv(t)'
  <2>1. CASE mState \in Advancing
    <3>1. mState \notin Terminal
      BY <2>1 DEF Advancing, Terminal
    <3> QED
      BY <1>2, <1>16, <2>1, <3>1 DEF SavedInv
  <2>2. CASE mState \notin Advancing
    <3>1. mState \in Terminal
      BY <1>5, <2>2
    <3>2. saved.have /\ saved'.match = saved.match /\ saved'.last = saved.last
      BY <1>1, <1>2, <1>16, <3>1 DEF SavedInv
    <3>3. /\ Holds(t, mMatchBuffer, saved.match + 1, mMatchNext, saved.last + 1)
          /\ saved.match + 1 <= mMatchCurrent /\ saved.last + 1 <= mMatchLast
          /\ saved.match + 1 = mMatchCurrent /\ saved.last + 1 = mMatchLast
      BY <1>1, <2>2, <3>1 DEF SavedInv
    <3>4. saved'.last + 1 = base' + saved'.current - 1 /\ saved'.current \in 1 .. mCurrent'
      BY <1>2, <1>10, <1>12, <1>16, <3>2, <3>3
    <3> QED
      BY <1>2, <1>16, <3>2, <3>3, <3>4 DEF SavedInv
  <2> QED
    BY <2>1, <2>2
<1>19. TokensInv(t)'
  BY <1>1, <1>2 DEF TokensInv
<1> QED
  BY <1>13, <1>14, <1>17, <1>18, <1>19 DEF TextInv, t

LEMMA ReadOtherInv ==
    ASSUME NEW d \in Seq(Item), TextInv(d), ReadOther
    PROVE  TextInv(d)'
<1> DEFINE t == AllText(d)
<1>1. InputInv(d) /\ MachineInv /\ MatchInv(t) /\ SavedInv(t) /\ TokensInv(t)
  BY DEF TextInv
<1>2. /\ mReaderState = "need_text" /\ delivered < Len(d) /\ Event.type # "text" /\ document = d
      /\ delivered' = delivered + 1 /\ mReaderState' \in {"end_paragraph", "need_text"}
      /\ UNCHANGED <<document, content, base, mCurrent, matchVars>>
  BY <1>1 DEF ReadOther, InputInv
<1>3. delivered + 1 \in 1 .. Len(d) /\ delivered + 1 \in 0 .. Len(d) /\ (delivered + 1) - 1 = delivered /\ delivered \in 0 .. Len(d)
  BY <1>1, <1>2 DEF InputInv
<1>4. TextIn(d[delivered + 1]) = <<>>
  BY <1>2 DEF Event, TextIn
<1>5. Len(TextTo(d)[delivered + 1]) = Len(TextTo(d)[delivered])
  <2>1. TextTo(d)[delivered + 1] = TextTo(d)[delivered] \o <<>> /\ TextTo(d)[delivered] \in Seq(Char)
    BY <1>3, <1>4, TextToIs
  <2> QED
    BY <2>1
<1>6. InputInv(d)'
  BY <1>1, <1>2, <1>3, <1>5 DEF InputInv, Reading, matchVars
<1>7. MachineInv' /\ MatchInv(t)' /\ TokensInv(t)'
  <2>1. MachineInv'
    BY <1>1, <1>2 DEF MachineInv, Before, matchVars
  <2>2. MatchInv(t)'
    BY <1>1, <1>2 DEF MatchInv, matchVars
  <2>3. TokensInv(t)'
    BY <1>1, <1>2 DEF TokensInv, matchVars
  <2> QED
    BY <2>1, <2>2, <2>3
<1>8. SavedInv(t)'
  BY <1>1, <1>2 DEF SavedInv, matchVars
<1> QED
  BY <1>6, <1>7, <1>8 DEF TextInv

(* A match at the place where the reader is, of what is in the buffer.      *)
LEMMA MatchedHere ==
    ASSUME NEW d \in Seq(Item), TextInv(d), mReaderState # "end",
           Matched(mMatchBuffer, mMatchCurrent, mState, mMatchLast),
           UNCHANGED <<document, delivered, content, base, mCurrent, mReaderState>>
    PROVE  TextInv(d)'
<1> DEFINE t == AllText(d)
<1>1. InputInv(d) /\ MachineInv /\ MatchInv(t) /\ SavedInv(t) /\ TokensInv(t) /\ t \in Seq(Char)
  BY AllTextType DEF TextInv
<1>2. saved \in SavedType /\ mState \in States /\ mMatchBuffer \in Seq(Read)
      /\ Holds(t, mMatchBuffer, mMatchCurrent, mMatchNext, mMatchLast)
  BY <1>1 DEF SavedInv, MachineInv, MatchInv
<1> HIDE DEF t
<1>3. /\ MachineInv' /\ MatchInv(t)' /\ SavedInv(t)' /\ TokensInv(t)'
      /\ mMatchLast' = mMatchLast
  BY <1>1, <1>2, MatchedInv
<1>4. InputInv(d)'
  BY <1>1, <1>3 DEF InputInv
<1> QED
  BY <1>3, <1>4 DEF TextInv, t

LEMMA EndParagraphInv ==
    ASSUME NEW d \in Seq(Item), TextInv(d), EndParagraph
    PROVE  TextInv(d)'
<1> DEFINE t == AllText(d)
<1>1. CASE mState # "S0"
  <2>1. Matched(mMatchBuffer, mMatchCurrent, mState, mMatchLast) /\ mReaderState # "end"
    BY <1>1 DEF EndParagraph
  <2>2. UNCHANGED <<document, delivered, content, base, mCurrent, mReaderState>>
    BY <1>1 DEF EndParagraph
  <2> QED
    BY <2>1, <2>2, MatchedHere
<1>2. CASE mState = "S0"
  <2> DEFINE token == [type |-> "paragraph", state |-> "end", text |-> <<>>, next |-> mMatchNext, last |-> mMatchLast]
  <2>1. /\ mReaderState = "end_paragraph" /\ mReaderState' = "need_text"
        /\ tokens' = Append(tokens, token) /\ mMatchNext' = mMatchLast /\ current_script' = "Zzzz"
        /\ UNCHANGED <<document, delivered, content, base, mCurrent, mState, mMatchBuffer, mMatchCurrent, mMatchLast, saved>>
    BY <1>2 DEF EndParagraph
  <2>2. InputInv(d) /\ MachineInv /\ MatchInv(t) /\ SavedInv(t) /\ TokensInv(t) /\ t \in Seq(Char)
    BY AllTextType DEF TextInv
  <2>3. mState \in Advancing /\ mState \notin Terminal /\ mState \notin LetterStates \cup HyphenStates /\ mState # "P1" /\ mState # "L7"
    BY <1>2 DEF Advancing, Terminal, LetterStates, HyphenStates
  <2>4. mMatchCurrent = 0 /\ mMatchNext = mMatchLast /\ mMatchLast \in Nat /\ mMatchLast <= Len(t)
    BY <2>2, <2>3 DEF MatchInv, Holds
  <2> HIDE DEF t
  <2>5. TokensInv(t)'
    <3>1. token \in Token
      <4>1. "paragraph" \in TokenTypes /\ <<>> \in Seq(Read)
        BY DEF TokenTypes
      <4> QED
        BY <2>4, <4>1 DEF Token
    <3>2. token.text = <<>> /\ token.next = mMatchNext /\ token.last = mMatchLast /\ Len(token.text) = 0
      OBVIOUS
    <3>3. Holds(t, token.text, Len(token.text), token.next, token.last)
      <4>1. <<>> \in Seq(Read)
        OBVIOUS
      <4>2. Holds(t, <<>>, 0, mMatchLast, mMatchLast)
        BY <2>2, <2>4, <4>1, HoldsNothing
      <4> QED
        BY <2>4, <3>2, <4>2
    <3> HIDE DEF token
    <3> QED
      BY <2>1, <2>2, <3>1, <3>2, <3>3, TokenAdded
  <2>6. InputInv(d)'
    BY <2>1, <2>2 DEF InputInv, Reading
  <2>7. MachineInv'
    BY <2>1, <2>2, <2>3 DEF MachineInv, Before
  <2>8. MatchInv(t)'
    BY <2>1, <2>2, <2>3, <2>4 DEF MatchInv
  <2>9. SavedInv(t)'
    BY <2>1, <2>2, <2>3 DEF SavedInv
  <2> QED
    BY <2>5, <2>6, <2>7, <2>8, <2>9 DEF TextInv, t
<1> QED
  BY <1>1, <1>2

LEMMA EndOfTextInv ==
    ASSUME NEW d \in Seq(Item), TextInv(d), EndOfText
    PROVE  TextInv(d)'
<1> DEFINE t == AllText(d)
<1>1. CASE mMatchCurrent # 0
  <2>1. Matched(mMatchBuffer, mMatchCurrent, mState, mMatchLast) /\ mReaderState # "end"
    BY <1>1 DEF EndOfText
  <2>2. UNCHANGED <<document, delivered, content, base, mCurrent, mReaderState>>
    BY <1>1 DEF EndOfText
  <2> QED
    BY <2>1, <2>2, MatchedHere
<1>2. CASE mMatchCurrent = 0
  <2>1. /\ mReaderState = "need_text" /\ mReaderState' = "end" /\ delivered = Len(document)
        /\ UNCHANGED <<document, delivered, content, base, mCurrent, matchVars>>
    BY <1>2 DEF EndOfText
  <2>2. InputInv(d) /\ MachineInv /\ MatchInv(t) /\ SavedInv(t) /\ TokensInv(t)
    BY DEF TextInv
  <2>3. InputInv(d)'
    BY <1>2, <2>1, <2>2 DEF InputInv, Reading, matchVars
  <2>4. MachineInv'
    BY <2>1, <2>2 DEF MachineInv, Before, matchVars
  <2>5. MatchInv(t)'
    BY <2>1, <2>2 DEF MatchInv, matchVars
  <2>6. SavedInv(t)'
    BY <2>1, <2>2 DEF SavedInv, matchVars
  <2>7. TokensInv(t)'
    BY <2>1, <2>2 DEF TokensInv, matchVars
  <2> QED
    BY <2>3, <2>4, <2>5, <2>6, <2>7 DEF TextInv
<1> QED
  BY <1>1, <1>2

LEMMA EndOfContentInv ==
    ASSUME NEW d \in Seq(Item), TextInv(d), EndOfContent
    PROVE  TextInv(d)'
<1> DEFINE t == AllText(d)
<1>1. /\ mReaderState = "have_text" /\ mCurrent > Len(content) /\ mReaderState' = "need_text" /\ current_script' = "Zzzz"
      /\ UNCHANGED <<document, delivered, content, base, mCurrent, mState, mMatchBuffer, mMatchCurrent, mMatchNext, mMatchLast,
                     saved, tokens>>
  BY DEF EndOfContent
<1>2. InputInv(d) /\ MachineInv /\ MatchInv(t) /\ SavedInv(t) /\ TokensInv(t)
  BY DEF TextInv
<1>3. mCurrent = Len(content) + 1 /\ Len(content) \in Nat /\ content # <<>> /\ content \in Seq(Char)
  BY <1>1, <1>2 DEF InputInv
<1>4. mCurrent # 1
  BY <1>3
<1>5. InputInv(d)'
  BY <1>1, <1>2, <1>3 DEF InputInv, Reading
<1>6. MachineInv'
  BY <1>1, <1>2 DEF MachineInv, Before
<1>7. MatchInv(t)'
  BY <1>1, <1>2 DEF MatchInv
<1>8. SavedInv(t)'
  BY <1>1, <1>2, <1>4 DEF SavedInv
<1>9. TokensInv(t)'
  BY <1>1, <1>2 DEF TokensInv
<1> QED
  BY <1>5, <1>6, <1>7, <1>8, <1>9 DEF TextInv

(* The character that is read is the one of the text behind mMatchLast.     *)
LEMMA CodepointFacts ==
    ASSUME NEW d \in Seq(Item), InputInv(d), MachineInv, mCurrent <= Len(content)
    PROVE  /\ Codepoint \in Char /\ Codepoint = AllText(d)[mMatchLast + 1]
           /\ mMatchLast + 1 = base + mCurrent /\ mMatchLast + 1 \in 1 .. Len(AllText(d))
           /\ Category[Codepoint] \in Languages /\ Language \in Languages
<1>1. /\ mCurrent \in 1 .. Len(content) + 1 /\ Len(content) \in Nat /\ base \in Nat /\ content \in Seq(Char)
      /\ mMatchLast = base + mCurrent - 1 /\ base + Len(content) <= Len(AllText(d))
      /\ \A i \in 1 .. Len(content) : content[i] = AllText(d)[base + i]
  BY DEF InputInv
<1>2. mCurrent \in 1 .. Len(content) /\ Len(AllText(d)) \in Nat
  BY <1>1, AllTextType
<1>3. content[mCurrent] \in Char /\ content[mCurrent] = AllText(d)[base + mCurrent]
  BY <1>1, <1>2
<1>4. mMatchLast + 1 = base + mCurrent /\ mMatchLast + 1 \in 1 .. Len(AllText(d))
  BY <1>1, <1>2
<1>5. Category[Codepoint] \in Languages
  BY <1>3, TextAssumption DEF Codepoint
<1>6. "Cc" \in Languages
  BY DEF Languages, Spaces
<1> QED
  BY <1>3, <1>4, <1>5, <1>6 DEF Codepoint, Language

LEMMA EndTokenInv ==
    ASSUME NEW d \in Seq(Item), TextInv(d), EndToken
    PROVE  TextInv(d)'
<1> DEFINE t == AllText(d)
<1>1. InputInv(d) /\ MachineInv /\ MatchInv(t) /\ SavedInv(t) /\ TokensInv(t) /\ t \in Seq(Char)
  BY AllTextType DEF TextInv
<1>2. mReaderState = "have_text" /\ mCurrent <= Len(content) /\ transitions[mState][Language] = "terminal"
  BY DEF EndToken
<1>3. CASE mState \in Terminal
  <2>1. Matched(mMatchBuffer, mMatchCurrent, mState, mMatchLast) /\ mReaderState # "end"
    BY <1>2, <1>3 DEF EndToken
  <2>2. UNCHANGED <<document, delivered, content, base, mCurrent, mReaderState>>
    BY <1>3 DEF EndToken
  <2> QED
    BY <2>1, <2>2, MatchedHere
<1>4. CASE mState \notin Terminal
  <2>1. Matched(mMatchBuffer, saved.match + 1, saved.state, saved.last + 1)
    BY <1>4 DEF EndToken
  <2>2. mCurrent' = saved.current /\ UNCHANGED <<document, delivered, content, base, mReaderState>>
    BY <1>4 DEF EndToken
  <2>3. mState \notin Advancing
    <3>1. Language \in Languages
      BY <1>1, <1>2, CodepointFacts
    <3> QED
      BY <1>2, <3>1, AdvancingLeads
  <2>4. /\ saved \in SavedType /\ mMatchBuffer \in Seq(Read)
        /\ Holds(t, mMatchBuffer, saved.match + 1, mMatchNext, saved.last + 1)
        /\ saved.last + 1 = base + saved.current - 1 /\ saved.current \in 1 .. mCurrent
    BY <1>1, <1>2, <2>3 DEF SavedInv, MatchInv
  <2>5. saved.state \in States
    BY <2>4 DEF SavedType
  <2> HIDE DEF t
  <2>6. /\ MachineInv' /\ MatchInv(t)' /\ SavedInv(t)' /\ TokensInv(t)'
        /\ mMatchLast' = saved.last + 1
    BY <1>1, <2>1, <2>4, <2>5, MatchedInv
  <2>7. InputInv(d)'
    <3>1. mCurrent' \in 1 .. Len(content) + 1
      BY <1>1, <2>2, <2>4 DEF InputInv
    <3>2. mMatchLast' = base' + mCurrent' - 1
      BY <2>2, <2>4, <2>6
    <3> QED
      BY <1>1, <1>2, <2>2, <3>1, <3>2 DEF InputInv, t
  <2> QED
    BY <2>6, <2>7 DEF TextInv, t
<1> QED
  BY <1>3, <1>4

(* A step of the state machine, with the character where the reader is.     *)
StepsTo(e) ==
    /\ mReaderState = "have_text" /\ mCurrent <= Len(content)
    /\ e = transitions[mState][Language] /\ e # "terminal"
Used(e) == IF e \in Silent THEN mMatchCurrent ELSE mMatchCurrent + 1

LEMMA StepFacts ==
    ASSUME NEW d \in Seq(Item), InputInv(d), MachineInv, NEW e, StepsTo(e)
    PROVE  Language = Category[Codepoint] /\ Leads(mState, Category[Codepoint], e)
<1>1. Language \in Languages /\ mState \in States
  BY CodepointFacts DEF StepsTo, MachineInv
<1>2. Leads(mState, Language, e)
  BY <1>1, TransitionLeads DEF StepsTo
<1>3. ~ScriptChanged
  <2> SUFFICES ASSUME ScriptChanged
               PROVE  FALSE
    OBVIOUS
  <2>1. mState = "L7" /\ Language = "Cc"
    BY DEF MachineInv, ScriptChanged, Language
  <2> QED
    BY <1>2, <2>1, LedFrom
<1> QED
  BY <1>2, <1>3 DEF Language

(* What is written is held.                                                 *)
LEMMA StepHolds ==
    ASSUME NEW d \in Seq(Item), TextInv(d), NEW e, StepsTo(e)
    PROVE  /\ Written(e) \in Seq(Read)
           /\ Holds(AllText(d), Written(e), Used(e), mMatchNext, mMatchLast + 1)
<1> DEFINE t == AllText(d)
<1>1. InputInv(d) /\ MachineInv /\ MatchInv(t) /\ t \in Seq(Char)
  BY AllTextType DEF TextInv
<1>2. Leads(mState, Category[Codepoint], e)
  BY <1>1, StepFacts
<1>3. /\ Codepoint \in Char /\ Codepoint = t[mMatchLast + 1]
      /\ mMatchLast + 1 = base + mCurrent /\ mMatchLast + 1 \in 1 .. Len(t)
  BY <1>1, CodepointFacts DEF StepsTo
<1>4. mMatchBuffer \in Seq(Read) /\ Holds(t, mMatchBuffer, mMatchCurrent, mMatchNext, mMatchLast)
  BY <1>1 DEF MatchInv
<1> HIDE DEF t
<1>5. CASE e \in Silent
  <2>1. ~Visible(t[mMatchLast + 1])
    BY <1>2, <1>3, <1>5, LedBy DEF Visible
  <2>2. mMatchLast + 1 <= Len(t)
    BY <1>1, <1>3
  <2>3. Holds(t, mMatchBuffer, mMatchCurrent, mMatchNext, mMatchLast + 1)
    BY <1>1, <1>4, <2>1, <2>2, HoldsPassed
  <2> QED
    BY <1>4, <1>5, <2>3 DEF Written, Used, t
<1>6. CASE e \notin Silent
  <2> DEFINE char == Emitted(e)
  <2>1. char.at = mMatchLast + 1 /\ char.c = IF e \in WithQuote THEN "'" ELSE Lower[Codepoint]
    BY <1>3 DEF Emitted
  <2>2. char \in Read
    <3>1. base + mCurrent \in Nat
      BY <1>3
    <3>2. "'" \in Char /\ Lower[Codepoint] \in Char
      BY <1>3, TextAssumption
    <3> QED
      BY <3>1, <3>2 DEF Emitted, Read
  <2> HIDE DEF char
  <2>3. IsFrom(t, char)
    <3>1. e \in WithQuote => Category[t[mMatchLast + 1]] \in Quotes
      BY <1>2, <1>3, LedBy
    <3> QED
      BY <1>3, <2>1, <3>1 DEF IsFrom
  <2>4. Holds(t, Put(mMatchBuffer, mMatchCurrent + 1, char), mMatchCurrent + 1, mMatchNext, mMatchLast + 1)
    BY <1>1, <1>4, <2>1, <2>2, <2>3, HoldsWritten
  <2>5. Put(mMatchBuffer, mMatchCurrent + 1, char) \in Seq(Read)
    <3>1. mMatchCurrent \in 0 .. Len(mMatchBuffer)
      BY <1>4 DEF Holds
    <3> QED
      BY <1>4, <2>2, <3>1, PutIs
  <2>6. Written(e) = Put(mMatchBuffer, mMatchCurrent + 1, char) /\ Used(e) = mMatchCurrent + 1
    BY <1>6 DEF Written, Used, char
  <2> QED
    BY <2>4, <2>5, <2>6 DEF t
<1> QED
  BY <1>5, <1>6

(* The machine after a step.                                                *)
LEMMA StepMachine ==
    ASSUME NEW d \in Seq(Item), InputInv(d), MachineInv, NEW e, StepsTo(e),
           mState' = e, mCurrent' = mCurrent + 1, content' = content,
           current_script' = IF Category[Codepoint] = "Lo" THEN ScriptOf[Codepoint] ELSE current_script
    PROVE  MachineInv'
<1> DEFINE l == Category[Codepoint]
<1>1. Leads(mState, l, e) /\ l \in Languages
  BY StepFacts, CodepointFacts DEF StepsTo
<1>2. mCurrent \in Nat /\ mCurrent >= 1 /\ mCurrent' - 1 = mCurrent
  BY DEF InputInv
<1>3. Before' = l
  <2>1. Before' = Category[content'[mCurrent' - 1]]
    BY DEF Before
  <2> QED
    BY <1>2, <2>1 DEF Codepoint
<1>4. mCurrent > 1 => /\ mState \in LetterStates => Before \in Letters
                      /\ mState = "P1" => Before \in Punctuation
                      /\ mState \in HyphenStates => Before \in {"HM", "SH"}
  BY DEF MachineInv, LetterStates, HyphenStates
<1> HIDE DEF l
<1>5. /\ e \in LetterStates => l \in Letters
      /\ e = "P1" => l \in Punctuation
      /\ e \in HyphenStates => l \in {"HM", "SH"}
  BY <1>1, LedBy
<1>6. e \in States
  BY <1>1, LedFrom
<1>7. current_script' # "Zzzz" => e = "L7"
  <2>1. CASE l = "Lo"
    BY <1>1, <2>1, LedBy
  <2>2. CASE l # "Lo"
    <3>1. current_script' = current_script
      BY <2>2 DEF l
    <3>2. mState = "L7" => e = "L7"
      BY <1>1, LedFrom
    <3> QED
      BY <3>1, <3>2 DEF MachineInv
  <2> QED
    BY <2>1, <2>2
<1>8. ASSUME e \notin Terminal \cup Advancing
      PROVE  JoinsAt(content, mCurrent)
  <2> DEFINE befores == IF mCurrent = 1 THEN Languages ELSE {Category[content[mCurrent - 1]]}
  <2>1. e \in WithQuote \cup HyphenStates \cup {"H3", "H5", "P2"}
    BY <1>6, <1>8 DEF States, Advancing, WithQuote, WithHyphen, HyphenStates
  <2>2. \E before \in befores : Joins(before, l)
    <3>1. "Lu" \in Languages /\ "HM" \in Languages /\ Punctuation \subseteq Languages /\ "HM" \in Punctuation
      BY DEF Languages, Punctuation
    <3>2. mCurrent # 1 => mCurrent > 1 /\ befores = {Before}
      BY <1>2 DEF Before
    <3>3. CASE e \in WithQuote \cup HyphenStates
      <4>1. mState \in LetterStates /\ l \in Quotes \cup {"HM", "SH"}
        BY <1>1, <3>3, LedBy, LedFrom
      <4>2. \A before \in Letters : Joins(before, l)
        BY <4>1 DEF Joins
      <4>3. "Lu" \in Letters
        BY DEF Letters
      <4> QED
        BY <1>4, <3>1, <3>2, <4>1, <4>2, <4>3
    <3>4. CASE e \in {"H3", "H5"}
      <4>1. mState \in HyphenStates /\ l = "LF"
        BY <1>1, <3>4, LedBy, LedFrom
      <4>2. \A before \in {"HM", "SH"} : Joins(before, l)
        BY <4>1 DEF Joins
      <4> QED
        BY <1>4, <3>1, <3>2, <4>1, <4>2
    <3>5. CASE e = "P2"
      <4>1. mState = "P1" /\ l = "Zs"
        BY <1>1, <3>5, LedBy, LedFrom
      <4>2. \A before \in Punctuation : Joins(before, l)
        BY <4>1 DEF Joins
      <4> QED
        BY <1>4, <3>1, <3>2, <4>1, <4>2
    <3> QED
      BY <2>1, <3>3, <3>4, <3>5
  <2> QED
    BY <2>2 DEF JoinsAt, l, Codepoint
<1>9. mCurrent' > 1
  BY <1>2
<1> QED
  BY <1>2, <1>3, <1>5, <1>6, <1>7, <1>8, <1>9 DEF MachineInv, LetterStates, HyphenStates

LEMMA Emitting ==
    /\ Terminal \cap Silent = {} /\ Terminal \cap Advancing = {} /\ Advancing \subseteq Silent
BY DEF Terminal, Silent, Advancing

(* What the token may go back to after a step.                              *)
LEMMA StepSaved ==
    ASSUME NEW d \in Seq(Item), TextInv(d), NEW e, StepsTo(e), UNCHANGED <<base, mReaderState>>,
           mState' = e, mCurrent' = mCurrent + 1, mMatchBuffer' = Written(e), mMatchCurrent' = Used(e),
           mMatchLast' = mMatchLast + 1, e \notin Advancing => mMatchNext' = mMatchNext, saved' = SavedAt(e)
    PROVE  SavedInv(AllText(d))'
<1> DEFINE t == AllText(d)
<1>1. InputInv(d) /\ MachineInv /\ MatchInv(t) /\ SavedInv(t) /\ t \in Seq(Char)
  BY AllTextType DEF TextInv
<1>2. /\ mCurrent \in Nat /\ mCurrent >= 1 /\ mMatchLast = base + mCurrent - 1 /\ base \in Nat
      /\ mMatchCurrent \in Nat /\ mMatchLast \in Nat /\ mReaderState = "have_text"
  BY <1>1 DEF InputInv, MatchInv, Holds, StepsTo
<1>3. saved \in SavedType /\ e \in States
  BY <1>1, StepFacts, LedFrom DEF SavedInv
<1>4. Holds(t, Written(e), Used(e), mMatchNext, mMatchLast + 1)
  BY StepHolds
<1> HIDE DEF t
<1>5. CASE e \in Terminal
  <2>1. saved' = [have |-> TRUE, state |-> e, current |-> mCurrent + 1, match |-> mMatchCurrent, last |-> mMatchLast]
    BY <1>5 DEF SavedAt
  <2>2. /\ saved'.have /\ saved'.current = mCurrent + 1 /\ saved'.match = mMatchCurrent /\ saved'.last = mMatchLast
        /\ saved' \in SavedType
    BY <1>2, <1>3, <2>1 DEF SavedType
  <2>3. Used(e) = mMatchCurrent + 1 /\ e \notin Advancing
    BY <1>5, Emitting DEF Used
  <2>4. Holds(t, mMatchBuffer', saved'.match + 1, mMatchNext', saved'.last + 1)
    BY <1>4, <2>2, <2>3
  <2>5. /\ saved'.match + 1 = mMatchCurrent' /\ saved'.last + 1 = mMatchLast'
        /\ saved'.match + 1 <= mMatchCurrent' /\ saved'.last + 1 <= mMatchLast'
        /\ saved'.last + 1 = base' + saved'.current - 1 /\ saved'.current \in 1 .. mCurrent'
    BY <1>2, <2>2, <2>3
  <2> QED
    BY <2>2, <2>4, <2>5 DEF SavedInv, t
<1>6. CASE e \notin Terminal
  <2>1. saved' = saved
    BY <1>6 DEF SavedAt
  <2>2. CASE e \in Advancing
    BY <1>3, <1>6, <2>1, <2>2 DEF SavedInv
  <2>3. CASE e \notin Advancing
    <3>1. mState \notin Advancing
      BY <1>1, <1>6, <2>3, StepFacts, LedFrom
    <3>2. /\ Holds(t, mMatchBuffer, saved.match + 1, mMatchNext, saved.last + 1)
          /\ saved.match + 1 <= mMatchCurrent /\ saved.last + 1 <= mMatchLast
          /\ saved.last + 1 = base + saved.current - 1 /\ saved.current \in 1 .. mCurrent
      BY <1>1, <1>2, <3>1 DEF SavedInv
    <3>3. saved.match \in Nat /\ saved.last \in Nat
      BY <1>3 DEF SavedType
    <3>4. Holds(t, mMatchBuffer', saved.match + 1, mMatchNext', saved.last + 1)
      <4>1. CASE e \in Silent
        BY <2>3, <3>2, <4>1 DEF Written
      <4>2. CASE e \notin Silent
        <5>1. Written(e) = Put(mMatchBuffer, mMatchCurrent + 1, Emitted(e))
          BY <4>2 DEF Written
        <5>2. mMatchBuffer \in Seq(Read) /\ mMatchCurrent \in 0 .. Len(mMatchBuffer)
          BY <1>1 DEF MatchInv, Holds
        <5>3. Emitted(e) \in Read
          <6>1. Codepoint \in Char /\ base + mCurrent \in Nat
            BY <1>1, <1>2, CodepointFacts DEF StepsTo
          <6>2. "'" \in Char /\ Lower[Codepoint] \in Char
            BY <6>1, TextAssumption
          <6> QED
            BY <6>1, <6>2 DEF Emitted, Read
        <5>4. Holds(t, Put(mMatchBuffer, mMatchCurrent + 1, Emitted(e)), saved.match + 1, mMatchNext, saved.last + 1)
          BY <1>1, <3>2, <5>2, <5>3, HoldsBefore
        <5> QED
          BY <2>3, <5>1, <5>4
      <4> QED
        BY <4>1, <4>2
    <3>5. saved.match + 1 <= mMatchCurrent' /\ saved.last + 1 <= mMatchLast' /\ saved.current \in 1 .. mCurrent'
      BY <1>2, <3>2, <3>3, SMTT(30) DEF Used
    <3> QED
      BY <1>3, <1>6, <2>1, <3>2, <3>4, <3>5 DEF SavedInv, t
  <2> QED
    BY <2>2, <2>3
<1> QED
  BY <1>5, <1>6 DEF t

LEMMA ReadCharacterInv ==
    ASSUME NEW d \in Seq(Item), TextInv(d), ReadCharacter
    PROVE  TextInv(d)'
<1> DEFINE t == AllText(d)
<1>1. PICK e : e = transitions[mState][Language]
  OBVIOUS
<1>2. /\ StepsTo(e) /\ mCurrent' = mCurrent + 1
      /\ UNCHANGED <<document, delivered, content, base, mReaderState>>
      /\ IF e \notin Silent /\ Used(e) >= SplitAt
         THEN Matched(Written(e), Used(e), e, mMatchLast + 1)
         ELSE /\ mMatchBuffer' = Written(e)
              /\ mMatchCurrent' = Used(e)
              /\ mMatchLast' = mMatchLast + 1
              /\ mMatchNext' = IF e \in Advancing THEN mMatchNext + 1 ELSE mMatchNext
              /\ mState' = e
              /\ saved' = SavedAt(e)
              /\ current_script' = IF Category[Codepoint] = "Lo" THEN ScriptOf[Codepoint] ELSE current_script
              /\ UNCHANGED tokens
  BY <1>1 DEF ReadCharacter, StepsTo, Used
<1>3. InputInv(d) /\ MachineInv /\ MatchInv(t) /\ SavedInv(t) /\ TokensInv(t) /\ t \in Seq(Char)
  BY AllTextType DEF TextInv
<1>4. Leads(mState, Category[Codepoint], e)
  BY <1>2, <1>3, StepFacts
<1>5. Written(e) \in Seq(Read) /\ Holds(t, Written(e), Used(e), mMatchNext, mMatchLast + 1) /\ e \in States
  BY <1>2, <1>4, StepHolds, LedFrom
<1>6. InputInv(d)' \/ mMatchLast' # mMatchLast + 1
  <2>1. /\ mCurrent \in 1 .. Len(content) + 1 /\ mCurrent <= Len(content) /\ Len(content) \in Nat
        /\ mMatchLast = base + mCurrent - 1 /\ base \in Nat /\ mReaderState = "have_text"
    BY <1>2, <1>3 DEF InputInv, StepsTo
  <2>2. mCurrent' \in 1 .. Len(content) + 1 /\ mMatchLast + 1 = base' + mCurrent' - 1
    BY <1>2, <2>1
  <2> QED
    BY <1>2, <1>3, <2>1, <2>2 DEF InputInv
<1> HIDE DEF t
<1>7. CASE e \notin Silent /\ Used(e) >= SplitAt
  <2>1. saved \in SavedType
    BY <1>3 DEF SavedInv
  <2>2. Matched(Written(e), Used(e), e, mMatchLast + 1)
    BY <1>2, <1>7
  <2>3. /\ MachineInv' /\ MatchInv(t)' /\ SavedInv(t)' /\ TokensInv(t)'
        /\ mMatchLast' = mMatchLast + 1
    BY <1>3, <1>5, <2>1, <2>2, MatchedInv
  <2> QED
    BY <1>6, <2>3 DEF TextInv, t
<1>8. CASE ~(e \notin Silent /\ Used(e) >= SplitAt)
  <2>1. /\ mMatchBuffer' = Written(e) /\ mMatchCurrent' = Used(e) /\ mMatchLast' = mMatchLast + 1
        /\ mMatchNext' = IF e \in Advancing THEN mMatchNext + 1 ELSE mMatchNext
        /\ mState' = e /\ saved' = SavedAt(e) /\ tokens' = tokens
        /\ current_script' = IF Category[Codepoint] = "Lo" THEN ScriptOf[Codepoint] ELSE current_script
    BY <1>2, <1>8
  <2>2. MachineInv'
    BY <1>2, <1>3, <2>1, StepMachine
  <2>3. SavedInv(t)'
    BY <1>2, <2>1, StepSaved DEF t
  <2>4. CASE e \notin Advancing
    <3>1. mMatchNext' = mMatchNext
      BY <2>1, <2>4
    <3>2. MatchInv(t)'
      BY <1>5, <2>1, <2>4, <3>1 DEF MatchInv
    <3>3. TokensInv(t)'
      BY <1>3, <2>1, <3>1 DEF TokensInv
    <3> QED
      BY <1>6, <2>1, <2>2, <2>3, <3>2, <3>3 DEF TextInv, t
  <2>5. CASE e \in Advancing
    <3>1. mState \in Advancing /\ e \in Silent /\ e \notin Terminal
      BY <1>4, <2>5, LedFrom, Emitting
    <3>2. /\ mMatchCurrent = 0 /\ mMatchNext = mMatchLast /\ ~saved.have /\ mMatchBuffer \in Seq(Read)
          /\ mMatchLast \in Nat
      BY <1>3, <3>1 DEF MatchInv, Holds
    <3>3. mMatchLast + 1 \in 1 .. Len(t) /\ Codepoint = t[mMatchLast + 1]
      BY <1>2, <1>3, CodepointFacts DEF StepsTo, t
    <3>4. /\ mMatchBuffer' = mMatchBuffer /\ mMatchCurrent' = 0 /\ mMatchNext' = mMatchLast + 1
          /\ mMatchLast' = mMatchLast + 1 /\ saved' = saved
      BY <2>1, <2>5, <3>1, <3>2 DEF Written, Used, SavedAt
    <3>5. MatchInv(t)'
      <4>1. mMatchLast + 1 \in Nat /\ mMatchLast + 1 <= Len(t)
        BY <3>2, <3>3
      <4>2. Holds(t, mMatchBuffer, 0, mMatchLast + 1, mMatchLast + 1)
        BY <1>3, <3>2, <4>1, HoldsNothing
      <4> QED
        BY <3>2, <3>4, <4>2 DEF MatchInv
    <3>6. ~Visible(t[mMatchLast + 1])
      BY <1>4, <3>1, <3>3, LedBy DEF Visible
    <3>7. TokensInv(t)'
      <4>1. \A k \in DOMAIN tokens : tokens[k].last \in Nat
        <5>1. \A k \in DOMAIN tokens : tokens[k] \in Token
          BY <1>3 DEF TokensInv
        <5> QED
          BY <5>1 DEF Token
      <4>2. \A k \in DOMAIN tokens : tokens[k].last <= mMatchNext => tokens[k].last <= mMatchLast + 1
        BY <3>2, <4>1
      <4>3. \A p \in 1 .. mMatchLast + 1 : Visible(t[p]) => p \in 1 .. mMatchNext
        BY <3>2, <3>6
      <4> QED
        BY <1>3, <2>1, <3>4, <4>2, <4>3 DEF TokensInv
    <3> QED
      BY <1>6, <2>1, <2>2, <2>3, <3>5, <3>7 DEF TextInv, t
  <2> QED
    BY <2>4, <2>5
<1> QED
  BY <1>7, <1>8

LEMMA TextNextInv ==
    ASSUME NEW d \in Seq(Item), Whole(d), TextInv(d), [ReadToken]_textVars
    PROVE  TextInv(d)'
<1>1. CASE ReadText
  BY <1>1, ReadTextInv
<1>2. CASE ReadOther
  BY <1>2, ReadOtherInv
<1>3. CASE EndParagraph
  BY <1>3, EndParagraphInv
<1>4. CASE EndOfText
  BY <1>4, EndOfTextInv
<1>5. CASE EndOfContent
  BY <1>5, EndOfContentInv
<1>6. CASE EndToken
  BY <1>6, EndTokenInv
<1>7. CASE ReadCharacter
  BY <1>7, ReadCharacterInv
<1>8. CASE UNCHANGED textVars
  <2> USE <1>8 DEF textVars, inputVars, matchVars
  <2>1. InputInv(d)'
    BY DEF TextInv, InputInv
  <2>2. MachineInv'
    BY DEF TextInv, MachineInv, Before
  <2>3. MatchInv(AllText(d))'
    BY DEF TextInv, MatchInv
  <2>4. SavedInv(AllText(d))'
    BY DEF TextInv, SavedInv
  <2>5. TokensInv(AllText(d))'
    BY DEF TextInv, TokensInv
  <2> QED
    BY <2>1, <2>2, <2>3, <2>4, <2>5 DEF TextInv
<1> QED
  BY <1>1, <1>2, <1>3, <1>4, <1>5, <1>6, <1>7, <1>8 DEF ReadToken

(* What the invariant says when the document is read.                       *)
LEMMA TextInvIsRead ==
    ASSUME NEW d \in Seq(Item), TextInv(d)
    PROVE  TextIsTokens(DocumentText)
<1> DEFINE t == AllText(d)
<1>1. InputInv(d) /\ MatchInv(t) /\ TokensInv(t) /\ t \in Seq(Char) /\ Len(t) \in Nat /\ DOMAIN t = 1 .. Len(t)
  BY AllTextType DEF TextInv
<1>2. DocumentText = t
  BY <1>1 DEF InputInv, DocumentText, AllText
<1>3. /\ tokens \in Seq(Token) /\ DOMAIN tokens = 1 .. Len(tokens) /\ Len(tokens) \in Nat
      /\ \A k \in DOMAIN tokens : IsOfText(t, tokens[k]) /\ tokens[k] \in Token
      /\ \A j, k \in DOMAIN tokens : j < k => tokens[j].last <= tokens[k].next
  BY <1>1 DEF TokensInv
<1>4. ASSUME NEW j \in DOMAIN tokens, NEW k \in DOMAIN tokens, NEW p \in Nat, j < k,
             p \in Positions(tokens[j]), p \in Positions(tokens[k])
      PROVE  FALSE
  <2>1. PICK a \in DOMAIN tokens[j].text : p = tokens[j].text[a].at
    BY <1>4 DEF Positions
  <2>2. PICK b \in DOMAIN tokens[k].text : p = tokens[k].text[b].at
    BY <1>4 DEF Positions
  <2>3. p \in tokens[j].next + 1 .. tokens[j].last /\ p \in tokens[k].next + 1 .. tokens[k].last
    BY <1>3, <2>1, <2>2 DEF IsOfText
  <2>4. tokens[j].last <= tokens[k].next
    BY <1>3, <1>4
  <2>5. tokens[j].last \in Nat /\ tokens[k].next \in Nat /\ tokens[j].next \in Nat /\ tokens[k].last \in Nat
    BY <1>3 DEF Token
  <2> QED
    BY <2>3, <2>4, <2>5
<1>5. ASSUME mReaderState = "end", NEW p \in DOMAIN t, Visible(t[p])
      PROVE  Cardinality({k \in DOMAIN tokens : p \in Positions(tokens[k])}) = 1
  <2>1. delivered = Len(d) /\ mMatchCurrent = 0 /\ mMatchLast = Len(t)
    <3>1. /\ delivered = Len(d) /\ mMatchCurrent = 0 /\ mCurrent = Len(content) + 1 /\ mMatchLast = base + mCurrent - 1
          /\ base + Len(content) = Len(TextTo(d)[delivered]) /\ base \in Nat /\ Len(content) \in Nat
      BY <1>1, <1>5 DEF InputInv
    <3> QED
      BY <3>1 DEF AllText
  <2>2. p \in 1 .. mMatchNext
    <3>1. \A q \in mMatchNext + 1 .. mMatchLast : Visible(t[q]) => \E i \in 1 .. 0 : mMatchBuffer[i].at = q
      BY <1>1, <2>1 DEF MatchInv, Holds
    <3>2. mMatchNext \in Nat /\ mMatchLast \in Nat /\ 1 .. 0 = {}
      BY <1>1 DEF MatchInv, Holds
    <3>3. p \notin mMatchNext + 1 .. mMatchLast
      BY <1>5, <3>1, <3>2
    <3> QED
      BY <1>1, <2>1, <3>2, <3>3
  <2>3. PICK k \in DOMAIN tokens : p \in Positions(tokens[k])
    BY <1>1, <1>5, <2>2 DEF TokensInv
  <2>4. p \in Nat
    BY <1>1
  <2>5. ASSUME NEW j \in DOMAIN tokens, p \in Positions(tokens[j])
        PROVE  j = k
    <3>1. j < k \/ k < j \/ j = k
      BY <1>3
    <3> QED
      BY <1>4, <2>3, <2>4, <2>5, <3>1
  <2>6. {j \in DOMAIN tokens : p \in Positions(tokens[j])} = {k}
    BY <2>3, <2>5
  <2> QED
    BY <2>6, FS_Singleton
<1> QED
  BY <1>2, <1>3, <1>5 DEF TextIsTokens

(* Every document no text of which is empty or ends inside of what may be a *)
(* token is read as it is: every token is characters of the document in their order  *)
(* and in its range, the ranges do not overlap, and when read() has         *)
(* returned false each character that is no space is in exactly one token,  *)
(* wherever tokens go back to, are split or reach from one text to another. *)
THEOREM DocumentsAreRead ==
    ASSUME NEW d \in Seq(Item)
    PROVE  TextSpec(d) => []DocumentIsRead
<1>1. CASE Whole(d)
  <2>1. TextInit(d) => TextInv(d)
    BY TextInitInv
  <2>2. TextInv(d) /\ [ReadToken]_textVars => TextInv(d)'
    BY <1>1, TextNextInv
  <2>3. TextInv(d) => DocumentIsRead
    BY TextInvIsRead DEF DocumentIsRead
  <2> QED
    BY <2>1, <2>2, <2>3, PTL DEF TextSpec
<1>2. CASE ~Whole(d)
  <2>1. TextInit(d) => document = d
    BY DEF TextInit
  <2>2. document = d /\ [ReadToken]_textVars => (document = d)'
    BY DEF ReadToken, textVars, inputVars, ReadText, ReadOther, EndParagraph, EndOfText, EndOfContent, EndToken, ReadCharacter
  <2>3. document = d => DocumentIsRead
    BY <1>2 DEF DocumentIsRead, Whole
  <2> QED
    BY <2>1, <2>2, <2>3, PTL DEF TextSpec
<1> QED
  BY <1>1, <1>2

-----------------------------------------------------------------------------
(* The tokens of the files.                                                 *)

Word == Seq(Characters)
LexedTypes == {"directive", "directive_contents", "phonemes", "text", "string", "line_comment", "comment", "entry", "context",
               "pronunciation"}
FileToken == [type : LexedTypes, is : Word]
FileStates == {"start", "in_line_contents", "in_comment", "in_directive", "pre_directive_body", "in_directive_body", "in_phonemes",
               "in_text", "in_string", "in_directive_string"}
CmuStates == {"start", "line_comment1", "line_comment2", "line_comment", "comment", "entry", "context", "pronunciation"}
Lexer(states) == [state : states, match : Word, used : BOOLEAN, tokens : Seq(FileToken)]

(* What the turns are made of. *)
LEMMA SkipTyped ==
    ASSUME NEW S, NEW r \in Lexer(S)
    PROVE  Skip(r) \in Lexer(S) /\ Skip(r).state = r.state /\ Skip(r).match = r.match
BY DEF Lexer, Skip

LEMMA ReturnTyped ==
    ASSUME NEW S, NEW r \in Lexer(S), NEW type \in LexedTypes, NEW state \in S
    PROVE  Return(r, type, state) \in Lexer(S) /\ Return(r, type, state).state = state
<1>1. r.match \in Word /\ r.tokens \in Seq(FileToken)
  BY DEF Lexer
<1>2. [type |-> type, is |-> r.match] \in FileToken
  BY <1>1 DEF FileToken
<1>3. Append(r.tokens, [type |-> type, is |-> r.match]) \in Seq(FileToken)
  BY <1>1, <1>2
<1> QED
  BY <1>3 DEF Lexer, Return

LEMMA MovesTyped ==
    ASSUME NEW S, NEW r \in Lexer(S), NEW c \in Characters
    PROVE  /\ Take(r, c) \in Lexer(S) /\ Take(r, c).state = r.state /\ Take(r, c).match # <<>>
           /\ \A state \in S :
                  /\ Go(r, state) \in Lexer(S) /\ Go(r, state).state = state
                  /\ Begin(r, state) \in Lexer(S) /\ Begin(r, state).state = state /\ Begin(r, state).used = r.used
                  /\ Open(r, state) \in Lexer(S) /\ Open(r, state).state = state
<1>1. r.match \in Word /\ <<>> \in Word /\ Append(r.match, c) \in Word
  BY DEF Lexer, Word
<1>2. Append(r.match, c) # <<>>
  <2> DEFINE m == Append(r.match, c)
  <2>1. Len(m) > 0
    BY <1>1 DEF Word
  <2> HIDE DEF m
  <2>2. m # <<>>
    BY <2>1
  <2> QED
    BY <2>2 DEF m
<1>3. Take(r, c) \in Lexer(S) /\ Take(r, c).state = r.state /\ Take(r, c).match # <<>>
  BY <1>1, <1>2 DEF Lexer, Take, Skip
<1> QED
  BY <1>1, <1>3 DEF Lexer, Go, Begin, Open, Skip

LEMMA GreatestIn ==
    ASSUME NEW n \in Nat, NEW J \in SUBSET (1 .. n), J # {}
    PROVE  Max(J) \in J
<1> DEFINE K == {n - i : i \in J}
<1>1. K \in SUBSET Nat /\ K # {}
  <2>1. \A i \in J : n - i \in Nat
    OBVIOUS
  <2> QED
    BY <2>1
<1>2. PICK k \in K : \A y \in K : k <= y
  <2> HIDE DEF K
  <2> QED
    BY <1>1, LeastNumber
<1>3. PICK x \in J : k = n - x
  OBVIOUS
<1>4. \A y \in J : x >= y
  <2> SUFFICES ASSUME NEW y \in J
               PROVE  x >= y
    OBVIOUS
  <2>1. n - y \in K
    OBVIOUS
  <2>2. k <= n - y
    BY <1>2, <2>1
  <2> QED
    BY <1>3, <2>2
<1> QED
  BY <1>4 DEF Max

(* A directive's contents have a character when they are in the match. *)
Bare(r) == r.state = "in_directive_body" /\ r.match = <<>>

LEMMA TurnTyped ==
    ASSUME NEW r \in Lexer(FileStates), NEW c \in Characters, Bare(r) => c \notin LineEnd
    PROVE  /\ Turn(r, c) \in Lexer(FileStates)
           /\ Turn(r, c).state = "pre_directive_body" => c = "\t"
           /\ Bare(Turn(r, c)) => r.state = "pre_directive_body" /\ c # "\t" /\ c \notin LineEnd /\ Turn(r, c).used = r.used
<1> DEFINE L == Lexer(FileStates)
           Fine(t) == t \in L /\ t.state \notin {"pre_directive_body", "in_directive_body"}
<1>0. r.state \in FileStates
  BY DEF Lexer
<1>12. /\ "start" \in FileStates /\ "in_line_contents" \in FileStates /\ "in_comment" \in FileStates /\ "in_directive" \in FileStates /\ "pre_directive_body" \in FileStates
       /\ "in_directive_body" \in FileStates /\ "in_phonemes" \in FileStates /\ "in_text" \in FileStates /\ "in_string" \in FileStates /\ "in_directive_string" \in FileStates
       /\ "directive" \in LexedTypes /\ "directive_contents" \in LexedTypes /\ "phonemes" \in LexedTypes /\ "text" \in LexedTypes /\ "string" \in LexedTypes
  BY DEF FileStates, LexedTypes
<1>1. /\ \A q \in L : Skip(q) \in L /\ Skip(q).state = q.state /\ Skip(q).match = q.match
      /\ \A q \in L, type \in LexedTypes, state \in FileStates : Return(q, type, state) \in L /\ Return(q, type, state).state = state
      /\ Take(r, c) \in L /\ Take(r, c).state = r.state /\ Take(r, c).match # <<>>
      /\ \A state \in FileStates :
             /\ Go(r, state) \in L /\ Go(r, state).state = state
             /\ Begin(r, state) \in L /\ Begin(r, state).state = state /\ Begin(r, state).used = r.used
             /\ Open(r, state) \in L /\ Open(r, state).state = state
  <2>1. \A q \in L : Skip(q) \in L /\ Skip(q).state = q.state /\ Skip(q).match = q.match
    BY SkipTyped
  <2>2. \A q \in L, type \in LexedTypes, state \in FileStates : Return(q, type, state) \in L /\ Return(q, type, state).state = state
    BY ReturnTyped
  <2>3. r \in L
    OBVIOUS
  <2> QED
    BY <2>1, <2>2, <2>3, MovesTyped
<1>13. r \in L
  OBVIOUS
<1> HIDE DEF L
<1>2. Fine(Contents(r, c))
  BY <1>1 DEF Contents, FileStates
<1>3. CASE r.state = "start"
  <2>1. Fine(Turn(r, c))
    BY <1>1, <1>2, <1>3, <1>12, <1>13 DEF Turn, Newline, LineEnd
  <2> QED
    BY <2>1 DEF Bare, L
<1>4. CASE r.state = "in_line_contents"
  <2>1. Fine(Turn(r, c))
    BY <1>1, <1>2, <1>4, <1>12, <1>13 DEF Turn, Newline, LineEnd
  <2> QED
    BY <2>1 DEF Bare, L
<1>5. CASE r.state = "in_comment"
  <2>1. Fine(Turn(r, c))
    BY <1>1, <1>5, <1>12, <1>13 DEF Turn, Newline, LineEnd
  <2> QED
    BY <2>1 DEF Bare, L
<1>6. CASE r.state = "in_directive"
  <2>1. Turn(r, c) = IF c \in LineEnd THEN Go(r, "start")
                     ELSE IF c = "\t" THEN Return(r, "directive", "pre_directive_body") ELSE Take(r, c)
    BY <1>6 DEF Turn, Newline, LineEnd
  <2>2. Go(r, "start") \in L /\ Go(r, "start").state = "start"
    BY <1>1, <1>12
  <2>3. /\ Return(r, "directive", "pre_directive_body") \in L
        /\ Return(r, "directive", "pre_directive_body").state = "pre_directive_body"
    BY <1>1, <1>12, <1>13
  <2>4. Turn(r, c) \in L /\ Turn(r, c).state # "in_directive_body" /\ (Turn(r, c).state = "pre_directive_body" => c = "\t")
    BY <1>1, <1>6, <2>1, <2>2, <2>3
  <2> QED
    BY <2>4 DEF Bare, L
<1>7. CASE r.state = "pre_directive_body"
  <2>1. CASE c \in LineEnd
    BY <1>1, <1>7, <2>1 DEF Turn, FileStates, Bare, L
  <2>2. CASE c \notin LineEnd /\ c = "\t"
    <3>1. Turn(r, c) = Skip(r)
      BY <1>7, <2>2 DEF Turn, Newline, LineEnd
    <3> QED
      BY <1>1, <1>7, <2>2, <3>1 DEF Bare, L
  <2>3. CASE c \notin LineEnd /\ c # "\t" /\ c = "\""
    <3>1. Turn(r, c) = Open(r, "in_directive_string")
      BY <1>7, <2>3 DEF Turn, Newline, LineEnd
    <3> QED
      BY <1>1, <1>12, <3>1 DEF Bare, L
  <2>4. CASE c \notin LineEnd /\ c # "\t" /\ c # "\""
    <3>1. Turn(r, c) = Begin(r, "in_directive_body")
      BY <1>7, <2>4 DEF Turn, Newline, LineEnd
    <3>2. Begin(r, "in_directive_body") \in L /\ Begin(r, "in_directive_body").state = "in_directive_body"
          /\ Begin(r, "in_directive_body").used = r.used
      BY <1>1, <1>12
    <3> QED
      BY <1>7, <2>4, <3>1, <3>2 DEF Bare, L
  <2> QED
    BY <2>1, <2>2, <2>3, <2>4
<1>8. CASE r.state = "in_directive_body"
  <2>1. CASE c \notin LineEnd
    <3>1. Turn(r, c) = Take(r, c)
      BY <1>8, <2>1 DEF Turn, Newline, LineEnd
    <3> QED
      BY <1>1, <1>8, <3>1 DEF Bare, L
  <2>2. CASE c \in LineEnd
    <3> DEFINE q == [r EXCEPT !.match = Trimmed(@)]
    <3>1. r.match \in Word /\ r.match # <<>>
      BY <1>8, <2>2 DEF Bare, Lexer
    <3>2. Trimmed(r.match) \in Word
      <4> DEFINE m == r.match
                 last == SelectLastInSeq(m, LAMBDA x : x # " ")
                 J == {i \in 1 .. Len(m) : m[i] # " "}
      <4>1. Len(m) \in Nat /\ Len(m) >= 1
        BY <3>1 DEF Word
      <4>2. last = IF J # {} THEN Max(J) ELSE 0
        BY DEF SelectLastInSeq
      <4>3. J \in SUBSET (1 .. Len(m))
        OBVIOUS
      <4> HIDE DEF last, J
      <4>4. J # {} => Max(J) \in J
        BY <4>1, <4>3, GreatestIn
      <4>5. last \in 0 .. Len(m)
        <5>1. ASSUME J # {}
              PROVE  Max(J) \in 0 .. Len(m)
          <6>1. Max(J) \in 1 .. Len(m)
            BY <4>3, <4>4, <5>1
          <6> QED
            BY <4>1, <6>1
        <5> QED
          BY <4>1, <4>2, <5>1
      <4>6. Trimmed(m) = SubSeq(m, 1, IF last = 0 THEN 1 ELSE last)
        BY DEF Trimmed, last
      <4>7. (IF last = 0 THEN 1 ELSE last) \in 1 .. Len(m)
        BY <4>1, <4>5
      <4> QED
        BY <3>1, <4>1, <4>6, <4>7 DEF Word
    <3>3. q \in L
      BY <3>2 DEF Lexer, L
    <3>4. Turn(r, c) = Return(q, "directive_contents", "start")
      BY <1>8, <2>2 DEF Turn, Newline, LineEnd
    <3>5. Return(q, "directive_contents", "start") \in L /\ Return(q, "directive_contents", "start").state = "start"
      <4> HIDE DEF q
      <4> QED
        BY <1>1, <1>12, <3>3
    <3> QED
      BY <3>4, <3>5 DEF Bare, L
  <2> QED
    BY <2>1, <2>2
<1>14. Fine(Go(r, "start")) /\ (r.state \notin {"pre_directive_body", "in_directive_body"} => Fine(Take(r, c)))
  BY <1>1, <1>12
<1>15. \A type \in LexedTypes, state \in {"start", "in_line_contents"} :
           Fine(Return(r, type, state)) /\ Fine(Skip(Return(r, type, state)))
  <2> SUFFICES ASSUME NEW type \in LexedTypes, NEW state \in {"start", "in_line_contents"}
               PROVE  Fine(Return(r, type, state)) /\ Fine(Skip(Return(r, type, state)))
    OBVIOUS
  <2>1. state \in FileStates
    BY <1>12
  <2>2. Return(r, type, state) \in L /\ Return(r, type, state).state = state
    BY <1>1, <1>13, <2>1
  <2>3. Skip(Return(r, type, state)) \in L /\ Skip(Return(r, type, state)).state = state
    BY <1>1, <2>2
  <2> QED
    BY <2>2, <2>3
<1> HIDE DEF Fine
<1>9. CASE r.state = "in_phonemes"
  <2>1. Turn(r, c) = IF c \in LineEnd \cup {"\t"} THEN Go(r, "start")
                     ELSE IF c = "/" THEN Skip(Return(r, "phonemes", "in_line_contents")) ELSE Take(r, c)
    BY <1>9 DEF Turn, Newline, LineEnd
  <2>2. Fine(Turn(r, c))
    BY <1>9, <1>12, <1>14, <1>15, <2>1
  <2> QED
    BY <2>2 DEF Bare, L, Fine
<1>10. CASE r.state = "in_text"
  <2>1. Turn(r, c) = IF c \in LineEnd \cup {"\t", " "}
                     THEN Return(r, "text", IF c = "\t" THEN "in_line_contents" ELSE "start") ELSE Take(r, c)
    BY <1>10 DEF Turn, Newline, LineEnd
  <2>2. Fine(Turn(r, c))
    BY <1>10, <1>12, <1>14, <1>15, <2>1
  <2> QED
    BY <2>2 DEF Bare, L, Fine
<1>11. CASE r.state \in {"in_string", "in_directive_string"}
  <2>1. Turn(r, c) = IF c \in Newline \cup {"\t"} THEN Go(r, "start")
                     ELSE IF c # "\"" THEN Take(r, c)
                     ELSE IF r.state = "in_string" THEN Skip(Return(r, "string", "in_line_contents"))
                     ELSE Skip(Return(r, "directive_contents", "start"))
    BY <1>11 DEF Turn, Newline, LineEnd
  <2>2. Fine(Turn(r, c))
    BY <1>11, <1>12, <1>14, <1>15, <2>1
  <2> QED
    BY <2>2 DEF Bare, L, Fine
<1> QED
  BY <1>0, <1>3, <1>4, <1>5, <1>6, <1>7, <1>8, <1>9, <1>10, <1>11 DEF FileStates

LEMMA ReadCharTyped ==
    ASSUME NEW r \in Lexer(FileStates), ~Bare(r), NEW c \in Characters
    PROVE  ReadChar(r, c) \in Lexer(FileStates) /\ ~Bare(ReadChar(r, c))
<1> DEFINE L == Lexer(FileStates)
           turn(q) == IF q.used THEN q ELSE Turn(q, c)
           q0 == [r EXCEPT !.used = FALSE]
           q1 == turn(q0)
           q2 == turn(q1)
<1>1. ReadChar(r, c) = turn(q2)
  <2>1. With(q0, turn) = q1
    <3> HIDE DEF turn, q0
    <3> QED
      BY DEF With, q1
  <2>2. With(q1, turn) = q2 /\ With(q2, turn) = turn(q2)
    <3> HIDE DEF turn, q1
    <3> QED
      BY DEF With, q2
  <2>3. ReadChar(r, c) = With(With(turn(q0), turn), turn)
    BY DEF ReadChar
  <2> QED
    BY <2>2, <2>3
<1> HIDE DEF L
<1>2. q0 \in L /\ ~Bare(q0) /\ q0.used = FALSE
  BY DEF Lexer, Bare, L
<1> HIDE DEF q0
<1>3. \A q \in L : (Bare(q) => c \notin LineEnd) =>
          /\ turn(q) \in L
          /\ ~q.used /\ turn(q).state = "pre_directive_body" => c = "\t"
          /\ ~q.used /\ Bare(turn(q)) => q.state = "pre_directive_body" /\ c # "\t" /\ c \notin LineEnd /\ turn(q).used = q.used
          /\ q.used => turn(q) = q
  BY TurnTyped DEF L
<1>4. \A q : q.state = "pre_directive_body" => ~Bare(q)
  BY DEF Bare
<1>5. \A q \in L : q.used \in BOOLEAN
  BY DEF L, Lexer
<1> HIDE DEF turn
<1>6. /\ q1 \in L
      /\ q1.state = "pre_directive_body" => c = "\t"
      /\ Bare(q1) => c # "\t" /\ c \notin LineEnd /\ q1.used = FALSE
  BY <1>2, <1>3, <1>5
<1> HIDE DEF q1
<1>7. q2 \in L /\ ~Bare(q2) /\ (q2.state = "pre_directive_body" => c = "\t")
  BY <1>3, <1>4, <1>5, <1>6
<1> HIDE DEF q2
<1>8. turn(q2) \in L /\ ~Bare(turn(q2))
  BY <1>3, <1>4, <1>5, <1>7
<1> QED
  BY <1>1, <1>8 DEF L

(* A fold over a sequence: what it is computed by is there, and keeps its type. *)
IsFold(f, s, start, F) == f[0] = start /\ \A i \in 1 .. Len(s) : f[i] = F[<<f[i - 1], s[i]>>]

LEMMA FoldExists ==
    ASSUME NEW X, NEW E, NEW s \in Seq(E), NEW start \in X, NEW F \in [X \X E -> X]
    PROVE  \E f \in [0 .. Len(s) -> X] : IsFold(f, s, start, F)
<1> DEFINE N == Len(s)
           G == [y \in (1 .. N) \X X |-> F[<<y[2], s[y[1]]>>]]
<1>1. N \in Nat /\ \A i \in 1 .. N : s[i] \in E
  OBVIOUS
<1>2. G \in Steps(N, X)
  <2>1. \A y \in (1 .. N) \X X : F[<<y[2], s[y[1]]>>] \in X
    BY <1>1
  <2> HIDE DEF N
  <2> QED
    BY <2>1 DEF Steps
<1>3. \A i \in 1 .. N, x \in X : G[<<i, x>>] = F[<<x, s[i]>>]
  OBVIOUS
<1> HIDE DEF G
<1>4. PICK f \in [0 .. N -> X] : IsRecursion(f, N, start, G)
  <2> HIDE DEF N
  <2> QED
    BY <1>1, <1>2, RecursionTo
<1>5. \A i \in 1 .. N : i - 1 \in 0 .. N
  BY <1>1
<1>6. \A i \in 1 .. N : f[i] = F[<<f[i - 1], s[i]>>]
  BY <1>3, <1>4, <1>5 DEF IsRecursion
<1> QED
  BY <1>4, <1>6 DEF IsRecursion, IsFold

LEMMA FoldTyped ==
    ASSUME NEW N \in Nat, NEW X, NEW f, f[0] \in X, \A i \in 1 .. N : f[i - 1] \in X => f[i] \in X
    PROVE  \A i \in 0 .. N : f[i] \in X
<1> DEFINE S == {n \in 0 .. N : f[n] \in X}
<1>1. 0 \in S
  OBVIOUS
<1>2. ASSUME NEW n \in 0 .. N - 1, n \in S
      PROVE  n + 1 \in S
  <2>1. n + 1 \in 1 .. N /\ (n + 1) - 1 = n
    OBVIOUS
  <2>2. f[(n + 1) - 1] \in X
    BY <1>2, <2>1
  <2>3. f[n + 1] \in X
    BY <2>1, <2>2
  <2> QED
    BY <2>1, <2>3
<1>3. \A n \in 0 .. N : n \in S
  <2> HIDE DEF S
  <2> QED
    BY <1>1, <1>2, InductionTo DEF Inductive
<1> QED
  BY <1>3

LEMMA FileTokensTyped ==
    ASSUME NEW file \in Word
    PROVE  FileTokensOf(file) \in Seq(FileToken)
<1> DEFINE X == {r \in Lexer(FileStates) : ~Bare(r)}
           Is(f, t) == f = [i \in 0 .. Len(t) |-> IF i = 0 THEN NewReader ELSE With(f[i - 1], LAMBDA v : ReadChar(v, t[i]))]
           Latest(t) == (CHOOSE f : Is(f, t))[Len(t)]
           It(f) == f = [i \in 0 .. Len(file) |-> IF i = 0 THEN NewReader ELSE ReadChar(f[i - 1], file[i])]
           F == [y \in X \X Characters |-> ReadChar(y[1], y[2])]
           read == CHOOSE f : It(f)
<1>0. Len(file) \in Nat /\ \A i \in 1 .. Len(file) : file[i] \in Characters
  BY DEF Word
<1>1. NewReader \in X
  BY DEF NewReader, Lexer, FileStates, Bare, Word
<1>2. \A r \in X, c \in Characters : ReadChar(r, c) \in X
  BY ReadCharTyped
<1>3. F \in [X \X Characters -> X] /\ \A r \in X, c \in Characters : F[<<r, c>>] = ReadChar(r, c)
  <2> HIDE DEF X
  <2> QED
    BY <1>2
<1>4. \A v, e : With(v, LAMBDA w : ReadChar(w, e)) = ReadChar(v, e)
  BY DEF With
<1>5. FileTokensOf(file) = With(file, LAMBDA t : Latest(t)).tokens
  BY DEF FileTokensOf, Each
<1>6. \A f : Is(f, file) <=> It(f)
  BY <1>4
<1> HIDE DEF Is, F, X
<1>7. With(file, LAMBDA t : Latest(t)) = Latest(file)
  <2> HIDE DEF Latest
  <2> QED
    BY DEF With
<1>8. \E f : It(f)
  <2>1. PICK f \in [0 .. Len(file) -> X] : IsFold(f, file, NewReader, F)
    <3>1. file \in Seq(Characters)
      BY DEF Word
    <3> QED
      BY <1>1, <1>3, <3>1, FoldExists
  <2>2. \A i \in 1 .. Len(file) : f[i] = ReadChar(f[i - 1], file[i])
    <3>1. \A i \in 1 .. Len(file) : i - 1 \in 0 .. Len(file)
      BY <1>0
    <3> QED
      BY <1>0, <1>3, <2>1, <3>1 DEF IsFold
  <2>3. \A i \in 0 .. Len(file) : i # 0 => i \in 1 .. Len(file)
    BY <1>0
  <2>4. It(f)
    BY <2>1, <2>2, <2>3 DEF IsFold
  <2> QED
    BY <2>4
<1> HIDE DEF It
<1>9. Latest(file) = read[Len(file)]
  BY <1>6
<1>10. It(read)
  BY <1>8
<1> HIDE DEF read
<1>11. read[0] = NewReader /\ \A i \in 1 .. Len(file) : read[i] = ReadChar(read[i - 1], file[i])
  <2>1. 0 \in 0 .. Len(file) /\ \A i \in 1 .. Len(file) : i \in 0 .. Len(file) /\ i # 0
    BY <1>0
  <2> QED
    BY <1>10, <2>1 DEF It
<1>12. read[Len(file)] \in X
  <2>1. \A i \in 1 .. Len(file) : read[i - 1] \in X => read[i] \in X
    BY <1>0, <1>2, <1>11
  <2>2. \A i \in 0 .. Len(file) : read[i] \in X
    BY <1>0, <1>1, <1>11, <2>1, FoldTyped
  <2> QED
    BY <1>0, <2>2
<1> QED
  BY <1>5, <1>7, <1>9, <1>12 DEF X, Lexer

(* The same for cmudict: a semicolon was read when a comment may have begun. *)
Commenting(r) == r.state \in {"line_comment1", "line_comment2"} => ";" \in Characters

LEMMA CmuTurnTyped ==
    ASSUME NEW r \in {q \in Lexer(CmuStates) : Commenting(q)}, NEW c \in Characters
    PROVE  CmuTurn(r, c) \in {q \in Lexer(CmuStates) : Commenting(q)}
<1> DEFINE L == Lexer(CmuStates)
           Fine(t) == t \in L /\ t.state \notin {"line_comment1", "line_comment2"}
           newline == c \in Newline
           Word_(text) == Take([Go(r, "entry") EXCEPT !.match = text], c)
           Ends(type) == IF newline THEN Skip(Return(r, type, "start")) ELSE Take(r, c)
<1>0. r.state \in CmuStates /\ r \in L /\ Commenting(r)
  BY DEF Lexer
<1>1. \A t : Fine(t) => t \in {q \in L : Commenting(q)}
  BY DEF Commenting
<1>2. /\ "start" \in CmuStates /\ "line_comment1" \in CmuStates /\ "line_comment2" \in CmuStates /\ "line_comment" \in CmuStates
      /\ "comment" \in CmuStates /\ "entry" \in CmuStates /\ "context" \in CmuStates /\ "pronunciation" \in CmuStates
      /\ "line_comment" \in LexedTypes /\ "comment" \in LexedTypes /\ "entry" \in LexedTypes /\ "context" \in LexedTypes
      /\ "pronunciation" \in LexedTypes
  BY DEF CmuStates, LexedTypes
<1>3. \A q \in L : Skip(q) \in L /\ Skip(q).state = q.state
  BY SkipTyped
<1>4. \A type \in LexedTypes, state \in CmuStates : Return(r, type, state) \in L /\ Return(r, type, state).state = state
  BY <1>0, ReturnTyped
<1>5. \A q \in L : /\ Take(q, c) \in L /\ Take(q, c).state = q.state
                   /\ \A state \in CmuStates : /\ Go(q, state) \in L /\ Go(q, state).state = state
                                              /\ Begin(q, state) \in L /\ Begin(q, state).state = state
                                              /\ Open(q, state) \in L /\ Open(q, state).state = state
  BY MovesTyped
<1>6. \A text \in Word : Fine(Word_(text))
  <2> SUFFICES ASSUME NEW text \in Word
               PROVE  Fine(Word_(text))
    OBVIOUS
  <2> DEFINE q == [Go(r, "entry") EXCEPT !.match = text]
  <2>1. Go(r, "entry") \in L /\ Go(r, "entry").state = "entry"
    BY <1>0, <1>2, <1>5
  <2>2. q \in L /\ q.state = "entry"
    BY <2>1 DEF Lexer
  <2> HIDE DEF q, L
  <2>3. Take(q, c) \in L /\ Take(q, c).state = q.state
    BY <1>5, <2>2
  <2>4. Fine(Take(q, c))
    BY <2>2, <2>3
  <2> QED
    BY <2>4 DEF q
<1> HIDE DEF L
<1>7. CASE r.state = "start"
  <2>1. CmuTurn(r, c) = IF c = ";" THEN Open(r, "line_comment1")
                        ELSE IF c \in {" ", "\t"} \/ newline THEN Skip(r) ELSE Word_(<<>>)
    BY <1>7 DEF CmuTurn, Newline
  <2>2. Open(r, "line_comment1") \in L /\ (c = ";" => Commenting(Open(r, "line_comment1")))
    BY <1>0, <1>2, <1>5 DEF Commenting
  <2>3. Fine(Skip(r)) /\ <<>> \in Word
    BY <1>0, <1>3, <1>7 DEF Word
  <2> HIDE DEF Fine
  <2> QED
    BY <1>1, <1>6, <2>1, <2>2, <2>3 DEF L
<1>8. CASE r.state \in {"line_comment1", "line_comment2"}
  <2>1. CmuTurn(r, c) = IF c = ";" THEN IF r.state = "line_comment1" THEN Skip(Go(r, "line_comment2")) ELSE Open(r, "line_comment")
                        ELSE IF newline THEN Skip(Go(r, "start"))
                        ELSE IF r.state = "line_comment1" THEN Word_(<<";">>) ELSE Word_(<<";", ";">>)
    BY <1>8 DEF CmuTurn, Newline
  <2>2. ";" \in Characters
    BY <1>0, <1>8 DEF Commenting
  <2>3. <<";">> \in Word /\ <<";", ";">> \in Word
    <3>1. \A x \in Characters : <<x>> \in Seq(Characters) /\ <<x, x>> \in Seq(Characters)
      OBVIOUS
    <3> QED
      BY <2>2, <3>1 DEF Word
  <2>4. \A t : Commenting(t)
    BY <2>2 DEF Commenting
  <2>5. Skip(Go(r, "line_comment2")) \in L /\ Open(r, "line_comment") \in L /\ Skip(Go(r, "start")) \in L
    BY <1>0, <1>2, <1>3, <1>5
  <2>6. Word_(<<";">>) \in L /\ Word_(<<";", ";">>) \in L
    BY <1>6, <2>3
  <2> HIDE DEF Word_, newline
  <2> QED
    BY <2>1, <2>4, <2>5, <2>6 DEF L
<1>9. \A type \in LexedTypes : r.state \notin {"line_comment1", "line_comment2"} => Fine(Ends(type))
  <2> SUFFICES ASSUME NEW type \in LexedTypes, r.state \notin {"line_comment1", "line_comment2"}
               PROVE  Fine(Ends(type))
    OBVIOUS
  <2>1. Fine(Skip(Return(r, type, "start")))
    BY <1>2, <1>3, <1>4
  <2>2. Fine(Take(r, c))
    BY <1>0, <1>5
  <2> HIDE DEF Fine
  <2> QED
    BY <2>1, <2>2
<1>10. CASE r.state \in {"line_comment", "comment"}
  <2>1. CmuTurn(r, c) = Ends(r.state)
    BY <1>10 DEF CmuTurn
  <2>2. r.state \in LexedTypes
    BY <1>2, <1>10
  <2> HIDE DEF Fine, Ends
  <2> QED
    BY <1>1, <1>9, <1>10, <2>1, <2>2 DEF L
<1>11. \A type \in LexedTypes, state \in {"pronunciation", "context", "comment"} : Fine(Skip(Begin(Return(r, type, state), state)))
  <2> SUFFICES ASSUME NEW type \in LexedTypes, NEW state \in {"pronunciation", "context", "comment"}
               PROVE  Fine(Skip(Begin(Return(r, type, state), state)))
    OBVIOUS
  <2>1. state \in CmuStates
    BY <1>2
  <2>2. Return(r, type, state) \in L
    BY <1>4, <2>1
  <2>3. Begin(Return(r, type, state), state) \in L /\ Begin(Return(r, type, state), state).state = state
    BY <1>5, <2>1, <2>2
  <2> QED
    BY <1>3, <2>3
<1>12. CASE r.state = "entry"
  <2>1. CmuTurn(r, c) = IF c \in {" ", "\t"} THEN Skip(Begin(Return(r, "entry", "pronunciation"), "pronunciation"))
                        ELSE IF c = "(" THEN Skip(Begin(Return(r, "entry", "context"), "context")) ELSE Ends("entry")
    BY <1>12 DEF CmuTurn
  <2> HIDE DEF Fine, Ends
  <2> QED
    BY <1>1, <1>2, <1>9, <1>11, <1>12, <2>1 DEF L
<1>13. CASE r.state = "context"
  <2>1. CmuTurn(r, c) = IF c = ")" THEN Skip(Begin(Return(r, "context", "pronunciation"), "pronunciation"))
                        ELSE IF newline THEN Skip(Go(r, "start")) ELSE Take(r, c)
    BY <1>13 DEF CmuTurn, Newline
  <2>2. Fine(Skip(Go(r, "start"))) /\ Fine(Take(r, c))
    BY <1>0, <1>2, <1>3, <1>5, <1>13
  <2> HIDE DEF Fine
  <2> QED
    BY <1>1, <1>2, <1>11, <2>1, <2>2 DEF L
<1>14. CASE r.state = "pronunciation"
  <2>1. CmuTurn(r, c) = IF c = "#" THEN Skip(Begin(Return(r, "pronunciation", "comment"), "comment")) ELSE Ends("pronunciation")
    BY <1>14 DEF CmuTurn
  <2> HIDE DEF Fine, Ends
  <2> QED
    BY <1>1, <1>2, <1>9, <1>11, <1>14, <2>1 DEF L
<1> QED
  BY <1>0, <1>7, <1>8, <1>10, <1>12, <1>13, <1>14 DEF CmuStates

LEMMA CmuTokensTyped ==
    ASSUME NEW file \in Word
    PROVE  CmuTokensOf(file) \in Seq(FileToken)
<1> DEFINE X == {r \in Lexer(CmuStates) : Commenting(r)}
           Is(f, t) == f = [i \in 0 .. Len(t) |-> IF i = 0 THEN NewReader ELSE With(f[i - 1], LAMBDA v : CmuTurn(v, t[i]))]
           Latest(t) == (CHOOSE f : Is(f, t))[Len(t)]
           It(f) == f = [i \in 0 .. Len(file) |-> IF i = 0 THEN NewReader ELSE CmuTurn(f[i - 1], file[i])]
           F == [y \in X \X Characters |-> CmuTurn(y[1], y[2])]
           read == CHOOSE f : It(f)
<1>0. Len(file) \in Nat /\ \A i \in 1 .. Len(file) : file[i] \in Characters
  BY DEF Word
<1>1. NewReader \in X
  <2>1. <<>> \in Word /\ <<>> \in Seq(FileToken) /\ "start" \in CmuStates
    BY DEF Word, CmuStates
  <2>2. NewReader \in Lexer(CmuStates) /\ NewReader.state = "start"
    BY <2>1 DEF NewReader, Lexer
  <2> QED
    BY <2>2 DEF Commenting
<1>2. \A r \in X, c \in Characters : CmuTurn(r, c) \in X
  BY CmuTurnTyped
<1>3. F \in [X \X Characters -> X] /\ \A r \in X, c \in Characters : F[<<r, c>>] = CmuTurn(r, c)
  <2> HIDE DEF X
  <2> QED
    BY <1>2
<1>4. \A v, e : With(v, LAMBDA w : CmuTurn(w, e)) = CmuTurn(v, e)
  BY DEF With
<1>5. CmuTokensOf(file) = With(file, LAMBDA t : Latest(t)).tokens
  BY DEF CmuTokensOf, Each
<1>6. \A f : Is(f, file) <=> It(f)
  BY <1>4
<1> HIDE DEF Is, F, X
<1>7. With(file, LAMBDA t : Latest(t)) = Latest(file)
  <2> HIDE DEF Latest
  <2> QED
    BY DEF With
<1>8. \E f : It(f)
  <2>1. PICK f \in [0 .. Len(file) -> X] : IsFold(f, file, NewReader, F)
    <3>1. file \in Seq(Characters)
      BY DEF Word
    <3> QED
      BY <1>1, <1>3, <3>1, FoldExists
  <2>2. \A i \in 1 .. Len(file) : f[i] = CmuTurn(f[i - 1], file[i])
    <3>1. \A i \in 1 .. Len(file) : i - 1 \in 0 .. Len(file)
      BY <1>0
    <3> QED
      BY <1>0, <1>3, <2>1, <3>1 DEF IsFold
  <2>3. \A i \in 0 .. Len(file) : i # 0 => i \in 1 .. Len(file)
    BY <1>0
  <2>4. It(f)
    BY <2>1, <2>2, <2>3 DEF IsFold
  <2> QED
    BY <2>4
<1> HIDE DEF It
<1>9. Latest(file) = read[Len(file)]
  BY <1>6
<1>10. It(read)
  BY <1>8
<1> HIDE DEF read
<1>11. read[0] = NewReader /\ \A i \in 1 .. Len(file) : read[i] = CmuTurn(read[i - 1], file[i])
  <2>1. 0 \in 0 .. Len(file) /\ \A i \in 1 .. Len(file) : i \in 0 .. Len(file) /\ i # 0
    BY <1>0
  <2> QED
    BY <1>10, <2>1 DEF It
<1>12. read[Len(file)] \in X
  <2>1. \A i \in 1 .. Len(file) : read[i - 1] \in X => read[i] \in X
    BY <1>0, <1>2, <1>11
  <2>2. \A i \in 0 .. Len(file) : read[i] \in X
    BY <1>0, <1>1, <1>11, <2>1, FoldTyped
  <2> QED
    BY <1>0, <2>2
<1> QED
  BY <1>5, <1>7, <1>9, <1>12 DEF X, Lexer
(* The phonemes of a transcription. *)
Stress == {"primary", "secondary", "unstressed"}
Phone == [sound : Sounds \cup {"."}, stress : Stress]
ReadingSounds == [phonemes : Seq(Phone), stress : Stress, failed : BOOLEAN]

LEMMA ReadSoundTyped ==
    ASSUME NEW p \in ReadingSounds, NEW c \in Characters
    PROVE  ReadSound(p, c) \in ReadingSounds
<1>1. p.phonemes \in Seq(Phone) /\ p.stress \in Stress
  BY DEF ReadingSounds
<1>2. c \in Sounds => Append(p.phonemes, [sound |-> c, stress |-> p.stress]) \in Seq(Phone)
  <2>1. c \in Sounds => [sound |-> c, stress |-> p.stress] \in Phone
    BY <1>1 DEF Phone
  <2> QED
    BY <1>1, <2>1
<1>3. ReadSound(p, c) = IF p.failed \/ c = " " THEN p
                        ELSE IF c = "^" THEN [p EXCEPT !.stress = "primary"]
                        ELSE IF c = "_" THEN [p EXCEPT !.stress = "secondary"]
                        ELSE IF c \in Sounds
                        THEN [p EXCEPT !.phonemes = Append(@, [sound |-> c, stress |-> p.stress]), !.stress = "unstressed"]
                        ELSE [p EXCEPT !.failed = TRUE]
  BY DictionaryAssumption DEF ReadSound
<1> QED
  BY <1>2, <1>3 DEF ReadingSounds, Stress

LEMMA PhonemesRead ==
    ASSUME NEW text \in Word
    PROVE  ReadPhonemes(text).phonemes \in Seq(Phone) /\ ReadPhonemes(text).failed \in BOOLEAN
<1> DEFINE X == ReadingSounds
           Silence == [phonemes |-> <<>>, stress |-> "unstressed", failed |-> FALSE]
           Is(f, t) == f = [i \in 0 .. Len(t) |-> IF i = 0 THEN Silence ELSE With(f[i - 1], LAMBDA v : ReadSound(v, t[i]))]
           Latest(t) == (CHOOSE f : Is(f, t))[Len(t)]
           It(f) == f = [i \in 0 .. Len(text) |-> IF i = 0 THEN Silence ELSE ReadSound(f[i - 1], text[i])]
           F == [y \in X \X Characters |-> ReadSound(y[1], y[2])]
           read == CHOOSE f : It(f)
<1>0. Len(text) \in Nat /\ \A i \in 1 .. Len(text) : text[i] \in Characters
  BY DEF Word
<1>1. Silence \in X
  <2>1. <<>> \in Seq(Phone) /\ "unstressed" \in Stress
    BY DEF Stress
  <2> QED
    BY <2>1 DEF ReadingSounds
<1>2. \A r \in X, c \in Characters : ReadSound(r, c) \in X
  BY ReadSoundTyped
<1>3. F \in [X \X Characters -> X] /\ \A r \in X, c \in Characters : F[<<r, c>>] = ReadSound(r, c)
  <2> HIDE DEF X
  <2> QED
    BY <1>2
<1>4. \A v, e : With(v, LAMBDA w : ReadSound(w, e)) = ReadSound(v, e)
  BY DEF With
<1>5. ReadPhonemes(text) = With(text, LAMBDA t : Latest(t))
  BY DEF ReadPhonemes, Each
<1>6. \A f : Is(f, text) <=> It(f)
  BY <1>4
<1> HIDE DEF Is, F, X, Silence
<1>7. With(text, LAMBDA t : Latest(t)) = Latest(text)
  <2> HIDE DEF Latest
  <2> QED
    BY DEF With
<1>8. \E f : It(f)
  <2>1. PICK f \in [0 .. Len(text) -> X] : IsFold(f, text, Silence, F)
    <3>1. text \in Seq(Characters)
      BY DEF Word
    <3> QED
      BY <1>1, <1>3, <3>1, FoldExists
  <2>2. \A i \in 1 .. Len(text) : f[i] = ReadSound(f[i - 1], text[i])
    <3>1. \A i \in 1 .. Len(text) : i - 1 \in 0 .. Len(text)
      BY <1>0
    <3> QED
      BY <1>0, <1>3, <2>1, <3>1 DEF IsFold
  <2>3. \A i \in 0 .. Len(text) : i # 0 => i \in 1 .. Len(text)
    BY <1>0
  <2>4. It(f)
    BY <2>1, <2>2, <2>3 DEF IsFold
  <2> QED
    BY <2>4
<1> HIDE DEF It
<1>9. Latest(text) = read[Len(text)]
  BY <1>6
<1>10. It(read)
  BY <1>8
<1> HIDE DEF read
<1>11. read[0] = Silence /\ \A i \in 1 .. Len(text) : read[i] = ReadSound(read[i - 1], text[i])
  <2>1. 0 \in 0 .. Len(text) /\ \A i \in 1 .. Len(text) : i \in 0 .. Len(text) /\ i # 0
    BY <1>0
  <2> QED
    BY <1>10, <2>1 DEF It
<1>12. read[Len(text)] \in X
  <2>1. \A i \in 1 .. Len(text) : read[i - 1] \in X => read[i] \in X
    BY <1>0, <1>2, <1>11
  <2>2. \A i \in 0 .. Len(text) : read[i] \in X
    BY <1>0, <1>1, <1>11, <2>1, FoldTyped
  <2> QED
    BY <1>0, <2>2
<1> QED
  BY <1>5, <1>7, <1>9, <1>12 DEF X, ReadingSounds

-----------------------------------------------------------------------------
(* The readers of dictionaries.                                             *)

\* What a word is said as in a dictionary, and what else it may have.
SaidEntry == [type : {"phonemes"}, phonemes : Seq(Phone)] \cup [type : {"buffer"}, word : Word]
OpenFile == [tokens : Seq(FileToken), mPhonemeSet : BOOLEAN]
Formats == {Files[name].format : name \in DOMAIN Files} \cup {"none"}
ReaderRecord == [format : Formats, state : {"start", "entry", "context"},
                 says : {"more", "entry", "end", "throw", "phoneme_error"}, word : Word,
                 entry : SaidEntry \cup {Null}, mFiles : Seq(OpenFile)]
DictionaryReader == {r \in ReaderRecord : /\ r.says = "entry" => r.entry \in SaidEntry
                                          /\ r.format = "cmudict" => r.mFiles # <<>>}

LEMMA DropTyped ==
    ASSUME NEW r \in DictionaryReader, r.mFiles # <<>>, NEW n \in Nat
    PROVE  Drop(r, n) \in DictionaryReader /\ Drop(r, n).format = r.format /\ Drop(r, n).mFiles # <<>>
<1> DEFINE file == r.mFiles[1]
           left == SubSeq(file.tokens, n + 1, Len(file.tokens))
           after == [file EXCEPT !.tokens = left]
<1>1. r.mFiles \in Seq(OpenFile) /\ file \in OpenFile
  BY DEF DictionaryReader, ReaderRecord
<1>2. left \in Seq(FileToken)
  <2>1. file.tokens \in Seq(FileToken)
    BY <1>1 DEF OpenFile
  <2> DEFINE t == file.tokens
  <2>2. \A i \in n + 1 .. Len(t) : t[i] \in FileToken
    BY <2>1
  <2> HIDE DEF t
  <2>3. t \in Seq(FileToken)
    BY <2>1 DEF t
  <2>4. SubSeq(t, n + 1, Len(t)) \in Seq(FileToken)
    BY <2>2, <2>3
  <2> QED
    BY <2>4 DEF t
<1>3. after \in OpenFile
  BY <1>1, <1>2 DEF OpenFile
<1>4. Drop(r, n) = [r EXCEPT !.mFiles = [r.mFiles EXCEPT ![1] = after]]
  BY DEF Drop
<1> HIDE DEF after, left, file
<1>5. [r.mFiles EXCEPT ![1] = after] \in Seq(OpenFile) /\ [r.mFiles EXCEPT ![1] = after] # <<>>
  <2> DEFINE s == r.mFiles
             e == [s EXCEPT ![1] = after]
  <2>1. s \in Seq(OpenFile) /\ s # <<>>
    BY <1>1
  <2> HIDE DEF s
  <2>2. Len(s) >= 1 /\ Len(s) \in Nat
    BY <2>1
  <2>3. e \in Seq(OpenFile) /\ Len(e) = Len(s)
    BY <1>3, <2>1
  <2> QED
    BY <2>2, <2>3 DEF s
<1> QED
  BY <1>4, <1>5 DEF DictionaryReader, ReaderRecord

LEMMA SaysTyped ==
    ASSUME NEW r \in DictionaryReader
    PROVE  /\ \A what \in {"more", "end", "throw", "phoneme_error"} :
                  Says(r, what) \in DictionaryReader /\ Says(r, what).mFiles = r.mFiles /\ Says(r, what).format = r.format
           /\ \A word \in Word, entry \in SaidEntry : Entry(r, word, entry) \in DictionaryReader
           /\ \A state \in {"start", "entry", "context"} : [r EXCEPT !.state = state] \in DictionaryReader
BY DEF DictionaryReader, ReaderRecord, Says, Entry

LEMMA EntryTyped ==
    /\ \A phonemes \in Seq(Phone) : PhonemesEntry(phonemes) \in SaidEntry
    /\ \A word \in Word : SayAsEntry(word) \in SaidEntry
BY DEF PhonemesEntry, SayAsEntry, SaidEntry

LEMMA OpenedTyped ==
    ASSUME NEW name
    PROVE  FileOf(name).is \in Word /\ FileOf(name).format \in Formats /\ Opened(name) \in OpenFile
<1>1. FileOf(name).is \in Word /\ FileOf(name).format \in Formats
  <2>1. CASE name \in DOMAIN Files
    BY <2>1, DictionaryAssumption DEF FileOf, Word, Formats
  <2>2. CASE name \notin DOMAIN Files
    BY <2>2 DEF FileOf, NoFile, Word, Formats
  <2> QED
    BY <2>1, <2>2
<1> QED
  BY <1>1, FileTokensTyped DEF Opened, OpenFile

LEMMA CreatedTyped ==
    ASSUME NEW name
    PROVE  createDictionaryReader(name) \in DictionaryReader
<1> DEFINE file == [Opened(name) EXCEPT !.tokens = IF FileOf(name).format = "cmudict" THEN CmuTokensOf(FileOf(name).is) ELSE @]
<1>1. file \in OpenFile
  BY OpenedTyped, CmuTokensTyped DEF OpenFile
<1>2. createDictionaryReader(name) = [format |-> FileOf(name).format, state |-> "start", says |-> "more", word |-> <<>>, entry |-> Null,
                                      mFiles |-> <<file>>]
  BY DEF createDictionaryReader
<1> HIDE DEF file
<1>3. <<file>> \in Seq(OpenFile) /\ <<file>> # <<>> /\ <<>> \in Word
  BY <1>1 DEF Word
<1> QED
  BY <1>2, <1>3, OpenedTyped DEF DictionaryReader, ReaderRecord

LEMMA TokensOfReader ==
    ASSUME NEW r \in DictionaryReader, r.mFiles # <<>>
    PROVE  /\ r.mFiles[1].tokens \in Seq(FileToken)
           /\ r.mFiles[1].tokens # <<>> => /\ r.mFiles[1].tokens[1].is \in Word
                                           /\ Tail(r.mFiles[1].tokens) \in Seq(FileToken)
<1>1. r.mFiles[1] \in OpenFile
  BY DEF DictionaryReader, ReaderRecord
<1>2. r.mFiles[1].tokens \in Seq(FileToken)
  BY <1>1 DEF OpenFile
<1>3. \A t \in Seq(FileToken) : t # <<>> => t[1] \in FileToken /\ Tail(t) \in Seq(FileToken)
  OBVIOUS
<1> QED
  BY <1>2, <1>3 DEF FileToken

LEMMA ReadDirectiveTyped ==
    ASSUME NEW r \in DictionaryReader, r.mFiles # <<>>, NEW directive, NEW rest
    PROVE  ReadDirective(r, directive, rest) \in DictionaryReader
<1>1. \A n \in {1, 2} : Drop(r, n) \in DictionaryReader /\ Drop(r, n).format = r.format /\ Drop(r, n).mFiles # <<>>
  BY DropTyped
<1>2. CASE rest = <<>> \/ rest[1].type # "directive_contents"
  BY <1>1, <1>2 DEF ReadDirective
<1>3. CASE ~(rest = <<>> \/ rest[1].type # "directive_contents")
  <2> DEFINE d == Drop(r, 2)
  <2>1. d \in DictionaryReader /\ d.mFiles # <<>>
    BY <1>1
  <2> HIDE DEF d
  <2>2. CASE directive = <<".", "i">>
    <3>1. ReadDirective(r, directive, rest) = IF rest[1].is \notin DOMAIN Files THEN Says(d, "throw")
                                              ELSE [d EXCEPT !.mFiles = <<Opened(rest[1].is)>> \o @]
      BY <1>3, <2>2 DEF ReadDirective, d
    <3>2. Says(d, "throw") \in DictionaryReader
      BY <2>1, SaysTyped
    <3> DEFINE m == <<Opened(rest[1].is)>> \o d.mFiles
    <3>3. Opened(rest[1].is) \in OpenFile /\ d.mFiles \in Seq(OpenFile)
      BY <2>1, OpenedTyped DEF DictionaryReader, ReaderRecord
    <3>4. m \in Seq(OpenFile) /\ m # <<>>
      <4>1. \A o \in OpenFile, s \in Seq(OpenFile) : <<o>> \o s \in Seq(OpenFile) /\ Len(<<o>> \o s) = 1 + Len(s) /\ Len(s) \in Nat
        OBVIOUS
      <4>2. m \in Seq(OpenFile) /\ Len(m) = 1 + Len(d.mFiles) /\ Len(d.mFiles) \in Nat
        BY <3>3, <4>1
      <4> HIDE DEF m
      <4> QED
        BY <4>2
    <3>5. [d EXCEPT !.mFiles = m] \in DictionaryReader
      BY <2>1, <3>4 DEF DictionaryReader, ReaderRecord
    <3> QED
      BY <3>1, <3>2, <3>5
  <2>3. CASE directive = <<".", "p">>
    <3>1. ReadDirective(r, directive, rest) = [d EXCEPT !.mFiles[1].mPhonemeSet = TRUE]
      <4>1. <<".", "p">> # <<".", "i">>
        OBVIOUS
      <4> QED
        BY <1>3, <2>3, <4>1 DEF ReadDirective, d
    <3>2. [d EXCEPT !.mFiles[1].mPhonemeSet = TRUE] = [d EXCEPT !.mFiles = [d.mFiles EXCEPT ![1] = [d.mFiles[1] EXCEPT !.mPhonemeSet = TRUE]]]
      OBVIOUS
    <3> DEFINE o == [d.mFiles[1] EXCEPT !.mPhonemeSet = TRUE]
               m == [d.mFiles EXCEPT ![1] = o]
    <3>3. d.mFiles \in Seq(OpenFile) /\ d.mFiles[1] \in OpenFile
      BY <2>1 DEF DictionaryReader, ReaderRecord
    <3>4. o \in OpenFile
      BY <3>3 DEF OpenFile
    <3> HIDE DEF o
    <3>5. m \in Seq(OpenFile) /\ m # <<>>
      <4> DEFINE s == d.mFiles
      <4>1. s \in Seq(OpenFile) /\ s # <<>>
        BY <2>1, <3>3
      <4> HIDE DEF s
      <4>2. Len(s) >= 1 /\ Len(s) \in Nat
        BY <4>1
      <4>3. [s EXCEPT ![1] = o] \in Seq(OpenFile) /\ Len([s EXCEPT ![1] = o]) = Len(s)
        BY <3>4, <4>1
      <4>4. [s EXCEPT ![1] = o] # <<>>
        BY <4>2, <4>3
      <4> QED
        BY <4>3, <4>4 DEF s
    <3>6. [d EXCEPT !.mFiles = m] \in DictionaryReader
      <4> HIDE DEF m
      <4> QED
        BY <2>1, <3>5 DEF DictionaryReader, ReaderRecord
    <3> QED
      BY <3>1, <3>2, <3>6 DEF o
  <2>4. CASE directive # <<".", "i">> /\ directive # <<".", "p">>
    BY <1>3, <2>1, <2>4 DEF ReadDirective, d
  <2> QED
    BY <2>2, <2>3, <2>4
<1> QED
  BY <1>2, <1>3

LEMMA ReadWordTyped ==
    ASSUME NEW r \in DictionaryReader, r.mFiles # <<>>, NEW word \in Word, NEW rest \in Seq(FileToken)
    PROVE  ReadWord(r, word, rest) \in DictionaryReader
<1>1. \A n \in {1, 2} : Drop(r, n) \in DictionaryReader
  BY DropTyped
<1>2. CASE rest = <<>>
  BY <1>1, <1>2, SaysTyped DEF ReadWord
<1>3. CASE rest # <<>>
  <2> DEFINE d == Drop(r, 2)
             p == ReadPhonemes(rest[1].is)
  <2>1. d \in DictionaryReader /\ Says(d, "throw") \in DictionaryReader /\ Says(d, "phoneme_error") \in DictionaryReader
    BY <1>1, SaysTyped
  <2>2. rest[1].is \in Word
    <3>1. rest[1] \in FileToken
      BY <1>3
    <3> QED
      BY <3>1 DEF FileToken
  <2>3. CASE rest[1].type = "text"
    <3>1. ReadWord(r, word, rest) = Entry(d, word, SayAsEntry(rest[1].is))
      BY <1>3, <2>3 DEF ReadWord
    <3> HIDE DEF d
    <3> QED
      <4>1. SayAsEntry(rest[1].is) \in SaidEntry
        BY <2>2, EntryTyped
      <4>2. Entry(d, word, SayAsEntry(rest[1].is)) \in DictionaryReader
        BY <2>1, <4>1, SaysTyped
      <4> QED
        BY <3>1, <4>2
  <2>4. CASE rest[1].type = "phonemes"
    <3>1. ReadWord(r, word, rest) = IF rest[1].is = <<>> THEN d
                                    ELSE IF ~r.mFiles[1].mPhonemeSet THEN Says(d, "throw")
                                    ELSE IF p.failed THEN Says(d, "phoneme_error") ELSE Entry(d, word, PhonemesEntry(p.phonemes))
      <4>1. \A q : With(q, LAMBDA x : IF x.failed THEN Says(Drop(r, 2), "phoneme_error")
                                      ELSE Entry(Drop(r, 2), word, PhonemesEntry(x.phonemes)))
                   = IF q.failed THEN Says(d, "phoneme_error") ELSE Entry(d, word, PhonemesEntry(q.phonemes))
        BY DEF With
      <4> QED
        BY <1>3, <2>4, <4>1 DEF ReadWord
    <3>2. p.phonemes \in Seq(Phone)
      BY <2>2, PhonemesRead
    <3> HIDE DEF d, p
    <3> QED
      <4>1. PhonemesEntry(p.phonemes) \in SaidEntry
        BY <3>2, EntryTyped
      <4>2. Entry(d, word, PhonemesEntry(p.phonemes)) \in DictionaryReader
        BY <2>1, <4>1, SaysTyped
      <4> QED
        BY <2>1, <3>1, <4>2
  <2>5. CASE rest[1].type # "text" /\ rest[1].type # "phonemes"
    <3>1. ReadWord(r, word, rest) = Says(d, "throw")
      BY <1>3, <2>5 DEF ReadWord
    <3> QED
      BY <2>1, <3>1
  <2> QED
    BY <2>3, <2>4, <2>5
<1> QED
  BY <1>2, <1>3

LEMMA ReadCainteoirTyped ==
    ASSUME NEW r \in DictionaryReader, r.format # "cmudict"
    PROVE  ReadCainteoir(r) \in DictionaryReader
<1> DEFINE tokens_ == r.mFiles[1].tokens
           more == Says(r, "more")
<1>1. more \in DictionaryReader /\ more.mFiles = r.mFiles /\ more.format = r.format
  BY SaysTyped
<1>2. CASE r.mFiles = <<>>
  BY <1>2, SaysTyped DEF ReadCainteoir
<1>3. CASE r.mFiles # <<>> /\ tokens_ = <<>>
  <2>1. ReadCainteoir(r) = [more EXCEPT !.mFiles = Tail(@)]
    BY <1>3 DEF ReadCainteoir
  <2>2. Tail(r.mFiles) \in Seq(OpenFile)
    <3>1. r.mFiles \in Seq(OpenFile)
      BY DEF DictionaryReader, ReaderRecord
    <3> QED
      BY <1>3, <3>1
  <2> HIDE DEF more
  <2> QED
    BY <1>1, <2>1, <2>2 DEF DictionaryReader, ReaderRecord
<1>4. CASE r.mFiles # <<>> /\ tokens_ # <<>>
  <2>1. tokens_[1].is \in Word /\ Tail(tokens_) \in Seq(FileToken)
    BY <1>4, TokensOfReader
  <2>2. ReadCainteoir(r) = IF tokens_[1].type = "directive" THEN ReadDirective(more, tokens_[1].is, Tail(tokens_))
                           ELSE IF tokens_[1].type \in {"text", "string"} THEN ReadWord(more, tokens_[1].is, Tail(tokens_))
                           ELSE Says(Drop(r, 1), "throw")
    BY <1>4 DEF ReadCainteoir
  <2>3. Says(Drop(r, 1), "throw") \in DictionaryReader
    BY <1>4, DropTyped, SaysTyped
  <2> HIDE DEF more, tokens_
  <2>4. ReadDirective(more, tokens_[1].is, Tail(tokens_)) \in DictionaryReader
    BY <1>1, <1>4, ReadDirectiveTyped
  <2>5. ReadWord(more, tokens_[1].is, Tail(tokens_)) \in DictionaryReader
    BY <1>1, <1>4, <2>1, ReadWordTyped
  <2> QED
    BY <2>2, <2>3, <2>4, <2>5
<1> QED
  BY <1>2, <1>3, <1>4

LEMMA LoweredTyped ==
    ASSUME NEW word \in Word
    PROVE  Lowered(word) \in Word
<1> DEFINE lower(i) == IF \E c \in DOMAIN Upper : Upper[c] = word[i] THEN CHOOSE c \in DOMAIN Upper : Upper[c] = word[i] ELSE word[i]
<1>1. Len(word) \in Nat /\ DOMAIN word = 1 .. Len(word) /\ \A i \in DOMAIN word : word[i] \in Characters
  BY DEF Word
<1>2. \A i \in DOMAIN word : lower(i) \in Characters
  BY <1>1, DictionaryAssumption
<1>3. Lowered(word) = [i \in 1 .. Len(word) |-> lower(i)]
  BY <1>1 DEF Lowered
<1> HIDE DEF lower
<1>4. [i \in 1 .. Len(word) |-> lower(i)] \in Seq(Characters)
  BY <1>1, <1>2
<1> QED
  BY <1>3, <1>4 DEF Word

LEMMA ReadCmuTyped ==
    ASSUME NEW r \in DictionaryReader, r.format = "cmudict"
    PROVE  ReadCmu(r) \in DictionaryReader
<1> DEFINE tokens_ == r.mFiles[1].tokens
           next == Says(Drop(r, 1), "more")
<1>1. r.mFiles # <<>>
  BY DEF DictionaryReader
<1>2. CASE tokens_ = <<>>
  BY <1>2, SaysTyped DEF ReadCmu
<1>3. CASE tokens_ # <<>>
  <2>1. tokens_[1].is \in Word
    BY <1>1, <1>3, TokensOfReader
  <2>2. next \in DictionaryReader
    BY <1>1, DropTyped, SaysTyped
  <2>3. ReadCmu(r) \in {[next EXCEPT !.state = "entry", !.word = tokens_[1].is], [next EXCEPT !.state = "context"],
                        CmuPronounced(next, tokens_[1].is), [next EXCEPT !.state = "start"]}
    <3> DEFINE type == tokens_[1].type
    <3>1. CASE type = "entry" /\ r.state \in {"start", "entry"}
      BY <1>3, <3>1 DEF ReadCmu
    <3>2. CASE type = "context" /\ r.state = "entry"
      BY <1>3, <3>2 DEF ReadCmu
    <3>3. CASE type = "pronunciation" /\ (r.state = "entry" \/ (r.state = "context" /\ tokens_[1].is # <<>>))
      BY <1>3, <3>3 DEF ReadCmu
    <3>4. CASE ~(type = "entry" /\ r.state \in {"start", "entry"}) /\ ~(type = "context" /\ r.state = "entry")
               /\ ~(type = "pronunciation" /\ (r.state = "entry" \/ (r.state = "context" /\ tokens_[1].is # <<>>)))
      <4>1. ReadCmu(r) = [next EXCEPT !.state = "start"]
        BY <1>3, <3>4 DEF ReadCmu
      <4> QED
        BY <4>1
    <3> QED
      BY <3>1, <3>2, <3>3, <3>4
  <2> HIDE DEF next
  <2>4. [next EXCEPT !.state = "entry", !.word = tokens_[1].is] \in DictionaryReader
    <3> HIDE DEF tokens_
    <3> QED
      BY <2>1, <2>2 DEF DictionaryReader, ReaderRecord
  <2>5. [next EXCEPT !.state = "context"] \in DictionaryReader /\ [next EXCEPT !.state = "start"] \in DictionaryReader
    BY <2>2, SaysTyped
  <2>6. CmuPronounced(next, tokens_[1].is) \in DictionaryReader
    <3> DEFINE q == [next EXCEPT !.state = "start"]
               p == ReadPhonemes(tokens_[1].is)
    <3>1. CmuPronounced(next, tokens_[1].is) = IF p.failed THEN Says(q, "phoneme_error")
                                               ELSE Entry(q, Lowered(next.word), PhonemesEntry(p.phonemes))
      BY DEF CmuPronounced, With
    <3>2. next.word \in Word /\ p.phonemes \in Seq(Phone) /\ q \in DictionaryReader
      BY <2>1, <2>2, <2>5, PhonemesRead DEF DictionaryReader, ReaderRecord
    <3> HIDE DEF p, q
    <3>3. Lowered(next.word) \in Word
      BY <3>2, LoweredTyped
    <3> QED
      <4>1. PhonemesEntry(p.phonemes) \in SaidEntry
        BY <3>2, EntryTyped
      <4>2. Entry(q, Lowered(next.word), PhonemesEntry(p.phonemes)) \in DictionaryReader
        BY <3>2, <3>3, <4>1, SaysTyped
      <4>3. Says(q, "phoneme_error") \in DictionaryReader
        BY <3>2, SaysTyped
      <4> QED
        BY <3>1, <4>2, <4>3
  <2> QED
    BY <2>3, <2>4, <2>5, <2>6
<1> QED
  BY <1>2, <1>3

LEMMA ReadFileTyped ==
    ASSUME NEW r \in DictionaryReader
    PROVE  ReadFile(r) \in DictionaryReader
BY ReadCmuTyped, ReadCainteoirTyped DEF ReadFile

-----------------------------------------------------------------------------
(* Sequences joined together: what they hold, and how they begin.           *)

LEMMA FlattenTyped ==
    ASSUME NEW X, NEW ss \in Seq(Seq(X))
    PROVE  FlattenSeq(ss) \in Seq(X)
<1>1. CASE Len(ss) = 0
  BY <1>1 DEF FlattenSeq
<1>2. CASE Len(ss) > 0
  <2> DEFINE n == Len(ss)
  <2>1. PICK f : Flattens(f, ss) /\ FlattenSeq(ss) = f[n]
    BY <1>2, FlattenIs
  <2>2. n \in Nat /\ n > 0 /\ \A i \in 1 .. n : ss[i] \in Seq(X)
    BY <1>2
  <2> DEFINE S == {i \in 0 .. n : i > 0 => f[i] \in Seq(X)}
  <2>3. Inductive(S, n)
    <3>1. 0 \in S
      BY <2>2
    <3>2. ASSUME NEW i \in 0 .. n - 1, i \in S
          PROVE  i + 1 \in S
      <4>1. i + 1 \in 0 .. n /\ i + 1 \in 1 .. n /\ (i + 1) - 1 = i /\ (i > 0 => f[i] \in Seq(X))
        BY <2>2, <3>2
      <4>2. CASE i = 0
        BY <2>1, <2>2, <4>1, <4>2 DEF Flattens
      <4>3. CASE i > 0
        <5>1. i + 1 \in 2 .. Len(ss)
          BY <4>1, <4>3
        <5>2. f[i + 1] = f[i] \o ss[i + 1]
          BY <2>1, <4>1, <5>1 DEF Flattens
        <5>3. f[i + 1] \in Seq(X)
          BY <2>2, <4>1, <4>3, <5>2
        <5> QED
          BY <4>1, <5>3
      <4> QED
        BY <4>2, <4>3
    <3> HIDE DEF S
    <3> QED
      BY <3>1, <3>2 DEF Inductive
  <2>4. n \in S
    <3> HIDE DEF S
    <3>1. n \in 0 .. n
      BY <2>2
    <3> QED
      BY <2>2, <2>3, <3>1, InductionTo
  <2> QED
    BY <2>1, <2>2, <2>4
<1> QED
  BY <1>1, <1>2

LEMMA FlattenFirst ==
    ASSUME NEW X, NEW ss \in Seq(Seq(X)), Len(ss) > 0, ss[1] # <<>>
    PROVE  FlattenSeq(ss) # <<>> /\ FlattenSeq(ss)[1] = ss[1][1]
<1> DEFINE n == Len(ss)
           Fine(s) == s \in Seq(X) /\ Len(s) > 0 /\ s[1] = ss[1][1]
<1>1. PICK f : Flattens(f, ss) /\ FlattenSeq(ss) = f[n]
  BY FlattenIs
<1>2. n \in Nat /\ n > 0 /\ \A i \in 1 .. n : ss[i] \in Seq(X)
  OBVIOUS
<1>3. \A s, t \in Seq(X) : Fine(s) => Fine(s \o t)
  OBVIOUS
<1>4. Fine(ss[1])
  <2> DEFINE s == ss[1]
  <2>1. s \in Seq(X) /\ s # <<>>
    BY <1>2
  <2> HIDE DEF s
  <2>2. Len(s) > 0
    BY <2>1
  <2> QED
    BY <2>1, <2>2 DEF s
<1>8. \A s : Fine(s) => s \in Seq(X)
  OBVIOUS
<1>5. \A s : Fine(s) => s # <<>> /\ s[1] = ss[1][1]
  OBVIOUS
<1> HIDE DEF Fine
<1> DEFINE S == {i \in 0 .. n : i > 0 => Fine(f[i])}
<1>6. Inductive(S, n)
  <2>1. 0 \in S
    BY <1>2
  <2>2. ASSUME NEW i \in 0 .. n - 1, i \in S
        PROVE  i + 1 \in S
    <3>1. i + 1 \in 0 .. n /\ i + 1 \in 1 .. n /\ (i + 1) - 1 = i /\ (i > 0 => Fine(f[i]))
      BY <1>2, <2>2
    <3>2. CASE i = 0
      BY <1>1, <1>4, <3>1, <3>2 DEF Flattens
    <3>3. CASE i > 0
      <4>1. i + 1 \in 2 .. Len(ss)
        BY <3>1, <3>3
      <4>2. f[i + 1] = f[i] \o ss[i + 1]
        BY <1>1, <3>1, <4>1 DEF Flattens
      <4>3. Fine(f[i + 1])
        BY <1>2, <1>3, <1>8, <3>1, <3>3, <4>2
      <4> QED
        BY <3>1, <4>3
    <3> QED
      BY <3>2, <3>3
  <2> HIDE DEF S
  <2> QED
    BY <2>1, <2>2 DEF Inductive
<1>7. n \in S
  <2> HIDE DEF S
  <2>1. n \in 0 .. n
    BY <1>2
  <2> QED
    BY <1>2, <1>6, <2>1, InductionTo
<1> QED
  BY <1>1, <1>2, <1>5, <1>7

LEMMA FlattenEmpty == FlattenSeq(<<>>) = <<>>
BY DEF FlattenSeq

\* One sequence more at the end.
LEMMA FlattenAppend ==
    ASSUME NEW X, NEW ss \in Seq(Seq(X)), NEW t \in Seq(X)
    PROVE  FlattenSeq(Append(ss, t)) = FlattenSeq(ss) \o t
<1> DEFINE tt == Append(ss, t)
<1>1. tt \in Seq(Seq(X)) /\ Len(tt) = Len(ss) + 1 /\ tt[Len(tt)] = t /\ \A i \in 1 .. Len(ss) : tt[i] = ss[i]
  OBVIOUS
<1> HIDE DEF tt
<1>2. FlattenSeq(tt) = FlattenSeq(ss) \o tt[Len(tt)]
  BY <1>1, FlattenStep
<1> QED
  BY <1>1, <1>2 DEF tt

LEMMA FlattenJoined ==
    ASSUME NEW X, NEW ss \in Seq(Seq(X)), NEW tt \in Seq(Seq(X))
    PROVE  FlattenSeq(ss \o tt) = FlattenSeq(ss) \o FlattenSeq(tt)
<1> DEFINE n == Len(tt)
           front(i) == SubSeq(tt, 1, i)
           S == {i \in 0 .. n : FlattenSeq(ss \o front(i)) = FlattenSeq(ss) \o FlattenSeq(front(i))}
<1>1. n \in Nat /\ \A i \in 1 .. n : tt[i] \in Seq(X)
  OBVIOUS
<1>2. FlattenSeq(ss) \in Seq(X)
  BY FlattenTyped
<1>3. 0 \in S
  <2>1. front(0) = <<>>
    OBVIOUS
  <2>2. ss \o <<>> = ss
    OBVIOUS
  <2>3. FlattenSeq(ss) \o <<>> = FlattenSeq(ss)
    BY <1>2
  <2> HIDE DEF front
  <2>4. ss \o front(0) = ss /\ FlattenSeq(front(0)) = <<>>
    BY <2>1, <2>2, FlattenEmpty
  <2>5. FlattenSeq(ss \o front(0)) = FlattenSeq(ss) \o FlattenSeq(front(0))
    BY <2>3, <2>4
  <2> QED
    BY <1>1, <2>5
<1>4. ASSUME NEW i \in 0 .. n - 1, i \in S
      PROVE  i + 1 \in S
  <2> DEFINE f == front(i)
             t == tt[i + 1]
  <2>1. i + 1 \in 1 .. n /\ t \in Seq(X) /\ i + 1 \in 0 .. n
    BY <1>1
  <2>2. f \in Seq(Seq(X)) /\ front(i + 1) = Append(f, t)
    BY <1>1, <2>1
  <2>3. FlattenSeq(ss \o f) = FlattenSeq(ss) \o FlattenSeq(f)
    BY <1>4
  <2> HIDE DEF f, t, front
  <2>4. ss \o Append(f, t) = Append(ss \o f, t) /\ ss \o f \in Seq(Seq(X))
    BY <2>1, <2>2
  <2>5. FlattenSeq(Append(ss \o f, t)) = (FlattenSeq(ss) \o FlattenSeq(f)) \o t
    BY <2>1, <2>3, <2>4, FlattenAppend
  <2>6. FlattenSeq(Append(f, t)) = FlattenSeq(f) \o t
    BY <2>1, <2>2, FlattenAppend
  <2>7. \A a, b, c \in Seq(X) : (a \o b) \o c = a \o (b \o c)
    OBVIOUS
  <2>8. FlattenSeq(f) \in Seq(X)
    BY <2>2, FlattenTyped
  <2>9. FlattenSeq(ss \o front(i + 1)) = FlattenSeq(ss) \o FlattenSeq(front(i + 1))
    <3>1. (FlattenSeq(ss) \o FlattenSeq(f)) \o t = FlattenSeq(ss) \o (FlattenSeq(f) \o t)
      BY <1>2, <2>1, <2>7, <2>8
    <3>2. ss \o front(i + 1) = Append(ss \o f, t)
      BY <2>2, <2>4
    <3> QED
      BY <2>2, <2>5, <2>6, <3>1, <3>2
  <2> QED
    BY <2>1, <2>9
<1>5. n \in S
  <2> HIDE DEF S
  <2>1. n \in 0 .. n
    BY <1>1
  <2> QED
    BY <1>1, <1>3, <1>4, <2>1, InductionTo DEF Inductive
<1>6. front(n) = tt
  OBVIOUS
<1> QED
  BY <1>5, <1>6

-----------------------------------------------------------------------------
(* The words of a word.                                                     *)

StressTypes == {"as_transcribed", "primary", "secondary", "initial_unstressed"}
Part == [stress : StressTypes, word : Word]

LEMMA StressOfTyped ==
    ASSUME NEW mode, NEW c
    PROVE  StressOf(mode, c) \in StressTypes \cup {"none"}
<1>1. CASE mode = "hyphenated"
  <2>1. StressOf(mode, c) = IF c = "-" THEN "as_transcribed" ELSE "none"
    BY <1>1 DEF StressOf
  <2> QED
    BY <2>1 DEF StressTypes
<1>2. CASE mode = "stressed"
  <2>1. StressOf(mode, c) = IF c = "'" THEN "primary" ELSE IF c = "," THEN "secondary"
                            ELSE IF c = "." THEN "initial_unstressed" ELSE "none"
    BY <1>2 DEF StressOf
  <2> QED
    BY <2>1 DEF StressTypes
<1>3. CASE mode # "hyphenated" /\ mode # "stressed"
  <2>1. StressOf(mode, c) = "none"
    BY <1>3 DEF StressOf
  <2> QED
    BY <2>1
<1> QED
  BY <1>1, <1>2, <1>3

LEMMA AdvanceIs ==
    ASSUME NEW text \in Word, NEW mode, NEW p \in 1 .. Len(text)
    PROVE  /\ advance(text, mode, p).first \in {p, p + 1}
           /\ advance(text, mode, p).next \in p + 1 .. Len(text) + 1
           /\ advance(text, mode, p).stress \in StressTypes
<1> DEFINE marked == p <= Len(text) /\ StressOf(mode, text[p]) # "none"
           ends == {q \in p + 1 .. Len(text) : StressOf(mode, text[q]) # "none"}
           least == CHOOSE q \in ends : \A e \in ends : q <= e
           next == IF ends = {} THEN Len(text) + 1 ELSE least
<1>1. Len(text) \in Nat
  BY DEF Word
<1>2. ends # {} => least \in ends
  <2> HIDE DEF ends
  <2>1. ends \in SUBSET Nat
    BY <1>1 DEF ends
  <2> SUFFICES ASSUME ends # {}
               PROVE  least \in ends
    OBVIOUS
  <2>2. \E q \in ends : \A e \in ends : q <= e
    BY <2>1, LeastNumber
  <2> QED
    BY <2>2
<1>3. advance(text, mode, p) = [first |-> IF marked THEN p + 1 ELSE p, next |-> next,
                                stress |-> IF marked THEN StressOf(mode, text[p]) ELSE "as_transcribed"]
  BY DEF advance
<1>4. next \in p + 1 .. Len(text) + 1
  <2>1. ends \in SUBSET (p + 1 .. Len(text))
    OBVIOUS
  <2> HIDE DEF ends, least
  <2>2. CASE ends = {}
    BY <1>1, <2>2
  <2>3. CASE ends # {}
    <3>1. least \in p + 1 .. Len(text)
      BY <1>2, <2>1, <2>3
    <3> QED
      BY <1>1, <2>3, <3>1
  <2> QED
    BY <2>2, <2>3
<1>5. (IF marked THEN StressOf(mode, text[p]) ELSE "as_transcribed") \in StressTypes
  <2>1. "as_transcribed" \in StressTypes
    BY DEF StressTypes
  <2> QED
    BY <2>1, StressOfTyped
<1> HIDE DEF next, marked
<1> QED
  BY <1>3, <1>4, <1>5

LEMMA WordsOfTyped ==
    ASSUME NEW text \in Word, NEW mode
    PROVE  WordsOf(text, mode) \in Seq(Part)
<1> DEFINE N == Len(text)
           W(p) == advance(text, mode, p)
           One(p) == IF W(p).first > N THEN <<>> ELSE <<[stress |-> W(p).stress, word |-> SubSeq(text, W(p).first, W(p).next - 1)]>>
           where == [p \in 1 .. N |-> W(p).next]
           F == [y \in (1 .. N) \X Seq(Part) |-> IF W(y[1]).first > N THEN <<>> ELSE One(y[1]) \o y[2]]
           Is(f) == f = [p \in 1 .. N + 1 |->
                        LET w == advance(text, mode, p)
                        IN  IF w.first > Len(text) THEN <<>>
                            ELSE <<[stress |-> w.stress, word |-> SubSeq(text, w.first, w.next - 1)]>> \o f[w.next]]
           from == CHOOSE f : Is(f)
<1>0. N \in Nat
  BY DEF Word
<1>1. \A p \in 1 .. N : W(p).first \in {p, p + 1} /\ W(p).next \in p + 1 .. N + 1 /\ W(p).stress \in StressTypes
  BY AdvanceIs
<1>2. W(N + 1).first > N
  <2>1. W(N + 1).first = N + 1
    BY <1>0 DEF advance
  <2> QED
    BY <1>0, <2>1
<1> DEFINE Is2(f) == /\ f = [p \in 1 .. N + 1 |-> f[p]]
                     /\ \A p \in 1 .. N + 1 : f[p] = IF W(p).first > N THEN <<>> ELSE One(p) \o f[W(p).next]
<1>3. \A f : Is(f) <=> Is2(f)
  <2> TAKE f
  <2>1. \A p \in 1 .. N + 1 : (LET w == advance(text, mode, p)
                        IN  IF w.first > Len(text) THEN <<>>
                            ELSE <<[stress |-> w.stress, word |-> SubSeq(text, w.first, w.next - 1)]>> \o f[w.next])
             = IF W(p).first > N THEN <<>> ELSE One(p) \o f[W(p).next]
    OBVIOUS
  <2> HIDE DEF W, One
  <2> QED
    BY <2>1
<1>4. \A p \in 1 .. N : One(p) \in Seq(Part)
  <2> TAKE p \in 1 .. N
  <2>1. W(p).first \in {p, p + 1} /\ W(p).next \in p + 1 .. N + 1 /\ W(p).stress \in StressTypes
    BY <1>1
  <2> DEFINE a == W(p).first
             b == W(p).next - 1
             k == W(p).stress
  <2>2. CASE a > N
    BY <2>2
  <2>3. CASE ~(a > N)
    <3>1. a \in 1 .. N /\ b \in 1 .. N /\ k \in StressTypes
      BY <1>0, <2>1, <2>3
    <3>2. One(p) = <<[stress |-> k, word |-> SubSeq(text, a, b)]>>
      BY <2>3
    <3> HIDE DEF a, b, k, One
    <3>3. SubSeq(text, a, b) \in Word
      <4>1. \A i \in a .. b : i \in 1 .. N /\ text[i] \in Characters
        BY <1>0, <3>1 DEF Word
      <4>2. text \in Seq(Characters)
        BY DEF Word
      <4> QED
        BY <3>1, <4>1, <4>2 DEF Word
    <3>4. [stress |-> k, word |-> SubSeq(text, a, b)] \in Part
      BY <3>1, <3>3 DEF Part
    <3> QED
      BY <3>2, <3>4
  <2> QED
    BY <2>2, <2>3
<1>5. where \in Onward(N)
  <2> HIDE DEF W
  <2>1. \A p \in 1 .. N : W(p).next \in 2 .. N + 1 /\ p < W(p).next
    BY <1>0, <1>1
  <2> QED
    BY <2>1 DEF Onward
<1>6. F \in Steps(N, Seq(Part))
  <2> HIDE DEF W, One
  <2>1. \A y \in (1 .. N) \X Seq(Part) : (IF W(y[1]).first > N THEN <<>> ELSE One(y[1]) \o y[2]) \in Seq(Part)
    <3> TAKE y \in (1 .. N) \X Seq(Part)
    <3>1. One(y[1]) \in Seq(Part) /\ y[2] \in Seq(Part)
      BY <1>4
    <3> QED
      BY <3>1
  <2> HIDE DEF N
  <2> QED
    BY <2>1 DEF Steps
<1> DEFINE Typed(f) == f \in [1 .. N + 1 -> Seq(Part)]
<1>7. PICK g \in [1 .. N + 1 -> Seq(Part)] : IsOnward(g, N, where, <<>>, F)
  <2> HIDE DEF N, where, F
  <2> QED
    BY <1>0, <1>5, <1>6, OnwardExists, <<>> \in Seq(Part)
<1>8. g[N + 1] = <<>> /\ \A p \in 1 .. N : g[p] = IF W(p).first > N THEN <<>> ELSE One(p) \o g[W(p).next]
  <2> HIDE DEF W, One
  <2>1. \A p \in 1 .. N : where[p] = W(p).next /\ W(p).next \in 1 .. N + 1 /\ g[W(p).next] \in Seq(Part)
    BY <1>0, <1>1, <1>7
  <2>2. \A p \in 1 .. N, s \in Seq(Part) : F[<<p, s>>] = IF W(p).first > N THEN <<>> ELSE One(p) \o s
    OBVIOUS
  <2> HIDE DEF F, where
  <2> QED
    BY <1>7, <2>1, <2>2 DEF IsOnward
<1>9. Is2(g)
  <2> HIDE DEF W, One
  <2>1. \A p \in 1 .. N + 1 : p \in 1 .. N \/ p = N + 1
    BY <1>0
  <2>2. \A p \in 1 .. N + 1 : g[p] = IF W(p).first > N THEN <<>> ELSE One(p) \o g[W(p).next]
    BY <1>2, <1>8, <2>1
  <2> QED
    BY <1>7, <2>2
<1>10. Is2(from)
  <2> HIDE DEF Is, Is2
  <2> QED
    BY <1>3, <1>9
<1>11. WordsOf(text, mode) = from[1]
  BY DEF WordsOf
<1> HIDE DEF from
<1>12. ASSUME NEW h, Is2(h)
       PROVE  \A p \in 1 .. N + 1 : h[p] = g[p]
  <2> HIDE DEF W, One
  <2>1. N + 1 \in 1 .. N + 1 /\ \A p \in 1 .. N : p \in 1 .. N + 1 /\ where[p] = W(p).next
    BY <1>0
  <2>4. PICK K \in Nat : K = N
    BY <1>0
  <2>5. PICK there \in Onward(K) : there = where
    BY <1>5, <2>4
  <2>2. h[K + 1] = g[K + 1]
    BY <1>2, <1>8, <1>12, <2>1, <2>4
  <2>3. ASSUME NEW i \in 1 .. K, h[there[i]] = g[there[i]]
        PROVE  h[i] = g[i]
    BY <1>8, <1>12, <2>1, <2>3, <2>4, <2>5
  <2>6. \A i \in 1 .. K + 1 : h[i] = g[i]
    BY <2>2, <2>3, OnwardSame
  <2> QED
    BY <2>4, <2>6
<1>15. \A p \in 1 .. N + 1 : from[p] = g[p]
  <2> HIDE DEF Is2, N
  <2> QED
    BY <1>10, <1>12
<1>13. 1 \in 1 .. N + 1
  BY <1>0
<1>14. g[1] \in Seq(Part)
  BY <1>7, <1>13
<1> QED
  BY <1>11, <1>13, <1>14, <1>15

-----------------------------------------------------------------------------
(* What pronounce returns.                                                  *)

DictEntry == SaidEntry \cup [type : {"array"}, entries : Seq(SaidEntry)]
IsDictionary(d, E) == DOMAIN d \subseteq Word /\ \A word \in DOMAIN d : d[word] \in Seq(E) /\ d[word] # <<>>

Results == [ok : BOOLEAN, phonemes : Seq(Phone), deep : BOOLEAN]
Calls == Seq(Characters) \X (0 .. MaxDepth + 1)

LEMMA FirstEntry ==
    ASSUME NEW E, NEW d, IsDictionary(d, E), NEW word \in DOMAIN d
    PROVE  d[word][1] \in E /\ 1 \in DOMAIN d[word] /\ Len(d[word]) > 0
<1>1. d[word] \in Seq(E) /\ d[word] # <<>>
  BY DEF IsDictionary
<1>2. \A s \in Seq(E) : s # <<>> => s[1] \in E /\ 1 \in DOMAIN s /\ Len(s) > 0
  OBVIOUS
<1> QED
  BY <1>1, <1>2

LEMMA PronunciationTyped ==
    ASSUME NEW d, IsDictionary(d, DictEntry), NEW word
    PROVE  /\ Pronunciation(d, word) \in SaidEntry \cup {Null}
           /\ word \notin DOMAIN d => Pronunciation(d, word) = Null
           /\ word \in DOMAIN d =>
                  /\ Pronunciation(d, word) = IF d[word][1].type = "array" THEN Null ELSE d[word][1]
                  /\ d[word][1] \in DictEntry
<1>1. CASE word \notin DOMAIN d
  BY <1>1 DEF Pronunciation, lookup
<1>2. CASE word \in DOMAIN d
  <2>1. d[word][1] \in DictEntry /\ d[word] # <<>>
    BY <1>2, FirstEntry DEF IsDictionary
  <2>2. Pronunciation(d, word) = IF d[word][1].type = "array" THEN Null ELSE d[word][1]
    BY <1>2, <2>1 DEF Pronunciation, lookup
  <2>3. d[word][1] \in SaidEntry \/ d[word][1].type = "array"
    BY <2>1 DEF DictEntry
  <2> QED
    BY <1>2, <2>1, <2>2, <2>3
<1> QED
  BY <1>1, <1>2

LEMMA EntryKinds ==
    ASSUME NEW entry \in SaidEntry \cup {Null}
    PROVE  /\ entry.type \in {"phonemes", "buffer", "null"}
           /\ entry.type = "phonemes" => entry.phonemes \in Seq(Phone) /\ entry \in SaidEntry
           /\ entry.type = "buffer" => entry.word \in Word /\ entry \in SaidEntry
BY DEF SaidEntry, Null

LEMMA ResultsAre ==
    /\ \A phonemes \in Seq(Phone) : Success(phonemes) \in Results /\ Failure(phonemes) \in Results
    /\ Success(<<>>) \in Results /\ Failure(<<>>) \in Results /\ TooDeep \in Results
    /\ \A word : ByRules(NoRules, word) = Failure(<<>>)
<1>1. <<>> \in Seq(Phone)
  OBVIOUS
<1> QED
  BY <1>1 DEF Success, Failure, TooDeep, Results, ByRules, NoRules

LEMMA InitialStressTyped ==
    ASSUME NEW phonemes \in Seq(Phone), NEW type \in StressTypes
    PROVE  /\ make_initial_stressed(phonemes, type) \in Seq(Phone)
           /\ Len(make_initial_stressed(phonemes, type)) = Len(phonemes)
           /\ \A i \in DOMAIN phonemes : make_initial_stressed(phonemes, type)[i].sound = phonemes[i].sound
<1>1. CASE type = "as_transcribed" \/ phonemes = <<>>
  BY <1>1 DEF make_initial_stressed
<1>2. CASE type # "as_transcribed" /\ phonemes # <<>>
  <2> DEFINE stress == IF type = "initial_unstressed" THEN "unstressed" ELSE type
             first == [phonemes[1] EXCEPT !.stress = stress]
  <2>1. stress \in Stress
    BY <1>2 DEF StressTypes, Stress
  <2>2. Len(phonemes) \in Nat /\ Len(phonemes) > 0 /\ phonemes[1] \in Phone
    BY <1>2
  <2>3. first \in Phone /\ first.sound = phonemes[1].sound
    BY <2>1, <2>2 DEF Phone
  <2>4. make_initial_stressed(phonemes, type) = [phonemes EXCEPT ![1] = first]
    BY <1>2 DEF make_initial_stressed
  <2> HIDE DEF first
  <2> QED
    BY <2>2, <2>3, <2>4
<1> QED
  BY <1>1, <1>2

\* One turn of the fold of the words, and what the fold is computed by.
TogetherStep(said, words_, depth, soFar, i) ==
    IF ~soFar.ok THEN soFar ELSE Add(soFar, words_[i], i, said[<<words_[i].word, depth>>])
IsTogether(h, said, words_, depth) ==
    h = [i \in 0 .. Len(words_) |-> IF i = 0 THEN Success(<<>>) ELSE TogetherStep(said, words_, depth, h[i - 1], i)]

Broken(part, i) == IF i > 1 /\ part.stress = "initial_unstressed" THEN <<syllable_break>> ELSE <<>>

Added(soFar, part, i, phonemes) == [soFar EXCEPT !.phonemes = @ \o Broken(part, i) \o make_initial_stressed(phonemes, part.stress)]

LEMMA AddTyped ==
    ASSUME NEW soFar \in Results, NEW part \in Part, NEW i \in Nat, NEW result \in Results
    PROVE  /\ Add(soFar, part, i, result) \in Results
           /\ result.ok => Add(soFar, part, i, result) = Added(soFar, part, i, result.phonemes)
           /\ Broken(part, i) \in Seq(Phone)
<1>1. syllable_break \in Phone
  BY DEF syllable_break, Phone, Stress
<1>2. Broken(part, i) \in Seq(Phone)
  <2>1. \A x \in Phone : <<x>> \in Seq(Phone)
    OBVIOUS
  <2> QED
    BY <1>1, <2>1 DEF Broken
<1>3. make_initial_stressed(result.phonemes, part.stress) \in Seq(Phone)
  BY InitialStressTyped DEF Results, Part
<1>4. soFar.phonemes \in Seq(Phone)
  BY DEF Results
<1> DEFINE all == soFar.phonemes \o Broken(part, i) \o make_initial_stressed(result.phonemes, part.stress)
<1>5. all \in Seq(Phone)
  BY <1>2, <1>3, <1>4
<1>6. Add(soFar, part, i, result) = IF ~result.ok THEN [result EXCEPT !.phonemes = <<>>] ELSE [soFar EXCEPT !.phonemes = all]
  BY DEF Add, Broken
<1> HIDE DEF all
<1>7. [result EXCEPT !.phonemes = <<>>] \in Results /\ [soFar EXCEPT !.phonemes = all] \in Results
  <2>1. <<>> \in Seq(Phone)
    OBVIOUS
  <2>2. \A r \in Results, phonemes \in Seq(Phone) : [r EXCEPT !.phonemes = phonemes] \in Results
    BY DEF Results
  <2> QED
    BY <1>5, <2>1, <2>2
<1> QED
  BY <1>2, <1>6, <1>7 DEF all, Added

LEMMA TogetherIs ==
    ASSUME NEW said, NEW words_ \in Seq(Part), NEW depth
    PROVE  Together(said, words_, depth) = (CHOOSE h : IsTogether(h, said, words_, depth))[Len(words_)]
<1> DEFINE S(soFar, i) ==
               IF ~soFar.ok THEN soFar
               ELSE With(said[<<words_[i].word, depth>>], LAMBDA p : Add(soFar, words_[i], i, p))
           t0 == [i \in DOMAIN words_ |-> i]
           Is(f, t) == f = [i \in 0 .. Len(t) |-> IF i = 0 THEN Success(<<>>) ELSE With(f[i - 1], LAMBDA v : S(v, t[i]))]
           Latest(t) == (CHOOSE f : Is(f, t))[Len(t)]
<1>1. Together(said, words_, depth) = With(t0, LAMBDA t : Latest(t))
  BY DEF Together, Each
<1>2. With(t0, LAMBDA t : Latest(t)) = Latest(t0)
  <2> HIDE DEF Latest
  <2> QED
    BY DEF With
<1>3. \A v, i : S(v, i) = TogetherStep(said, words_, depth, v, i)
  BY DEF With, TogetherStep
<1>4. Len(t0) = Len(words_) /\ Len(words_) \in Nat /\ \A i \in 1 .. Len(words_) : t0[i] = i
  <2>1. DOMAIN words_ = 1 .. Len(words_) /\ Len(words_) \in Nat
    OBVIOUS
  <2>2. t0 \in Seq(Nat)
    BY <2>1
  <2> QED
    BY <2>1, <2>2
<1> HIDE DEF S, t0
<1>5. \A f : Is(f, t0) <=> IsTogether(f, said, words_, depth)
  <2> TAKE f
  <2>1. \A i \in 0 .. Len(words_) : i # 0 => i \in 1 .. Len(words_)
    BY <1>4
  <2>2. \A v, i : With(v, LAMBDA w : S(w, i)) = TogetherStep(said, words_, depth, v, i)
    BY <1>3 DEF With
  <2>3. \A i \in 0 .. Len(words_) : (IF i = 0 THEN Success(<<>>) ELSE With(f[i - 1], LAMBDA v : S(v, t0[i])))
            = IF i = 0 THEN Success(<<>>) ELSE TogetherStep(said, words_, depth, f[i - 1], i)
    BY <1>4, <2>1, <2>2
  <2> QED
    BY <1>4, <2>3 DEF IsTogether
<1> HIDE DEF Is
<1>6. (CHOOSE f : Is(f, t0)) = CHOOSE h : IsTogether(h, said, words_, depth)
  BY <1>5
<1> QED
  BY <1>1, <1>2, <1>4, <1>6

LEMMA TogetherExists ==
    ASSUME NEW said, NEW words_ \in Seq(Part), NEW depth,
           \A i \in DOMAIN words_ : said[<<words_[i].word, depth>>] \in Results
    PROVE  \E h \in [0 .. Len(words_) -> Results] :
               /\ IsTogether(h, said, words_, depth)
               /\ Together(said, words_, depth) = h[Len(words_)]
<1> DEFINE n == Len(words_)
           Step(y) == TogetherStep(said, words_, depth, y[2], y[1])
           F == [y \in (1 .. n) \X Results |-> Step(y)]
<1>1. n \in Nat /\ DOMAIN words_ = 1 .. n /\ \A i \in 1 .. n : words_[i] \in Part
  OBVIOUS
<1>2. \A i \in 1 .. n, v \in Results : TogetherStep(said, words_, depth, v, i) \in Results
  <2> TAKE i \in 1 .. n, v \in Results
  <2> DEFINE result == said[<<words_[i].word, depth>>]
  <2>1. result \in Results /\ words_[i] \in Part /\ i \in Nat
    BY <1>1
  <2>2. TogetherStep(said, words_, depth, v, i) = IF ~v.ok THEN v ELSE Add(v, words_[i], i, result)
    BY DEF TogetherStep
  <2> HIDE DEF result
  <2>3. Add(v, words_[i], i, result) \in Results
    BY <2>1, AddTyped
  <2> QED
    BY <2>2, <2>3
<1>3. F \in Steps(n, Results)
  <2> HIDE DEF n
  <2>1. \A y \in (1 .. n) \X Results : Step(y) \in Results
    BY <1>2
  <2> HIDE DEF Step
  <2> QED
    BY <2>1 DEF Steps
<1>4. \A i \in 1 .. n, v \in Results : F[<<i, v>>] = TogetherStep(said, words_, depth, v, i)
  <2> HIDE DEF n
  <2> QED
    OBVIOUS
<1> HIDE DEF F
<1>5. PICK h \in [0 .. n -> Results] : IsRecursion(h, n, Success(<<>>), F)
  <2> HIDE DEF n
  <2> QED
    BY <1>1, <1>3, ResultsAre, RecursionTo
<1>6. IsTogether(h, said, words_, depth)
  <2>1. \A i \in 1 .. n : i - 1 \in 0 .. n /\ h[i - 1] \in Results
    BY <1>1, <1>5
  <2>2. \A i \in 1 .. n : h[i] = TogetherStep(said, words_, depth, h[i - 1], i)
    BY <1>4, <1>5, <2>1 DEF IsRecursion
  <2>3. h[0] = Success(<<>>)
    BY <1>5 DEF IsRecursion
  <2>4. \A i \in 0 .. n : i # 0 => i \in 1 .. n
    BY <1>1
  <2> QED
    BY <1>5, <2>2, <2>3, <2>4 DEF IsTogether
<1>7. ASSUME NEW g, IsTogether(g, said, words_, depth)
      PROVE  g \in [0 .. n -> Results]
  <2>1. g[0] = Success(<<>>) /\ \A i \in 1 .. n : g[i] = TogetherStep(said, words_, depth, g[i - 1], i)
    <3>1. 0 \in 0 .. n /\ \A i \in 1 .. n : i \in 0 .. n /\ i # 0
      BY <1>1
    <3> QED
      BY <1>7, <3>1 DEF IsTogether
  <2>2. \A i \in 1 .. n : g[i - 1] \in Results => g[i] \in Results
    BY <1>2, <2>1
  <2>3. \A i \in 0 .. n : g[i] \in Results
    <3> HIDE DEF n
    <3> QED
      BY <1>1, <2>1, <2>2, FoldTyped, ResultsAre
  <2>4. g = [i \in 0 .. n |-> g[i]]
    <3>1. \A f, X, Y : g = [i \in X |-> f[i]] => g = [i \in X |-> g[i]]
      OBVIOUS
    <3> DEFINE f == [i \in 0 .. n |-> IF i = 0 THEN Success(<<>>) ELSE TogetherStep(said, words_, depth, g[i - 1], i)]
    <3>2. g = f
      BY <1>7 DEF IsTogether
    <3>3. f = [i \in 0 .. n |-> f[i]]
      OBVIOUS
    <3> HIDE DEF f
    <3> QED
      BY <3>2, <3>3
  <2> QED
    BY <2>3, <2>4
<1> DEFINE c == CHOOSE g : IsTogether(g, said, words_, depth)
<1>8. IsTogether(c, said, words_, depth)
  BY <1>6
<1>9. Together(said, words_, depth) = c[n]
  BY TogetherIs
<1> HIDE DEF c
<1> QED
  BY <1>7, <1>8, <1>9

\* Nothing else of `said` matters.
LEMMA TogetherSame ==
    ASSUME NEW f, NEW g, NEW words_ \in Seq(Part), NEW depth,
           \A i \in DOMAIN words_ : f[<<words_[i].word, depth>>] = g[<<words_[i].word, depth>>]
    PROVE  Together(f, words_, depth) = Together(g, words_, depth)
<1>1. Len(words_) \in Nat /\ \A i \in 0 .. Len(words_) : i # 0 => i \in DOMAIN words_
  OBVIOUS
<1>2. \A i \in DOMAIN words_ : \A v : TogetherStep(f, words_, depth, v, i) = TogetherStep(g, words_, depth, v, i)
  BY DEF TogetherStep
<1>3. \A h : IsTogether(h, f, words_, depth) <=> IsTogether(h, g, words_, depth)
  <2> TAKE h
  <2>1. \A i \in 0 .. Len(words_) : (IF i = 0 THEN Success(<<>>) ELSE TogetherStep(f, words_, depth, h[i - 1], i))
            = IF i = 0 THEN Success(<<>>) ELSE TogetherStep(g, words_, depth, h[i - 1], i)
    BY <1>1, <1>2
  <2> QED
    BY <2>1 DEF IsTogether
<1>4. (CHOOSE h : IsTogether(h, f, words_, depth)) = CHOOSE h : IsTogether(h, g, words_, depth)
  BY <1>3
<1> QED
  BY <1>4, TogetherIs

ModeAt(depth) == IF depth = 0 THEN "hyphenated" ELSE "stressed"

LEMMA CallIs ==
    ASSUME NEW d, IsDictionary(d, DictEntry), NEW f, NEW word, NEW depth
    PROVE  PronouncedAt(f, d, NoRules, word, depth) =
               LET entry == Pronunciation(d, word)
                   all == Together(f, WordsOf(word, ModeAt(depth)), depth + 1)
               IN  IF depth > MaxDepth THEN TooDeep
                   ELSE IF entry.type = "phonemes" THEN Success(entry.phonemes)
                   ELSE IF entry.type = "buffer" THEN IF depth = 5 THEN Failure(<<>>) ELSE f[<<entry.word, depth + 1>>]
                   ELSE IF is_multiword(word, ModeAt(depth)) /\ (all.ok \/ all.deep) THEN all ELSE Failure(<<>>)
<1> DEFINE entry == Pronunciation(d, word)
           mode == ModeAt(depth)
           all == Together(f, WordsOf(word, mode), depth + 1)
<1>1. entry.type \in {"phonemes", "buffer", "null"}
  BY PronunciationTyped, EntryKinds
<1>2. ByRules(NoRules, word) = Failure(<<>>)
  BY ResultsAre
<1>3. With(all, LAMBDA x : IF x.ok \/ x.deep THEN x ELSE ByRules(NoRules, word)) = IF all.ok \/ all.deep THEN all ELSE Failure(<<>>)
  <2> HIDE DEF all
  <2> QED
    BY <1>2 DEF With
<1>4. PronouncedAt(f, d, NoRules, word, depth) =
          IF depth > MaxDepth THEN TooDeep
          ELSE CASE entry.type = "phonemes" -> Success(entry.phonemes)
                 [] entry.type = "buffer" -> IF depth = 5 THEN Failure(<<>>) ELSE f[<<entry.word, depth + 1>>]
                 [] entry.type = "null" ->
                        IF ~is_multiword(word, mode) THEN ByRules(NoRules, word)
                        ELSE With(all, LAMBDA x : IF x.ok \/ x.deep THEN x ELSE ByRules(NoRules, word))
  BY DEF PronouncedAt, TooMuchRecursion, ModeAt
<1> HIDE DEF entry, mode, all
<1>5. PronouncedAt(f, d, NoRules, word, depth) =
          IF depth > MaxDepth THEN TooDeep
          ELSE IF entry.type = "phonemes" THEN Success(entry.phonemes)
          ELSE IF entry.type = "buffer" THEN IF depth = 5 THEN Failure(<<>>) ELSE f[<<entry.word, depth + 1>>]
          ELSE IF is_multiword(word, mode) /\ (all.ok \/ all.deep) THEN all ELSE Failure(<<>>)
  BY <1>1, <1>2, <1>3, <1>4
<1> QED
  BY <1>5 DEF entry, mode, all

LEMMA CallTyped ==
    ASSUME NEW d, IsDictionary(d, DictEntry), NEW f, NEW word \in Word, NEW depth \in 0 .. MaxDepth + 1,
           depth <= MaxDepth => \A w \in Word : f[<<w, depth + 1>>] \in Results
    PROVE  PronouncedAt(f, d, NoRules, word, depth) \in Results
<1> DEFINE entry == Pronunciation(d, word)
           pieces == WordsOf(word, ModeAt(depth))
           all == Together(f, pieces, depth + 1)
<1>0. MaxDepth \in Nat
  BY DictionaryAssumption
<1>1. entry \in SaidEntry \cup {Null}
  BY PronunciationTyped
<1>2. pieces \in Seq(Part)
  BY WordsOfTyped
<1> HIDE DEF pieces
<1>3. depth <= MaxDepth => all \in Results
  <2> SUFFICES ASSUME depth <= MaxDepth
               PROVE  all \in Results
    OBVIOUS
  <2>1. \A i \in DOMAIN pieces : f[<<pieces[i].word, depth + 1>>] \in Results
    <3> TAKE i \in DOMAIN pieces
    <3>1. pieces[i] \in Part
      BY <1>2
    <3>2. pieces[i].word \in Word
      BY <3>1 DEF Part
    <3> QED
      BY <3>2
  <2>2. PICK h \in [0 .. Len(pieces) -> Results] : Together(f, pieces, depth + 1) = h[Len(pieces)]
    BY <1>2, <2>1, TogetherExists
  <2>3. Len(pieces) \in 0 .. Len(pieces)
    BY <1>2
  <2> QED
    BY <2>2, <2>3
<1>4. PronouncedAt(f, d, NoRules, word, depth) =
          IF depth > MaxDepth THEN TooDeep
          ELSE IF entry.type = "phonemes" THEN Success(entry.phonemes)
          ELSE IF entry.type = "buffer" THEN IF depth = 5 THEN Failure(<<>>) ELSE f[<<entry.word, depth + 1>>]
          ELSE IF is_multiword(word, ModeAt(depth)) /\ (all.ok \/ all.deep) THEN all ELSE Failure(<<>>)
  BY CallIs DEF pieces
<1> HIDE DEF entry, all
<1>5. entry.type = "phonemes" => Success(entry.phonemes) \in Results
  BY <1>1, EntryKinds, ResultsAre
<1>6. entry.type = "buffer" /\ depth <= MaxDepth => f[<<entry.word, depth + 1>>] \in Results
  BY <1>1, EntryKinds
<1>7. TooDeep \in Results /\ Failure(<<>>) \in Results
  BY ResultsAre
<1>8. depth > MaxDepth \/ depth <= MaxDepth
  BY <1>0
<1> QED
  BY <1>3, <1>4, <1>5, <1>6, <1>7, <1>8

LEMMA CallSame ==
    ASSUME NEW d, IsDictionary(d, DictEntry), NEW f, NEW g, NEW word \in Word, NEW depth \in 0 .. MaxDepth + 1,
           depth <= MaxDepth => \A w \in Word : f[<<w, depth + 1>>] = g[<<w, depth + 1>>]
    PROVE  PronouncedAt(f, d, NoRules, word, depth) = PronouncedAt(g, d, NoRules, word, depth)
<1> DEFINE entry == Pronunciation(d, word)
           pieces == WordsOf(word, ModeAt(depth))
           Is(said) == IF depth > MaxDepth THEN TooDeep
                       ELSE IF entry.type = "phonemes" THEN Success(entry.phonemes)
                       ELSE IF entry.type = "buffer" THEN IF depth = 5 THEN Failure(<<>>) ELSE said[<<entry.word, depth + 1>>]
                       ELSE IF is_multiword(word, ModeAt(depth))
                               /\ (Together(said, pieces, depth + 1).ok \/ Together(said, pieces, depth + 1).deep)
                            THEN Together(said, pieces, depth + 1) ELSE Failure(<<>>)
<1>0. MaxDepth \in Nat
  BY DictionaryAssumption
<1>1. entry \in SaidEntry \cup {Null}
  BY PronunciationTyped
<1>2. pieces \in Seq(Part)
  BY WordsOfTyped
<1>3. PronouncedAt(f, d, NoRules, word, depth) = Is(f) /\ PronouncedAt(g, d, NoRules, word, depth) = Is(g)
  BY CallIs
<1> HIDE DEF pieces
<1>4. depth <= MaxDepth => Together(f, pieces, depth + 1) = Together(g, pieces, depth + 1)
  <2> SUFFICES ASSUME depth <= MaxDepth
               PROVE  Together(f, pieces, depth + 1) = Together(g, pieces, depth + 1)
    OBVIOUS
  <2>1. \A i \in DOMAIN pieces : f[<<pieces[i].word, depth + 1>>] = g[<<pieces[i].word, depth + 1>>]
    <3> TAKE i \in DOMAIN pieces
    <3>1. pieces[i] \in Part
      BY <1>2
    <3>2. pieces[i].word \in Word
      BY <3>1 DEF Part
    <3> QED
      BY <3>2
  <2> QED
    BY <1>2, <2>1, TogetherSame
<1>5. entry.type = "buffer" => entry.word \in Word
  BY <1>1, EntryKinds
<1>6. depth > MaxDepth \/ depth <= MaxDepth
  BY <1>0
<1> HIDE DEF entry
<1>7. Is(f) = Is(g)
  BY <1>4, <1>5, <1>6
<1> QED
  BY <1>3, <1>7

\* The calls of pronounce with a dictionary.
Saying(said, d) == \A word \in Word, depth \in 0 .. MaxDepth + 1 :
                       /\ said[<<word, depth>>] \in Results
                       /\ said[<<word, depth>>] = PronouncedAt(said, d, NoRules, word, depth)

LEMMA CallsExist ==
    ASSUME NEW d, IsDictionary(d, DictEntry)
    PROVE  \E said : said = [x \in Calls |-> PronouncedAt(said, d, NoRules, x[1], x[2])]
<1> DEFINE T == [Calls -> Results]
           Turned(f) == [x \in Calls |-> PronouncedAt(f, d, NoRules, x[1], x[2])]
           G == [f \in T |-> Turned(f)]
           measure == [x \in Calls |-> MaxDepth + 1 - x[2]]
<1>0. MaxDepth \in Nat
  BY DictionaryAssumption
<1>1. \A x \in Calls : x[1] \in Word /\ x[2] \in 0 .. MaxDepth + 1 /\ x = <<x[1], x[2]>>
  BY DEF Calls, Word
<1>2. \A w \in Word, n \in 0 .. MaxDepth + 1 : <<w, n>> \in Calls /\ <<w, n>>[1] = w /\ <<w, n>>[2] = n
  BY DEF Calls, Word
<1>3. \A f \in T : Turned(f) \in T
  <2> TAKE f \in T
  <2>1. \A x \in Calls : PronouncedAt(f, d, NoRules, x[1], x[2]) \in Results
    <3> TAKE x \in Calls
    <3>1. x[2] <= MaxDepth => \A w \in Word : f[<<w, x[2] + 1>>] \in Results
      <4>1. x[2] <= MaxDepth => x[2] + 1 \in 0 .. MaxDepth + 1
        BY <1>0, <1>1
      <4> QED
        BY <1>2, <4>1
    <3> QED
      BY <1>1, <3>1, CallTyped
  <2> QED
    BY <2>1
<1>4. measure \in [Calls -> 0 .. MaxDepth + 1] /\ \A x \in Calls : measure[x] = MaxDepth + 1 - x[2]
  <2>1. \A x \in Calls : MaxDepth + 1 - x[2] \in 0 .. MaxDepth + 1
    BY <1>0, <1>1
  <2> QED
    BY <2>1
<1>5. G \in [T -> T] /\ \A f \in T : G[f] = Turned(f)
  <2> HIDE DEF T, Turned
  <2> QED
    BY <1>3
<1> HIDE DEF G, measure
<1>6. DependsBelow(G, T, Calls, measure)
  <2> SUFFICES ASSUME NEW f \in T, NEW g \in T, NEW x \in Calls,
                      \A y \in Calls : measure[y] < measure[x] => f[y] = g[y]
               PROVE  G[f][x] = G[g][x]
    <3> HIDE DEF T
    <3> QED
      BY DEF DependsBelow
  <2>1. G[f][x] = PronouncedAt(f, d, NoRules, x[1], x[2]) /\ G[g][x] = PronouncedAt(g, d, NoRules, x[1], x[2])
    <3>1. G[f] = Turned(f) /\ G[g] = Turned(g)
      BY <1>5
    <3> QED
      BY <3>1
  <2>2. x[2] <= MaxDepth => \A w \in Word : f[<<w, x[2] + 1>>] = g[<<w, x[2] + 1>>]
    <3> SUFFICES ASSUME x[2] <= MaxDepth, NEW w \in Word
                 PROVE  f[<<w, x[2] + 1>>] = g[<<w, x[2] + 1>>]
      OBVIOUS
    <3>1. x[2] + 1 \in 0 .. MaxDepth + 1 /\ x[2] \in 0 .. MaxDepth + 1
      BY <1>0, <1>1
    <3> DEFINE y == <<w, x[2] + 1>>
    <3>2. y \in Calls /\ y[2] = x[2] + 1
      BY <1>2, <3>1
    <3> HIDE DEF y
    <3>3. measure[y] = MaxDepth + 1 - (x[2] + 1) /\ measure[x] = MaxDepth + 1 - x[2]
      BY <1>4, <3>2
    <3>4. measure[y] < measure[x]
      BY <1>0, <3>1, <3>3
    <3>5. f[y] = g[y]
      BY <3>2, <3>4
    <3> QED
      BY <3>5 DEF y
  <2>3. x[1] \in Word /\ x[2] \in 0 .. MaxDepth + 1
    BY <1>1
  <2>4. PronouncedAt(f, d, NoRules, x[1], x[2]) = PronouncedAt(g, d, NoRules, x[1], x[2])
    BY <2>2, <2>3, CallSame
  <2> QED
    BY <2>1, <2>4
<1>7. T # {}
  <2>1. [x \in Calls |-> Failure(<<>>)] \in T
    BY ResultsAre
  <2> QED
    BY <2>1
<1>8. Measured(G, T, Calls, Results, measure, MaxDepth + 1)
  <2>1. T \in SUBSET [Calls -> Results]
    OBVIOUS
  <2> HIDE DEF T
  <2> QED
    BY <1>4, <1>5, <1>6, <1>7, <2>1 DEF Measured
<1>9. PICK f \in T : G[f] = f
  <2> HIDE DEF T
  <2>1. MaxDepth + 1 \in Nat
    BY <1>0
  <2> QED
    BY <1>8, <2>1, RecursionBelow
<1>10. f = Turned(f)
  <2> HIDE DEF Turned
  <2> QED
    BY <1>5, <1>9
<1> QED
  BY <1>10

LEMMA PronounceIs ==
    ASSUME NEW d, IsDictionary(d, DictEntry)
    PROVE  \E said : Saying(said, d) /\ \A word \in Word : pronounce(d, word, NoRules, 0) = said[<<word, 0>>]
<1> DEFINE Is(f) == f = [x \in Calls |-> PronouncedAt(f, d, NoRules, x[1], x[2])]
           said == CHOOSE f : Is(f)
<1>0. MaxDepth \in Nat
  BY DictionaryAssumption
<1>1. Is(said)
  BY CallsExist
<1>2. \A word : pronounce(d, word, NoRules, 0) = said[<<word, 0>>]
  BY DEF pronounce, Calls
<1> HIDE DEF said
<1>3. \A w \in Word, n \in 0 .. MaxDepth + 1 : said[<<w, n>>] = PronouncedAt(said, d, NoRules, w, n)
  <2> TAKE w \in Word, n \in 0 .. MaxDepth + 1
  <2> DEFINE x == <<w, n>>
  <2>1. x \in Calls /\ x[1] = w /\ x[2] = n
    BY DEF Calls, Word
  <2> HIDE DEF x
  <2>2. said[x] = PronouncedAt(said, d, NoRules, x[1], x[2])
    BY <1>1, <2>1
  <2> QED
    BY <2>1, <2>2 DEF x
<1> HIDE DEF Is
<1> DEFINE S == {k \in 0 .. MaxDepth + 1 : \A w \in Word : said[<<w, MaxDepth + 1 - k>>] \in Results}
<1>4. 0 \in S
  <2>1. \A w \in Word : PronouncedAt(said, d, NoRules, w, MaxDepth + 1) \in Results
    <3>1. MaxDepth + 1 \in 0 .. MaxDepth + 1 /\ ~(MaxDepth + 1 <= MaxDepth)
      BY <1>0
    <3> QED
      BY <3>1, CallTyped
  <2>2. MaxDepth + 1 - 0 = MaxDepth + 1 /\ MaxDepth + 1 \in 0 .. MaxDepth + 1 /\ 0 \in 0 .. MaxDepth + 1
    BY <1>0
  <2> QED
    BY <1>3, <2>1, <2>2
<1>5. ASSUME NEW k \in 0 .. (MaxDepth + 1) - 1, k \in S
      PROVE  k + 1 \in S
  <2> DEFINE n == MaxDepth + 1 - (k + 1)
  <2>1. n \in 0 .. MaxDepth + 1 /\ n + 1 = MaxDepth + 1 - k /\ k + 1 \in 0 .. MaxDepth + 1
    BY <1>0
  <2>2. \A w \in Word : said[<<w, n + 1>>] \in Results
    <3>1. \A w \in Word : said[<<w, MaxDepth + 1 - k>>] \in Results
      BY <1>5
    <3> HIDE DEF n
    <3> QED
      BY <2>1, <3>1
  <2> HIDE DEF n
  <2>3. \A w \in Word : PronouncedAt(said, d, NoRules, w, n) \in Results
    BY <2>1, <2>2, CallTyped
  <2>4. \A w \in Word : said[<<w, n>>] \in Results
    BY <1>3, <2>1, <2>3
  <2> QED
    BY <2>1, <2>4 DEF n
<1>6. \A k \in 0 .. MaxDepth + 1 : k \in S
  <2> HIDE DEF S
  <2>1. MaxDepth + 1 \in Nat
    BY <1>0
  <2> QED
    BY <1>4, <1>5, <2>1, InductionTo DEF Inductive
<1>7. \A w \in Word, n \in 0 .. MaxDepth + 1 : said[<<w, n>>] \in Results
  <2> TAKE w \in Word, n \in 0 .. MaxDepth + 1
  <2> DEFINE k == MaxDepth + 1 - n
  <2>1. k \in 0 .. MaxDepth + 1 /\ MaxDepth + 1 - k = n
    BY <1>0
  <2>2. k \in S
    <3> HIDE DEF S, k
    <3> QED
      BY <1>6, <2>1
  <2> HIDE DEF k
  <2>3. said[<<w, MaxDepth + 1 - k>>] \in Results
    BY <2>2
  <2> QED
    BY <2>1, <2>3
<1> QED
  BY <1>2, <1>3, <1>7 DEF Saying

-----------------------------------------------------------------------------
(* What the text reader keeps is of its types, whatever the document is: a  *)
(* token is of characters, or of what was never written to its buffer.      *)
LooseRead == [c : Char \cup {"?"}, at : Nat]
LooseToken == [type : TokenTypes, state : States \cup {"end"}, next : Nat, last : Nat, text : Seq(LooseRead)]
LooseSaved == [have : BOOLEAN, state : States, current : Nat \ {0}, match : Nat, last : Nat]

TextTyped ==
    /\ document \in Seq(Item) /\ delivered \in 0 .. Len(document)
    /\ content \in Seq(Char) /\ base \in Nat /\ mCurrent \in Nat \ {0}
    /\ mState \in States
    /\ mMatchBuffer \in Seq(Read)
    /\ mMatchCurrent \in Nat /\ mMatchNext \in Nat /\ mMatchLast \in Nat
    /\ saved \in LooseSaved
    /\ tokens \in Seq(LooseToken)

LEMMA TextInitTyped ==
    ASSUME NEW d \in Seq(Item), TextInit(d)
    PROVE  TextTyped
BY DEF TextInit, TextTyped, LooseSaved, States

LEMMA MatchedTyped ==
    ASSUME TextTyped, NEW memory \in Seq(Read), NEW n \in Nat, NEW state \in States, NEW last \in Nat,
           Matched(memory, n, state, last)
    PROVE  /\ mState' \in States /\ mMatchBuffer' \in Seq(Read)
           /\ mMatchCurrent' \in Nat /\ mMatchNext' \in Nat /\ mMatchLast' \in Nat
           /\ saved' \in LooseSaved /\ tokens' \in Seq(LooseToken)
<1> DEFINE text == [i \in 1 .. n |-> IF i \in DOMAIN memory THEN memory[i] ELSE [c |-> "?", at |-> 0]]
           token == [type |-> value(state), state |-> state, next |-> mMatchNext, last |-> last, text |-> text]
<1>1. text \in Seq(LooseRead)
  <2>1. \A i \in 1 .. n : (IF i \in DOMAIN memory THEN memory[i] ELSE [c |-> "?", at |-> 0]) \in LooseRead
    <3> TAKE i \in 1 .. n
    <3>1. [c |-> "?", at |-> 0] \in LooseRead
      BY DEF LooseRead
    <3>2. ASSUME i \in DOMAIN memory
          PROVE  memory[i] \in LooseRead
      <4>1. memory[i] \in Read
        BY <3>2
      <4> QED
        BY <4>1 DEF Read, LooseRead
    <3> QED
      BY <3>1, <3>2
  <2> QED
    BY <2>1
<1> HIDE DEF text
<1>2. token \in LooseToken
  BY <1>1 DEF LooseToken, TokenTypes, TextTyped
<1>3. tokens' = Append(tokens, token)
  BY DEF Matched, text
<1> HIDE DEF token
<1>4. tokens' \in Seq(LooseToken)
  BY <1>2, <1>3 DEF TextTyped
<1>5. "S0" \in States
  BY DEF States
<1> QED
  BY <1>4, <1>5 DEF Matched, TextTyped, LooseSaved

LEMMA CodepointTyped ==
    ASSUME TextTyped, mCurrent <= Len(content)
    PROVE  Codepoint \in Char /\ Language \in Languages
<1>1. mCurrent \in 1 .. Len(content)
  BY DEF TextTyped
<1>2. Codepoint \in Char
  BY <1>1 DEF TextTyped, Codepoint
<1>3. Category[Codepoint] \in Languages /\ "Cc" \in Languages
  BY <1>2, TextAssumption DEF Languages, Spaces
<1> QED
  BY <1>2, <1>3 DEF Language

LEMMA PutTyped ==
    ASSUME NEW memory \in Seq(Read), NEW n, NEW e \in Read
    PROVE  Put(memory, n, e) \in Seq(Read)
BY DEF Put

LEMMA ReadCharacterTyped ==
    ASSUME TextTyped, ReadCharacter
    PROVE  TextTyped'
<1> DEFINE e == transitions[mState][Language]
           used == IF e \in Silent THEN mMatchCurrent ELSE mMatchCurrent + 1
<1>1. /\ mReaderState = "have_text" /\ mCurrent <= Len(content) /\ e # "terminal"
      /\ mCurrent' = mCurrent + 1 /\ UNCHANGED <<document, delivered, content, base, mReaderState>>
  BY DEF ReadCharacter
<1>2. Codepoint \in Char /\ Language \in Languages
  BY <1>1, CodepointTyped
<1>3. e \in States
  <2>1. Leads(mState, Language, e)
    BY <1>1, <1>2, TransitionLeads DEF TextTyped
  <2>2. \A edge \in Edges : edge[3] \in States
    BY DEF Edges, States, Terminal, WithQuote, WithHyphen
  <2> HIDE DEF e
  <2> QED
    BY <2>1, <2>2 DEF Leads
<1>4. Written(e) \in Seq(Read)
  <2>1. Emitted(e) \in Read
    BY <1>1, <1>2, TextAssumption DEF Emitted, Read, TextTyped
  <2> HIDE DEF e
  <2> QED
    BY <2>1, PutTyped DEF Written, TextTyped
<1>5. used \in Nat
  BY DEF TextTyped
<1>6. CASE e \notin Silent /\ used >= SplitAt
  <2>1. Matched(Written(e), used, e, mMatchLast + 1)
    BY <1>6 DEF ReadCharacter
  <2>2. mMatchLast + 1 \in Nat /\ mCurrent + 1 \in Nat \ {0}
    BY DEF TextTyped
  <2> HIDE DEF e, used
  <2> QED
    BY <1>1, <1>3, <1>4, <1>5, <2>1, <2>2, MatchedTyped DEF TextTyped
<1>7. CASE ~(e \notin Silent /\ used >= SplitAt)
  <2>1. /\ mMatchBuffer' = Written(e) /\ mMatchCurrent' = used /\ mMatchLast' = mMatchLast + 1
        /\ mMatchNext' = IF e \in Advancing THEN mMatchNext + 1 ELSE mMatchNext
        /\ mState' = e /\ saved' = SavedAt(e) /\ UNCHANGED tokens
    BY <1>7 DEF ReadCharacter
  <2> HIDE DEF e, used
  <2>2. SavedAt(e) \in LooseSaved
    BY <1>3 DEF SavedAt, TextTyped, LooseSaved
  <2> QED
    BY <1>1, <1>3, <1>4, <1>5, <2>1, <2>2 DEF TextTyped
<1> QED
  BY <1>6, <1>7

LEMMA EndTokenTyped ==
    ASSUME TextTyped, EndToken
    PROVE  TextTyped'
<1>1. UNCHANGED <<document, delivered, content, base>>
  BY DEF EndToken
<1>2. CASE mState \in Terminal
  <2>1. Matched(mMatchBuffer, mMatchCurrent, mState, mMatchLast) /\ UNCHANGED mCurrent
    BY <1>2 DEF EndToken
  <2> QED
    BY <1>1, <2>1, MatchedTyped DEF TextTyped
<1>3. CASE mState \notin Terminal
  <2>1. Matched(mMatchBuffer, saved.match + 1, saved.state, saved.last + 1) /\ mCurrent' = saved.current
    BY <1>3 DEF EndToken
  <2>2. saved.match + 1 \in Nat /\ saved.state \in States /\ saved.last + 1 \in Nat /\ saved.current \in Nat \ {0}
    BY DEF TextTyped, LooseSaved
  <2>3. mMatchBuffer \in Seq(Read)
    BY DEF TextTyped
  <2>4. /\ mState' \in States /\ mMatchBuffer' \in Seq(Read)
        /\ mMatchCurrent' \in Nat /\ mMatchNext' \in Nat /\ mMatchLast' \in Nat
        /\ saved' \in LooseSaved /\ tokens' \in Seq(LooseToken)
    BY <2>1, <2>2, <2>3, MatchedTyped
  <2> QED
    BY <1>1, <2>1, <2>2, <2>4 DEF TextTyped
<1> QED
  BY <1>2, <1>3

LEMMA ReadTextTyped ==
    ASSUME TextTyped, ReadText
    PROVE  TextTyped'
<1>1. /\ delivered < Len(document) /\ Event.type = "text" /\ base' = base + Len(content) /\ content' = Event.content
      /\ delivered' = delivered + 1 /\ mCurrent' = 1 /\ saved' = SavedForItem
      /\ UNCHANGED <<document, mState, mMatchBuffer, mMatchCurrent, mMatchNext, mMatchLast, tokens>>
  BY DEF ReadText
<1>2. delivered + 1 \in 0 .. Len(document) /\ delivered + 1 \in 1 .. Len(document)
  BY <1>1 DEF TextTyped
<1>3. Event \in Item
  BY <1>2 DEF Event, TextTyped
<1>4. Event.content \in Seq(Char)
  BY <1>1, <1>3 DEF Item
<1>5. base + Len(content) \in Nat
  BY DEF TextTyped
<1>6. SavedForItem \in LooseSaved
  <2>1. /\ saved \in LooseSaved /\ mState \in States /\ mMatchCurrent \in Nat /\ mMatchLast \in Nat /\ 1 \in Nat \ {0}
    BY DEF TextTyped
  <2>2. [saved EXCEPT !.have = FALSE, !.current = 1] \in LooseSaved
    BY <2>1 DEF LooseSaved
  <2>3. [saved EXCEPT !.current = 1, !.state = mState, !.match = mMatchCurrent, !.last = mMatchLast] \in LooseSaved
    BY <2>1 DEF LooseSaved
  <2> QED
    BY <2>2, <2>3 DEF SavedForItem
<1> QED
  BY <1>1, <1>2, <1>4, <1>5, <1>6 DEF TextTyped

LEMMA TextNextTyped ==
    ASSUME TextTyped, [ReadToken]_textVars
    PROVE  TextTyped' /\ document' = document
<1>1. CASE ReadText
  BY <1>1, ReadTextTyped DEF ReadText
<1>2. CASE ReadOther
  <2>1. delivered + 1 \in 0 .. Len(document)
    BY <1>2 DEF ReadOther, TextTyped
  <2> QED
    BY <1>2, <2>1 DEF ReadOther, TextTyped, matchVars
<1>3. CASE EndParagraph
  <2>1. UNCHANGED <<document, delivered, content, base, mCurrent>>
    BY <1>3 DEF EndParagraph
  <2>2. CASE mState # "S0"
    <3>1. Matched(mMatchBuffer, mMatchCurrent, mState, mMatchLast)
      BY <1>3, <2>2 DEF EndParagraph
    <3> QED
      BY <2>1, <3>1, MatchedTyped DEF TextTyped
  <2>3. CASE mState = "S0"
    <3> DEFINE token == [type |-> "paragraph", state |-> "end", text |-> <<>>, next |-> mMatchNext, last |-> mMatchLast]
    <3>1. /\ tokens' = Append(tokens, token) /\ mMatchNext' = mMatchLast
          /\ UNCHANGED <<mState, mMatchBuffer, mMatchCurrent, mMatchLast, saved>>
      BY <1>3, <2>3 DEF EndParagraph
    <3>2. token \in LooseToken
      <4>1. <<>> \in Seq(LooseRead) /\ "paragraph" \in TokenTypes
        BY DEF TokenTypes
      <4> QED
        BY <4>1 DEF LooseToken, TextTyped
    <3> HIDE DEF token
    <3>3. tokens' \in Seq(LooseToken)
      BY <3>1, <3>2 DEF TextTyped
    <3> QED
      BY <2>1, <3>1, <3>3 DEF TextTyped
  <2> QED
    BY <2>2, <2>3
<1>4. CASE EndOfText
  <2>1. UNCHANGED <<document, delivered, content, base, mCurrent>>
    BY <1>4 DEF EndOfText
  <2>2. CASE mMatchCurrent = 0
    BY <1>4, <2>1, <2>2 DEF EndOfText, TextTyped, matchVars
  <2>3. CASE mMatchCurrent # 0
    <3>1. Matched(mMatchBuffer, mMatchCurrent, mState, mMatchLast)
      BY <1>4, <2>3 DEF EndOfText
    <3> QED
      BY <2>1, <3>1, MatchedTyped DEF TextTyped
  <2> QED
    BY <2>2, <2>3
<1>5. CASE EndOfContent
  BY <1>5 DEF EndOfContent, TextTyped
<1>6. CASE EndToken
  BY <1>6, EndTokenTyped DEF EndToken
<1>7. CASE ReadCharacter
  BY <1>7, ReadCharacterTyped DEF ReadCharacter
<1>8. CASE UNCHANGED textVars
  BY <1>8 DEF textVars, inputVars, matchVars, TextTyped
<1> QED
  BY <1>1, <1>2, <1>3, <1>4, <1>5, <1>6, <1>7, <1>8 DEF ReadToken

LEMMA TextOfTyped ==
    ASSUME TextTyped, NEW k \in 1 .. Len(tokens)
    PROVE  TextOf(tokens[k]) \in Word
<1> DEFINE text == tokens[k].text
<1>1. tokens[k] \in LooseToken
  BY DEF TextTyped
<1>2. text \in Seq(LooseRead)
  BY <1>1 DEF LooseToken
<1> HIDE DEF text
<1>3. DOMAIN text = 1 .. Len(text) /\ Len(text) \in Nat /\ \A i \in DOMAIN text : text[i] \in LooseRead
  BY <1>2
<1>4. \A i \in DOMAIN text : text[i].c \in Characters
  BY <1>3, ProgramAssumption DEF LooseRead
<1>5. [i \in 1 .. Len(text) |-> text[i].c] \in Seq(Characters)
  BY <1>3, <1>4
<1> QED
  BY <1>3, <1>5 DEF TextOf, Word, text

-----------------------------------------------------------------------------
(* The sounds of phonemes.                                                  *)

PhoneSounds == Sounds \cup {"."}
SoundOf(phone) == IF phone.sound = "." THEN <<>> ELSE <<phone.sound>>
EachSound(phonemes) == [i \in DOMAIN phonemes |-> SoundOf(phonemes[i])]

LEMMA EachSoundTyped ==
    ASSUME NEW p \in Seq(Phone)
    PROVE  /\ SoundsOf(p) = FlattenSeq(EachSound(p))
           /\ EachSound(p) \in Seq(Seq(PhoneSounds)) /\ Len(EachSound(p)) = Len(p)
           /\ SoundsOf(p) \in Seq(PhoneSounds)
<1>1. DOMAIN p = 1 .. Len(p) /\ Len(p) \in Nat /\ \A i \in DOMAIN p : p[i] \in Phone
  OBVIOUS
<1>2. \A i \in DOMAIN p : SoundOf(p[i]) \in Seq(PhoneSounds)
  <2> TAKE i \in DOMAIN p
  <2>1. p[i].sound \in PhoneSounds
    BY <1>1 DEF Phone, PhoneSounds
  <2>2. \A x \in PhoneSounds : <<x>> \in Seq(PhoneSounds)
    OBVIOUS
  <2>3. <<>> \in Seq(PhoneSounds)
    OBVIOUS
  <2> QED
    BY <2>1, <2>2, <2>3 DEF SoundOf
<1>3. SoundsOf(p) = FlattenSeq(EachSound(p))
  BY DEF SoundsOf, EachSound, SoundOf
<1>4. EachSound(p) \in Seq(Seq(PhoneSounds)) /\ Len(EachSound(p)) = Len(p)
  <2> DEFINE e == [i \in 1 .. Len(p) |-> SoundOf(p[i])]
  <2>1. EachSound(p) = e
    BY <1>1 DEF EachSound
  <2>2. e \in Seq(Seq(PhoneSounds)) /\ Len(e) = Len(p)
    BY <1>1, <1>2
  <2> QED
    BY <2>1, <2>2
<1> QED
  BY <1>3, <1>4, FlattenTyped

LEMMA JoinIs ==
    ASSUME NEW X, NEW s \in Seq(X), NEW t \in Seq(X)
    PROVE  /\ s \o t \in Seq(X) /\ Len(s \o t) = Len(s) + Len(t)
           /\ \A i \in 1 .. Len(s) : (s \o t)[i] = s[i]
           /\ \A i \in 1 .. Len(s) + Len(t) : i > Len(s) => i - Len(s) \in 1 .. Len(t) /\ (s \o t)[i] = t[i - Len(s)]
OBVIOUS

LEMMA SameSequence ==
    ASSUME NEW X, NEW s \in Seq(X), NEW t \in Seq(X), Len(s) = Len(t), \A i \in 1 .. Len(s) : s[i] = t[i]
    PROVE  s = t
OBVIOUS

LEMMA SoundsJoined ==
    ASSUME NEW a \in Seq(Phone), NEW b \in Seq(Phone)
    PROVE  SoundsOf(a \o b) = SoundsOf(a) \o SoundsOf(b)
<1>1. a \o b \in Seq(Phone)
  OBVIOUS
<1>2. EachSound(a \o b) = EachSound(a) \o EachSound(b)
  <2> DEFINE x == EachSound(a \o b)
             y == EachSound(a) \o EachSound(b)
  <2>1. /\ x \in Seq(Seq(PhoneSounds)) /\ Len(x) = Len(a \o b)
        /\ EachSound(a) \in Seq(Seq(PhoneSounds)) /\ Len(EachSound(a)) = Len(a)
        /\ EachSound(b) \in Seq(Seq(PhoneSounds)) /\ Len(EachSound(b)) = Len(b)
    BY <1>1, EachSoundTyped
  <2>2. Len(a) \in Nat /\ Len(b) \in Nat /\ Len(a \o b) = Len(a) + Len(b)
    OBVIOUS
  <2>3. /\ y \in Seq(Seq(PhoneSounds)) /\ Len(y) = Len(a) + Len(b)
        /\ \A i \in 1 .. Len(a) : y[i] = EachSound(a)[i]
        /\ \A i \in 1 .. Len(a) + Len(b) : i > Len(a) => y[i] = EachSound(b)[i - Len(a)]
    <3> DEFINE u == EachSound(a)
               v == EachSound(b)
    <3>1. u \in Seq(Seq(PhoneSounds)) /\ v \in Seq(Seq(PhoneSounds)) /\ Len(u) = Len(a) /\ Len(v) = Len(b)
      BY <2>1
    <3> HIDE DEF u, v
    <3>2. /\ u \o v \in Seq(Seq(PhoneSounds)) /\ Len(u \o v) = Len(u) + Len(v)
          /\ \A i \in 1 .. Len(u) : (u \o v)[i] = u[i]
          /\ \A i \in 1 .. Len(u) + Len(v) : i > Len(u) => (u \o v)[i] = v[i - Len(u)]
      BY <3>1, JoinIs
    <3> QED
      BY <3>1, <3>2 DEF u, v
  <2>7. /\ \A i \in 1 .. Len(a) : (a \o b)[i] = a[i] /\ i \in DOMAIN a
        /\ \A i \in 1 .. Len(a) + Len(b) : i > Len(a) => i - Len(a) \in DOMAIN b /\ (a \o b)[i] = b[i - Len(a)]
    BY JoinIs
  <2>4. \A i \in 1 .. Len(a) + Len(b) : x[i] = y[i]
    <3> TAKE i \in 1 .. Len(a) + Len(b)
    <3>1. x[i] = SoundOf((a \o b)[i])
      BY <1>1, <2>2 DEF EachSound
    <3>2. CASE i <= Len(a)
      <4>1. i \in DOMAIN a /\ (a \o b)[i] = a[i]
        BY <2>2, <2>7, <3>2
      <4>2. y[i] = EachSound(a)[i]
        BY <2>2, <2>3, <3>2
      <4> QED
        BY <3>1, <4>1, <4>2 DEF EachSound
    <3>3. CASE i > Len(a)
      <4>1. i - Len(a) \in DOMAIN b /\ (a \o b)[i] = b[i - Len(a)]
        BY <2>7, <3>3
      <4>2. y[i] = EachSound(b)[i - Len(a)]
        BY <2>3, <3>3
      <4> QED
        BY <3>1, <4>1, <4>2 DEF EachSound
    <3>4. i <= Len(a) \/ i > Len(a)
      BY <2>2
    <3> QED
      BY <3>2, <3>3, <3>4
  <2> HIDE DEF x, y
  <2>5. Len(x) = Len(y) /\ \A i \in 1 .. Len(x) : x[i] = y[i]
    BY <2>1, <2>2, <2>3, <2>4
  <2>6. x = y
    BY <2>1, <2>3, <2>5, SameSequence
  <2> QED
    BY <2>6 DEF x, y
<1>3. /\ EachSound(a) \in Seq(Seq(PhoneSounds)) /\ EachSound(b) \in Seq(Seq(PhoneSounds))
      /\ SoundsOf(a) = FlattenSeq(EachSound(a)) /\ SoundsOf(b) = FlattenSeq(EachSound(b))
      /\ SoundsOf(a \o b) = FlattenSeq(EachSound(a \o b))
  BY <1>1, EachSoundTyped
<1>4. FlattenSeq(EachSound(a) \o EachSound(b)) = FlattenSeq(EachSound(a)) \o FlattenSeq(EachSound(b))
  BY <1>3, FlattenJoined
<1> QED
  BY <1>2, <1>3, <1>4

LEMMA SoundsStressed ==
    ASSUME NEW p \in Seq(Phone), NEW type \in StressTypes
    PROVE  SoundsOf(make_initial_stressed(p, type)) = SoundsOf(p)
<1> DEFINE q == make_initial_stressed(p, type)
<1>1. q \in Seq(Phone) /\ Len(q) = Len(p) /\ \A i \in DOMAIN p : q[i].sound = p[i].sound
  BY InitialStressTyped
<1> HIDE DEF q
<1>2. DOMAIN q = DOMAIN p
  BY <1>1
<1>3. EachSound(q) = EachSound(p)
  BY <1>1, <1>2 DEF EachSound, SoundOf
<1>4. SoundsOf(q) = FlattenSeq(EachSound(q)) /\ SoundsOf(p) = FlattenSeq(EachSound(p))
  BY <1>1, EachSoundTyped
<1> QED
  BY <1>3, <1>4 DEF q

LEMMA SoundsBroken ==
    ASSUME NEW part, NEW i
    PROVE  SoundsOf(Broken(part, i)) = <<>>
<1>1. SoundsOf(<<>>) = <<>>
  <2>1. [j \in DOMAIN <<>> |-> IF <<>>[j].sound = "." THEN <<>> ELSE <<<<>>[j].sound>>] = <<>>
    OBVIOUS
  <2> QED
    BY <2>1, FlattenEmpty DEF SoundsOf
<1>2. SoundsOf(<<syllable_break>>) = <<>>
  <2> DEFINE b == <<syllable_break>>
             e == EachSound(b)
  <2>1. syllable_break \in Phone /\ SoundOf(syllable_break) = <<>>
    BY DEF syllable_break, Phone, Stress, SoundOf
  <2>2. b \in Seq(Phone) /\ Len(b) = 1 /\ b[1] = syllable_break /\ DOMAIN b = 1 .. 1
    BY <2>1
  <2> HIDE DEF b
  <2>3. e \in Seq(Seq(PhoneSounds)) /\ Len(e) = 1 /\ SoundsOf(b) = FlattenSeq(e)
    BY <2>2, EachSoundTyped
  <2>4. e[1] = <<>>
    BY <2>1, <2>2 DEF EachSound
  <2> HIDE DEF e
  <2>5. FlattenSeq(e) = e[1]
    <3>2. Len(e) > 0
      BY <2>3
    <3>1. PICK f : Flattens(f, e) /\ FlattenSeq(e) = f[Len(e)]
      BY <2>3, <3>2, FlattenIs
    <3> QED
      BY <2>3, <3>1 DEF Flattens
  <2> QED
    BY <2>3, <2>4, <2>5 DEF b
<1> QED
  BY <1>1, <1>2 DEF Broken

\* A word of several has the sounds of its words.
SaidEach(said, words_, depth, phones) ==
    /\ phones \in [DOMAIN words_ -> Seq(Phone)]
    /\ \A i \in DOMAIN words_ : said[<<words_[i].word, depth>>] = Success(phones[i])
SoundsOfEach(words_, phones) == [i \in DOMAIN words_ |-> SoundsOf(phones[i])]

LEMMA TogetherSounds ==
    ASSUME NEW said, NEW words_ \in Seq(Part), NEW depth, NEW phones, SaidEach(said, words_, depth, phones)
    PROVE  /\ Together(said, words_, depth).ok
           /\ SoundsOf(Together(said, words_, depth).phonemes) = FlattenSeq(SoundsOfEach(words_, phones))
<1> USE DEF SaidEach, SoundsOfEach
<1> DEFINE n == Len(words_)
           sounds == [i \in DOMAIN words_ |-> SoundsOf(phones[i])]
           front(i) == SubSeq(sounds, 1, i)
<1>1. n \in Nat /\ DOMAIN words_ = 1 .. n /\ \A i \in 1 .. n : words_[i] \in Part /\ phones[i] \in Seq(Phone)
  OBVIOUS
<1>2. sounds \in Seq(Seq(PhoneSounds)) /\ Len(sounds) = n /\ \A i \in 1 .. n : sounds[i] = SoundsOf(phones[i])
  <2>1. \A i \in 1 .. n : SoundsOf(phones[i]) \in Seq(PhoneSounds)
    BY <1>1, EachSoundTyped
  <2> HIDE DEF n
  <2> QED
    BY <1>1, <2>1
<1> HIDE DEF sounds
<1>3. \A i \in DOMAIN words_ : said[<<words_[i].word, depth>>] \in Results
  BY <1>1, ResultsAre
<1>4. PICK h \in [0 .. n -> Results] : IsTogether(h, said, words_, depth) /\ Together(said, words_, depth) = h[n]
  BY <1>3, TogetherExists
<1>5. h[0] = Success(<<>>) /\ \A i \in 1 .. n : h[i] = TogetherStep(said, words_, depth, h[i - 1], i)
  <2>1. 0 \in 0 .. n /\ \A i \in 1 .. n : i \in 0 .. n /\ i # 0
    BY <1>1
  <2> QED
    BY <1>4, <2>1 DEF IsTogether
<1> HIDE DEF n
<1> DEFINE S == {i \in 0 .. n : h[i].ok /\ SoundsOf(h[i].phonemes) = FlattenSeq(front(i))}
<1>6. 0 \in S
  <2>1. front(0) = <<>>
    BY <1>2
  <2>2. SoundsOf(<<>>) = <<>>
    <3>1. \A part : Broken(part, 0) = <<>>
      BY DEF Broken
    <3> QED
      BY <3>1, SoundsBroken
  <2>3. h[0].ok /\ h[0].phonemes = <<>>
    BY <1>5 DEF Success
  <2>4. SoundsOf(h[0].phonemes) = FlattenSeq(front(0))
    <3> HIDE DEF front
    <3> QED
      BY <2>1, <2>2, <2>3, FlattenEmpty
  <2> QED
    BY <1>1, <2>3, <2>4
<1>7. ASSUME NEW i \in 0 .. n - 1, i \in S
      PROVE  i + 1 \in S
  <2> DEFINE k == i + 1
             before == h[i]
             part == words_[k]
             p == phones[k]
             stressed == make_initial_stressed(p, part.stress)
             broken == Broken(part, k)
  <2>1. k \in 1 .. n /\ k - 1 = i /\ k \in Nat /\ k \in 0 .. n /\ i \in 0 .. n
    BY <1>1
  <2>2. before \in Results /\ before.ok /\ SoundsOf(before.phonemes) = FlattenSeq(front(i))
    BY <1>4, <1>7, <2>1
  <2>3. part \in Part /\ p \in Seq(Phone) /\ part.stress \in StressTypes
    BY <1>1, <2>1 DEF Part
  <2>4. said[<<part.word, depth>>] = Success(p) /\ Success(p) \in Results /\ Success(p).ok /\ Success(p).phonemes = p
    BY <1>1, <2>1, <2>3, ResultsAre DEF Success
  <2>5. h[k] = Add(before, part, k, Success(p))
    BY <1>5, <2>1, <2>2, <2>4 DEF TogetherStep
  <2> HIDE DEF before, part, p, k
  <2>6. h[k] = [before EXCEPT !.phonemes = @ \o broken \o stressed] /\ broken \in Seq(Phone)
    <3> DEFINE result == Success(p)
    <3>1. result \in Results /\ result.ok /\ result.phonemes = p /\ h[k] = Add(before, part, k, result)
      BY <2>4, <2>5
    <3> HIDE DEF result
    <3>2. Add(before, part, k, result) = Added(before, part, k, result.phonemes) /\ Broken(part, k) \in Seq(Phone)
      <4>1. k \in Nat /\ before \in Results /\ part \in Part /\ result \in Results /\ result.ok
        BY <2>1, <2>2, <2>3, <3>1
      <4> QED
        BY <4>1, AddTyped
    <3> QED
      BY <3>1, <3>2 DEF Added
  <2>7. stressed \in Seq(Phone) /\ SoundsOf(stressed) = SoundsOf(p) /\ SoundsOf(broken) = <<>>
    BY <2>3, InitialStressTyped, SoundsStressed, SoundsBroken
  <2>8. before.phonemes \in Seq(Phone)
    BY <2>2 DEF Results
  <2> HIDE DEF broken, stressed
  <2>9. h[k].ok /\ h[k].phonemes = before.phonemes \o broken \o stressed
    BY <2>2, <2>6 DEF Results
  <2>10. SoundsOf(h[k].phonemes) = SoundsOf(before.phonemes) \o SoundsOf(p)
    <3>1. before.phonemes \o broken \in Seq(Phone)
      BY <2>6, <2>8
    <3>2. SoundsOf(before.phonemes \o broken) = SoundsOf(before.phonemes) \o <<>>
      BY <2>6, <2>7, <2>8, SoundsJoined
    <3>3. SoundsOf(before.phonemes) \in Seq(PhoneSounds)
      BY <2>8, EachSoundTyped
    <3>4. SoundsOf(before.phonemes) \o <<>> = SoundsOf(before.phonemes)
      BY <3>3
    <3>5. SoundsOf((before.phonemes \o broken) \o stressed) = SoundsOf(before.phonemes \o broken) \o SoundsOf(stressed)
      BY <2>7, <3>1, SoundsJoined
    <3> QED
      BY <2>7, <2>9, <3>2, <3>4, <3>5
  <2>11. FlattenSeq(front(k)) = FlattenSeq(front(i)) \o SoundsOf(p)
    <3>1. front(k) = Append(front(i), sounds[k]) /\ front(i) \in Seq(Seq(PhoneSounds)) /\ sounds[k] \in Seq(PhoneSounds)
      BY <1>1, <1>2, <2>1 DEF k
    <3>2. sounds[k] = SoundsOf(p)
      BY <1>2, <2>1 DEF p
    <3> HIDE DEF front
    <3> QED
      BY <3>1, <3>2, FlattenAppend
  <2>12. SoundsOf(h[k].phonemes) = FlattenSeq(front(k))
    BY <2>2, <2>10, <2>11
  <2> QED
    BY <2>1, <2>9, <2>12 DEF k
<1>8. n \in S
  <2> HIDE DEF S
  <2>1. n \in 0 .. n
    BY <1>1
  <2> QED
    BY <1>1, <1>6, <1>7, <2>1, InductionTo DEF Inductive
<1>9. front(n) = sounds
  BY <1>1, <1>2
<1> QED
  BY <1>4, <1>8, <1>9 DEF sounds

-----------------------------------------------------------------------------
(* What a word is said as.                                                  *)

NextSaid(d, word) == IF Pronunciation(d, word).type = "buffer" THEN Pronunciation(d, word).word ELSE word

LEMMA NextSaidTyped ==
    ASSUME NEW d, IsDictionary(d, DictEntry), NEW word \in Word
    PROVE  NextSaid(d, word) \in Word
BY PronunciationTyped, EntryKinds DEF NextSaid

LEMMA SaidAsIs ==
    ASSUME IsDictionary(dict, DictEntry), NEW word \in Word
    PROVE  \E as \in [0 .. 5 -> Word] :
               as[0] = word /\ SaidAs(word, 5) = as[5] /\ \A k \in 1 .. 5 : as[k] = NextSaid(dict, as[k - 1])
<1> DEFINE Is(f) == f = [k \in 0 .. 5 |-> IF k = 0 THEN word ELSE NextSaid(dict, f[k - 1])]
           F == [y \in (1 .. 5) \X Word |-> NextSaid(dict, y[2])]
           as == CHOOSE f : Is(f)
<1>1. SaidAs(word, 5) = as[5]
  BY DEF SaidAs, NextSaid
<1>2. F \in Steps(5, Word) /\ \A k \in 1 .. 5, w \in Word : F[<<k, w>>] = NextSaid(dict, w)
  <2>1. \A y \in (1 .. 5) \X Word : NextSaid(dict, y[2]) \in Word
    BY NextSaidTyped
  <2> QED
    BY <2>1 DEF Steps
<1> HIDE DEF F
<1>3. PICK f \in [0 .. 5 -> Word] : IsRecursion(f, 5, word, F)
  BY <1>2, RecursionTo
<1>4. Is(f)
  <2>1. \A k \in 1 .. 5 : f[k - 1] \in Word
    BY <1>3
  <2>2. f[0] = word /\ \A k \in 1 .. 5 : f[k] = NextSaid(dict, f[k - 1])
    BY <1>2, <1>3, <2>1 DEF IsRecursion
  <2>3. \A k \in 0 .. 5 : k # 0 => k \in 1 .. 5
    OBVIOUS
  <2> QED
    BY <1>3, <2>2, <2>3
<1> HIDE DEF Is
<1>5. Is(as)
  BY <1>4
<1> HIDE DEF as
<1>6. as[0] = word /\ \A k \in 1 .. 5 : as[k] = NextSaid(dict, as[k - 1])
  <2>1. 0 \in 0 .. 5 /\ \A k \in 1 .. 5 : k \in 0 .. 5 /\ k # 0
    OBVIOUS
  <2> QED
    BY <1>5, <2>1 DEF Is
<1>7. \A k \in 0 .. 5 : as[k] \in Word
  <2>1. \A k \in 1 .. 5 : as[k - 1] \in Word => as[k] \in Word
    BY <1>6, NextSaidTyped
  <2> QED
    BY <1>6, <2>1, FoldTyped
<1>8. as = [k \in 0 .. 5 |-> as[k]]
  <2> DEFINE g == [k \in 0 .. 5 |-> IF k = 0 THEN word ELSE NextSaid(dict, as[k - 1])]
  <2>1. as = g
    BY <1>5 DEF Is
  <2>2. g = [k \in 0 .. 5 |-> g[k]]
    OBVIOUS
  <2> HIDE DEF g
  <2> QED
    BY <2>1, <2>2
<1>9. as \in [0 .. 5 -> Word]
  BY <1>7, <1>8
<1> QED
  BY <1>1, <1>6, <1>9

\* The calls of pronounce follow it, as deep as they are.
LEMMA ChainSaid ==
    ASSUME IsDictionary(dict, DictEntry), NEW said, Saying(said, dict), NEW word \in Word,
           Pronunciation(dict, SaidAs(word, 5)).type # "buffer"
    PROVE  \E j \in 0 .. 5 : /\ said[<<word, 0>>] = said[<<SaidAs(word, 5), j>>]
                             /\ SaidAs(word, 5) \in Word
                             /\ (j = 0 <=> SaidAs(word, 5) = word)
<1>1. PICK as \in [0 .. 5 -> Word] :
          as[0] = word /\ SaidAs(word, 5) = as[5] /\ \A k \in 1 .. 5 : as[k] = NextSaid(dict, as[k - 1])
  BY SaidAsIs
<1> DEFINE Is(k, j) == said[<<word, 0>>] = said[<<as[k], j>>]
           Ended(w) == Pronunciation(dict, w).type # "buffer"
           Followed(k, j) == Is(k, j) /\ (j = k \/ Ended(as[k])) /\ (j = 0 => as[k] = word) /\ (j > 0 => ~Ended(word))
           S == {k \in 0 .. 5 : \E j \in 0 .. k : Followed(k, j)}
<1>2. 0 \in S
  <2>1. Is(0, 0)
    BY <1>1
  <2> HIDE DEF Is, Ended
  <2>2. Followed(0, 0)
    BY <1>1, <2>1
  <2> HIDE DEF Followed
  <2>3. 0 \in 0 .. 0
    OBVIOUS
  <2> QED
    BY <2>2, <2>3
<1>3. ASSUME NEW k \in 0 .. 5 - 1, k \in S
      PROVE  k + 1 \in S
  <2>1. PICK j \in 0 .. k : Followed(k, j)
    BY <1>3
  <2>2. k + 1 \in 1 .. 5 /\ k + 1 \in 0 .. 5 /\ (k + 1) - 1 = k /\ k \in 0 .. 5
    OBVIOUS
  <2>3. as[k + 1] = NextSaid(dict, as[k]) /\ as[k] \in Word
    BY <1>1, <2>2
  <2>4. CASE Pronunciation(dict, as[k]).type # "buffer"
    <3>1. as[k + 1] = as[k]
      BY <2>3, <2>4 DEF NextSaid
    <3>3. Is(k + 1, j)
      BY <2>1, <3>1
    <3>4. Ended(as[k + 1]) /\ j \in 0 .. k + 1
      <4>1. \A x \in 0 .. k : x \in 0 .. k + 1
        OBVIOUS
      <4> QED
        BY <2>4, <3>1, <4>1
    <3> HIDE DEF Is, Ended
    <3>2. Followed(k + 1, j) /\ j \in 0 .. k + 1
      BY <2>1, <3>1, <3>3, <3>4
    <3> HIDE DEF Followed
    <3> QED
      BY <2>2, <3>2
  <2>5. CASE Pronunciation(dict, as[k]).type = "buffer"
    <3>1. j = k /\ said[<<word, 0>>] = said[<<as[k], k>>]
      BY <2>1, <2>5
    <3>2. as[k + 1] = Pronunciation(dict, as[k]).word
      BY <2>3, <2>5 DEF NextSaid
    <3>3. k \in 0 .. MaxDepth + 1 /\ ~(k > MaxDepth) /\ k # 5
      <4>1. MaxDepth \in Nat /\ MaxDepth >= 6
        BY DictionaryAssumption
      <4> QED
        BY <4>1
    <3>4. said[<<as[k], k>>] = PronouncedAt(said, dict, NoRules, as[k], k)
      BY <2>3, <3>3 DEF Saying
    <3>5. PronouncedAt(said, dict, NoRules, as[k], k) = said[<<as[k + 1], k + 1>>]
      BY <2>5, <3>2, <3>3, CallIs
    <3>6. Pronunciation(dict, word).type = "buffer"
      <4>1. k = 0 => as[k] = word
        BY <2>1, <3>1
      <4>2. k > 0 => Pronunciation(dict, word).type = "buffer"
        BY <2>1, <3>1
      <4>3. k = 0 \/ k > 0
        OBVIOUS
      <4> QED
        BY <2>5, <4>1, <4>2, <4>3
    <3>8. Is(k + 1, k + 1) /\ ~Ended(word)
      BY <3>1, <3>4, <3>5, <3>6
    <3> HIDE DEF Is, Ended
    <3>7. Followed(k + 1, k + 1) /\ k + 1 \in 0 .. k + 1
      <4>1. k + 1 # 0 /\ k + 1 \in 0 .. k + 1
        OBVIOUS
      <4> QED
        BY <3>8, <4>1
    <3> HIDE DEF Followed
    <3> QED
      BY <2>2, <3>7
  <2> QED
    BY <2>4, <2>5
<1>4. 5 \in S
  <2> HIDE DEF S
  <2> QED
    BY <1>2, <1>3, InductionTo DEF Inductive
<1>5. PICK j \in 0 .. 5 : Followed(5, j)
  BY <1>4
<1>6. as[5] \in Word
  <2>1. 5 \in 0 .. 5
    OBVIOUS
  <2> QED
    BY <1>1, <2>1
<1>7. Ended(as[5])
  BY <1>1
<1>8. said[<<word, 0>>] = said[<<SaidAs(word, 5), j>>]
  BY <1>1, <1>5
<1>9. j = 0 <=> as[5] = word
  <2> HIDE DEF Is, Ended
  <2> QED
    <3>1. j = 0 \/ j > 0
      OBVIOUS
    <3>2. as[5] = word => Ended(word)
      BY <1>7
    <3> QED
      BY <1>5, <3>1, <3>2
<1> QED
  BY <1>1, <1>6, <1>8, <1>9

(* What is said of a word in the end. *)
LEMMA ResolvedIs ==
    ASSUME IsDictionary(dict, DictEntry), NEW word \in DOMAIN dict
    PROVE  LET as == SaidAs(word, 5)
               is == Pronunciation(dict, as)
               mode == IF as = word THEN "hyphenated" ELSE "stressed"
               parts == WordsOf(as, mode)
               said == pronounce(dict, word, NoRules, 0)
           IN  /\ is.type = "phonemes" => said.ok /\ said.phonemes = is.phonemes
               /\ (is.type = "null" /\ is_multiword(as, mode)
                   /\ \A i \in DOMAIN parts : Pronunciation(dict, parts[i].word).type = "phonemes") =>
                      /\ said.ok
                      /\ SoundsOf(said.phonemes) =
                             FlattenSeq([i \in DOMAIN parts |-> SoundsOf(Pronunciation(dict, parts[i].word).phonemes)])
<1> DEFINE as == SaidAs(word, 5)
           is == Pronunciation(dict, as)
           mode == IF as = word THEN "hyphenated" ELSE "stressed"
           parts == WordsOf(as, mode)
           result == pronounce(dict, word, NoRules, 0)
           Of(i) == Pronunciation(dict, parts[i].word)
<1>0. MaxDepth \in Nat /\ MaxDepth >= 6 /\ word \in Word
  BY DictionaryAssumption DEF IsDictionary
<1>1. PICK said : Saying(said, dict) /\ \A w \in Word : pronounce(dict, w, NoRules, 0) = said[<<w, 0>>]
  BY PronounceIs
<1>2. result = said[<<word, 0>>]
  BY <1>0, <1>1
<1>3. ASSUME is.type # "buffer"
      PROVE  /\ is.type = "phonemes" => result.ok /\ result.phonemes = is.phonemes
             /\ (is.type = "null" /\ is_multiword(as, mode) /\ \A i \in DOMAIN parts : Of(i).type = "phonemes") =>
                    result.ok /\ SoundsOf(result.phonemes) = FlattenSeq([i \in DOMAIN parts |-> SoundsOf(Of(i).phonemes)])
  <2>1. PICK j \in 0 .. 5 : said[<<word, 0>>] = said[<<as, j>>] /\ as \in Word /\ (j = 0 <=> as = word)
    BY <1>0, <1>1, <1>3, ChainSaid
  <2>2. j \in 0 .. MaxDepth + 1 /\ ~(j > MaxDepth) /\ j + 1 \in 0 .. MaxDepth + 1 /\ ~(j + 1 > MaxDepth) /\ j + 1 \in 1 .. 6
    BY <1>0
  <2>3. mode = ModeAt(j)
    BY <2>1 DEF ModeAt
  <2>4. result = PronouncedAt(said, dict, NoRules, as, j)
    BY <1>1, <1>2, <2>1, <2>2 DEF Saying
  <2> DEFINE all == Together(said, parts, j + 1)
  <2>5. result = IF is.type = "phonemes" THEN Success(is.phonemes)
                 ELSE IF is_multiword(as, mode) /\ (all.ok \/ all.deep) THEN all ELSE Failure(<<>>)
    BY <1>3, <2>2, <2>3, <2>4, CallIs
  <2> HIDE DEF all, result, is, mode
  <2>6. is.type = "phonemes" => result.ok /\ result.phonemes = is.phonemes
    BY <2>5 DEF Success
  <2>7. ASSUME is.type = "null", is_multiword(as, mode), \A i \in DOMAIN parts : Of(i).type = "phonemes"
        PROVE  result.ok /\ SoundsOf(result.phonemes) = FlattenSeq([i \in DOMAIN parts |-> SoundsOf(Of(i).phonemes)])
    <3>1. parts \in Seq(Part)
      BY <2>1, WordsOfTyped
    <3> HIDE DEF parts
    <3>2. \A i \in DOMAIN parts : parts[i].word \in Word
      <4>1. \A i \in DOMAIN parts : parts[i] \in Part
        BY <3>1
      <4> QED
        BY <4>1 DEF Part
    <3>3. \A i \in DOMAIN parts : Of(i).phonemes \in Seq(Phone)
      BY <2>7, PronunciationTyped, EntryKinds
    <3>4. \A i \in DOMAIN parts : said[<<parts[i].word, j + 1>>] = Success(Of(i).phonemes)
      <4> TAKE i \in DOMAIN parts
      <4>1. said[<<parts[i].word, j + 1>>] = PronouncedAt(said, dict, NoRules, parts[i].word, j + 1)
        BY <1>1, <2>2, <3>2 DEF Saying
      <4>2. PronouncedAt(said, dict, NoRules, parts[i].word, j + 1) = Success(Of(i).phonemes)
        BY <2>2, <2>7, CallIs
      <4> QED
        BY <4>1, <4>2
    <3> DEFINE phones == [i \in DOMAIN parts |-> Of(i).phonemes]
    <3>5. phones \in [DOMAIN parts -> Seq(Phone)] /\ \A i \in DOMAIN parts : phones[i] = Of(i).phonemes
      BY <3>3
    <3> HIDE DEF phones, Of
    <3>6. \A i \in DOMAIN parts : said[<<parts[i].word, j + 1>>] = Success(phones[i])
      BY <3>4, <3>5
    <3>7. all.ok /\ SoundsOf(all.phonemes) = FlattenSeq([i \in DOMAIN parts |-> SoundsOf(phones[i])])
      <4> DEFINE ps == parts
                 depth == j + 1
      <4>1. ps \in Seq(Part) /\ SaidEach(said, ps, depth, phones)
        BY <3>1, <3>5, <3>6 DEF SaidEach
      <4> HIDE DEF ps, depth
      <4>2. /\ Together(said, ps, depth).ok
            /\ SoundsOf(Together(said, ps, depth).phonemes) = FlattenSeq(SoundsOfEach(ps, phones))
        BY <4>1, TogetherSounds
      <4> QED
        BY <4>2 DEF all, ps, depth, SoundsOfEach
    <3>8. [i \in DOMAIN parts |-> SoundsOf(phones[i])] = [i \in DOMAIN parts |-> SoundsOf(Of(i).phonemes)]
      BY <3>5
    <3>9. result = all
      BY <2>5, <2>7, <3>7
    <3> QED
      BY <3>7, <3>8, <3>9
  <2> QED
    BY <2>6, <2>7
<1> HIDE DEF as, is, mode, parts, result
<1>4. /\ is.type = "phonemes" => result.ok /\ result.phonemes = is.phonemes
      /\ (is.type = "null" /\ is_multiword(as, mode) /\ \A i \in DOMAIN parts : Of(i).type = "phonemes") =>
             result.ok /\ SoundsOf(result.phonemes) = FlattenSeq([i \in DOMAIN parts |-> SoundsOf(Of(i).phonemes)])
  <2>1. CASE is.type # "buffer"
    BY <1>3, <2>1
  <2>2. CASE is.type = "buffer"
    BY <2>2
  <2> QED
    BY <2>1, <2>2
<1> QED
  BY <1>4 DEF as, is, mode, parts, result

-----------------------------------------------------------------------------
(* The inductive invariant of the dictionary program.                       *)

IsSequence(s) == s \in Seq({s[i] : i \in DOMAIN s})

\* The first line of a word is that of its first entry, when this one has a line.
IsFirst(lines, word, line) ==
    \E i \in DOMAIN lines : lines[i] = line /\ \A j \in DOMAIN lines : lines[j].word = word => i <= j
FirstIsSaid(word) == Line(word, dict[word][1]) # <<>> => IsFirst(printed, word, Line(word, dict[word][1])[1])

PrintedInv ==
    /\ IsSequence(printed)
    /\ remaining \subseteq DOMAIN dict
    /\ \A i \in DOMAIN printed : printed[i].word \notin remaining
    /\ \A word \in DOMAIN dict \ remaining : FirstIsSaid(word)

Resolves == Mode = "resolve_say_as_entries"
Early == {"base", "document", "source", "reading source"}

AppInv ==
    /\ options \in Cases /\ TextTyped /\ reader \in DictionaryReader
    /\ IsDictionary(base_dict, SaidEntry) /\ IsDictionary(dict, DictEntry)
    /\ taken \in Nat
    /\ phase \in Early => printed = <<>>
    /\ phase \in {"entries", "done"} /\ Resolves => PrintedInv
    /\ phase = "done" /\ Resolves => remaining = {}

LEMMA AddEntryTyped ==
    ASSUME NEW E, NEW d, IsDictionary(d, E), NEW word \in Word, NEW entry \in E
    PROVE  IsDictionary(add_entry(d, word, entry), E)
<1> DEFINE e == add_entry(d, word, entry)
           a == Append(lookup(d, word), entry)
<1>1. e = [w \in DOMAIN d \cup {word} |-> IF w = word THEN Append(lookup(d, w), entry) ELSE d[w]]
  BY DEF add_entry
<1>2. DOMAIN e = DOMAIN d \cup {word} /\ \A w \in DOMAIN e : e[w] = IF w = word THEN a ELSE d[w]
  BY <1>1
<1>3. a \in Seq(E) /\ a # <<>>
  <2>1. lookup(d, word) \in Seq(E)
    BY DEF IsDictionary, lookup
  <2>2. \A s \in Seq(E), x \in E : Append(s, x) \in Seq(E) /\ Len(Append(s, x)) = Len(s) + 1 /\ Len(s) \in Nat
    OBVIOUS
  <2>3. a \in Seq(E) /\ Len(a) = Len(lookup(d, word)) + 1 /\ Len(lookup(d, word)) \in Nat
    BY <2>1, <2>2
  <2> HIDE DEF a
  <2>4. a # <<>>
    BY <2>3
  <2> QED
    BY <2>3, <2>4
<1> HIDE DEF e, a
<1> QED
  BY <1>2, <1>3 DEF IsDictionary, e

LEMMA DictionaryWider ==
    ASSUME NEW d, IsDictionary(d, SaidEntry)
    PROVE  IsDictionary(d, DictEntry)
<1>1. \A s \in Seq(SaidEntry) : s \in Seq(DictEntry)
  BY DEF DictEntry
<1> QED
  BY <1>1 DEF IsDictionary

LEMMA LoadedTyped ==
    ASSUME NEW d, IsDictionary(d, SaidEntry), reader \in DictionaryReader, ReadOn
    PROVE  reader' \in DictionaryReader /\ IsDictionary(IF reader'.says = "entry" THEN add_entry(d, reader'.word, reader'.entry) ELSE d, SaidEntry)
<1>1. reader' \in DictionaryReader
  BY ReadFileTyped DEF ReadOn
<1>2. reader'.says = "entry" => reader'.word \in Word /\ reader'.entry \in SaidEntry
  BY <1>1 DEF DictionaryReader, ReaderRecord
<1> QED
  BY <1>1, <1>2, AddEntryTyped

LEMMA FromDocumentTyped ==
    ASSUME IsDictionary(base_dict, SaidEntry), NEW word \in Word
    PROVE  FromDocument(word) \subseteq DictEntry
<1> DEFINE match == Pronunciation(base_dict, word)
           said == pronounce(base_dict, word, NoRules, 0)
           in_both == options.word_mode = "in_dictionary_and_document"
<1>1. IsDictionary(base_dict, DictEntry)
  BY DictionaryWider
<1>2. said \in Results
  <2>1. PICK f : Saying(f, base_dict) /\ \A w \in Word : pronounce(base_dict, w, NoRules, 0) = f[<<w, 0>>]
    BY <1>1, PronounceIs
  <2>2. MaxDepth \in Nat
    BY DictionaryAssumption
  <2>3. 0 \in 0 .. MaxDepth + 1
    BY <2>2
  <2> QED
    BY <2>1, <2>3 DEF Saying
<1>3. match.type \in {"phonemes", "buffer", "null"}
  BY <1>1, PronunciationTyped, EntryKinds
<1>4. FromDocument(word) \in {{SayAsEntry(word)}, {PhonemesEntry(said.phonemes)}, {Nested(lookup(base_dict, word))}, {}}
  <2>1. CASE match.type = "null" /\ ~in_both
    BY <2>1 DEF FromDocument
  <2>2. CASE match.type = "buffer" /\ in_both /\ said.ok
    BY <2>2 DEF FromDocument
  <2>3. CASE match.type = "phonemes" /\ in_both
    BY <2>3 DEF FromDocument
  <2>4. CASE ~(match.type = "null" /\ ~in_both) /\ ~(match.type = "buffer" /\ in_both /\ said.ok) /\ ~(match.type = "phonemes" /\ in_both)
    <3>1. FromDocument(word) = {}
      BY <2>4 DEF FromDocument
    <3> QED
      BY <3>1
  <2> QED
    BY <2>1, <2>2, <2>3, <2>4
<1>5. SayAsEntry(word) \in DictEntry /\ PhonemesEntry(said.phonemes) \in DictEntry
  <2>1. said.phonemes \in Seq(Phone)
    BY <1>2 DEF Results
  <2> HIDE DEF said
  <2> QED
    BY <2>1, EntryTyped DEF DictEntry
<1>6. Nested(lookup(base_dict, word)) \in DictEntry
  <2>1. lookup(base_dict, word) \in Seq(SaidEntry)
    BY DEF lookup, IsDictionary
  <2> QED
    BY <2>1 DEF Nested, DictEntry
<1> HIDE DEF said
<1> QED
  BY <1>4, <1>5, <1>6

LEMMA SequenceIn ==
    ASSUME NEW A, NEW B, NEW c \in Seq(A), \A i \in 1 .. Len(c) : c[i] \in B
    PROVE  c \in Seq(B)
OBVIOUS

LEMMA JoinedSequence ==
    ASSUME NEW s, IsSequence(s), NEW X, NEW t \in Seq(X)
    PROVE  /\ IsSequence(s \o t) /\ Len(s) \in Nat /\ Len(t) \in Nat
           /\ DOMAIN s = 1 .. Len(s) /\ DOMAIN (s \o t) = 1 .. Len(s) + Len(t)
           /\ \A i \in 1 .. Len(s) : (s \o t)[i] = s[i]
           /\ \A i \in 1 .. Len(s) + Len(t) : i > Len(s) => i - Len(s) \in 1 .. Len(t) /\ (s \o t)[i] = t[i - Len(s)]
<1> DEFINE A == {s[i] : i \in DOMAIN s} \cup X
           c == s \o t
<1>1. s \in Seq({s[i] : i \in DOMAIN s})
  BY DEF IsSequence
<1>2. Len(s) \in Nat /\ DOMAIN s = 1 .. Len(s) /\ \A i \in 1 .. Len(s) : s[i] \in A
  BY <1>1
<1>3. Len(t) \in Nat /\ \A i \in 1 .. Len(t) : t[i] \in A
  OBVIOUS
<1> HIDE DEF A
<1>4. s \in Seq(A) /\ t \in Seq(A)
  BY <1>1, <1>2, <1>3
<1>5. /\ c \in Seq(A) /\ Len(c) = Len(s) + Len(t)
      /\ \A i \in 1 .. Len(s) : c[i] = s[i]
      /\ \A i \in 1 .. Len(s) + Len(t) : i > Len(s) => i - Len(s) \in 1 .. Len(t) /\ c[i] = t[i - Len(s)]
  BY <1>4, JoinIs
<1> HIDE DEF c
<1>6. DOMAIN c = 1 .. Len(s) + Len(t)
  BY <1>2, <1>3, <1>5
<1>7. IsSequence(c)
  <2>1. \A i \in 1 .. Len(c) : c[i] \in {c[j] : j \in DOMAIN c}
    BY <1>5
  <2> QED
    BY <1>5, <2>1, SequenceIn DEF IsSequence
<1> QED
  BY <1>2, <1>3, <1>5, <1>6, <1>7 DEF c

SaidLine(word, phonemes) == [word |-> word, text |-> write_phoneme_entry(options.format, word, phonemes)]

\* What is written of an entry when say-as entries are resolved.
LEMMA LineIs ==
    ASSUME Resolves, NEW word, NEW entry
    PROVE  /\ entry.type = "phonemes" => Line(word, entry) = <<SaidLine(word, entry.phonemes)>>
           /\ entry.type # "phonemes" =>
                  Line(word, entry) = IF pronounce(dict, word, NoRules, 0).ok
                                      THEN <<SaidLine(word, pronounce(dict, word, NoRules, 0).phonemes)>> ELSE <<>>
<1> DEFINE said == pronounce(dict, word, NoRules, 0)
<1> HIDE DEF said
<1>1. Line(word, entry) =
        CASE entry.type = "phonemes" -> <<SaidLine(word, entry.phonemes)>>
          [] Mode = "resolve_say_as_entries" /\ entry.type # "phonemes" -> IF said.ok THEN <<SaidLine(word, said.phonemes)>> ELSE <<>>
          [] entry.type = "buffer" /\ Mode # "resolve_say_as_entries" ->
                 IF options.format = "cmudict" THEN <<[word |-> word, text |-> <<"throw">>]>>
                 ELSE <<[word |-> word, text |-> write_say_as_entry(options.format, word, entry.word)]>>
          [] OTHER -> <<[word |-> word, text |-> <<"crash">>]>>
  BY DEF Line, SaidLine, said
<1>2. CASE entry.type = "phonemes"
  BY <1>1, <1>2 DEF Resolves
<1>3. CASE entry.type # "phonemes"
  <2>1. Line(word, entry) = IF said.ok THEN <<SaidLine(word, said.phonemes)>> ELSE <<>>
    BY <1>1, <1>3 DEF Resolves
  <2> QED
    BY <1>3, <2>1 DEF said
<1> QED
  BY <1>2, <1>3

EachLine(word) == [i \in DOMAIN dict[word] |-> Line(word, dict[word][i])]
LinesOf(word) == {Line(word, entry)[1] : entry \in DictEntry}

LEMMA EachLineTyped ==
    ASSUME Resolves, IsDictionary(dict, DictEntry), NEW word \in DOMAIN dict
    PROVE  /\ EachLine(word) \in Seq(Seq({line \in LinesOf(word) : line.word = word}))
           /\ Len(EachLine(word)) > 0 /\ EachLine(word)[1] = Line(word, dict[word][1])
<1> DEFINE X == {line \in LinesOf(word) : line.word = word}
           n == Len(dict[word])
<1>1. dict[word] \in Seq(DictEntry) /\ dict[word] # <<>>
  BY DEF IsDictionary
<1>2. n \in Nat /\ DOMAIN dict[word] = 1 .. n /\ n > 0 /\ 1 \in 1 .. n /\ \A i \in 1 .. n : dict[word][i] \in DictEntry
  BY <1>1
<1>3. \A entry \in DictEntry : Line(word, entry) \in Seq(X)
  <2> SUFFICES ASSUME NEW entry \in DictEntry
               PROVE  Line(word, entry) \in Seq(X)
    OBVIOUS
  <2>1. Line(word, entry) = <<>> \/ \E phonemes : Line(word, entry) = <<SaidLine(word, phonemes)>>
    BY LineIs
  <2>2. CASE Line(word, entry) = <<>>
    BY <2>2
  <2>3. CASE \E phonemes : Line(word, entry) = <<SaidLine(word, phonemes)>>
    <3>1. PICK phonemes : Line(word, entry) = <<SaidLine(word, phonemes)>>
      BY <2>3
    <3>2. Line(word, entry)[1] = SaidLine(word, phonemes)
      BY <3>1
    <3>3. SaidLine(word, phonemes) \in LinesOf(word)
      BY <3>2 DEF LinesOf
    <3>4. SaidLine(word, phonemes).word = word
      BY DEF SaidLine
    <3>5. SaidLine(word, phonemes) \in X
      BY <3>3, <3>4
    <3> QED
      BY <3>1, <3>5
  <2> QED
    BY <2>1, <2>2, <2>3
<1> HIDE DEF X
<1>4. EachLine(word) = [i \in 1 .. n |-> Line(word, dict[word][i])]
  BY <1>2 DEF EachLine
<1>5. \A i \in 1 .. n : Line(word, dict[word][i]) \in Seq(X)
  BY <1>2, <1>3
<1> HIDE DEF n
<1>6. EachLine(word) \in Seq(Seq(X)) /\ Len(EachLine(word)) = n /\ EachLine(word)[1] = Line(word, dict[word][1])
  BY <1>2, <1>4, <1>5
<1> QED
  BY <1>2, <1>6 DEF X

LEMMA LineSame ==
    ASSUME UNCHANGED <<options, dict>>, NEW word, NEW entry
    PROVE  Line(word, entry)' = Line(word, entry)
BY DEF Line, Mode

\* The lines of a word come behind those of the others.
LEMMA FormatPrints ==
    ASSUME AppInv, Resolves, NEW word \in remaining, FormatEntry(word), phase' = "entries"
    PROVE  PrintedInv'
<1> DEFINE lines == FlattenSeq(EachLine(word))
           X == {line \in LinesOf(word) : line.word = word}
           c == printed \o lines
           n == Len(printed)
<1>1. phase = "entries" /\ remaining' = remaining \ {word} /\ UNCHANGED <<options, dict>>
  BY DEF FormatEntry
<1>2. PrintedInv /\ IsDictionary(dict, DictEntry)
  BY <1>1 DEF AppInv
<1>3. printed' = c
  BY DEF FormatEntry, EachLine, SelectInSeq
<1>4. word \in DOMAIN dict
  BY <1>2 DEF PrintedInv
<1>5. EachLine(word) \in Seq(Seq(X)) /\ Len(EachLine(word)) > 0 /\ EachLine(word)[1] = Line(word, dict[word][1])
  BY <1>2, <1>4, EachLineTyped
<1>6. lines \in Seq(X)
  BY <1>5, FlattenTyped
<1>7. Line(word, dict[word][1]) # <<>> => lines # <<>> /\ lines[1] = Line(word, dict[word][1])[1]
  <2>1. EachLine(word)[1] # <<>> => lines # <<>> /\ lines[1] = EachLine(word)[1][1]
    BY <1>5, FlattenFirst
  <2> QED
    BY <1>5, <2>1
<1>8. \A i \in 1 .. Len(lines) : lines[i].word = word
  BY <1>6
<1>9. IsSequence(printed)
  BY <1>2 DEF PrintedInv
<1> HIDE DEF lines, X
<1>10. /\ IsSequence(c) /\ n \in Nat /\ Len(lines) \in Nat
       /\ DOMAIN printed = 1 .. n /\ DOMAIN c = 1 .. n + Len(lines)
       /\ \A i \in 1 .. n : c[i] = printed[i]
       /\ \A i \in 1 .. n + Len(lines) : i > n => i - n \in 1 .. Len(lines) /\ c[i] = lines[i - n]
  BY <1>6, <1>9, JoinedSequence
<1> HIDE DEF c, n
<1>11. \A i \in DOMAIN c : c[i].word \notin remaining \ {word}
  <2> SUFFICES ASSUME NEW i \in DOMAIN c
               PROVE  c[i].word \notin remaining \ {word}
    OBVIOUS
  <2>1. CASE i \in 1 .. n
    BY <1>2, <1>10, <2>1 DEF PrintedInv
  <2>2. CASE i \notin 1 .. n
    <3>1. c[i].word = word
      BY <1>8, <1>10, <2>2
    <3> QED
      BY <3>1
  <2> QED
    BY <2>1, <2>2
<1>12. \A w \in DOMAIN dict \ (remaining \ {word}) :
         Line(w, dict[w][1]) # <<>> => IsFirst(c, w, Line(w, dict[w][1])[1])
  <2> SUFFICES ASSUME NEW w \in DOMAIN dict \ (remaining \ {word}), Line(w, dict[w][1]) # <<>>
               PROVE  IsFirst(c, w, Line(w, dict[w][1])[1])
    OBVIOUS
  <2>1. CASE w = word
    <3>1. lines # <<>> /\ lines[1] = Line(w, dict[w][1])[1]
      BY <1>7, <2>1
    <3>2. Len(lines) > 0
      BY <1>6, <1>10, <3>1
    <3>3. n + 1 \in DOMAIN c /\ c[n + 1] = lines[1]
      BY <1>10, <3>2
    <3>4. \A j \in DOMAIN c : c[j].word = w => n + 1 <= j
      <4>1. \A j \in 1 .. n : c[j].word # word
        BY <1>2, <1>10 DEF PrintedInv
      <4> QED
        BY <1>10, <2>1, <4>1
    <3> QED
      BY <3>1, <3>3, <3>4 DEF IsFirst
  <2>2. CASE w # word
    <3>1. w \in DOMAIN dict \ remaining
      BY <2>2
    <3>2. IsFirst(printed, w, Line(w, dict[w][1])[1])
      BY <1>2, <3>1 DEF PrintedInv, FirstIsSaid
    <3>3. PICK i \in 1 .. n : printed[i] = Line(w, dict[w][1])[1] /\ \A j \in 1 .. n : printed[j].word = w => i <= j
      BY <1>10, <3>2 DEF IsFirst
    <3>4. i \in DOMAIN c /\ c[i] = Line(w, dict[w][1])[1]
      BY <1>10, <3>3
    <3>5. \A j \in DOMAIN c : c[j].word = w => i <= j
      BY <1>10, <3>3
    <3> QED
      BY <3>4, <3>5 DEF IsFirst
  <2> QED
    BY <2>1, <2>2
<1>13. \A w \in DOMAIN dict' \ remaining' : FirstIsSaid(w)'
  <2> SUFFICES ASSUME NEW w \in DOMAIN dict' \ remaining'
               PROVE  FirstIsSaid(w)'
    OBVIOUS
  <2>1. w \in DOMAIN dict \ (remaining \ {word})
    BY <1>1
  <2>2. Line(w, dict[w][1]) # <<>> => IsFirst(c, w, Line(w, dict[w][1])[1])
    BY <1>12, <2>1
  <2>3. Line(w, dict[w][1])' = Line(w, dict[w][1])
    BY <1>1 DEF Line, Mode
  <2> QED
    BY <1>3, <2>2, <2>3 DEF FirstIsSaid
<1> QED
  <2>1. IsSequence(printed)'
    BY <1>3, <1>10 DEF IsSequence
  <2>2. (remaining \subseteq DOMAIN dict)'
    BY <1>1, <1>2 DEF PrintedInv
  <2>3. (\A i \in DOMAIN printed : printed[i].word \notin remaining)'
    BY <1>1, <1>3, <1>11
  <2> QED
    BY <1>13, <2>1, <2>2, <2>3 DEF PrintedInv

-----------------------------------------------------------------------------
(* The steps of the program.                                                *)

LEMMA AppInitInv == Init => AppInv
<1> SUFFICES ASSUME Init
             PROVE  AppInv
  OBVIOUS
<1>1. \A E : IsDictionary(NoWords, E)
  BY DEF IsDictionary, NoWords
<1>2. options \in Cases /\ options.document \in Seq(Item)
  BY ProgramAssumption DEF Init
<1>3. TextTyped
  <2>1. TextInit(options.document)
    BY DEF Init
  <2> QED
    BY <1>2, <2>1, TextInitTyped
<1>4. reader \in DictionaryReader
  BY CreatedTyped DEF Init
<1>5. phase = "base" /\ printed = <<>> /\ taken = 0 /\ base_dict = NoWords /\ dict = NoWords
  BY DEF Init
<1> QED
  BY <1>1, <1>2, <1>3, <1>4, <1>5 DEF AppInv

\* Every step is one of the text reader, or leaves it alone.
LEMMA StepOfText ==
    ASSUME [Next]_vars
    PROVE  [ReadToken]_textVars
BY DEF Next, vars, LoadBase, NoBase, ReadDocument, TakeToken, EndOfDocument, OpenSource, LoadSource, FormatEntry, CompareEntry, Done

LEMMA ReadingInv ==
    ASSUME AppInv, LoadBase \/ NoBase \/ ReadDocument \/ EndOfDocument
    PROVE  AppInv'
<1>1. TextTyped'
  <2>1. [ReadToken]_textVars
    BY DEF LoadBase, NoBase, ReadDocument, EndOfDocument
  <2> QED
    BY <2>1, TextNextTyped DEF AppInv
<1>2. CASE LoadBase
  <2>1. options' = options /\ UNCHANGED <<taken, printed>> /\ phase = "base" /\ ReadOn
    BY <1>2 DEF LoadBase
  <2>2. phase' \in {"base", "error", "document", "source"}
    BY <1>2 DEF LoadBase
  <2>3. reader' \in DictionaryReader /\ IsDictionary(Loaded(base_dict), SaidEntry)
    BY <2>1, LoadedTyped DEF AppInv, Loaded
  <2>4. IsDictionary(dict', DictEntry)
    <3>1. dict' \in {base_dict, dict}
      BY <1>2 DEF LoadBase
    <3>2. IsDictionary(base_dict, DictEntry)
      BY DictionaryWider DEF AppInv
    <3> QED
      BY <3>1, <3>2 DEF AppInv
  <2>5. base_dict' = Loaded(base_dict)
    BY <1>2 DEF LoadBase
  <2> QED
    BY <1>1, <2>1, <2>2, <2>3, <2>4, <2>5 DEF AppInv, Early
<1>3. CASE NoBase
  BY <1>1, <1>3 DEF NoBase, AppInv, Early
<1>4. CASE ReadDocument
  BY <1>1, <1>4 DEF ReadDocument, AppInv, appVars, Early
<1>5. CASE EndOfDocument
  BY <1>1, <1>5 DEF EndOfDocument, AppInv, Early
<1> QED
  BY <1>2, <1>3, <1>4, <1>5

LEMMA TakeTokenInv ==
    ASSUME AppInv, TakeToken
    PROVE  AppInv'
<1>1. TextTyped' /\ TextTyped
  BY TextNextTyped DEF TakeToken, AppInv
<1> DEFINE word == TextOf(tokens[taken + 1])
           add == IF IsWord(tokens[taken + 1].type) THEN FromDocument(word) ELSE {}
<1>2. phase = "document" /\ taken \in Nat /\ taken < Len(tokens) /\ taken' = taken + 1
      /\ UNCHANGED <<options, phase, reader, base_dict, printed>>
  BY DEF TakeToken, AppInv
<1>3. word \in Word
  <2>1. Len(tokens) \in Nat
    BY <1>1 DEF TextTyped
  <2>2. taken + 1 \in 1 .. Len(tokens)
    BY <1>2, <2>1
  <2> QED
    BY <1>1, <2>2, TextOfTyped
<1>4. FromDocument(word) \subseteq DictEntry
  BY <1>3, FromDocumentTyped DEF AppInv
<1>5. dict' = IF add = {} THEN dict ELSE add_entry(dict, word, CHOOSE entry \in add : TRUE)
  BY DEF TakeToken
<1>6. add \subseteq DictEntry
  BY <1>4
<1> HIDE DEF word, add
<1>7. IsDictionary(dict, DictEntry)
  BY DEF AppInv
<1>8. IsDictionary(dict', DictEntry)
  <2>1. CASE add = {}
    BY <1>5, <1>7, <2>1
  <2>2. CASE add # {}
    <3>1. (CHOOSE entry \in add : TRUE) \in DictEntry
      BY <1>6, <2>2
    <3> DEFINE chosen == CHOOSE entry \in add : TRUE
    <3> HIDE DEF chosen
    <3>2. IsDictionary(add_entry(dict, word, chosen), DictEntry)
      BY <1>3, <1>7, <3>1, AddEntryTyped DEF chosen
    <3> QED
      BY <1>5, <2>2, <3>2 DEF chosen
  <2> QED
    BY <2>1, <2>2
<1> QED
  BY <1>1, <1>2, <1>8 DEF AppInv, Early

\* The entries begin with all words left and nothing written.
LEMMA EntriesBegin ==
    ASSUME AppInv, printed = <<>>, printed' = <<>>, remaining' = DOMAIN dict, UNCHANGED <<options, dict>>
    PROVE  PrintedInv'
<1>1. IsSequence(<<>>)
  BY DEF IsSequence
<1>2. IsSequence(printed)'
  BY <1>1 DEF IsSequence
<1> QED
  BY <1>2 DEF PrintedInv

LEMMA SourceInv ==
    ASSUME AppInv, OpenSource \/ LoadSource
    PROVE  AppInv'
<1>1. TextTyped' /\ UNCHANGED <<options, base_dict, dict, taken, printed>> /\ phase \in Early /\ printed = <<>>
  <2>1. UNCHANGED textVars /\ UNCHANGED <<options, base_dict, dict, taken, printed>> /\ phase \in Early
    BY DEF OpenSource, LoadSource, Early
  <2> QED
    BY <2>1, TextNextTyped DEF AppInv
<1>2. CASE OpenSource
  <2>1. reader' \in DictionaryReader
    BY <1>2, CreatedTyped DEF OpenSource, AppInv
  <2>2. phase' \in {"entries", "unsupported", "reading source"} /\ (phase' = "entries" => remaining' = DOMAIN dict)
    BY <1>2 DEF OpenSource
  <2>3. phase' = "entries" => PrintedInv'
    BY <1>1, <2>2, EntriesBegin
  <2> QED
    BY <1>1, <2>1, <2>2, <2>3 DEF AppInv
<1>3. CASE LoadSource
  <2>1. reader' \in DictionaryReader
    BY <1>3, ReadFileTyped DEF LoadSource, ReadOn, AppInv
  <2>2. phase' \in {"reading source", "error", "entries"} /\ (phase' = "entries" => remaining' = DOMAIN dict)
    BY <1>3 DEF LoadSource
  <2>3. phase' = "entries" => PrintedInv'
    BY <1>1, <2>2, EntriesBegin
  <2> QED
    BY <1>1, <2>1, <2>2, <2>3 DEF AppInv
<1> QED
  BY <1>2, <1>3

LEMMA EntriesInv ==
    ASSUME AppInv, (\E word \in remaining : FormatEntry(word) \/ CompareEntry(word)) \/ Done
    PROVE  AppInv'
<1>1. TextTyped' /\ UNCHANGED <<options, reader, base_dict, dict, taken>> /\ phase = "entries"
  <2>1. UNCHANGED textVars /\ UNCHANGED <<options, reader, base_dict, dict, taken>> /\ phase = "entries"
    BY DEF FormatEntry, CompareEntry, Done
  <2> QED
    BY <2>1, TextNextTyped DEF AppInv
<1>2. Resolves' = Resolves
  BY <1>1 DEF Resolves, Mode
<1>3. ASSUME NEW word \in remaining, FormatEntry(word)
      PROVE  AppInv'
  <2>1. phase' \in {"entries", "error", "crash"}
    BY <1>1, <1>3 DEF FormatEntry, SelectInSeq
  <2>2. phase' = "entries" /\ Resolves => PrintedInv'
    BY <1>3, FormatPrints
  <2> QED
    BY <1>1, <1>2, <2>1, <2>2 DEF AppInv, Early
<1>4. ASSUME NEW word \in remaining, CompareEntry(word)
      PROVE  AppInv'
  <2>1. ~Resolves /\ phase' = phase
    BY <1>4 DEF CompareEntry, Resolves
  <2> QED
    BY <1>1, <1>2, <2>1 DEF AppInv, Early
<1>5. CASE Done
  <2>1. phase' = "done" /\ UNCHANGED <<remaining, printed>> /\ (remaining = {} \/ Mode = "from_document")
    BY <1>5 DEF Done
  <2>2. Resolves => remaining = {} /\ PrintedInv
    BY <1>1, <2>1 DEF Resolves, AppInv
  <2>3. PrintedInv => PrintedInv'
    BY <1>1, <2>1 DEF PrintedInv, FirstIsSaid, Line, Mode
  <2> QED
    BY <1>1, <1>2, <2>1, <2>2, <2>3 DEF AppInv, Early
<1> QED
  BY <1>3, <1>4, <1>5

LEMMA AppNextInv == AppInv /\ [Next]_vars => AppInv'
<1> SUFFICES ASSUME AppInv, [Next]_vars
             PROVE  AppInv'
  OBVIOUS
<1>1. CASE UNCHANGED vars
  <2>1. UNCHANGED textVars /\ UNCHANGED appVars
    BY <1>1 DEF vars
  <2>2. TextTyped'
    BY <2>1, TextNextTyped DEF AppInv
  <2>3. PrintedInv => PrintedInv'
    BY <2>1 DEF appVars, PrintedInv, FirstIsSaid, Line, Mode
  <2>4. Resolves' = Resolves
    BY <2>1 DEF appVars, Resolves, Mode
  <2> QED
    BY <2>1, <2>2, <2>3, <2>4 DEF AppInv, appVars
<1> QED
  BY <1>1, ReadingInv, TakeTokenInv, SourceInv, EntriesInv DEF Next

\* A word that has phonemes is said as itself.
LEMMA SaidAsSame ==
    ASSUME IsDictionary(dict, DictEntry), NEW word \in Word, Pronunciation(dict, word).type # "buffer"
    PROVE  SaidAs(word, 5) = word
<1>1. PICK as \in [0 .. 5 -> Word] :
          as[0] = word /\ SaidAs(word, 5) = as[5] /\ \A k \in 1 .. 5 : as[k] = NextSaid(dict, as[k - 1])
  BY SaidAsIs
<1>2. NextSaid(dict, word) = word
  BY DEF NextSaid
<1>3. \A k \in 1 .. 5 : as[k - 1] \in {word} => as[k] \in {word}
  BY <1>1, <1>2
<1>4. as[0] \in {word}
  BY <1>1
<1> DEFINE T == {word}
<1>5. (\A k \in 1 .. 5 : as[k - 1] \in T => as[k] \in T) /\ as[0] \in T
  BY <1>3, <1>4
<1>6. 5 \in Nat /\ 5 \in 0 .. 5
  OBVIOUS
<1> HIDE DEF T
<1>7. \A k \in 0 .. 5 : as[k] \in T
  <2>1. PICK five \in Nat : five = 5
    BY <1>6
  <2>2. \A k \in 1 .. five : as[k - 1] \in T => as[k] \in T
    BY <1>5, <2>1
  <2>3. \A k \in 0 .. five : as[k] \in T
    BY <1>5, <2>2, FoldTyped
  <2> QED
    BY <2>1, <2>3
<1>8. as[5] \in T
  BY <1>6, <1>7
<1> QED
  BY <1>1, <1>8 DEF T

LEMMA InvIsSaid == AppInv => ResolvedIsSaid
<1> SUFFICES ASSUME AppInv, phase = "done", Resolves, NEW word \in DOMAIN dict
             PROVE  LET as == SaidAs(word, 5)
                        is == Pronunciation(dict, as)
                        mode == IF as = word THEN "hyphenated" ELSE "stressed"
                        parts == WordsOf(as, mode)
                        Of(part) == Pronunciation(dict, part.word)
                        said == pronounce(dict, word, NoRules, 0).phonemes
                    IN  /\ is.type = "phonemes" => SaidFirst(word, is.phonemes)
                        /\ is.type = "null" /\ is_multiword(as, mode) /\ (\A i \in DOMAIN parts : Of(parts[i]).type = "phonemes") =>
                               /\ SaidFirst(word, said)
                               /\ SoundsOf(said) = FlattenSeq([i \in DOMAIN parts |-> SoundsOf(Of(parts[i]).phonemes)])
  BY DEF ResolvedIsSaid, Resolves
<1> DEFINE as == SaidAs(word, 5)
           is == Pronunciation(dict, as)
           mode == IF as = word THEN "hyphenated" ELSE "stressed"
           parts == WordsOf(as, mode)
           said == pronounce(dict, word, NoRules, 0)
           entry == dict[word][1]
<1>1. IsDictionary(dict, DictEntry) /\ PrintedInv /\ remaining = {}
  BY DEF AppInv
<1>2. FirstIsSaid(word)
  BY <1>1 DEF PrintedInv
<1>3. ASSUME NEW phonemes, Line(word, entry) = <<SaidLine(word, phonemes)>>
      PROVE  SaidFirst(word, phonemes)
  <2>1. Line(word, entry) # <<>> /\ Line(word, entry)[1] = SaidLine(word, phonemes)
    BY <1>3
  <2>2. PICK i \in DOMAIN printed : printed[i] = SaidLine(word, phonemes) /\ \A j \in DOMAIN printed : printed[j].word = word => i <= j
    BY <1>2, <2>1 DEF FirstIsSaid, IsFirst
  <2>3. printed[i].word = word /\ printed[i].text = write_phoneme_entry(options.format, word, phonemes)
    BY <2>2 DEF SaidLine
  <2> QED
    BY <2>2, <2>3 DEF SaidFirst
<1>4. ASSUME said.ok, said.phonemes = Pronunciation(dict, word).phonemes \/ Pronunciation(dict, word).type # "phonemes"
      PROVE  SaidFirst(word, said.phonemes)
  <2>1. CASE entry.type = "phonemes"
    <3>1. Pronunciation(dict, word) = entry
      BY <1>1, <2>1, PronunciationTyped
    <3>2. Line(word, entry) = <<SaidLine(word, entry.phonemes)>>
      BY <2>1, LineIs
    <3> QED
      BY <1>3, <1>4, <2>1, <3>1, <3>2
  <2>2. CASE entry.type # "phonemes"
    <3>1. Line(word, entry) = <<SaidLine(word, said.phonemes)>>
      BY <1>4, <2>2, LineIs
    <3> QED
      BY <1>3, <3>1
  <2> QED
    BY <2>1, <2>2
<1>5. Pronunciation(dict, word).type = "phonemes" => as = word
  <2>1. word \in Word
    BY <1>1 DEF IsDictionary
  <2> QED
    BY <1>1, <2>1, SaidAsSame
<1>6. /\ is.type = "phonemes" => said.ok /\ said.phonemes = is.phonemes
      /\ is.type = "null" /\ is_multiword(as, mode) /\ (\A i \in DOMAIN parts : Pronunciation(dict, parts[i].word).type = "phonemes") =>
             /\ said.ok
             /\ SoundsOf(said.phonemes) = FlattenSeq([i \in DOMAIN parts |-> SoundsOf(Pronunciation(dict, parts[i].word).phonemes)])
  BY <1>1, ResolvedIs
<1>7. is.type = "phonemes" => SaidFirst(word, is.phonemes)
  <2>1. is.type = "phonemes" => said.ok /\ said.phonemes = is.phonemes
    BY <1>6
  <2> HIDE DEF said, as
  <2> QED
    BY <1>4, <1>5, <2>1
<1>8. is.type = "null" /\ said.ok => SaidFirst(word, said.phonemes)
  <2> HIDE DEF said, as
  <2> QED
    BY <1>4, <1>5
<1> QED
  BY <1>6, <1>7, <1>8

(* Whatever the files, the document and the command line are: when the      *)
(* program has resolved the words of its dictionary, the first line of a    *)
(* word whose say-as entries lead to phonemes in at most five steps has     *)
(* these phonemes, and that of a word that is put together of words with    *)
(* phonemes has the sounds of all of them in their order.                   *)
THEOREM WordsAreSaid == Spec => []ResolvedIsSaid
<1>1. Init => AppInv
  BY AppInitInv
<1>2. AppInv /\ [Next]_vars => AppInv'
  BY AppNextInv
<1>3. AppInv => ResolvedIsSaid
  BY InvIsSaid
<1> QED
  BY <1>1, <1>2, <1>3, PTL DEF Spec

\* What the program has read of its document is as the text reader reads it.
DocInv == \E d \in Seq(Item) : document = d /\ (Whole(d) => TextInv(d))

(* Whatever dictionaries the program has and whatever it does with the      *)
(* words, it reads a document as it is if the document is whole, that is, if *)
(* none of its texts is empty or ends inside of what may be a token; so it   *)
(* does with all of them where no command line has a document of another     *)
(* kind.  Of such others nothing is said: they may lose characters.          *)
THEOREM ProgramReadsDocument ==
    /\ Spec => []DocumentIsRead
    /\ (\A command \in Cases : Whole(command.document)) => (Spec => []TextIsTokens(DocumentText))
<1>1. Init => DocInv
  <2> SUFFICES ASSUME Init
               PROVE  DocInv
    OBVIOUS
  <2>1. options.document \in Seq(Item) /\ TextInit(options.document)
    BY ProgramAssumption DEF Init
  <2>2. PICK d \in Seq(Item) : d = options.document
    BY <2>1
  <2>3. TextInit(d)
    BY <2>1, <2>2
  <2>4. document = d
    BY <2>3 DEF TextInit
  <2>5. Whole(d) => TextInv(d)
    BY <2>3, TextInitInv
  <2> QED
    BY <2>4, <2>5 DEF DocInv
<1>2. DocInv /\ [Next]_vars => DocInv'
  <2> SUFFICES ASSUME DocInv, [Next]_vars
               PROVE  DocInv'
    OBVIOUS
  <2>1. PICK d \in Seq(Item) : document = d /\ (Whole(d) => TextInv(d))
    BY DEF DocInv
  <2>2. [ReadToken]_textVars
    BY StepOfText
  <2>3. document' = d
    BY <2>1, <2>2 DEF ReadToken, textVars, inputVars, ReadText, ReadOther, EndParagraph, EndOfText, EndOfContent, EndToken, ReadCharacter
  <2>4. Whole(d) => TextInv(d)'
    BY <2>1, <2>2, TextNextInv
  <2> QED
    BY <2>3, <2>4 DEF DocInv
<1>3. DocInv => DocumentIsRead
  <2> SUFFICES ASSUME DocInv
               PROVE  DocumentIsRead
    OBVIOUS
  <2>1. PICK d \in Seq(Item) : document = d /\ (Whole(d) => TextInv(d))
    BY DEF DocInv
  <2>2. CASE Whole(d)
    BY <2>1, <2>2, TextInvIsRead DEF DocumentIsRead
  <2>3. CASE ~Whole(d)
    BY <2>1, <2>3 DEF DocumentIsRead, Whole
  <2> QED
    BY <2>2, <2>3
<1>4. Spec => []DocumentIsRead
  BY <1>1, <1>2, <1>3, PTL DEF Spec
<1>5. ASSUME \A command \in Cases : Whole(command.document)
      PROVE  Spec => []TextIsTokens(DocumentText)
  <2>1. Init => Whole(document)
    BY <1>5 DEF Init, TextInit
  <2>2. Whole(document) /\ [Next]_vars => Whole(document)'
    <3>1. [Next]_vars => [ReadToken]_textVars
      BY StepOfText
    <3>2. [ReadToken]_textVars => document' = document
      BY DEF ReadToken, textVars, inputVars, ReadText, ReadOther, EndParagraph, EndOfText, EndOfContent, EndToken, ReadCharacter
    <3> QED
      BY <3>1, <3>2 DEF Whole
  <2>3. DocumentIsRead /\ Whole(document) => TextIsTokens(DocumentText)
    BY DEF DocumentIsRead
  <2> QED
    BY <1>4, <2>1, <2>2, <2>3, PTL DEF Spec
<1> QED
  BY <1>4, <1>5
=============================================================================
