-------------------------- MODULE ParserTextProofs --------------------------
(***************************************************************************)
(* Reading through the stack of frames is reading the flat text of         *)
(* ParserText, for every document, with any macros, values and files.      *)
(***************************************************************************)
EXTENDS ParserInputProofs, ParserReading

FlatToken == Token \cup [k : {"endmacro"}, n : Macros] \cup [k : {"endvalue"}, n : Values]
             \cup {Comment}
FlatText  == Seq(FlatToken)

-----------------------------------------------------------------------------
(***************************************************************************)
(* Induction, and what a recursive function needs to be as it is written.  *)
(***************************************************************************)
LEMMA NatInduct ==
  ASSUME NEW S, 0 \in S, \A n \in Nat : n \in S => n + 1 \in S
  PROVE  Nat \subseteq S
<1>. DEFINE T == Nat \ S
<1>1. SUFFICES ASSUME T # {}  PROVE FALSE
  OBVIOUS
<1>2. T \in SUBSET Nat
  OBVIOUS
<1>3. PICK m \in T : \A n \in T : m <= n
  BY <1>1, <1>2, LeastElement
<1>4. m \in Nat /\ m # 0 /\ m - 1 \in Nat /\ (m - 1) + 1 = m /\ ~(m <= m - 1)
  OBVIOUS
<1>5. m - 1 \in S
  BY <1>3, <1>4
<1>. QED  BY <1>3, <1>4, <1>5

(* A set of sequences that has the empty one, and with each the longer     *)
(* ones, has them all.                                                     *)
LEMMA SeqInduct ==
  ASSUME NEW S, NEW T, <<>> \in T,
         \A s \in Seq(S) : \A e \in S : s \in T => Append(s, e) \in T
  PROVE  Seq(S) \subseteq T
<1>. DEFINE N == {n \in Nat : \A s \in Seq(S) : Len(s) = n => s \in T}
<1>1. 0 \in N
  <2>1. \A s \in Seq(S) : Len(s) = 0 => s = <<>>
    OBVIOUS
  <2>. QED  BY <2>1
<1>2. ASSUME NEW n \in Nat, n \in N PROVE n + 1 \in N
  <2>1. ASSUME NEW s \in Seq(S), Len(s) = n + 1 PROVE s \in T
    <3>1. s # <<>>
      BY <2>1
    <3>2. PICK r \in Seq(S), e \in S : s = Append(r, e)
      BY <3>1, SequenceEmptyOrAppend
    <3>3. Len(r) = n
      BY <2>1, <3>2
    <3>4. r \in T
      BY <1>2, <3>3
    <3>. QED  BY <3>2, <3>4
  <2>. QED  BY <2>1
<1>. HIDE DEF N
<1>3. Nat \subseteq N
  BY <1>1, <1>2, NatInduct
<1>4. ASSUME NEW s \in Seq(S) PROVE s \in T
  <2>1. Len(s) \in N
    BY <1>3
  <2>. QED  BY <2>1 DEF N
<1>. QED  BY <1>4

-----------------------------------------------------------------------------
(* Sequences. *)

LEMMA TailConcat ==
  ASSUME NEW S, NEW s \in Seq(S), NEW t \in Seq(S), s # <<>>
  PROVE  /\ s \o t # <<>> /\ (s \o t)[1] = s[1] /\ Tail(s \o t) = Tail(s) \o t
         /\ Tail(s) \in Seq(S)
<1>1. Len(s) \in Nat \ {0} /\ Len(t) \in Nat
  OBVIOUS
<1>2. /\ s \o t \in Seq(S) /\ Len(s \o t) = Len(s) + Len(t)
      /\ \A i \in 1 .. Len(s) + Len(t) :
           (s \o t)[i] = IF i <= Len(s) THEN s[i] ELSE t[i - Len(s)]
  BY ConcatProperties
<1>3. s \o t # <<>> /\ (s \o t)[1] = s[1]
  BY <1>1, <1>2
<1>4. /\ Tail(s) \in Seq(S) /\ Len(Tail(s)) = Len(s) - 1
      /\ \A i \in 1 .. Len(s) - 1 : Tail(s)[i] = s[i + 1]
  BY HeadTailProperties
<1>5. /\ Tail(s \o t) \in Seq(S) /\ Len(Tail(s \o t)) = Len(s) + Len(t) - 1
      /\ \A i \in 1 .. Len(s) + Len(t) - 1 : Tail(s \o t)[i] = (s \o t)[i + 1]
  <2>. DEFINE c == s \o t
  <2>1. c \in Seq(S) /\ c # <<>> /\ Len(c) = Len(s) + Len(t)
    BY <1>2, <1>3
  <2>. HIDE DEF c
  <2>2. /\ Tail(c) \in Seq(S) /\ Len(Tail(c)) = Len(c) - 1
        /\ \A i \in 1 .. Len(Tail(c)) : Tail(c)[i] = c[i + 1]
    BY <2>1, HeadTailProperties
  <2>. QED  BY <2>1, <2>2 DEF c
<1>6. /\ Tail(s) \o t \in Seq(S) /\ Len(Tail(s) \o t) = Len(s) - 1 + Len(t)
      /\ \A i \in 1 .. Len(s) - 1 + Len(t) :
           (Tail(s) \o t)[i] = IF i <= Len(s) - 1 THEN Tail(s)[i] ELSE t[i - (Len(s) - 1)]
  BY <1>4, ConcatProperties
<1>7. ASSUME NEW i \in 1 .. Len(s) + Len(t) - 1
      PROVE  Tail(s \o t)[i] = (Tail(s) \o t)[i]
  <2>1. i + 1 \in 1 .. Len(s) + Len(t) /\ i \in 1 .. Len(s) - 1 + Len(t)
        /\ (i + 1) - Len(s) = i - (Len(s) - 1)
    BY <1>1
  <2>2. CASE i + 1 <= Len(s)
    <3>1. i \in 1 .. Len(s) - 1 /\ i <= Len(s) - 1
      BY <1>1, <2>1, <2>2
    <3>. QED  BY <1>2, <1>4, <1>5, <1>6, <2>1, <2>2, <3>1
  <2>3. CASE ~(i + 1 <= Len(s))
    <3>1. ~(i <= Len(s) - 1)
      BY <1>1, <2>1, <2>3
    <3>. QED  BY <1>2, <1>5, <1>6, <2>1, <2>3, <3>1
  <2>. QED  BY <2>2, <2>3
<1>8. Len(Tail(s \o t)) = Len(Tail(s) \o t)
  BY <1>1, <1>5, <1>6
<1>9. Tail(s \o t) = Tail(s) \o t
  BY <1>5, <1>6, <1>7, <1>8, SeqEqual
<1>. QED  BY <1>3, <1>4, <1>9

(* The two parts a text is cut in make the text. *)
LEMMA CutText ==
  ASSUME NEW S, NEW s \in Seq(S), NEW n \in 0 .. Len(s)
  PROVE  /\ SubSeq(s, 1, n) \in Seq(S) /\ SubSeq(s, n + 1, Len(s)) \in Seq(S)
         /\ SubSeq(s, 1, n) \o SubSeq(s, n + 1, Len(s)) = s
<1>1. Len(s) \in Nat /\ n \in Nat /\ n <= Len(s)
  OBVIOUS
<1>2. SubSeq(s, 1, n) \in Seq(S) /\ SubSeq(s, n + 1, Len(s)) \in Seq(S)
  BY <1>1
<1>3. SubSeq(s, 1, n) \o SubSeq(s, n + 1, Len(s)) = SubSeq(s, 1, Len(s))
  <2>1. 1 \in 1 .. Len(s) + 1 /\ n \in 1 - 1 .. Len(s) /\ Len(s) \in n .. Len(s)
    BY <1>1
  <2>. QED  BY <2>1, ConcatAdjacentSubSeq
<1>. QED  BY <1>2, <1>3, SubSeqFull

LEMMA OneMore ==
  ASSUME NEW S, NEW e \in S, NEW s \in Seq(S), NEW t \in Seq(S)
  PROVE  /\ <<e>> \o t # <<>> /\ (<<e>> \o t)[1] = e /\ Tail(<<e>> \o t) = t
         /\ (s \o <<e>>) \o t = s \o (<<e>> \o t)
         /\ <<e>> \in Seq(S) /\ <<e>> \o t \in Seq(S)
<1>1. <<e>> \in Seq(S) /\ <<e>> # <<>> /\ Tail(<<e>>) = <<>>
  OBVIOUS
<1>2. <<>> \o t = t /\ <<e>>[1] = e
  BY ConcatEmptySeq
<1>3. <<e>> \o t # <<>> /\ (<<e>> \o t)[1] = e /\ Tail(<<e>> \o t) = t
  BY <1>1, <1>2, TailConcat
<1>4. (s \o <<e>>) \o t = s \o (<<e>> \o t)
  BY <1>1, ConcatAssociative
<1>5. <<e>> \o t \in Seq(S)
  BY <1>1, ConcatProperties
<1>. QED  BY <1>1, <1>3, <1>4, <1>5

-----------------------------------------------------------------------------
(***************************************************************************)
(* Files: Content is read line by line.                                    *)
(***************************************************************************)
LineToken == Token \cup {Comment}

LEMMA ReadLineType ==
  ASSUME NEW t \in Text, t # <<>>
  PROVE  /\ ReadLine(t) \in Seq(LineToken)
         /\ AfterLine(t) \in Text /\ Len(AfterLine(t)) < Len(t)
<1>1. ReadLine(t) \in Seq(LineToken)
  <2>1. BeforeKind(FileLine(t), "del") \in Text
    BY TextOps
  <2>2. BeforeKind(FileLine(t), "del") \in Seq(LineToken)
    BY <2>1, SeqMonotonic DEF Text, LineToken
  <2>3. <<Comment>> \in Seq(LineToken) /\ <<>> \in Seq(LineToken)
    BY DEF LineToken
  <2>. QED  BY <2>2, <2>3, ConcatProperties DEF ReadLine
<1>2. AfterLine(t) \in Text
  BY TextOps
<1>3. Len(AfterLine(t)) < Len(t)
  <2>1. LineLen(t) \in 1 .. Len(t)
    BY FirstOfIndex DEF LineLen, Text
  <2>. QED  BY <2>1 DEF AfterLine, Text
<1>. QED  BY <1>1, <1>2, <1>3

(* Files of n tokens at most, and what is read of those. *)
ReadUpto(n, c) ==
  /\ c \in [Text -> Seq(LineToken)]
  /\ \A t \in Text : Len(t) <= n =>
       c[t] = IF t = <<>> THEN <<>> ELSE ReadLine(t) \o c[AfterLine(t)]

LEMMA ReadSame ==
  ASSUME NEW n \in Nat, NEW c, NEW d, ReadUpto(n, c), ReadUpto(n, d)
  PROVE  \A t \in Text : Len(t) <= n => c[t] = d[t]
<1>. DEFINE N == {m \in Nat : \A t \in Text : Len(t) <= m /\ Len(t) <= n => c[t] = d[t]}
<1>1. \A t \in Text : /\ Len(t) \in Nat /\ (Len(t) <= 0 => t = <<>>)
                      /\ (Len(t) <= n => c[t] = IF t = <<>> THEN <<>>
                                                ELSE ReadLine(t) \o c[AfterLine(t)])
                      /\ (Len(t) <= n => d[t] = IF t = <<>> THEN <<>>
                                                ELSE ReadLine(t) \o d[AfterLine(t)])
  <2>1. \A t \in Text : Len(t) \in Nat /\ (Len(t) <= 0 => t = <<>>)
    BY DEF Text
  <2>2. /\ \A t \in Text : Len(t) <= n =>
             c[t] = IF t = <<>> THEN <<>> ELSE ReadLine(t) \o c[AfterLine(t)]
        /\ \A t \in Text : Len(t) <= n =>
             d[t] = IF t = <<>> THEN <<>> ELSE ReadLine(t) \o d[AfterLine(t)]
    BY DEF ReadUpto
  <2>. QED  BY <2>1, <2>2
<1>2. 0 \in N
  BY <1>1
<1>3. ASSUME NEW m \in Nat, m \in N PROVE m + 1 \in N
  <2>1. ASSUME NEW t \in Text, Len(t) <= m + 1, Len(t) <= n PROVE c[t] = d[t]
    <3>1. CASE t = <<>>
      BY <1>1, <2>1, <3>1
    <3>2. CASE t # <<>>
      <4>1. AfterLine(t) \in Text /\ Len(AfterLine(t)) < Len(t)
        BY <3>2, ReadLineType
      <4>2. Len(AfterLine(t)) <= m /\ Len(AfterLine(t)) <= n
        BY <1>1, <2>1, <4>1
      <4>3. c[AfterLine(t)] = d[AfterLine(t)]
        BY <1>3, <4>1, <4>2
      <4>. QED  BY <1>1, <2>1, <3>2, <4>3
    <3>. QED  BY <3>1, <3>2
  <2>. QED  BY <2>1
<1>. HIDE DEF N
<1>4. Nat \subseteq N
  BY <1>2, <1>3, NatInduct
<1>5. n \in N
  BY <1>4
<1>. QED  BY <1>5 DEF N

LEMMA ReadAll ==
  ASSUME NEW n \in Nat
  PROVE  \E c : ReadUpto(n, c)
<1>. DEFINE N == {m \in Nat : \E c : ReadUpto(m, c)}
<1>1. 0 \in N
  <2>. DEFINE c == [t \in Text |-> <<>>]
  <2>1. c \in [Text -> Seq(LineToken)]
    OBVIOUS
  <2>2. \A t \in Text : Len(t) <= 0 => t = <<>> /\ c[t] = <<>>
    BY DEF Text
  <2>. HIDE DEF c
  <2>3. ReadUpto(0, c)
    BY <2>1, <2>2 DEF ReadUpto
  <2>. QED  BY <2>3
<1>2. ASSUME NEW m \in Nat, m \in N PROVE m + 1 \in N
  <2>1. PICK c : ReadUpto(m, c)
    BY <1>2
  <2>. DEFINE d == [t \in Text |-> IF t = <<>> THEN <<>> ELSE ReadLine(t) \o c[AfterLine(t)]]
  <2>2. c \in [Text -> Seq(LineToken)]
    BY <2>1 DEF ReadUpto
  <2>3. ASSUME NEW t \in Text, t # <<>> PROVE ReadLine(t) \o c[AfterLine(t)] \in Seq(LineToken)
    <3>1. ReadLine(t) \in Seq(LineToken) /\ AfterLine(t) \in Text
      BY <2>3, ReadLineType
    <3>2. c[AfterLine(t)] \in Seq(LineToken)
      BY <2>2, <3>1
    <3>. QED  BY <3>1, <3>2, ConcatProperties
  <2>4. d \in [Text -> Seq(LineToken)]
    BY <2>3
  <2>5. ASSUME NEW t \in Text, Len(t) <= m PROVE d[t] = c[t]
    BY <2>1, <2>5 DEF ReadUpto
  <2>6. ASSUME NEW t \in Text, Len(t) <= m + 1, t # <<>>
        PROVE  d[t] = ReadLine(t) \o d[AfterLine(t)]
    <3>1. AfterLine(t) \in Text /\ Len(AfterLine(t)) < Len(t) /\ Len(t) \in Nat
          /\ Len(AfterLine(t)) \in Nat
      BY <2>6, ReadLineType DEF Text
    <3>2. Len(AfterLine(t)) <= m
      BY <2>6, <3>1
    <3>3. d[AfterLine(t)] = c[AfterLine(t)]
      BY <2>5, <3>1, <3>2
    <3>. QED  BY <2>6, <3>3
  <2>7. d[<<>>] = <<>> /\ <<>> \in Text
    BY DEF Text
  <2>. HIDE DEF d
  <2>8. ReadUpto(m + 1, d)
    BY <2>4, <2>6, <2>7 DEF ReadUpto
  <2>. QED  BY <2>8
<1>. HIDE DEF N
<1>3. n \in N
  BY <1>1, <1>2, NatInduct
<1>. QED  BY <1>3 DEF N

LEMMA ContentRead ==
  /\ Content \in [Text -> Seq(LineToken)]
  /\ \A t \in Text :
       Content[t] = IF t = <<>> THEN <<>> ELSE ReadLine(t) \o Content[AfterLine(t)]
<1>. DEFINE R(n) == CHOOSE c : ReadUpto(n, c)
            c == [t \in Text |-> R(Len(t))[t]]
<1>1. \A n \in Nat : ReadUpto(n, R(n))
  BY ReadAll
<1>2. \A t \in Text : Len(t) \in Nat /\ c[t] = R(Len(t))[t] /\ Len(t) <= Len(t)
  BY DEF Text
<1>. HIDE DEF R
<1>3. c \in [Text -> Seq(LineToken)]
  BY <1>1, <1>2 DEF ReadUpto
<1>4. ASSUME NEW t \in Text
      PROVE  c[t] = IF t = <<>> THEN <<>> ELSE ReadLine(t) \o c[AfterLine(t)]
  <2>. DEFINE r == R(Len(t))
  <2>1. ReadUpto(Len(t), r) /\ c[t] = r[t]
    BY <1>1, <1>2
  <2>. HIDE DEF r, c
  <2>2. r[t] = IF t = <<>> THEN <<>> ELSE ReadLine(t) \o r[AfterLine(t)]
    BY <1>2, <2>1 DEF ReadUpto
  <2>3. ASSUME t # <<>> PROVE r[AfterLine(t)] = c[AfterLine(t)]
    <3>1. AfterLine(t) \in Text /\ Len(AfterLine(t)) < Len(t)
      BY <2>3, ReadLineType
    <3>2. Len(AfterLine(t)) \in Nat /\ Len(t) \in Nat
      BY <1>2, <3>1
    <3>3. ReadUpto(Len(AfterLine(t)), r)
      <4>1. \A n \in Nat : n <= Len(AfterLine(t)) => n <= Len(t)
        BY <3>1, <3>2
      <4>2. \A u \in Text : Len(u) <= Len(AfterLine(t)) => Len(u) <= Len(t)
        BY <1>2, <4>1
      <4>. QED  BY <2>1, <4>2 DEF ReadUpto
    <3>4. /\ c[AfterLine(t)] = R(Len(AfterLine(t)))[AfterLine(t)]
          /\ ReadUpto(Len(AfterLine(t)), R(Len(AfterLine(t))))
      BY <1>1, <1>2, <3>1, <3>2
    <3>. QED  BY <1>2, <3>1, <3>2, <3>3, <3>4, ReadSame
  <2>. QED  BY <2>1, <2>2, <2>3
<1>. HIDE DEF c
<1>5. c = [t \in Text |-> IF t = <<>> THEN <<>> ELSE ReadLine(t) \o c[AfterLine(t)]]
  BY <1>3, <1>4
<1>6. Content = [t \in Text |-> IF t = <<>> THEN <<>> ELSE ReadLine(t) \o Content[AfterLine(t)]]
  BY <1>5, Zenon DEF Content
<1>7. \A t \in Text :
        Content[t] = IF t = <<>> THEN <<>> ELSE ReadLine(t) \o Content[AfterLine(t)]
  BY <1>6, Zenon
<1>. DEFINE N == {m \in Nat : \A t \in Text : Len(t) <= m => Content[t] \in Seq(LineToken)}
<1>8. 0 \in N
  <2>1. \A t \in Text : Len(t) <= 0 => t = <<>>
    BY DEF Text
  <2>2. \A t \in Text : t = <<>> => Content[t] = <<>>
    BY <1>7
  <2>3. <<>> \in Seq(LineToken)
    OBVIOUS
  <2>. QED  BY <2>1, <2>2, <2>3
<1>9. ASSUME NEW m \in Nat, m \in N PROVE m + 1 \in N
  <2>1. ASSUME NEW t \in Text, Len(t) <= m + 1 PROVE Content[t] \in Seq(LineToken)
    <3>1. CASE t = <<>>
      <4>1. <<>> \in Seq(LineToken)
        OBVIOUS
      <4>2. Content[t] = <<>>
        BY <1>7, <3>1
      <4>. QED  BY <4>1, <4>2
    <3>2. CASE t # <<>>
      <4>1. ReadLine(t) \in Seq(LineToken) /\ AfterLine(t) \in Text
            /\ Len(AfterLine(t)) < Len(t)
        BY <3>2, ReadLineType
      <4>2. Len(AfterLine(t)) <= m
        BY <1>2, <2>1, <4>1
      <4>3. Content[AfterLine(t)] \in Seq(LineToken)
        BY <1>9, <4>1, <4>2
      <4>4. Content[t] = ReadLine(t) \o Content[AfterLine(t)]
        BY <1>7, <3>2
      <4>. QED  BY <4>1, <4>3, <4>4, ConcatProperties
    <3>. QED  BY <3>1, <3>2
  <2>. QED  BY <2>1
<1>. HIDE DEF N
<1>10. Nat \subseteq N
  BY <1>8, <1>9, NatInduct
<1>11. \A t \in Text : Content[t] \in Seq(LineToken)
  <2>1. ASSUME NEW t \in Text PROVE Content[t] \in Seq(LineToken)
    <3>1. Len(t) \in N
      BY <1>2, <1>10
    <3>. QED  BY <1>2, <3>1 DEF N
  <2>. QED  BY <2>1
<1>12. Content \in [Text -> Seq(LineToken)]
  BY <1>6, <1>11, Zenon
<1>. QED  BY <1>7, <1>12

-----------------------------------------------------------------------------
(***************************************************************************)
(* The text of a stack.                                                    *)
(***************************************************************************)
LEMMA FlatTypes ==
  /\ \A t \in Text : t \in FlatText
  /\ \A t \in Seq(LineToken) : t \in FlatText
  /\ <<>> \in FlatText
<1>1. Token \subseteq FlatToken /\ LineToken \subseteq FlatToken
  BY DEF FlatToken, LineToken
<1>. QED  BY <1>1, SeqMonotonic DEF Text, FlatText

LEMMA FlatAssociative ==
  \A r, s, t \in FlatText : (r \o s) \o t = r \o (s \o t)
BY ConcatAssociative DEF FlatText

LEMMA FrameEndType ==
  ASSUME NEW f \in Frame
  PROVE  FrameEnd(f) \in FlatText
<1>1. f.value_flag \in Values \cup {None} /\ f.macro_name \in Macros \cup {None}
  BY DEF Frame
<1>2. /\ f.value_flag # None => [k |-> "endvalue", n |-> f.value_flag] \in FlatToken
      /\ f.macro_name # None => [k |-> "endmacro", n |-> f.macro_name] \in FlatToken
      /\ Comment \in FlatToken
  BY <1>1 DEF FlatToken
<1>. QED  BY <1>2 DEF FrameEnd, FlatText

LEMMA FrameTextType ==
  ASSUME NEW f \in Frame
  PROVE  FrameText(f) \in FlatText
<1>1. f.text \in Text
  BY DEF Frame
<1>2. f.text \in FlatText /\ Content[f.text] \in FlatText
  BY <1>1, ContentRead, FlatTypes
<1>. QED  BY <1>2, FrameEndType, ConcatProperties DEF FrameText, FlatText

(* What StackText gathers. *)
Gathered(s, n, g) ==
  /\ g \in [0 .. n -> FlatText]
  /\ \A i \in 0 .. n : g[i] = IF i = 0 THEN <<>> ELSE FrameText(s[i]) \o g[i - 1]

LEMMA GatheredAll ==
  ASSUME NEW s \in Seq(Frame)
  PROVE  \E g : Gathered(s, Len(s), g)
<1>. DEFINE N == {n \in Nat : n <= Len(s) => \E g : Gathered(s, n, g)}
<1>1. 0 \in N
  <2>. DEFINE g == [i \in 0 .. 0 |-> <<>>]
  <2>1. g \in [0 .. 0 -> FlatText] /\ \A i \in 0 .. 0 : i = 0 /\ g[i] = <<>>
    BY FlatTypes
  <2>. HIDE DEF g
  <2>2. Gathered(s, 0, g)
    BY <2>1 DEF Gathered
  <2>. QED  BY <2>2
<1>2. ASSUME NEW n \in Nat, n \in N, n + 1 <= Len(s) PROVE \E g : Gathered(s, n + 1, g)
  <2>1. PICK g : Gathered(s, n, g)
    BY <1>2
  <2>. DEFINE h == [i \in 0 .. n + 1 |-> IF i <= n THEN g[i] ELSE FrameText(s[n + 1]) \o g[n]]
  <2>2. g \in [0 .. n -> FlatText] /\ g[n] \in FlatText
    BY <2>1 DEF Gathered
  <2>3. s[n + 1] \in Frame
    BY <1>2
  <2>4. FrameText(s[n + 1]) \o g[n] \in FlatText
    BY <2>2, <2>3, FrameTextType, ConcatProperties DEF FlatText
  <2>5. h \in [0 .. n + 1 -> FlatText]
    BY <2>2, <2>4
  <2>6. ASSUME NEW i \in 0 .. n + 1
        PROVE  h[i] = IF i = 0 THEN <<>> ELSE FrameText(s[i]) \o h[i - 1]
    <3>1. CASE i <= n
      <4>1. i \in 0 .. n /\ h[i] = g[i] /\ (i # 0 => i - 1 \in 0 .. n + 1 /\ i - 1 <= n)
        BY <3>1
      <4>2. i # 0 => h[i - 1] = g[i - 1]
        BY <4>1
      <4>. HIDE DEF h
      <4>. QED  BY <2>1, <4>1, <4>2 DEF Gathered
    <3>2. CASE i = n + 1
      <4>1. i # 0 /\ i - 1 = n /\ n \in 0 .. n + 1 /\ ~(i <= n)
        BY <3>2
      <4>2. h[i] = FrameText(s[n + 1]) \o g[n]
        BY <4>1
      <4>3. n <= n /\ h[n] = g[n]
        BY <4>1
      <4>. HIDE DEF h
      <4>. QED  BY <3>2, <4>1, <4>2, <4>3
    <3>. QED  BY <3>1, <3>2
  <2>. HIDE DEF h
  <2>7. Gathered(s, n + 1, h)
    BY <2>5, <2>6 DEF Gathered
  <2>. QED  BY <2>7
<1>3. \A n \in Nat : n \in N => n + 1 \in N
  BY <1>2
<1>. HIDE DEF N
<1>4. Nat \subseteq N /\ Len(s) \in Nat /\ Len(s) <= Len(s)
  BY <1>1, <1>3, NatInduct
<1>5. Len(s) \in N
  BY <1>4
<1>. QED  BY <1>4, <1>5 DEF N

LEMMA GatheredSame ==
  ASSUME NEW s \in Seq(Frame), NEW f \in Frame, NEW n \in Nat, n <= Len(s),
         NEW g, NEW h, Gathered(s, n, g), Gathered(Append(s, f), n + 1, h)
  PROVE  g[n] = h[n]
<1>. DEFINE N == {i \in Nat : i <= n => g[i] = h[i]}
<1>1. 0 \in N
  BY DEF Gathered
<1>2. ASSUME NEW i \in Nat, i \in N, i + 1 <= n PROVE g[i + 1] = h[i + 1]
  <2>1. i + 1 \in 0 .. n /\ i + 1 \in 0 .. n + 1 /\ i + 1 # 0 /\ (i + 1) - 1 = i /\ i <= n
    BY <1>2
  <2>2. Append(s, f)[i + 1] = s[i + 1]
    BY <1>2
  <2>3. g[i] = h[i]
    BY <1>2, <2>1
  <2>. QED  BY <2>1, <2>2, <2>3 DEF Gathered
<1>3. \A i \in Nat : i \in N => i + 1 \in N
  BY <1>2
<1>. HIDE DEF N
<1>4. n \in N
  BY <1>1, <1>3, NatInduct
<1>. QED  BY <1>4 DEF N

LEMMA GatheredText ==
  ASSUME NEW s \in Seq(Frame)
  PROVE  \E g : Gathered(s, Len(s), g) /\ StackText(s) = g[Len(s)]
<1>. DEFINE Upto[i \in 0 .. Len(s)] == IF i = 0 THEN <<>> ELSE FrameText(s[i]) \o Upto[i - 1]
<1>1. StackText(s) = Upto[Len(s)]
  BY DEF StackText
<1>2. PICK g : Gathered(s, Len(s), g)
  BY GatheredAll
<1>3. g = [i \in 0 .. Len(s) |-> IF i = 0 THEN <<>> ELSE FrameText(s[i]) \o g[i - 1]]
  BY <1>2 DEF Gathered
<1>4. Upto = [i \in 0 .. Len(s) |-> IF i = 0 THEN <<>> ELSE FrameText(s[i]) \o Upto[i - 1]]
  BY <1>3, Zenon
<1>. HIDE DEF Upto
<1>5. Len(s) \in Nat
  OBVIOUS
<1>. DEFINE N == {i \in Nat : i <= Len(s) => Upto[i] = g[i]}
<1>6. 0 \in N
  <2>1. 0 \in 0 .. Len(s)
    BY <1>5
  <2>2. Upto[0] = <<>>
    BY <1>4, <2>1
  <2>3. g[0] = <<>>
    BY <1>2, <2>1 DEF Gathered
  <2>. QED  BY <2>2, <2>3
<1>7. ASSUME NEW i \in Nat, i \in N, i + 1 <= Len(s) PROVE Upto[i + 1] = g[i + 1]
  <2>1. i + 1 \in 0 .. Len(s) /\ i + 1 # 0 /\ (i + 1) - 1 = i /\ i <= Len(s)
    BY <1>5, <1>7
  <2>2. Upto[i] = g[i]
    BY <1>7, <2>1
  <2>3. Upto[i + 1] = FrameText(s[i + 1]) \o Upto[i]
    BY <1>4, <2>1
  <2>4. g[i + 1] = FrameText(s[i + 1]) \o g[i]
    BY <1>2, <2>1 DEF Gathered
  <2>. QED  BY <2>2, <2>3, <2>4
<1>8. \A i \in Nat : i \in N => i + 1 \in N
  BY <1>7
<1>. HIDE DEF N
<1>9. Len(s) \in N
  BY <1>5, <1>6, <1>8, NatInduct
<1>10. Upto[Len(s)] = g[Len(s)]
  BY <1>5, <1>9 DEF N
<1>. QED  BY <1>1, <1>2, <1>10

LEMMA StackTextType ==
  ASSUME NEW s \in Seq(Frame)
  PROVE  StackText(s) \in FlatText
<1>1. PICK g : Gathered(s, Len(s), g) /\ StackText(s) = g[Len(s)]
  BY GatheredText
<1>2. Len(s) \in 0 .. Len(s)
  OBVIOUS
<1>. QED  BY <1>1, <1>2 DEF Gathered

(* What is pushed comes first. *)
LEMMA PushedText ==
  ASSUME NEW s \in Seq(Frame), NEW f \in Frame
  PROVE  /\ StackText(s) \in FlatText
         /\ StackText(Append(s, f)) = FrameText(f) \o StackText(s)
<1>1. PICK g : Gathered(s, Len(s), g) /\ StackText(s) = g[Len(s)]
  BY GatheredText
<1>2. Append(s, f) \in Seq(Frame) /\ Len(Append(s, f)) = Len(s) + 1 /\ Len(s) \in Nat
      /\ Append(s, f)[Len(s) + 1] = f
  OBVIOUS
<1>3. PICK h : Gathered(Append(s, f), Len(s) + 1, h)
               /\ StackText(Append(s, f)) = h[Len(s) + 1]
  BY <1>2, GatheredText
<1>4. g[Len(s)] = h[Len(s)]
  BY <1>1, <1>2, <1>3, GatheredSame
<1>5. Len(s) + 1 \in 0 .. Len(s) + 1 /\ Len(s) + 1 # 0 /\ (Len(s) + 1) - 1 = Len(s)
      /\ Len(s) \in 0 .. Len(s)
  BY <1>2
<1>6. h[Len(s) + 1] = FrameText(f) \o h[Len(s)]
  BY <1>2, <1>3, <1>5 DEF Gathered
<1>7. g[Len(s)] \in FlatText
  BY <1>1, <1>5 DEF Gathered
<1>. QED  BY <1>1, <1>3, <1>4, <1>6, <1>7

LEMMA EmptyStackText == StackText(<<>>) = <<>>
<1>1. <<>> \in Seq(Frame) /\ Len(<<>>) = 0
  OBVIOUS
<1>2. PICK g : Gathered(<<>>, 0, g) /\ StackText(<<>>) = g[0]
  BY <1>1, GatheredText
<1>. QED  BY <1>2 DEF Gathered

(* The frame on top and those below. *)
Below(s) == SubSeq(s, 1, Len(s) - 1)

LEMMA TopAndBelow ==
  ASSUME NEW s \in Seq(Frame), s # <<>>
  PROVE  /\ Below(s) \in Seq(Frame) /\ s[Len(s)] \in Frame
         /\ s = Append(Below(s), s[Len(s)])
         /\ \A f \in Frame : [s EXCEPT ![Len(s)] = f] = Append(Below(s), f)
<1>. DEFINE r == Below(s)
<1>1. Len(s) \in Nat /\ Len(s) > 0 /\ s[Len(s)] \in Frame
  OBVIOUS
<1>2. r \in Seq(Frame) /\ Len(r) = Len(s) - 1 /\ \A i \in 1 .. Len(s) - 1 : r[i] = s[i]
  <2>. DEFINE q == SubSeq(s, 1, Len(s) - 1)
  <2>1. q \in Seq(Frame) /\ Len(q) = Len(s) - 1 /\ \A i \in 1 .. Len(q) : q[i] = s[i]
    <3>. DEFINE n == Len(s) - 1
    <3>1. n \in Int /\ n \in Nat /\ \A i \in 1 .. n : s[i] \in Frame
      BY <1>1
    <3>. HIDE DEF n
    <3>2. (IF 1 <= n THEN n - 1 + 1 ELSE 0) = n /\ n - 1 + 1 = n
      BY <3>1
    <3>3. \A i \in 1 .. n : 1 + i - 1 = i
      BY <3>1
    <3>4. /\ SubSeq(s, 1, n) \in Seq(Frame)
          /\ Len(SubSeq(s, 1, n)) = IF 1 <= n THEN n - 1 + 1 ELSE 0
          /\ \A i \in 1 .. n - 1 + 1 : SubSeq(s, 1, n)[i] = s[1 + i - 1]
      BY <3>1, SubSeqProperties
    <3>. QED  BY <3>2, <3>3, <3>4 DEF n
  <2>2. r = q
    BY DEF Below
  <2>. HIDE DEF q, r
  <2>. QED  BY <2>1, <2>2
<1>. HIDE DEF r
<1>3. ASSUME NEW f \in Frame, NEW t \in Seq(Frame), Len(t) = Len(s), t[Len(s)] = f,
             \A i \in 1 .. Len(s) - 1 : t[i] = s[i]
      PROVE  t = Append(r, f)
  <2>1. Append(r, f) \in Seq(Frame) /\ Len(Append(r, f)) = Len(s)
    BY <1>1, <1>2
  <2>2. \A i \in 1 .. Len(s) : Append(r, f)[i] = t[i]
    BY <1>1, <1>2, <1>3
  <2>. QED  BY <1>3, <2>1, <2>2, SeqEqual
<1>4. ASSUME NEW f \in Frame PROVE [s EXCEPT ![Len(s)] = f] = Append(r, f)
  <2>1. /\ [s EXCEPT ![Len(s)] = f] \in Seq(Frame) /\ Len([s EXCEPT ![Len(s)] = f]) = Len(s)
        /\ [s EXCEPT ![Len(s)] = f][Len(s)] = f
        /\ \A i \in 1 .. Len(s) - 1 : [s EXCEPT ![Len(s)] = f][i] = s[i]
    BY <1>1
  <2>. QED  BY <1>3, <2>1
<1>. QED  BY <1>1, <1>2, <1>3, <1>4 DEF r

LEMMA TopText ==
  ASSUME NEW s \in Seq(Frame), s # <<>>
  PROVE  /\ StackText(s) = FrameText(s[Len(s)]) \o StackText(Below(s))
         /\ \A f \in Frame : StackText([s EXCEPT ![Len(s)] = f]) = FrameText(f) \o StackText(Below(s))
<1>1. /\ Below(s) \in Seq(Frame) /\ s[Len(s)] \in Frame
      /\ s = Append(Below(s), s[Len(s)])
      /\ \A f \in Frame : [s EXCEPT ![Len(s)] = f] = Append(Below(s), f)
  BY TopAndBelow
<1>2. StackText(Append(Below(s), s[Len(s)])) = FrameText(s[Len(s)]) \o StackText(Below(s))
  BY <1>1, PushedText
<1>3. \A f \in Frame : StackText(Append(Below(s), f)) = FrameText(f) \o StackText(Below(s))
  BY <1>1, PushedText
<1>. QED  BY <1>1, <1>2, <1>3

-----------------------------------------------------------------------------
(***************************************************************************)
(* The expansions that are active in the text are the frames of the stack. *)
(***************************************************************************)
Kinds(t, k) == {i \in DOMAIN t : t[i].k = k}

LEMMA KindsFinite ==
  ASSUME NEW t \in FlatText, NEW k
  PROVE  IsFiniteSet(Kinds(t, k)) /\ Cardinality(Kinds(t, k)) \in Nat
<1>1. Kinds(t, k) \in SUBSET (1 .. Len(t)) /\ Len(t) \in Nat
  BY DEF Kinds, FlatText
<1>2. IsFiniteSet(1 .. Len(t))
  BY <1>1, FS_Interval
<1>. QED  BY <1>1, <1>2, FS_Subset, FS_CardinalityType

Has(t, e) == \E i \in DOMAIN t : t[i] = e

LEMMA KindsConcat ==
  ASSUME NEW s \in FlatText, NEW t \in FlatText, NEW k
  PROVE  /\ s \o t \in FlatText
         /\ Cardinality(Kinds(s \o t, k)) = Cardinality(Kinds(s, k)) + Cardinality(Kinds(t, k))
         /\ \A e : Has(s \o t, e) <=> Has(s, e) \/ Has(t, e)
<1>. DEFINE c == s \o t
            later == {j \in Kinds(c, k) : j > Len(s)}
            shift == [i \in Kinds(t, k) |-> i + Len(s)]
<1>1. /\ Len(s) \in Nat /\ Len(t) \in Nat /\ DOMAIN s = 1 .. Len(s) /\ DOMAIN t = 1 .. Len(t)
      /\ c \in FlatText /\ DOMAIN c = 1 .. Len(s) + Len(t)
      /\ \A i \in 1 .. Len(s) + Len(t) : c[i] = IF i <= Len(s) THEN s[i] ELSE t[i - Len(s)]
  BY ConcatProperties DEF FlatText
<1>. HIDE DEF c
<1>2. ASSUME NEW i \in DOMAIN t
      PROVE  /\ i + Len(s) \in DOMAIN c /\ i + Len(s) > Len(s) /\ c[i + Len(s)] = t[i]
  <2>1. i + Len(s) \in 1 .. Len(s) + Len(t) /\ ~(i + Len(s) <= Len(s))
        /\ (i + Len(s)) - Len(s) = i /\ i + Len(s) > Len(s)
    BY <1>1
  <2>. QED  BY <1>1, <2>1
<1>3. ASSUME NEW j \in DOMAIN c, j > Len(s)
      PROVE  /\ j - Len(s) \in DOMAIN t /\ t[j - Len(s)] = c[j] /\ (j - Len(s)) + Len(s) = j
  <2>1. j - Len(s) \in 1 .. Len(t) /\ ~(j <= Len(s)) /\ j \in 1 .. Len(s) + Len(t)
        /\ (j - Len(s)) + Len(s) = j
    BY <1>1, <1>3
  <2>. QED  BY <1>1, <2>1
<1>4. \A i \in DOMAIN s : i \in DOMAIN c /\ i <= Len(s) /\ c[i] = s[i]
  BY <1>1
<1>5. \A j \in DOMAIN c : j <= Len(s) => j \in DOMAIN s
  BY <1>1
<1>6. \A i \in DOMAIN t : i \in Nat
  BY <1>1
<1>7. \A j \in DOMAIN c : j <= Len(s) \/ j > Len(s)
  BY <1>1
<1>8. shift \in Bijection(Kinds(t, k), later)
  <2>1. shift \in [Kinds(t, k) -> later]
    BY <1>2 DEF Kinds
  <2>2. \A i, j \in Kinds(t, k) : shift[i] = shift[j] => i = j
    BY <1>1, <1>6 DEF Kinds
  <2>3. ASSUME NEW j \in later PROVE \E i \in Kinds(t, k) : shift[i] = j
    <3>1. j - Len(s) \in Kinds(t, k) /\ shift[j - Len(s)] = j
      BY <1>3 DEF Kinds
    <3>. QED  BY <3>1
  <2>. HIDE DEF shift, later
  <2>. QED  BY <2>1, <2>2, <2>3 DEF Bijection, Injection, Surjection, IsInjective
<1>. HIDE DEF shift
<1>9. IsFiniteSet(Kinds(t, k)) /\ IsFiniteSet(Kinds(s, k))
  BY KindsFinite
<1>10. IsFiniteSet(later) /\ Cardinality(later) = Cardinality(Kinds(t, k))
  BY <1>8, <1>9, FS_Bijection DEF ExistsBijection
<1>11. Kinds(c, k) = Kinds(s, k) \cup later
  BY <1>4, <1>5, <1>7 DEF Kinds
<1>12. Kinds(s, k) \cap later = {}
  <2>1. ASSUME NEW i \in Kinds(s, k), i > Len(s) PROVE FALSE
    BY <1>1, <2>1 DEF Kinds
  <2>. QED  BY <2>1
<1>. HIDE DEF later
<1>13. Cardinality(Kinds(c, k))
         = Cardinality(Kinds(s, k)) + Cardinality(later) - Cardinality(Kinds(s, k) \cap later)
  BY <1>9, <1>10, <1>11, FS_Union
<1>14. Cardinality(Kinds(c, k)) = Cardinality(Kinds(s, k)) + Cardinality(Kinds(t, k))
  <2>1. Cardinality(Kinds(s, k)) \in Nat /\ Cardinality(Kinds(t, k)) \in Nat
    BY KindsFinite
  <2>2. Cardinality(Kinds(s, k) \cap later) = 0
    BY <1>12, FS_EmptySet
  <2>. QED  BY <1>10, <1>13, <2>1, <2>2
<1>15. ASSUME NEW e PROVE Has(c, e) <=> Has(s, e) \/ Has(t, e)
  <2>1. Has(s, e) => Has(c, e)
    BY <1>4 DEF Has
  <2>2. Has(t, e) => Has(c, e)
    BY <1>2 DEF Has
  <2>3. Has(c, e) => Has(s, e) \/ Has(t, e)
    BY <1>3, <1>4, <1>5, <1>7 DEF Has
  <2>. QED  BY <2>1, <2>2, <2>3
<1>. QED  BY <1>1, <1>14, <1>15 DEF c

(* Lines have no end of an expansion. *)
LEMMA LineKinds ==
  ASSUME NEW t \in Seq(LineToken)
  PROVE  /\ \A i \in DOMAIN t : t[i].k \notin {"endmacro", "endvalue"}
         /\ \A k \in {"endmacro", "endvalue"} : Cardinality(Kinds(t, k)) = 0
         /\ \A m : ~Has(t, [k |-> "endmacro", n |-> m])
<1>1. \A i \in DOMAIN t : t[i] \in LineToken
  OBVIOUS
<1>2. \A e \in LineToken : e.k \notin {"endmacro", "endvalue"}
  BY DEF LineToken, Token, Comment
<1>3. \A k \in {"endmacro", "endvalue"} : Kinds(t, k) = {}
  BY <1>1, <1>2 DEF Kinds
<1>4. \A m : [k |-> "endmacro", n |-> m].k = "endmacro"
  OBVIOUS
<1>5. \A m : ~Has(t, [k |-> "endmacro", n |-> m])
  BY <1>1, <1>2, <1>4, Zenon DEF Has
<1>. QED  BY <1>1, <1>2, <1>3, <1>5, FS_EmptySet

LEMMA EndKinds ==
  ASSUME NEW f \in Frame, f.macro_name # None => f.value_flag = None
  PROVE  /\ Cardinality(Kinds(FrameEnd(f), "endmacro")) = IF f.macro_name # None THEN 1 ELSE 0
         /\ Cardinality(Kinds(FrameEnd(f), "endvalue")) = IF f.value_flag # None THEN 1 ELSE 0
         /\ \A m \in Macros : Has(FrameEnd(f), [k |-> "endmacro", n |-> m]) <=> f.macro_name = m
<1>0. None \notin Macros
  BY ParserInputAssumption
<1>1. \A e, k : /\ e.k = k => Kinds(<<e>>, k) = {1}
                /\ e.k # k => Kinds(<<e>>, k) = {}
  BY DEF Kinds
<1>2. \A k : Kinds(<<>>, k) = {}
  BY DEF Kinds
<1>3. \A e, d : Has(<<e>>, d) <=> e = d
  BY DEF Has
<1>4. \A d : ~Has(<<>>, d)
  BY DEF Has
<1>5. Cardinality({}) = 0 /\ Cardinality({1}) = 1
  BY FS_EmptySet, FS_Singleton
<1>6. CASE f.value_flag # None
  <2>. DEFINE e == [k |-> "endvalue", n |-> f.value_flag]
  <2>1. FrameEnd(f) = <<e>> /\ f.macro_name = None /\ e.k = "endvalue"
    BY <1>6 DEF FrameEnd
  <2>2. \A m : e # [k |-> "endmacro", n |-> m]
    OBVIOUS
  <2>. HIDE DEF e
  <2>3. Kinds(FrameEnd(f), "endvalue") = {1} /\ Kinds(FrameEnd(f), "endmacro") = {}
    BY <1>1, <2>1
  <2>4. \A m \in Macros : /\ ~Has(FrameEnd(f), [k |-> "endmacro", n |-> m])
                          /\ f.macro_name # m
    BY <1>0, <1>3, <2>1, <2>2
  <2>. QED  BY <1>5, <1>6, <2>1, <2>3, <2>4
<1>7. CASE f.value_flag = None /\ f.macro_name # None
  <2>. DEFINE e == [k |-> "endmacro", n |-> f.macro_name]
  <2>1. FrameEnd(f) = <<e>> /\ e.k = "endmacro"
    BY <1>7 DEF FrameEnd
  <2>2. \A m : e = [k |-> "endmacro", n |-> m] <=> f.macro_name = m
    OBVIOUS
  <2>. HIDE DEF e
  <2>. QED  BY <1>1, <1>3, <1>5, <1>7, <2>1, <2>2
<1>8. CASE f.value_flag = None /\ f.macro_name = None
  <2>1. FrameEnd(f) = <<Comment>> \/ FrameEnd(f) = <<>>
    BY <1>8 DEF FrameEnd
  <2>2. Comment.k = "comment" /\ \A m : Comment # [k |-> "endmacro", n |-> m]
    BY DEF Comment
  <2>3. \A m : ~Has(FrameEnd(f), [k |-> "endmacro", n |-> m])
    BY <1>3, <1>4, <2>1, <2>2
  <2>4. Kinds(FrameEnd(f), "endmacro") = {} /\ Kinds(FrameEnd(f), "endvalue") = {}
    BY <1>1, <1>2, <2>1, <2>2
  <2>5. \A m \in Macros : f.macro_name # m
    BY <1>0, <1>8
  <2>. QED  BY <1>5, <1>8, <2>3, <2>4, <2>5
<1>. QED  BY <1>6, <1>7, <1>8

LEMMA StackKinds ==
  \A s \in Seq(Frame) :
    (\A i \in DOMAIN s : s[i].macro_name # None => s[i].value_flag = None)
    => /\ Cardinality(Kinds(StackText(s), "endmacro")) = Cardinality(MacroIdx(s))
       /\ Cardinality(Kinds(StackText(s), "endvalue")) = Cardinality(ValueIdx(s))
       /\ \A m \in Macros : Has(StackText(s), [k |-> "endmacro", n |-> m])
                             <=> \E i \in DOMAIN s : s[i].macro_name = m
<1>. DEFINE Flags(s) == \A i \in DOMAIN s : s[i].macro_name # None => s[i].value_flag = None
            Agree(s) ==
              /\ Cardinality(Kinds(StackText(s), "endmacro")) = Cardinality(MacroIdx(s))
              /\ Cardinality(Kinds(StackText(s), "endvalue")) = Cardinality(ValueIdx(s))
              /\ \A m \in Macros : Has(StackText(s), [k |-> "endmacro", n |-> m])
                                    <=> \E i \in DOMAIN s : s[i].macro_name = m
            T == {s \in Seq(Frame) : Flags(s) => Agree(s)}
<1>1. <<>> \in T
  <2>1. Kinds(<<>>, "endmacro") = {} /\ Kinds(<<>>, "endvalue") = {}
        /\ MacroIdx(<<>>) = {} /\ ValueIdx(<<>>) = {} /\ \A e : ~Has(<<>>, e)
    BY DEF Kinds, MacroIdx, ValueIdx, Has
  <2>2. <<>> \in Seq(Frame) /\ \A i \in DOMAIN <<>> : FALSE
    OBVIOUS
  <2>. QED  BY <2>1, <2>2, EmptyStackText
<1>2. ASSUME NEW s \in Seq(Frame), NEW f \in Frame, s \in T
      PROVE  Append(s, f) \in T
  <2>. DEFINE r == Append(s, f)
              body == IF f.type = "IN_file" THEN Content[f.text] ELSE f.text
              rest == FrameEnd(f) \o StackText(s)
  <2>0. r \in Seq(Frame)
    OBVIOUS
  <2>1. SUFFICES ASSUME Flags(r) PROVE Agree(r)
    BY <2>0
  <2>2. /\ r \in Seq(Frame) /\ r[Len(s) + 1] = f /\ Len(s) + 1 \in DOMAIN r
        /\ \A i \in DOMAIN s : i \in DOMAIN r /\ r[i] = s[i]
        /\ \A i \in DOMAIN r : i \in DOMAIN s \/ i = Len(s) + 1
    OBVIOUS
  <2>. HIDE DEF r
  <2>3. Flags(s) /\ (f.macro_name # None => f.value_flag = None)
    BY <2>1, <2>2
  <2>4. Agree(s)
    BY <1>2, <2>3
  <2>5. body \in Seq(LineToken) /\ body \in FlatText
    <3>1. f.text \in Text
      BY DEF Frame
    <3>2. f.text \in Seq(LineToken) /\ Content[f.text] \in Seq(LineToken)
      BY <3>1, ContentRead, SeqMonotonic DEF Text, LineToken
    <3>. QED  BY <3>2, FlatTypes
  <2>6. FrameEnd(f) \in FlatText /\ StackText(s) \in FlatText
    BY FrameEndType, PushedText
  <2>7. rest \in FlatText
    BY <2>6, KindsConcat
  <2>8. StackText(r) = body \o rest
    <3>1. StackText(r) = (body \o FrameEnd(f)) \o StackText(s)
      BY PushedText DEF FrameText, r
    <3>. HIDE DEF body
    <3>2. (body \o FrameEnd(f)) \o StackText(s) = body \o (FrameEnd(f) \o StackText(s))
      BY <2>5, <2>6, FlatAssociative
    <3>. QED  BY <3>1, <3>2
  <2>. HIDE DEF body
  <2>9. \A k \in {"endmacro", "endvalue"} :
          Cardinality(Kinds(StackText(r), k))
            = Cardinality(Kinds(FrameEnd(f), k)) + Cardinality(Kinds(StackText(s), k))
    <3>1. ASSUME NEW k \in {"endmacro", "endvalue"}
          PROVE  Cardinality(Kinds(StackText(r), k))
                   = Cardinality(Kinds(FrameEnd(f), k)) + Cardinality(Kinds(StackText(s), k))
      <4>1. Cardinality(Kinds(body, k)) = 0
        BY <2>5, LineKinds
      <4>2. Cardinality(Kinds(rest, k))
              = Cardinality(Kinds(FrameEnd(f), k)) + Cardinality(Kinds(StackText(s), k))
        BY <2>6, KindsConcat
      <4>3. Cardinality(Kinds(rest, k)) \in Nat
        BY <2>7, KindsFinite
      <4>. HIDE DEF rest
      <4>4. Cardinality(Kinds(body \o rest, k)) = 0 + Cardinality(Kinds(rest, k))
        BY <2>5, <2>7, <4>1, KindsConcat
      <4>. QED  BY <2>8, <4>2, <4>3, <4>4
    <3>. QED  BY <3>1
  <2>10. \A m : Has(StackText(r), [k |-> "endmacro", n |-> m])
               <=> \/ Has(FrameEnd(f), [k |-> "endmacro", n |-> m])
                   \/ Has(StackText(s), [k |-> "endmacro", n |-> m])
    <3>1. \A e : Has(rest, e) <=> Has(FrameEnd(f), e) \/ Has(StackText(s), e)
      BY <2>6, KindsConcat
    <3>. HIDE DEF rest
    <3>2. \A e : Has(body \o rest, e) <=> Has(body, e) \/ Has(rest, e)
      BY <2>5, <2>7, KindsConcat
    <3>. QED  BY <2>5, <2>8, <3>1, <3>2, LineKinds
  <2>11. /\ Cardinality(MacroIdx(r)) = Cardinality(MacroIdx(s)) + IF f.macro_name = None THEN 0 ELSE 1
         /\ Cardinality(ValueIdx(r)) = Cardinality(ValueIdx(s)) + IF f.value_flag = None THEN 0 ELSE 1
         /\ Cardinality(MacroIdx(s)) \in Nat /\ Cardinality(ValueIdx(s)) \in Nat
    BY OpenAppend, OpenFinite DEF r
  <2>12. /\ Cardinality(Kinds(FrameEnd(f), "endmacro")) = IF f.macro_name # None THEN 1 ELSE 0
         /\ Cardinality(Kinds(FrameEnd(f), "endvalue")) = IF f.value_flag # None THEN 1 ELSE 0
         /\ \A m \in Macros : Has(FrameEnd(f), [k |-> "endmacro", n |-> m]) <=> f.macro_name = m
    BY <2>3, EndKinds
  <2>13. Cardinality(Kinds(StackText(r), "endmacro")) = Cardinality(MacroIdx(r))
    BY <2>4, <2>9, <2>11, <2>12
  <2>14. Cardinality(Kinds(StackText(r), "endvalue")) = Cardinality(ValueIdx(r))
    BY <2>4, <2>9, <2>11, <2>12
  <2>15. ASSUME NEW m \in Macros
         PROVE  Has(StackText(r), [k |-> "endmacro", n |-> m]) <=> \E i \in DOMAIN r : r[i].macro_name = m
    BY <2>2, <2>4, <2>10, <2>12
  <2>. QED  BY <2>13, <2>14, <2>15
<1>3. Seq(Frame) \subseteq T
  <2>. HIDE DEF T
  <2>. QED  BY <1>1, <1>2, SeqInduct
<1>. QED  BY <1>3

-----------------------------------------------------------------------------
(***************************************************************************)
(* The stack: what a frame owes to those below it.  A macro that is        *)
(* recorded as being read is open, and a text that lacks the newline of    *)
(* its last line is followed by an end.                                    *)
(***************************************************************************)
EndMarks == {"endmacro", "endvalue", "comment"}

EndsWell(t, rest) ==
  t = <<>> \/ t[Len(t)].k = "nl" \/ rest = <<>> \/ rest[1].k \in EndMarks

Opens(s, m) == \E i \in DOMAIN s : s[i].macro_name = m

FrameSound(s, f) ==
  /\ LET m == f.source_info.macro IN m # None => f.macro_name = m \/ Opens(s, m)
  /\ f.type = "IN_text" /\ FrameEnd(f) = <<>> => EndsWell(f.text, StackText(s))

StackSound(s) == \A i \in DOMAIN s : FrameSound(SubSeq(s, 1, i - 1), s[i])

LEMMA SoundAppend ==
  ASSUME NEW s \in Seq(Frame), NEW f \in Frame
  PROVE  StackSound(Append(s, f)) <=> StackSound(s) /\ FrameSound(s, f)
<1>. DEFINE r == Append(s, f)
<1>1. /\ r \in Seq(Frame) /\ Len(s) \in Nat /\ DOMAIN s = 1 .. Len(s) /\ DOMAIN r = 1 .. Len(s) + 1
      /\ r[Len(s) + 1] = f /\ \A i \in 1 .. Len(s) : r[i] = s[i]
  OBVIOUS
<1>. HIDE DEF r
<1>2. ASSUME NEW n \in 0 .. Len(s) PROVE SubSeq(r, 1, n) = SubSeq(s, 1, n)
  <2>1. \A i \in 1 .. n : r[i] = s[i] /\ r[i] \in Frame
    BY <1>1
  <2>2. n \in Int /\ n \in Nat /\ n - 1 + 1 = n
    BY <1>1
  <2>3. \A i \in 1 .. n : 1 + i - 1 = i /\ i \in 1 .. n - 1 + 1
    BY <2>2
  <2>4. /\ SubSeq(r, 1, n) \in Seq(Frame)
        /\ Len(SubSeq(r, 1, n)) = IF 1 <= n THEN n - 1 + 1 ELSE 0
        /\ \A i \in 1 .. n - 1 + 1 : SubSeq(r, 1, n)[i] = r[1 + i - 1]
    BY <2>1, <2>2, SubSeqProperties
  <2>5. /\ SubSeq(s, 1, n) \in Seq(Frame)
        /\ Len(SubSeq(s, 1, n)) = IF 1 <= n THEN n - 1 + 1 ELSE 0
        /\ \A i \in 1 .. n - 1 + 1 : SubSeq(s, 1, n)[i] = s[1 + i - 1]
    BY <2>1, <2>2, SubSeqProperties
  <2>6. (IF 1 <= n THEN n - 1 + 1 ELSE 0) = n
    BY <2>2
  <2>7. Len(SubSeq(r, 1, n)) = n /\ Len(SubSeq(s, 1, n)) = n
    BY <2>4, <2>5, <2>6
  <2>8. \A i \in 1 .. n : SubSeq(r, 1, n)[i] = SubSeq(s, 1, n)[i]
    BY <2>1, <2>3, <2>4, <2>5
  <2>. QED  BY <2>4, <2>5, <2>7, <2>8, SeqEqual
<1>3. SubSeq(r, 1, Len(s)) = s
  BY <1>1, <1>2, SubSeqFull
<1>4. \A i \in 1 .. Len(s) : SubSeq(r, 1, i - 1) = SubSeq(s, 1, i - 1)
  <2>1. \A i \in 1 .. Len(s) : i - 1 \in 0 .. Len(s)
    BY <1>1
  <2>. QED  BY <1>2, <2>1
<1>5. (Len(s) + 1) - 1 = Len(s)
  BY <1>1
<1>6. StackSound(r) <=> /\ \A i \in 1 .. Len(s) : FrameSound(SubSeq(r, 1, i - 1), r[i])
                        /\ FrameSound(SubSeq(r, 1, Len(s)), f)
  <2>1. \A i \in 1 .. Len(s) + 1 : i \in 1 .. Len(s) \/ i = Len(s) + 1
    BY <1>1
  <2>2. \A i \in 1 .. Len(s) : i \in 1 .. Len(s) + 1
    BY <1>1
  <2>3. Len(s) + 1 \in 1 .. Len(s) + 1
    BY <1>1
  <2>. QED  BY <1>1, <1>5, <2>1, <2>2, <2>3 DEF StackSound
<1>. QED  BY <1>1, <1>3, <1>4, <1>6 DEF StackSound, r

LEMMA SoundTop ==
  ASSUME NEW s \in Seq(Frame), s # <<>>
  PROVE  /\ StackSound(s) <=> StackSound(Below(s)) /\ FrameSound(Below(s), s[Len(s)])
         /\ \A f \in Frame : StackSound([s EXCEPT ![Len(s)] = f])
                              <=> StackSound(Below(s)) /\ FrameSound(Below(s), f)
<1>. DEFINE t == s[Len(s)]
<1>1. /\ Below(s) \in Seq(Frame) /\ t \in Frame /\ s = Append(Below(s), t)
      /\ \A f \in Frame : [s EXCEPT ![Len(s)] = f] = Append(Below(s), f)
  BY TopAndBelow
<1>2. \A f \in Frame : StackSound(Append(Below(s), f)) <=> StackSound(Below(s)) /\ FrameSound(Below(s), f)
  BY <1>1, SoundAppend
<1>. HIDE DEF t
<1>3. StackSound(s) <=> StackSound(Below(s)) /\ FrameSound(Below(s), t)
  BY <1>1, <1>2
<1>. QED  BY <1>1, <1>2, <1>3 DEF t

(* The macro that is recorded on the frame on top is open. *)
LEMMA RecordedOpens ==
  ASSUME NEW s \in Seq(Frame), StackSound(s), NEW i \in DOMAIN s,
         s[i].source_info.macro # None
  PROVE  Opens(s, s[i].source_info.macro)
<1>. DEFINE m == s[i].source_info.macro
            r == SubSeq(s, 1, i - 1)
<1>1. s[i].macro_name = m \/ Opens(r, m)
  BY DEF StackSound, FrameSound
<1>2. ASSUME NEW j \in DOMAIN r PROVE j \in DOMAIN s /\ r[j] = s[j]
  <2>1. Len(s) \in Nat /\ i \in 1 .. Len(s) /\ DOMAIN s = 1 .. Len(s)
    OBVIOUS
  <2>. DEFINE n == i - 1
  <2>2. n \in Nat /\ n \in Int /\ n < Len(s) /\ \A h \in 1 .. n : s[h] \in Frame
    BY <2>1
  <2>. HIDE DEF n
  <2>3. n - 1 + 1 = n /\ \A h \in 1 .. n : 1 + h - 1 = h /\ h \in 1 .. Len(s)
    BY <2>1, <2>2
  <2>4. /\ SubSeq(s, 1, n) \in Seq(Frame)
        /\ Len(SubSeq(s, 1, n)) = IF 1 <= n THEN n - 1 + 1 ELSE 0
        /\ \A h \in 1 .. n - 1 + 1 : SubSeq(s, 1, n)[h] = s[1 + h - 1]
    BY <2>2, SubSeqProperties
  <2>5. (IF 1 <= n THEN n - 1 + 1 ELSE 0) = n
    BY <2>2
  <2>6. DOMAIN SubSeq(s, 1, n) = 1 .. n
    BY <2>4, <2>5
  <2>7. r = SubSeq(s, 1, n)
    BY DEF n
  <2>. HIDE DEF r
  <2>. QED  BY <2>1, <2>3, <2>4, <2>6, <2>7
<1>. HIDE DEF r
<1>. QED  BY <1>1, <1>2 DEF Opens

(* expanding_macro finds the macros that are active in the text.           *)
LEMMA ReadsActive ==
  ASSUME NEW s \in Seq(Frame), StackSound(s), NEW n, NEW v, StackInv(s, n, v)
  PROVE  /\ Cardinality(Kinds(StackText(s), "endmacro")) = n
         /\ Cardinality(Kinds(StackText(s), "endvalue")) = v
         /\ \A m \in Macros : Has(StackText(s), [k |-> "endmacro", n |-> m]) <=> Reads(s, m)
<1>1. \A i \in DOMAIN s : s[i].macro_name # None => /\ s[i].source_info.macro = s[i].macro_name
                                                   /\ s[i].value_flag = None
  BY DEF StackInv
<1>2. n = Cardinality(MacroIdx(s)) /\ v = Cardinality(ValueIdx(s))
  BY DEF StackInv
<1>3. /\ Cardinality(Kinds(StackText(s), "endmacro")) = Cardinality(MacroIdx(s))
      /\ Cardinality(Kinds(StackText(s), "endvalue")) = Cardinality(ValueIdx(s))
      /\ \A m \in Macros : Has(StackText(s), [k |-> "endmacro", n |-> m]) <=> Opens(s, m)
  BY <1>1, StackKinds DEF Opens
<1>4. ASSUME NEW m \in Macros PROVE Opens(s, m) <=> Reads(s, m)
  <2>1. m # None
    BY ParserInputAssumption
  <2>2. Opens(s, m) => Reads(s, m)
    BY <1>1, <2>1 DEF Opens, Reads
  <2>3. Reads(s, m) => Opens(s, m)
    BY <2>1, RecordedOpens DEF Reads
  <2>. QED  BY <2>2, <2>3
<1>. QED  BY <1>2, <1>3, <1>4

(* A frame of text is put on the stack. *)
LEMMA PushedFrame ==
  ASSUME NEW s \in Seq(Frame), StackSound(s), NEW t \in Text, NEW nr \in Int,
         NEW m \in Macros \cup {None}, NEW v \in Values \cup {None},
         NEW mark \in SourceMark \cup {None},
         FrameEnd(TextFrame(s, t, nr, m, v, mark)) = <<>> => EndsWell(t, StackText(s))
  PROVE  LET r == PushText(s, t, nr, m, v, mark)
         IN  /\ r \in Seq(Frame) /\ StackSound(r)
             /\ StackText(r) = t \o (FrameEnd(TextFrame(s, t, nr, m, v, mark)) \o StackText(s))
<1>. DEFINE f == TextFrame(s, t, nr, m, v, mark)
<1>1. /\ f.type = "IN_text" /\ f.text = t /\ f.macro_name = m
      /\ f.source_info.macro = IF m # None THEN m
                               ELSE IF s = <<>> THEN None ELSE s[Len(s)].source_info.macro
  BY DEF TextFrame
<1>2. f \in Frame
  BY TextFrameType DEF IsTextFrame
<1>3. s # <<>> => Len(s) \in DOMAIN s
  OBVIOUS
<1>. HIDE DEF f
<1>4. FrameSound(s, f)
  <2>1. LET n == f.source_info.macro IN n # None => f.macro_name = n \/ Opens(s, n)
    BY <1>1, <1>3, RecordedOpens
  <2>. QED  BY <1>1, <2>1 DEF FrameSound, f
<1>5. PushText(s, t, nr, m, v, mark) = Append(s, f)
  BY DEF PushText, f
<1>6. FrameText(f) = t \o FrameEnd(f)
  BY <1>1 DEF FrameText
<1>7. t \in FlatText /\ FrameEnd(f) \in FlatText /\ StackText(s) \in FlatText
  BY <1>2, FlatTypes, FrameEndType, StackTextType
<1>8. StackText(Append(s, f)) = t \o (FrameEnd(f) \o StackText(s))
  <2>1. StackText(Append(s, f)) = (t \o FrameEnd(f)) \o StackText(s)
    BY <1>2, <1>6, PushedText
  <2>2. (t \o FrameEnd(f)) \o StackText(s) = t \o (FrameEnd(f) \o StackText(s))
    BY <1>7, FlatAssociative
  <2>. QED  BY <2>1, <2>2
<1>9. Append(s, f) \in Seq(Frame)
  BY <1>2
<1>. QED  BY <1>2, <1>4, <1>5, <1>8, <1>9, SoundAppend DEF f

LEMMA FrameEnds ==
  ASSUME NEW s, NEW t, NEW nr, NEW m, NEW v, NEW mark
  PROVE  /\ v # None => FrameEnd(TextFrame(s, t, nr, m, v, mark)) = <<[k |-> "endvalue", n |-> v]>>
         /\ v = None /\ m # None
              => FrameEnd(TextFrame(s, t, nr, m, v, mark)) = <<[k |-> "endmacro", n |-> m]>>
         /\ v = None /\ m = None /\ mark = None => FrameEnd(TextFrame(s, t, nr, m, v, mark)) = <<>>
         /\ v = None /\ m = None /\ mark # None /\ mark.type = "delcomment"
              => FrameEnd(TextFrame(s, t, nr, m, v, mark)) = <<Comment>>
BY DEF FrameEnd, TextFrame

(* What is left of a line is put back on the stack. *)
LEMMA PushedRest ==
  ASSUME NEW s \in Seq(Frame), StackSound(s), NEW t \in Text, NEW nr \in Int,
         EndsWell(t, StackText(s))
  PROVE  LET r == PushText(s, t, nr, None, None, None)
         IN  r \in Seq(Frame) /\ StackSound(r) /\ StackText(r) = t \o StackText(s)
<1>. DEFINE f == TextFrame(s, t, nr, None, None, None)
            r == PushText(s, t, nr, None, None, None)
<1>1. None \in Macros \cup {None} /\ None \in Values \cup {None} /\ None \in SourceMark \cup {None}
  OBVIOUS
<1>2. FrameEnd(f) = <<>>
  BY FrameEnds
<1>3. r \in Seq(Frame) /\ StackSound(r) /\ StackText(r) = t \o (FrameEnd(f) \o StackText(s))
  BY <1>1, PushedFrame
<1>. HIDE DEF f, r
<1>4. StackText(s) \in FlatText
  BY StackTextType
<1>5. <<>> \o StackText(s) = StackText(s)
  BY <1>4, ConcatEmptySeq DEF FlatText
<1>. QED  BY <1>2, <1>3, <1>5 DEF r

LEMMA ExpandedText ==
  ASSUME IInv, StackSound(input_stack), NEW rest \in Text, NEW t \in Text,
         EndsWell(rest, StackText(input_stack)), NEW mark \in SourceMark \cup {None},
         NEW m \in Macros \cup {None}, NEW v \in Values \cup {None},
         NEW e \in FlatToken,
         \/ v # None /\ e = [k |-> "endvalue", n |-> v]
         \/ v = None /\ m # None /\ e = [k |-> "endmacro", n |-> m]
  PROVE  LET r == Expand(rest, t, m, v, mark)
         IN  /\ r \in Seq(Frame) /\ StackSound(r)
             /\ StackText(r) = (t \o <<e>>) \o (rest \o StackText(input_stack))
<1>. DEFINE nr == current_source_info.line_nr
            q == PushText(input_stack, rest, nr, None, None, None)
            r == PushText(q, t, nr, m, v, mark)
<1>1. nr \in Int /\ input_stack \in Seq(Frame)
  BY StackFacts
<1>2. StackText(input_stack) \in FlatText /\ rest \in FlatText /\ t \in FlatText
  BY <1>1, FlatTypes, StackTextType
<1>. HIDE DEF nr
<1>3. q \in Seq(Frame) /\ StackSound(q) /\ StackText(q) = rest \o StackText(input_stack)
  BY <1>1, PushedRest
<1>. HIDE DEF q
<1>4. FrameEnd(TextFrame(q, t, nr, m, v, mark)) = <<e>>
  BY FrameEnds
<1>5. r \in Seq(Frame) /\ StackSound(r) /\ StackText(r) = t \o (<<e>> \o StackText(q))
  <2>1. <<e>> # <<>>
    OBVIOUS
  <2>2. FrameEnd(TextFrame(q, t, nr, m, v, mark)) # <<>>
    BY <1>4, <2>1
  <2>3. /\ r \in Seq(Frame) /\ StackSound(r)
        /\ StackText(r) = t \o (FrameEnd(TextFrame(q, t, nr, m, v, mark)) \o StackText(q))
    BY <1>1, <1>3, <2>2, PushedFrame
  <2>. QED  BY <1>4, <2>3
<1>6. StackText(q) \in FlatText /\ <<e>> \in FlatText
  <2>1. StackText(q) \in FlatText
    BY <1>3, StackTextType
  <2>2. <<e>> \in Seq(FlatToken)
    OBVIOUS
  <2>. QED  BY <2>1, <2>2 DEF FlatText
<1>7. StackText(r) = (t \o <<e>>) \o StackText(q)
  <2>1. (t \o <<e>>) \o StackText(q) = t \o (<<e>> \o StackText(q))
    BY <1>2, <1>6, FlatAssociative
  <2>. QED  BY <1>5, <2>1
<1>8. Expand(rest, t, m, v, mark) = r
  BY DEF Expand, q, nr
<1>. QED  BY <1>3, <1>5, <1>7, <1>8

LEMMA EndsTail ==
  ASSUME NEW t \in Text, t # <<>>, NEW r, EndsWell(t, r)
  PROVE  EndsWell(Tail(t), r)
<1>1. Len(t) \in Nat /\ Len(t) > 0 /\ Len(Tail(t)) = Len(t) - 1
      /\ \A i \in 1 .. Len(t) - 1 : Tail(t)[i] = t[i + 1]
  BY DEF Text
<1>2. CASE Len(t) = 1
  <2>1. Tail(t) \in Seq(Token) /\ Len(Tail(t)) = 0
    BY <1>1, <1>2 DEF Text
  <2>2. Tail(t) = <<>>
    BY <2>1, EmptySeq
  <2>. QED  BY <2>2 DEF EndsWell
<1>3. CASE Len(t) > 1
  <2>1. Len(t) - 1 \in 1 .. Len(t) - 1 /\ (Len(t) - 1) + 1 = Len(t)
    BY <1>1, <1>3
  <2>2. Tail(t)[Len(Tail(t))] = t[Len(t)]
    BY <1>1, <2>1
  <2>. QED  BY <2>2 DEF EndsWell
<1>. QED  BY <1>1, <1>2, <1>3

-----------------------------------------------------------------------------
(***************************************************************************)
(* The inductive invariant, and the steps.                                 *)
(***************************************************************************)
BetweenLines == \/ pc \in {"preamble", "newline"}
                \/ pc = "next_text" /\ ret \in {"preamble", "newline"}

FlatInv ==
  /\ StackSound(input_stack)
  /\ InLine => EndsWell(line, StackText(input_stack))
  /\ \A i \in DOMAIN pushback : EndsWell(pushback[i], StackText(input_stack))
  /\ Len(pushback) <= 1
  /\ InLine /\ eof => line = <<>> /\ input_stack = <<>>
  /\ BetweenLines => line_commands = <<>>
  /\ pc = "after_bye" => ret = "after_bye"

FlatVars == <<RemainingText, OpenCommands, call, out>>
FlatStep == [Flat!Next]_FlatVars
Inv == IInv /\ LinesInv /\ FlatInv

LEMMA Same ==
  ASSUME UNCHANGED <<RemainingText, OpenCommands, call, out>>
  PROVE  FlatStep
BY DEF FlatStep, FlatVars

(* The line comes first, then what is on the stack. *)
LEMMA LineText ==
  ASSUME Inv, pc \in {"newline", "preamble", "process", "line_arg"}
  PROVE  /\ ~AfterBye /\ RemainingText = line \o StackText(input_stack)
         /\ OpenCommands = line_commands
         /\ line \in FlatText /\ StackText(input_stack) \in FlatText
         /\ RemainingText \in FlatText /\ pushback = <<>>
<1>1. ~AfterBye /\ RemainingText = line \o StackText(input_stack) /\ OpenCommands = line_commands
  BY DEF AfterBye, RemainingText, OpenCommands, Pending
<1>2. line \in FlatText /\ StackText(input_stack) \in FlatText
  BY LineTypes, FlatTypes, StackTextType DEF Inv
<1>. QED  BY <1>1, <1>2, ConcatProperties DEF FlatText, Inv, LinesInv

(* The parser is at a token. *)
LEMMA AtToken ==
  ASSUME Inv, NEW k, At(k)
  PROVE  /\ Flat!At(k) /\ ~AfterBye /\ OpenCommands = line_commands
         /\ RemainingText \in FlatText /\ RemainingText # <<>> /\ RemainingText[1] = line[1]
         /\ line[1] \in Token /\ line[1].k = k
         /\ Tail(line) \in Text /\ EndsWell(Tail(line), StackText(input_stack))
         /\ Tail(RemainingText) = Tail(line) \o StackText(input_stack)
         /\ line \in Text /\ line # <<>> /\ call = NoCall /\ pc = "process" /\ ~eof
<1>1. pc = "process" /\ ~eof /\ line # <<>> /\ line[1].k = k
  BY DEF At
<1>2. line \in Text /\ line[1] \in Token /\ Tail(line) \in Text
  BY <1>1, LineTypes DEF Inv
<1>3. /\ ~AfterBye /\ RemainingText = line \o StackText(input_stack) /\ OpenCommands = line_commands
      /\ line \in FlatText /\ StackText(input_stack) \in FlatText /\ RemainingText \in FlatText
  BY <1>1, LineText
<1>4. RemainingText # <<>> /\ RemainingText[1] = line[1]
      /\ Tail(RemainingText) = Tail(line) \o StackText(input_stack)
  BY <1>1, <1>3, TailConcat DEF FlatText
<1>5. call = NoCall
  BY <1>1 DEF Inv, IInv, CallControl, ReadingArgument
<1>6. EndsWell(Tail(line), StackText(input_stack))
  BY <1>1, <1>2, EndsTail DEF Inv, FlatInv, InLine
<1>7. Flat!At(k)
  BY <1>1, <1>4, <1>5 DEF Flat!At, Flat!NoCall, NoCall
<1>. QED  BY <1>1, <1>2, <1>3, <1>4, <1>5, <1>6, <1>7

(* A step that goes on with the rest of the line. *)
LEMMA RestOfLine ==
  ASSUME Inv, NEW k, At(k), line' = Tail(line), UNCHANGED <<input_stack, pushback, pc, ret, eof>>
  PROVE  /\ FlatInv' /\ RemainingText' = Tail(RemainingText) /\ OpenCommands' = line_commands'
<1>1. pc' = "process" /\ pc = "process" /\ ~eof
  BY AtToken
<1>2. RemainingText' = line' \o StackText(input_stack) /\ OpenCommands' = line_commands'
  BY <1>1 DEF AfterBye, RemainingText, OpenCommands, Pending
<1>3. FlatInv'
  BY <1>1, AtToken DEF Inv, FlatInv, InLine, BetweenLines
<1>. QED  BY <1>2, <1>3, AtToken

LEMMA WordFlat ==
  ASSUME Inv, Word
  PROVE  FlatInv' /\ FlatStep
<1>1. PICK k \in {"word", "del", "arg", "hashline"} : At(k)
  BY DEF Word
<1>2. /\ out' = Append(out, line[1]) /\ line_commands' = NameSpoilt(line_commands)
      /\ line' = Tail(line) /\ call' = call
      /\ UNCHANGED <<input_stack, pushback, pc, ret, eof>>
  BY DEF Word, input_vars
<1>3. FlatInv' /\ RemainingText' = Tail(RemainingText) /\ OpenCommands' = line_commands'
  BY <1>1, <1>2, RestOfLine
<1>4. OpenCommands = line_commands /\ Flat!NameSpoilt(OpenCommands) = NameSpoilt(line_commands)
  BY <1>1, AtToken DEF Flat!NameSpoilt, NameSpoilt
<1>5. Flat!Word
  BY <1>1, <1>2, <1>3, <1>4, AtToken DEF Flat!Word
<1>. QED  BY <1>3, <1>5 DEF FlatStep, Flat!Next

LEMMA IncludeFlat ==
  ASSUME Inv, Include
  PROVE  FlatInv' /\ FlatStep
<1>1. /\ At("include")
      /\ line_commands' = Append(line_commands, [cmd |-> "include", file |-> line[1].n])
      /\ line' = Tail(line) /\ UNCHANGED <<call, out>>
      /\ UNCHANGED <<input_stack, pushback, pc, ret, eof>>
  BY DEF Include, input_vars
<1>2. FlatInv' /\ RemainingText' = Tail(RemainingText) /\ OpenCommands' = line_commands'
  BY <1>1, RestOfLine
<1>3. Flat!Include
  BY <1>1, <1>2, AtToken DEF Flat!Include
<1>. QED  BY <1>2, <1>3 DEF FlatStep, Flat!Next

LEMMA SetfilenameFlat ==
  ASSUME Inv, Setfilename
  PROVE  FlatInv' /\ FlatStep
<1>1. /\ At("setfilename")
      /\ line_commands' = Append(line_commands, [cmd |-> "setfilename", file |-> None])
      /\ line' = Tail(line) /\ UNCHANGED <<call, out>>
      /\ UNCHANGED <<input_stack, pushback, pc, ret, eof>>
  BY DEF Setfilename, input_vars
<1>2. FlatInv' /\ RemainingText' = Tail(RemainingText) /\ OpenCommands' = line_commands'
  BY <1>1, RestOfLine
<1>3. Flat!Setfilename
  BY <1>1, <1>2, AtToken DEF Flat!Setfilename
<1>. QED  BY <1>2, <1>3 DEF FlatStep, Flat!Next
(* A line is made of no end. *)
LEMMA LineNoEnds ==
  ASSUME NEW t \in Text, NEW s \in Seq(Frame)
  PROVE  /\ \A k \in {"endmacro", "endvalue"} :
              Cardinality(Kinds(t \o StackText(s), k)) = Cardinality(Kinds(StackText(s), k))
         /\ \A m : Has(t \o StackText(s), [k |-> "endmacro", n |-> m])
                    <=> Has(StackText(s), [k |-> "endmacro", n |-> m])
<1>1. t \in Seq(LineToken) /\ t \in FlatText
  BY FlatTypes, SeqMonotonic DEF Text, LineToken
<1>2. StackText(s) \in FlatText
  BY StackTextType
<1>3. ASSUME NEW k \in {"endmacro", "endvalue"}
      PROVE  Cardinality(Kinds(t \o StackText(s), k)) = Cardinality(Kinds(StackText(s), k))
  <2>1. Cardinality(Kinds(t, k)) = 0
    BY <1>1, LineKinds
  <2>2. Cardinality(Kinds(StackText(s), k)) \in Nat
    BY <1>2, KindsFinite
  <2>3. Cardinality(Kinds(t \o StackText(s), k)) = 0 + Cardinality(Kinds(StackText(s), k))
    BY <1>1, <1>2, <2>1, KindsConcat
  <2>. QED  BY <2>2, <2>3
<1>4. ASSUME NEW m
      PROVE  Has(t \o StackText(s), [k |-> "endmacro", n |-> m])
              <=> Has(StackText(s), [k |-> "endmacro", n |-> m])
  BY <1>1, <1>2, LineKinds, KindsConcat
<1>. QED  BY <1>3, <1>4

LEMMA FlatCardinality == \A S : Flat!Cardinality(S) = Cardinality(S)
BY Zenon DEF Flat!Cardinality, Cardinality

(* The nesting and the recursion that are looked for in the text are those *)
(* that the counters and the frames have.                                  *)
LEMMA ActiveText ==
  ASSUME Inv, NEW k, At(k)
  PROVE  /\ Flat!TooDeep("endvalue") <=> MaxNesting # 0 /\ value_expansion_nr >= MaxNesting
         /\ \A m \in Macros : Flat!Refused(m) <=> MacroError(m, macro_expansion_nr + 1)
<1>1. /\ call = NoCall /\ line \in Text /\ RemainingText = line \o StackText(input_stack)
      /\ pc = "process"
  BY AtToken, LineText
<1>2. PendingCalls = 0
  BY <1>1 DEF PendingCalls
<1>. DEFINE n == macro_expansion_nr - PendingCalls
            v == value_expansion_nr
<1>3. input_stack \in Seq(Frame) /\ StackSound(input_stack) /\ StackInv(input_stack, n, v)
      /\ n \in Nat /\ v \in Nat
  BY StackFacts DEF Inv, FlatInv
<1>. HIDE DEF n
<1>4. /\ Cardinality(Kinds(StackText(input_stack), "endmacro")) = n
      /\ Cardinality(Kinds(StackText(input_stack), "endvalue")) = v
      /\ \A m \in Macros : Has(StackText(input_stack), [k |-> "endmacro", n |-> m]) <=> Reads(input_stack, m)
  BY <1>3, ReadsActive
<1>5. /\ Cardinality(Kinds(RemainingText, "endmacro")) = n
      /\ Cardinality(Kinds(RemainingText, "endvalue")) = v
      /\ \A m \in Macros : Has(RemainingText, [k |-> "endmacro", n |-> m]) <=> Reads(input_stack, m)
  BY <1>1, <1>3, <1>4, LineNoEnds
<1>6. \A j : Flat!Active(j) = Kinds(RemainingText, j)
  BY DEF Flat!Active, Kinds
<1>7. /\ Flat!TooDeep("endvalue") <=> MaxNesting # 0 /\ v >= MaxNesting
      /\ Flat!TooDeep("endmacro") <=> MaxNesting # 0 /\ n >= MaxNesting
  BY <1>5, <1>6, FlatCardinality DEF Flat!TooDeep
<1>8. macro_expansion_nr = n /\ MaxNesting \in Nat
  BY <1>2, ParserInputAssumption DEF n, Inv, IInv, TypeOK
<1>9. ASSUME NEW m \in Macros
      PROVE  Flat!Refused(m) <=> MacroError(m, macro_expansion_nr + 1)
  <2>1. (\E i \in DOMAIN RemainingText : RemainingText[i] = Flat!EndMacro(m)) <=> ExpandingMacro(m)
    BY <1>5 DEF Has, Flat!EndMacro, ExpandingMacro, Reads
  <2>2. Flat!TooDeep("endmacro") <=> MaxNesting # 0 /\ macro_expansion_nr + 1 > MaxNesting
    BY <1>3, <1>7, <1>8
  <2>. QED  BY <2>1, <2>2 DEF Flat!Refused, MacroError
<1>. QED  BY <1>7, <1>9

(* An expansion has been put on the stack with the rest of the line. *)
LEMMA ExpansionPushed ==
  ASSUME Inv, pushback' = <<>>, line_commands' = line_commands, line' = <<>>, eof' = FALSE,
         pc' = "process" \/ (pc' = "next_text" /\ ret' = "process"),
         StackSound(input_stack')
  PROVE  /\ FlatInv' /\ RemainingText' = <<>> \o StackText(input_stack')
         /\ OpenCommands' = line_commands
<1>1. ~AfterBye' /\ ~BetweenLines'
  BY DEF AfterBye, BetweenLines
<1>2. RemainingText' = <<>> \o StackText(input_stack') /\ OpenCommands' = line_commands
  BY <1>1 DEF RemainingText, OpenCommands, Pending
<1>3. FlatInv'
  BY <1>1 DEF FlatInv, EndsWell
<1>. QED  BY <1>2, <1>3
LEMMA ValueFlat ==
  ASSUME Inv, Value
  PROVE  FlatInv' /\ FlatStep
<1>. DEFINE v == line[1].n
            s == StackText(input_stack)
<1>1. At("value")
  BY DEF Value
<1>2. /\ UNCHANGED <<call, out, line_commands, pushback, pc, ret, eof>> /\ pc = "process" /\ ~eof
      /\ pushback = <<>> /\ eof = FALSE
  BY <1>1, AtToken, LineText DEF Value, Inv, IInv, TypeOK
<1>3. /\ Flat!At("value") /\ RemainingText[1] = line[1] /\ OpenCommands = line_commands
      /\ Tail(RemainingText) = Tail(line) \o s
      /\ Tail(line) \in Text /\ EndsWell(Tail(line), s) /\ line[1] \in Token /\ line[1].k = "value"
      /\ RemainingText \in FlatText
  BY <1>1, AtToken
<1>4. v \in Values /\ ValueText[v] \in Text /\ None \notin Values
  BY <1>3, TokenNames, ParserInputAssumption
<1>5. CASE MaxNesting # 0 /\ value_expansion_nr >= MaxNesting
  <2>1. line' = Tail(line) /\ UNCHANGED input_stack
    BY <1>5 DEF Value
  <2>2. FlatInv' /\ RemainingText' = Tail(RemainingText) /\ OpenCommands' = line_commands'
    BY <1>1, <1>2, <2>1, RestOfLine
  <2>3. Flat!TooDeep("endvalue")
    BY <1>1, <1>5, ActiveText
  <2>4. Flat!Value
    BY <1>2, <1>3, <2>2, <2>3 DEF Flat!Value
  <2>. QED  BY <2>2, <2>4 DEF FlatStep, Flat!Next
<1>6. CASE ~(MaxNesting # 0 /\ value_expansion_nr >= MaxNesting)
  <2>. DEFINE mark == NewMark("value_expansion", "start")
              e == [k |-> "endvalue", n |-> v]
              r == Expand(Tail(line), ValueText[v], None, v, mark)
  <2>1. input_stack' = r /\ line' = <<>>
    BY <1>6 DEF Value
  <2>2. mark \in SourceMark
    BY NewMarkType DEF MarkTypes, MarkStatus, Inv, IInv
  <2>3. e \in FlatToken /\ v # None
    BY <1>4 DEF FlatToken
  <2>4. StackSound(input_stack) /\ IInv
    BY DEF Inv, FlatInv
  <2>. HIDE DEF mark
  <2>5. r \in Seq(Frame) /\ StackSound(r) /\ StackText(r) = (ValueText[v] \o <<e>>) \o (Tail(line) \o s)
    <3>1. None \in Macros \cup {None} /\ v \in Values \cup {None} /\ mark \in SourceMark \cup {None}
          /\ v # None /\ e = [k |-> "endvalue", n |-> v]
      BY <1>4, <2>2, <2>3
    <3>2. EndsWell(Tail(line), StackText(input_stack)) /\ Tail(line) \in Text /\ e \in FlatToken
          /\ ValueText[v] \in Text
      BY <1>3, <1>4, <2>3
    <3>3. \/ v # None /\ e = [k |-> "endvalue", n |-> v]
          \/ v = None /\ None # None /\ e = [k |-> "endmacro", n |-> None]
      BY <3>1
    <3>. HIDE DEF v, e, s
    <3>. QED  BY <2>4, <3>1, <3>2, <3>3, ExpandedText, ZenonT(40) DEF s
  <2>. HIDE DEF r
  <2>6. FlatInv' /\ RemainingText' = <<>> \o StackText(input_stack') /\ OpenCommands' = line_commands
    BY <1>2, <2>1, <2>5, ExpansionPushed
  <2>7. StackText(input_stack') \in FlatText
    BY <2>1, <2>5, StackTextType
  <2>8. RemainingText' = StackText(r)
    BY <2>1, <2>6, <2>7, ConcatEmptySeq DEF FlatText
  <2>9. RemainingText' = ValueText[v] \o <<e>> \o Tail(RemainingText)
    BY <1>3, <2>5, <2>8
  <2>10. ~Flat!TooDeep("endvalue")
    BY <1>1, <1>6, ActiveText
  <2>11. Flat!Value
    BY <1>2, <1>3, <2>6, <2>9, <2>10 DEF Flat!Value, Flat!EndValue
  <2>. QED  BY <2>6, <2>11 DEF FlatStep, Flat!Next
<1>. QED  BY <1>5, <1>6
(* A call that is not refused puts its expansion before the rest. *)
LEMMA CallExpanded ==
  ASSUME Inv, pushback = <<>>, NEW m \in Macros, NEW error, ~error, NEW args \in Text,
         NEW rest \in Text, EndsWell(rest, StackText(input_stack)), NEW entered,
         FinishMacro(m, error, args, rest, entered)
  PROVE  /\ FlatInv' /\ OpenCommands' = line_commands
         /\ RemainingText' = Flat!Expanded(m, args, rest \o StackText(input_stack))
<1>. DEFINE mark == NewMark("macro_expansion", "start")
            e == [k |-> "endmacro", n |-> m]
            body == ExpandedBody(m, args)
            r == Expand(rest, body, m, None, mark)
<1>1. /\ input_stack' = r /\ line' = <<>> /\ pc' = "next_text" /\ ret' = "process"
      /\ eof' = FALSE /\ line_commands' = line_commands /\ pushback' = <<>>
  BY DEF FinishMacro, CallNextText
<1>2. mark \in SourceMark
  BY NewMarkType DEF MarkTypes, MarkStatus, Inv, IInv
<1>3. body \in Text
  BY ExpandedBodyType
<1>4. e \in FlatToken /\ m # None
  BY ParserInputAssumption DEF FlatToken
<1>5. IInv /\ StackSound(input_stack)
  BY DEF Inv, FlatInv
<1>6. m \in Macros \cup {None} /\ None \in Values \cup {None} /\ mark \in SourceMark \cup {None}
  BY <1>2
<1>7. \/ None # None /\ e = [k |-> "endvalue", n |-> None]
      \/ None = None /\ m # None /\ e = [k |-> "endmacro", n |-> m]
  BY <1>4
<1>. HIDE DEF mark, body, e
<1>8. /\ r \in Seq(Frame) /\ StackSound(r)
      /\ StackText(r) = (body \o <<e>>) \o (rest \o StackText(input_stack))
  BY <1>3, <1>4, <1>5, <1>6, <1>7, ExpandedText
<1>. HIDE DEF r
<1>9. FlatInv' /\ RemainingText' = <<>> \o StackText(input_stack') /\ OpenCommands' = line_commands
  BY <1>1, <1>8, ExpansionPushed
<1>10. StackText(input_stack') \in FlatText
  BY <1>1, <1>8, StackTextType
<1>11. RemainingText' = StackText(r)
  BY <1>1, <1>9, <1>10, ConcatEmptySeq DEF FlatText
<1>. QED  BY <1>8, <1>9, <1>11 DEF Flat!Expanded, Flat!EndMacro, e, body

LEMMA MacroCallFlat ==
  ASSUME Inv, MacroCall
  PROVE  FlatInv' /\ FlatStep
<1>. DEFINE m == line[1].n
            entered == macro_expansion_nr + 1
            error == MacroError(m, entered)
<1>1. At("call") /\ m \notin LineArgMacros
  BY DEF MacroCall
<1>2. /\ Flat!At("call") /\ RemainingText[1] = line[1] /\ OpenCommands = line_commands
      /\ Tail(RemainingText) = Tail(line) \o StackText(input_stack)
      /\ Tail(line) \in Text /\ EndsWell(Tail(line), StackText(input_stack))
      /\ line[1] \in Token /\ line[1].k = "call" /\ pc = "process" /\ eof = FALSE /\ pushback = <<>>
  BY <1>1, AtToken, LineText DEF Inv, IInv, TypeOK
<1>3. m \in Macros /\ <<>> \in Text
  BY <1>2, TokenNames DEF Text
<1>4. Flat!Refused(m) <=> error
  BY <1>1, <1>3, ActiveText
<1>5. FinishMacro(m, error, <<>>, Tail(line), entered) /\ call' = call
  BY Zenon DEF MacroCall
<1>6. out' = out /\ line_commands' = line_commands /\ pushback' = pushback /\ eof' = FALSE
  BY <1>5 DEF FinishMacro
<1>7. CASE error
  <2>1. line' = Tail(line) /\ pc' = "process" /\ UNCHANGED <<input_stack, ret>>
    BY <1>5, <1>7 DEF FinishMacro
  <2>2. FlatInv' /\ RemainingText' = Tail(RemainingText) /\ OpenCommands' = line_commands'
    BY <1>1, <1>2, <1>6, <2>1, RestOfLine
  <2>3. Flat!Call
    BY <1>1, <1>2, <1>4, <1>5, <1>6, <1>7, <2>2 DEF Flat!Call
  <2>. QED  BY <2>2, <2>3 DEF FlatStep, Flat!Next
<1>8. CASE ~error
  <2>1. /\ FlatInv' /\ OpenCommands' = line_commands
        /\ RemainingText' = Flat!Expanded(m, <<>>, Tail(line) \o StackText(input_stack))
    <3>. HIDE DEF m, entered, error
    <3>. QED  BY <1>2, <1>3, <1>5, <1>8, CallExpanded
  <2>2. Flat!Call
    <3>1. RemainingText' = Flat!Expanded(RemainingText[1].n, <<>>, Tail(RemainingText))
      BY <1>2, <2>1
    <3>. HIDE DEF error
    <3>. QED  BY <1>1, <1>2, <1>4, <1>5, <1>6, <1>8, <2>1, <3>1 DEF Flat!Call
  <2>. QED  BY <2>1, <2>2 DEF FlatStep, Flat!Next
<1>. QED  BY <1>7, <1>8

LEMMA LineMacroCallFlat ==
  ASSUME Inv, LineMacroCall
  PROVE  FlatInv' /\ FlatStep
<1>. DEFINE m == line[1].n
<1>1. At("call") /\ m \in LineArgMacros
  BY DEF LineMacroCall
<1>2. /\ Flat!At("call") /\ RemainingText[1] = line[1] /\ OpenCommands = line_commands
      /\ Tail(RemainingText) = Tail(line) \o StackText(input_stack)
      /\ EndsWell(Tail(line), StackText(input_stack)) /\ ~eof
      /\ line[1] \in Token /\ line[1].k = "call" /\ pc = "process" /\ pushback = <<>>
  BY <1>1, AtToken, LineText
<1>3. m \in Macros
  BY <1>2, TokenNames
<1>4. /\ call' = [name |-> m, error |-> MacroError(m, macro_expansion_nr + 1)]
      /\ line' = Tail(line) /\ pc' = "line_arg"
      /\ UNCHANGED <<input_stack, pushback, eof, ret, line_commands, out>>
  BY DEF LineMacroCall
<1>5. MacroError(m, macro_expansion_nr + 1) = Flat!Refused(m)
  <2>1. MacroError(m, macro_expansion_nr + 1) <=> Flat!Refused(m)
    BY <1>1, <1>3, ActiveText
  <2>2. MacroError(m, macro_expansion_nr + 1) \in BOOLEAN /\ Flat!Refused(m) \in BOOLEAN
    BY DEF MacroError, Flat!Refused
  <2>. QED  BY <2>1, <2>2
<1>6. ~AfterBye' /\ ~BetweenLines'
  BY <1>4 DEF AfterBye, BetweenLines
<1>7. RemainingText' = Tail(RemainingText) /\ OpenCommands' = line_commands
  BY <1>2, <1>4, <1>6 DEF RemainingText, OpenCommands, Pending
<1>8. FlatInv'
  BY <1>2, <1>4, <1>6 DEF Inv, FlatInv
<1>9. Flat!LineCall
  BY <1>1, <1>2, <1>4, <1>5, <1>7 DEF Flat!LineCall
<1>. QED  BY <1>8, <1>9 DEF FlatStep, Flat!Next
-----------------------------------------------------------------------------
(***************************************************************************)
(* next_text.                                                              *)
(***************************************************************************)
(* A line of a text, and what comes after it. *)
LEMMA SplitLine ==
  ASSUME NEW t \in Text, t # <<>>
  PROVE  /\ FirstLine(t) \in Text /\ AfterLine(t) \in Text /\ FirstLine(t) \o AfterLine(t) = t
         /\ \/ FirstLine(t)[Len(FirstLine(t))].k = "nl"
            \/ FirstLine(t) = t /\ AfterLine(t) = <<>>
         /\ FileLine(t)[Len(FileLine(t))].k = "nl"
         /\ \A r : EndsWell(t, r) => EndsWell(AfterLine(t), r)
<1>1. t \in Seq(Token) /\ Len(t) \in Nat \ {0} /\ DOMAIN t = 1 .. Len(t)
  BY DEF Text
<1>. DEFINE n == LineLen(t)
<1>2. n \in 1 .. Len(t)
  BY <1>1, FirstOfIndex DEF LineLen
<1>3. FirstLine(t) = SubSeq(t, 1, n) /\ AfterLine(t) = SubSeq(t, n + 1, Len(t))
  BY DEF FirstLine, AfterLine
<1>4. n = Len(t) \/ t[n].k = "nl"
  BY FirstOfKind DEF LineLen
<1>5. n = Len(t) => FirstLine(t) = t /\ AfterLine(t) = <<>>
  BY <1>1, <1>3, SubSeqFull
<1>6. HasKind(t, "nl") => t[n].k = "nl" /\ FileLine(t) = FirstLine(t)
  BY FirstOfKind DEF LineLen, FileLine
<1>7. ~HasKind(t, "nl") => FileLine(t) = Append(t, Nl)
  BY DEF FileLine
<1>. HIDE DEF n
<1>8. n \in 0 .. Len(t) /\ n \in Nat /\ n <= Len(t)
  BY <1>1, <1>2
<1>9. FirstLine(t) \in Text /\ AfterLine(t) \in Text /\ FirstLine(t) \o AfterLine(t) = t
  <2>1. /\ SubSeq(t, 1, n) \in Seq(Token) /\ SubSeq(t, n + 1, Len(t)) \in Seq(Token)
        /\ SubSeq(t, 1, n) \o SubSeq(t, n + 1, Len(t)) = t
    BY <1>1, <1>8, CutText
  <2>. QED  BY <1>3, <2>1 DEF Text
<1>10. Len(FirstLine(t)) = n /\ FirstLine(t)[n] = t[n]
  BY <1>1, <1>2, <1>3
<1>11. FileLine(t)[Len(FileLine(t))].k = "nl"
  <2>1. Append(t, Nl)[Len(Append(t, Nl))] = Nl /\ Nl.k = "nl"
    BY <1>1 DEF Nl
  <2>. QED  BY <1>6, <1>7, <1>10, <2>1
<1>12. ASSUME NEW r, EndsWell(t, r) PROVE EndsWell(AfterLine(t), r)
  <2>1. CASE n = Len(t)
    BY <1>5, <2>1 DEF EndsWell
  <2>2. CASE n # Len(t)
    <3>. DEFINE l == Len(t)
    <3>1. n \in Nat /\ l \in Nat
      BY <1>1, <1>8
    <3>2. n <= l /\ n # l
      BY <1>8, <2>2
    <3>3. \A i \in 1 .. l : t[i] \in Token
      BY <1>1
    <3>. HIDE DEF l
    <3>4. n < l /\ n \in Nat /\ l \in Nat /\ \A i \in n + 1 .. l : t[i] \in Token
      BY <3>1, <3>2, <3>3
    <3>5. l - (n + 1) + 1 = l - n /\ n + 1 <= l /\ n + 1 \in Int /\ l \in Int
          /\ l - n \in 1 .. l - (n + 1) + 1 /\ (n + 1) + (l - n) - 1 = l
      BY <3>4
    <3>6. /\ Len(SubSeq(t, n + 1, l)) = IF n + 1 <= l THEN l - (n + 1) + 1 ELSE 0
          /\ \A i \in 1 .. l - (n + 1) + 1 : SubSeq(t, n + 1, l)[i] = t[(n + 1) + i - 1]
      BY <3>4, <3>5, SubSeqProperties
    <3>7. Len(AfterLine(t)) = Len(t) - n /\ AfterLine(t)[Len(t) - n] = t[Len(t)]
      BY <1>3, <3>5, <3>6 DEF l
    <3>. QED  BY <1>1, <1>12, <3>7 DEF EndsWell
  <2>. QED  BY <2>1, <2>2
<1>. QED  BY <1>4, <1>5, <1>9, <1>10, <1>11, <1>12

(* What a frame ends with says what it is the end of. *)
LEMMA FrameEndOne ==
  ASSUME NEW f \in Frame
  PROVE  FrameEnd(f) = <<>> \/ \E e \in FlatToken : e.k \in EndMarks /\ FrameEnd(f) = <<e>>
<1>1. f.value_flag \in Values \cup {None} /\ f.macro_name \in Macros \cup {None}
  BY DEF Frame
<1>2. /\ f.value_flag # None => [k |-> "endvalue", n |-> f.value_flag] \in FlatToken
      /\ f.macro_name # None => [k |-> "endmacro", n |-> f.macro_name] \in FlatToken
      /\ Comment \in FlatToken /\ Comment.k = "comment"
  BY <1>1 DEF FlatToken, Comment
<1>. QED  BY <1>2 DEF FrameEnd, EndMarks

(* A text that ends well in a frame ends well before what follows it. *)
LEMMA EndsInFrame ==
  ASSUME NEW t \in Text, NEW f \in Frame, NEW r \in FlatText,
         FrameEnd(f) = <<>> => EndsWell(t, r)
  PROVE  EndsWell(t, FrameEnd(f) \o r)
<1>1. CASE FrameEnd(f) = <<>>
  <2>1. <<>> \o r = r
    BY ConcatEmptySeq DEF FlatText
  <2>. QED  BY <1>1, <2>1
<1>2. CASE FrameEnd(f) # <<>>
  <2>1. PICK e \in FlatToken : e.k \in EndMarks /\ FrameEnd(f) = <<e>>
    BY <1>2, FrameEndOne
  <2>2. (<<e>> \o r)[1] = e
    BY OneMore DEF FlatText
  <2>. QED  BY <2>1, <2>2 DEF EndsWell
<1>. QED  BY <1>1, <1>2

(* The frame on top of the stack. *)
LEMMA TopFacts ==
  ASSUME Inv, input_stack # <<>>
  PROVE  /\ Top \in Frame /\ Top.text \in Text /\ Below(input_stack) \in Seq(Frame)
         /\ StackSound(Below(input_stack)) /\ FrameSound(Below(input_stack), Top)
         /\ StackText(Below(input_stack)) \in FlatText /\ FrameEnd(Top) \in FlatText
         /\ StackText(input_stack) = FrameText(Top) \o StackText(Below(input_stack))
         /\ \A f \in Frame : /\ StackText(SetTop(f)) = FrameText(f) \o StackText(Below(input_stack))
                             /\ FrameSound(Below(input_stack), f) => StackSound(SetTop(f))
                             /\ SetTop(f) \in Seq(Frame)
<1>. DEFINE s == input_stack
<1>1. s \in Seq(Frame) /\ StackSound(s)
  BY LineTypes DEF Inv, FlatInv
<1>2. /\ Below(s) \in Seq(Frame) /\ Top \in Frame
      /\ \A f \in Frame : SetTop(f) = Append(Below(s), f)
  BY <1>1, TopAndBelow DEF Top, SetTop
<1>3. Top.text \in Text
  BY <1>2 DEF Frame
<1>4. /\ StackSound(Below(s)) /\ FrameSound(Below(s), Top)
      /\ \A f \in Frame : FrameSound(Below(s), f) => StackSound(SetTop(f))
  BY <1>1, SoundTop DEF Top, SetTop
<1>5. /\ StackText(s) = FrameText(Top) \o StackText(Below(s))
      /\ \A f \in Frame : StackText(SetTop(f)) = FrameText(f) \o StackText(Below(s))
  BY <1>1, TopText DEF Top, SetTop
<1>6. StackText(Below(s)) \in FlatText /\ FrameEnd(Top) \in FlatText
  BY <1>2, StackTextType, FrameEndType
<1>7. \A f \in Frame : SetTop(f) \in Seq(Frame)
  BY <1>2
<1>. QED  BY <1>2, <1>3, <1>4, <1>5, <1>6, <1>7
(* A line is returned: what was read is what is pending. *)
LEMMA Returned ==
  ASSUME Inv, pc = "next_text", Return(line'), pushback' = <<>>, UNCHANGED <<ret, line_commands, call, out>>,
         StackSound(input_stack'), EndsWell(line', StackText(input_stack')),
         ~AfterBye => RemainingText = line' \o StackText(input_stack')
  PROVE  FlatInv' /\ FlatStep
<1>1. eof' = FALSE /\ pc' = ret
  BY DEF Return
<1>2. AfterBye' <=> AfterBye
  BY <1>1 DEF AfterBye, Inv, IInv, TypeOK, Callers
<1>3. pc' # "next_text" /\ pc' # "end_line"
  BY <1>1 DEF Inv, IInv, TypeOK, Callers
<1>4. RemainingText' = RemainingText /\ OpenCommands' = OpenCommands
  BY <1>2, <1>3 DEF RemainingText, OpenCommands, Pending
<1>5. BetweenLines' => BetweenLines
  BY <1>1 DEF BetweenLines
<1>6. FlatInv'
  BY <1>1, <1>5 DEF Inv, FlatInv
<1>. QED  BY <1>4, <1>6, Same

LEMMA PushbackFlat ==
  ASSUME Inv, NextTextPushback
  PROVE  FlatInv' /\ FlatStep
<1>1. /\ pc = "next_text" /\ pushback # <<>> /\ Return(pushback[1]) /\ pushback' = <<>>
      /\ UNCHANGED <<input_stack, ret, call, line_commands, out>> /\ 1 \in DOMAIN pushback
  BY LineTypes DEF NextTextPushback, Inv
<1>2. line' = pushback[1] /\ Return(line')
  BY <1>1 DEF Return
<1>3. ~AfterBye => RemainingText = line' \o StackText(input_stack')
  BY <1>1, <1>2 DEF RemainingText, Pending
<1>4. StackSound(input_stack') /\ EndsWell(line', StackText(input_stack'))
  BY <1>1, <1>2 DEF Inv, FlatInv
<1>. QED  BY <1>1, <1>2, <1>3, <1>4, Returned

(* The text before a line is read. *)
LEMMA NothingPending ==
  ASSUME Inv, pc = "next_text", pushback = <<>>
  PROVE  /\ StackText(input_stack) \in FlatText
         /\ ~AfterBye => RemainingText = StackText(input_stack)
<1>1. StackText(input_stack) \in FlatText
  BY LineTypes, StackTextType DEF Inv
<1>2. ~AfterBye => RemainingText = <<>> \o StackText(input_stack)
  BY DEF RemainingText, Pending
<1>. QED  BY <1>1, <1>2, ConcatEmptySeq DEF FlatText

LEMMA TextLineFlat ==
  ASSUME Inv, NextTextLine
  PROVE  FlatInv' /\ FlatStep
<1>. DEFINE t == Top.text
            below == StackText(Below(input_stack))
            counted == Top.source_info.macro = None /\ Top.value_flag = None
            info == [Top.source_info EXCEPT !.line_nr = IF counted THEN @ + 1 ELSE @]
            f == [Top EXCEPT !.text = AfterLine(@), !.source_info = info]
<1>1. /\ pc = "next_text" /\ pushback = <<>> /\ input_stack # <<>> /\ Top.type = "IN_text" /\ t # <<>>
      /\ input_stack' = SetTop(f) /\ Return(FirstLine(t))
      /\ pushback' = <<>> /\ UNCHANGED <<ret, call, line_commands, out>>
  BY DEF NextTextLine
<1>2. /\ Top \in Frame /\ t \in Text /\ below \in FlatText /\ FrameEnd(Top) \in FlatText
      /\ FrameSound(Below(input_stack), Top)
      /\ StackText(input_stack) = FrameText(Top) \o below
      /\ \A g \in Frame : /\ StackText(SetTop(g)) = FrameText(g) \o below
                          /\ FrameSound(Below(input_stack), g) => StackSound(SetTop(g))
  BY <1>1, TopFacts
<1>3. /\ FirstLine(t) \in Text /\ AfterLine(t) \in Text /\ FirstLine(t) \o AfterLine(t) = t
      /\ \/ FirstLine(t)[Len(FirstLine(t))].k = "nl"
         \/ FirstLine(t) = t /\ AfterLine(t) = <<>>
      /\ \A r : EndsWell(t, r) => EndsWell(AfterLine(t), r)
  BY <1>1, <1>2, SplitLine
<1>4. /\ info \in SourceInfo /\ info.macro = Top.source_info.macro
  <2>1. Top.source_info \in SourceInfo
    BY <1>2 DEF Frame
  <2>. QED  BY <2>1 DEF SourceInfo
<1>. HIDE DEF info
<1>5. /\ f \in Frame /\ f.text = AfterLine(t) /\ f.type = Top.type /\ f.source_info = info
      /\ f.value_flag = Top.value_flag /\ f.macro_name = Top.macro_name /\ f.mark = Top.mark
  BY <1>2, <1>3, <1>4 DEF Frame
<1>. HIDE DEF f
<1>6. FrameEnd(f) = FrameEnd(Top)
  BY <1>5 DEF FrameEnd
<1>7. FrameEnd(Top) = <<>> => EndsWell(t, below)
  BY <1>1, <1>2 DEF FrameSound
<1>8. FrameSound(Below(input_stack), f)
  BY <1>2, <1>3, <1>4, <1>5, <1>6, <1>7 DEF FrameSound
<1>9. FrameText(Top) = t \o FrameEnd(Top) /\ FrameText(f) = AfterLine(t) \o FrameEnd(Top)
  BY <1>1, <1>5, <1>6 DEF FrameText
<1>. DEFINE rest == FrameEnd(Top) \o below
<1>10. t \in FlatText /\ FirstLine(t) \in FlatText /\ AfterLine(t) \in FlatText /\ rest \in FlatText
  BY <1>2, <1>3, FlatTypes, ConcatProperties DEF FlatText
<1>. HIDE DEF t, below
<1>11. StackText(input_stack) = t \o rest /\ StackText(input_stack') = AfterLine(t) \o rest
  <2>1. /\ StackText(input_stack) = (t \o FrameEnd(Top)) \o below
        /\ StackText(input_stack') = (AfterLine(t) \o FrameEnd(Top)) \o below
    BY <1>1, <1>2, <1>5, <1>9
  <2>2. /\ t \in FlatText /\ AfterLine(t) \in FlatText
        /\ FrameEnd(Top) \in FlatText /\ below \in FlatText
    BY <1>2, <1>10
  <2>3. \A c \in FlatText : (c \o FrameEnd(Top)) \o below = c \o (FrameEnd(Top) \o below)
    BY <2>2, FlatAssociative, SMTT(30)
  <2>. QED  BY <2>1, <2>2, <2>3
<1>12. EndsWell(t, rest)
  BY <1>2, <1>7, EndsInFrame
<1>. HIDE DEF rest
<1>13. StackText(input_stack) = FirstLine(t) \o StackText(input_stack')
  <2>1. (FirstLine(t) \o AfterLine(t)) \o rest = FirstLine(t) \o (AfterLine(t) \o rest)
    BY <1>10, FlatAssociative
  <2>. QED  BY <1>3, <1>11, <2>1
<1>14. EndsWell(FirstLine(t), StackText(input_stack'))
  <2>1. <<>> \o rest = rest
    BY <1>10, ConcatEmptySeq DEF FlatText
  <2>. QED  BY <1>3, <1>11, <1>12, <2>1 DEF EndsWell
<1>15. line' = FirstLine(t) /\ Return(line')
  BY <1>1 DEF Return
<1>16. StackSound(input_stack')
  BY <1>1, <1>2, <1>5, <1>8
<1>17. ~AfterBye => RemainingText = StackText(input_stack)
  BY <1>1, NothingPending
<1>. QED  BY <1>1, <1>13, <1>14, <1>15, <1>16, <1>17, Returned
LEMMA FileLineFlat ==
  ASSUME Inv, NextTextFileLine
  PROVE  FlatInv' /\ FlatStep
<1>. DEFINE t == Top.text
            below == StackText(Below(input_stack))
            read == FileLine(t)
            info == [Top.source_info EXCEPT !.line_nr = @ + 1]
            f == [Top EXCEPT !.text = AfterLine(@), !.source_info = info]
            file == SetTop(f)
            mark == [type |-> "delcomment", counter |-> 0, status |-> "none"]
            nr == Top.source_info.line_nr
            cut == BeforeKind(read, "del")
            rest == Content[AfterLine(t)] \o (FrameEnd(Top) \o below)
<1>1. /\ pc = "next_text" /\ pushback = <<>> /\ input_stack # <<>> /\ Top.type = "IN_file" /\ t # <<>>
      /\ input_stack' = IF HasKind(read, "del") THEN PushText(file, <<>>, nr, None, None, mark) ELSE file
      /\ Return(cut)
      /\ pushback' = <<>> /\ UNCHANGED <<ret, call, line_commands, out>>
  BY DEF NextTextFileLine
<1>2. /\ Top \in Frame /\ t \in Text /\ below \in FlatText /\ FrameEnd(Top) \in FlatText
      /\ FrameSound(Below(input_stack), Top)
      /\ StackText(input_stack) = FrameText(Top) \o below
      /\ \A g \in Frame : /\ StackText(SetTop(g)) = FrameText(g) \o below
                          /\ FrameSound(Below(input_stack), g) => StackSound(SetTop(g))
                          /\ SetTop(g) \in Seq(Frame)
  BY <1>1, TopFacts
<1>3. /\ AfterLine(t) \in Text /\ read \in Text /\ cut \in Text /\ read[Len(read)].k = "nl"
  BY <1>1, <1>2, SplitLine, TextOps
<1>4. info \in SourceInfo /\ info.macro = Top.source_info.macro /\ nr \in Int
  <2>1. Top.source_info \in SourceInfo
    BY <1>2 DEF Frame
  <2>. QED  BY <2>1 DEF SourceInfo
<1>. HIDE DEF info, nr
<1>5. /\ f \in Frame /\ f.text = AfterLine(t) /\ f.type = Top.type /\ f.source_info = info
      /\ f.value_flag = Top.value_flag /\ f.macro_name = Top.macro_name /\ f.mark = Top.mark
  BY <1>2, <1>3, <1>4 DEF Frame
<1>. HIDE DEF f
<1>6. FrameEnd(f) = FrameEnd(Top)
  BY <1>5 DEF FrameEnd
<1>7. FrameSound(Below(input_stack), f)
  BY <1>1, <1>2, <1>4, <1>5 DEF FrameSound
<1>8. FrameText(Top) = Content[t] \o FrameEnd(Top)
      /\ FrameText(f) = Content[AfterLine(t)] \o FrameEnd(Top)
  BY <1>1, <1>5, <1>6 DEF FrameText
<1>9. Content[t] = ReadLine(t) \o Content[AfterLine(t)]
  BY <1>1, <1>2, ContentRead
<1>10. /\ Content[AfterLine(t)] \in FlatText /\ ReadLine(t) \in FlatText /\ cut \in FlatText
       /\ FrameEnd(Top) \o below \in FlatText /\ Content[t] \in FlatText
  <2>1. Content[AfterLine(t)] \in FlatText /\ ReadLine(t) \in FlatText
        /\ Content[t] \in FlatText
    BY <1>1, <1>2, <1>3, ContentRead, ReadLineType, FlatTypes
  <2>. QED  BY <1>2, <1>3, <2>1, FlatTypes, ConcatProperties DEF FlatText
<1>. HIDE DEF t, below
<1>11. StackText(input_stack) = ReadLine(t) \o rest /\ StackText(file) = rest /\ rest \in FlatText
  <2>1. /\ StackText(input_stack) = (Content[t] \o FrameEnd(Top)) \o below
        /\ StackText(file) = (Content[AfterLine(t)] \o FrameEnd(Top)) \o below
    BY <1>2, <1>5, <1>8
  <2>2. /\ StackText(input_stack) = Content[t] \o (FrameEnd(Top) \o below)
        /\ StackText(file) = Content[AfterLine(t)] \o (FrameEnd(Top) \o below)
    <3>1. \A c \in FlatText : (c \o FrameEnd(Top)) \o below = c \o (FrameEnd(Top) \o below)
      BY <1>2, FlatAssociative
    <3>2. /\ (Content[t] \o FrameEnd(Top)) \o below
               = Content[t] \o (FrameEnd(Top) \o below)
          /\ (Content[AfterLine(t)] \o FrameEnd(Top)) \o below
               = Content[AfterLine(t)] \o (FrameEnd(Top) \o below)
      BY ONLY <1>10, <3>1, Zenon
    <3>. QED  BY ONLY <2>1, <3>2, Zenon
  <2>3. (ReadLine(t) \o Content[AfterLine(t)]) \o (FrameEnd(Top) \o below)
          = ReadLine(t) \o (Content[AfterLine(t)] \o (FrameEnd(Top) \o below))
    <3>1. \A d, e \in FlatText : (ReadLine(t) \o d) \o e = ReadLine(t) \o (d \o e)
      BY ONLY <1>10, FlatAssociative, Zenon
    <3>. HIDE DEF cut
    <3>. QED  BY ONLY <1>10, <3>1, Zenon
  <2>4. rest \in FlatText
    BY <1>10, ConcatProperties DEF FlatText
  <2>. QED  BY <1>9, <2>2, <2>3, <2>4
<1>. HIDE DEF rest
<1>12. file \in Seq(Frame) /\ StackSound(file)
  BY <1>2, <1>5, <1>7
<1>. HIDE DEF file
<1>13. line' = cut /\ Return(line')
  BY <1>1 DEF Return
<1>14. ~AfterBye => RemainingText = StackText(input_stack)
  BY <1>1, NothingPending
<1>15. CASE HasKind(read, "del")
  <2>. DEFINE g == TextFrame(file, <<>>, nr, None, None, mark)
              r == PushText(file, <<>>, nr, None, None, mark)
  <2>1. mark \in SourceMark /\ mark # None /\ mark.type = "delcomment" /\ <<>> \in Text
    BY NoMarkAssumption DEF SourceMark, MarkTypes, MarkStatus, Text
  <2>. HIDE DEF mark
  <2>2. FrameEnd(g) = <<Comment>>
    BY <2>1, FrameEnds
  <2>3. FrameEnd(g) = <<>> => EndsWell(<<>>, StackText(file))
    BY DEF EndsWell
  <2>4. None \in Macros \cup {None} /\ None \in Values \cup {None} /\ mark \in SourceMark \cup {None}
    BY <2>1
  <2>5. r \in Seq(Frame) /\ StackSound(r) /\ StackText(r) = <<>> \o (FrameEnd(g) \o StackText(file))
    BY <1>4, <1>12, <2>1, <2>3, <2>4, PushedFrame
  <2>. HIDE DEF g
  <2>6. input_stack' = r
    BY <1>1, <1>15
  <2>. HIDE DEF r
  <2>7. Comment \in FlatToken
    BY DEF FlatToken
  <2>8. <<Comment>> \o rest \in FlatText /\ (<<Comment>> \o rest)[1] = Comment /\ <<Comment>> \in FlatText
    BY <1>11, <2>7, OneMore DEF FlatText
  <2>9. StackText(input_stack') = <<Comment>> \o rest
    <3>1. <<>> \o (<<Comment>> \o rest) = <<Comment>> \o rest
      BY <2>8, ConcatEmptySeq DEF FlatText
    <3>. QED  BY <1>11, <2>2, <2>5, <2>6, <3>1
  <2>10. ReadLine(t) = cut \o <<Comment>>
    BY <1>15 DEF ReadLine
  <2>. HIDE DEF cut
  <2>11. StackText(input_stack) = cut \o StackText(input_stack')
    <3>1. cut \in FlatText /\ <<Comment>> \in FlatText /\ rest \in FlatText
      BY <1>10, <1>11, <2>8
    <3>2. (cut \o <<Comment>>) \o rest = cut \o (<<Comment>> \o rest)
      BY <3>1, FlatAssociative
    <3>. QED  BY <1>11, <2>9, <2>10, <3>2
  <2>12. EndsWell(cut, StackText(input_stack'))
    BY <2>8, <2>9 DEF EndsWell, EndMarks, Comment
  <2>. QED  BY <1>1, <1>13, <1>14, <2>5, <2>6, <2>11, <2>12, Returned
<1>16. CASE ~HasKind(read, "del")
  <2>1. cut = read /\ input_stack' = file
    BY <1>1, <1>16 DEF BeforeKind
  <2>2. ReadLine(t) = cut
    <3>1. ReadLine(t) = cut \o <<>>
      BY <1>16 DEF ReadLine
    <3>. HIDE DEF cut
    <3>. QED  BY <1>10, <3>1, ConcatEmptySeq DEF FlatText
  <2>. HIDE DEF cut, read
  <2>3. StackText(input_stack) = cut \o StackText(input_stack')
    BY <1>11, <2>1, <2>2
  <2>4. EndsWell(cut, StackText(input_stack'))
    BY <1>3, <2>1 DEF EndsWell
  <2>. QED  BY <1>1, <1>12, <1>13, <1>14, <2>1, <2>3, <2>4, Returned
<1>. QED  BY <1>15, <1>16

LEMMA PopFlat ==
  ASSUME Inv, NextTextPop
  PROVE  FlatInv' /\ FlatStep
<1>. DEFINE below == Below(input_stack)
<1>1. /\ pc = "next_text" /\ pushback = <<>> /\ input_stack # <<>> /\ Top.text = <<>>
      /\ input_stack' = below
      /\ UNCHANGED <<pushback, line, eof, pc, ret, call, line_commands, out>>
  BY DEF NextTextPop, Below
<1>2. /\ Top \in Frame /\ StackSound(below) /\ StackText(below) \in FlatText
      /\ FrameEnd(Top) \in FlatText /\ StackText(input_stack) = FrameText(Top) \o StackText(below)
  BY <1>1, TopFacts
<1>3. FrameText(Top) = FrameEnd(Top)
  <2>1. Content[<<>>] = <<>>
    <3>1. <<>> \in Text
      BY DEF Text
    <3>. QED  BY <3>1, ContentRead
  <2>2. FrameText(Top) = <<>> \o FrameEnd(Top)
    BY <1>1, <2>1 DEF FrameText
  <2>. QED  BY <1>2, <2>2, ConcatEmptySeq DEF FlatText
<1>. HIDE DEF below
<1>4. FlatInv'
  <2>1. InLine' => FALSE
    BY <1>1 DEF InLine
  <2>2. BetweenLines' <=> BetweenLines
    BY <1>1 DEF BetweenLines
  <2>. QED  BY <1>1, <1>2, <2>1, <2>2 DEF Inv, FlatInv
<1>5. /\ AfterBye' <=> AfterBye
      /\ OpenCommands' = OpenCommands
  BY <1>1 DEF AfterBye, OpenCommands
<1>6. CASE AfterBye
  <2>1. RemainingText' = RemainingText
    BY <1>5, <1>6 DEF RemainingText
  <2>. QED  BY <1>1, <1>4, <1>5, <2>1, Same
<1>7. CASE ~AfterBye
  <2>1. RemainingText = FrameEnd(Top) \o StackText(below)
    BY <1>1, <1>2, <1>3, <1>7, NothingPending
  <2>2. RemainingText' = StackText(below)
    <3>1. RemainingText' = <<>> \o StackText(below)
      BY <1>1, <1>5, <1>7 DEF RemainingText, Pending
    <3>. QED  BY <1>2, <3>1, ConcatEmptySeq DEF FlatText
  <2>3. CASE FrameEnd(Top) = <<>>
    <3>1. RemainingText' = RemainingText
      BY <1>2, <2>1, <2>2, <2>3, ConcatEmptySeq DEF FlatText
    <3>. QED  BY <1>1, <1>4, <1>5, <3>1, Same
  <2>4. CASE FrameEnd(Top) # <<>>
    <3>1. PICK e \in FlatToken : e.k \in EndMarks /\ FrameEnd(Top) = <<e>>
      BY <1>2, <2>4, FrameEndOne
    <3>2. /\ RemainingText # <<>> /\ RemainingText[1] = e /\ Tail(RemainingText) = StackText(below)
      BY <1>2, <2>1, <3>1, OneMore DEF FlatText
    <3>3. Flat!End
      BY <1>1, <1>5, <2>2, <3>1, <3>2 DEF Flat!End, Flat!Ends, EndMarks
    <3>. QED  BY <1>4, <3>3 DEF FlatStep, Flat!Next
  <2>. QED  BY <2>3, <2>4
<1>. QED  BY <1>6, <1>7

LEMMA NextTextEndFlat ==
  ASSUME Inv, NextTextEnd
  PROVE  FlatInv' /\ FlatStep
<1>1. /\ pc = "next_text" /\ pushback = <<>> /\ input_stack = <<>> /\ input_stack' = <<>>
      /\ line' = <<>> /\ eof' = TRUE /\ pc' = ret /\ pushback' = <<>>
      /\ UNCHANGED <<ret, call, line_commands, out>>
  BY DEF NextTextEnd, input_vars
<1>2. pc' # "next_text" /\ pc' # "end_line" /\ (AfterBye' <=> AfterBye)
  BY <1>1 DEF AfterBye, Inv, IInv, TypeOK, Callers
<1>3. RemainingText' = RemainingText /\ OpenCommands' = OpenCommands
  BY <1>1, <1>2 DEF RemainingText, OpenCommands, Pending
<1>4. BetweenLines' => BetweenLines
  BY <1>1 DEF BetweenLines
<1>5. FlatInv'
  BY <1>1, <1>4 DEF Inv, FlatInv, EndsWell
<1>. QED  BY <1>1, <1>3, <1>5, Same
-----------------------------------------------------------------------------
(***************************************************************************)
(* The callers.                                                            *)
(***************************************************************************)
(* What is before a text, and the text that is after it. *)
LEMMA Parts ==
  ASSUME NEW S, NEW s \in Seq(S), NEW t \in Seq(S)
  PROVE  /\ Len(s \o t) = Len(s) + Len(t)
         /\ \A i \in 1 .. Len(s) : (s \o t)[i] = s[i]
         /\ t # <<>> => (s \o t)[Len(s) + 1] = t[1]
         /\ \A n \in 0 .. Len(s) : SubSeq(s \o t, 1, n) = SubSeq(s, 1, n)
         /\ SubSeq(s \o t, Len(s) + 1, Len(s \o t)) = t
<1>. DEFINE c == s \o t
            k == Len(s)
            l == Len(t)
<1>1. k \in Nat /\ l \in Nat
  OBVIOUS
<1>2. /\ c \in Seq(S) /\ Len(c) = k + l
      /\ \A i \in 1 .. k + l : c[i] = IF i <= k THEN s[i] ELSE t[i - k]
  BY ConcatProperties
<1>3. /\ \A i \in 1 .. k : s[i] \in S
      /\ \A i \in 1 .. l : t[i] \in S
      /\ \A i \in 1 .. k + l : c[i] \in S
  <2>1. DOMAIN s = 1 .. k /\ DOMAIN t = 1 .. l
    OBVIOUS
  <2>. HIDE DEF c
  <2>2. DOMAIN c = 1 .. k + l
    BY <1>2
  <2>. QED  BY <1>2, <2>1, <2>2
<1>4. t # <<>> => l >= 1
  OBVIOUS
<1>5. t \in Seq(S) /\ s \in Seq(S) /\ Len(t) = l /\ Len(s) = k
  OBVIOUS
<1>. HIDE DEF c, k, l
<1>6. \A i \in 1 .. k : c[i] = s[i]
  <2>1. \A i \in 1 .. k : i \in 1 .. k + l /\ i <= k
    BY <1>1
  <2>. QED  BY <1>2, <2>1
<1>7. \A i \in 1 .. l : c[k + i] = t[i]
  <2>1. \A i \in 1 .. l : k + i \in 1 .. k + l /\ ~(k + i <= k) /\ (k + i) - k = i
    BY <1>1
  <2>. QED  BY <1>2, <2>1
<1>8. ASSUME NEW n \in 0 .. k PROVE SubSeq(c, 1, n) = SubSeq(s, 1, n)
  <2>1. n \in Int /\ n - 1 + 1 = n /\ (IF 1 <= n THEN n ELSE 0) = n
        /\ \A i \in 1 .. n : 1 + i - 1 = i /\ i \in 1 .. k /\ i \in 1 .. k + l
    BY <1>1
  <2>2. /\ \A i \in 1 .. n : c[i] \in S
        /\ \A i \in 1 .. n : s[i] \in S
    BY <1>3, <2>1
  <2>3. /\ SubSeq(c, 1, n) \in Seq(S)
        /\ Len(SubSeq(c, 1, n)) = IF 1 <= n THEN n - 1 + 1 ELSE 0
        /\ \A i \in 1 .. n - 1 + 1 : SubSeq(c, 1, n)[i] = c[1 + i - 1]
    BY <2>1, <2>2, SubSeqProperties
  <2>4. /\ SubSeq(s, 1, n) \in Seq(S)
        /\ Len(SubSeq(s, 1, n)) = IF 1 <= n THEN n - 1 + 1 ELSE 0
        /\ \A i \in 1 .. n - 1 + 1 : SubSeq(s, 1, n)[i] = s[1 + i - 1]
    BY <2>1, <2>2, SubSeqProperties
  <2>5. Len(SubSeq(c, 1, n)) = n /\ Len(SubSeq(s, 1, n)) = n
        /\ \A i \in 1 .. n : SubSeq(c, 1, n)[i] = SubSeq(s, 1, n)[i]
    BY <1>6, <2>1, <2>3, <2>4
  <2>. QED  BY <2>3, <2>4, <2>5, SeqEqual
<1>9. SubSeq(c, k + 1, k + l) = t
  <2>1. /\ k + 1 \in Int /\ k + l \in Int /\ (k + l) - (k + 1) + 1 = l
        /\ (IF k + 1 <= k + l THEN l ELSE 0) = l
        /\ \A i \in 1 .. l : (k + 1) + i - 1 = k + i
        /\ \A i \in k + 1 .. k + l : i \in 1 .. k + l
    BY <1>1
  <2>2. \A i \in k + 1 .. k + l : c[i] \in S
    BY <1>3, <2>1
  <2>3. /\ SubSeq(c, k + 1, k + l) \in Seq(S)
        /\ Len(SubSeq(c, k + 1, k + l)) = IF k + 1 <= k + l THEN (k + l) - (k + 1) + 1 ELSE 0
        /\ \A i \in 1 .. (k + l) - (k + 1) + 1 : SubSeq(c, k + 1, k + l)[i] = c[(k + 1) + i - 1]
    BY <2>1, <2>2, SubSeqProperties
  <2>4. Len(SubSeq(c, k + 1, k + l)) = l /\ \A i \in 1 .. l : SubSeq(c, k + 1, k + l)[i] = t[i]
    BY <1>7, <2>1, <2>3
  <2>. QED  BY <1>5, <2>3, <2>4, SeqEqual
<1>10. t # <<>> => c[k + 1] = t[1]
  BY <1>1, <1>4, <1>7
<1>. QED  BY <1>2, <1>6, <1>8, <1>9, <1>10 DEF c, k, l

(* The parser calls next_text, with nothing left of the line. *)
LEMMA NextTextCalled ==
  ASSUME Inv, pc \in {"newline", "preamble", "process", "line_arg"}, line = <<>>,
         pc' = "next_text", ret' \in {"newline", "preamble", "process", "line_arg"},
         pushback' = <<>>, input_stack' = input_stack, OpenCommands' = OpenCommands,
         BetweenLines' => line_commands' = <<>>, UNCHANGED <<call, out>>
  PROVE  FlatInv' /\ FlatStep
<1>1. RemainingText = line \o StackText(input_stack)
  BY LineText
<1>2. ~AfterBye'
  BY DEF AfterBye
<1>3. RemainingText' = RemainingText
  BY <1>1, <1>2 DEF RemainingText, Pending
<1>4. FlatInv'
  BY DEF Inv, FlatInv, InLine
<1>. QED  BY <1>3, <1>4, Same

(* A line that starts with its end has nothing else. *)
LEMMA NewlineAlone ==
  ASSUME Inv, line # <<>>, line[1].k = "nl", pc \in {"newline", "preamble", "process", "line_arg"}
  PROVE  /\ RemainingText # <<>> /\ RemainingText[1].k = "nl"
         /\ Tail(RemainingText) = StackText(input_stack)
<1>1. line \in Text /\ OneLine(line) /\ Tail(line) \in Text
  BY LineTypes DEF Inv, LinesInv
<1>2. Len(line) = 1
  <2>1. 1 \in DOMAIN line
    BY <1>1 DEF Text
  <2>. QED  BY <1>1, <2>1 DEF OneLine
<1>3. Tail(line) = <<>>
  <2>1. Len(Tail(line)) = 0
    BY <1>1, <1>2 DEF Text
  <2>. QED  BY <1>1, <2>1, EmptySeq DEF Text
<1>4. /\ RemainingText = line \o StackText(input_stack)
      /\ line \in FlatText /\ StackText(input_stack) \in FlatText
  BY LineText
<1>5. RemainingText # <<>> /\ RemainingText[1] = line[1]
      /\ Tail(RemainingText) = Tail(line) \o StackText(input_stack)
  BY <1>4, TailConcat DEF FlatText
<1>. QED  BY <1>3, <1>4, <1>5, ConcatEmptySeq DEF FlatText

LEMMA PreambleFlat ==
  ASSUME Inv, Preamble
  PROVE  FlatInv' /\ FlatStep
<1>. DEFINE blank == ~eof /\ \A i \in DOMAIN line : line[i].k = "nl"
            s == StackText(input_stack)
<1>1. /\ pc = "preamble" /\ pushback = <<>> /\ line_commands = <<>> /\ call = NoCall
      /\ RemainingText = line \o s /\ OpenCommands = <<>> /\ line \in Text /\ s \in FlatText
      /\ EndsWell(line, s)
  BY LineText, LineTypes DEF Preamble, Inv, FlatInv, BetweenLines, InLine, IInv, CallControl, ReadingArgument
<1>2. /\ pushback' = IF eof \/ blank THEN pushback ELSE Append(pushback, line)
      /\ pc' = "next_text" /\ ret' = IF blank THEN "preamble" ELSE "newline"
      /\ UNCHANGED <<input_stack, line, eof, call, line_commands, out>>
  BY DEF Preamble, CallNextText
<1>3. ~AfterBye' /\ OpenCommands' = <<>>
  BY <1>1, <1>2 DEF AfterBye, OpenCommands
<1>4. CASE eof \/ (blank /\ line = <<>>)
  <2>1. line = <<>> /\ pushback' = <<>>
    BY <1>1, <1>2, <1>4 DEF Inv, FlatInv, InLine
  <2>. QED  BY <1>1, <1>2, <1>3, <2>1, NextTextCalled
<1>5. CASE blank /\ line # <<>>
  <2>1. line[1].k = "nl" /\ pushback' = <<>>
    BY <1>1, <1>2, <1>5 DEF Text
  <2>2. RemainingText # <<>> /\ RemainingText[1].k = "nl" /\ Tail(RemainingText) = s
    BY <1>1, <1>5, <2>1, NewlineAlone
  <2>3. RemainingText' = <<>> \o s
    BY <1>2, <1>3, <2>1 DEF RemainingText, Pending
  <2>4. RemainingText' = s
    BY <1>1, <2>3, ConcatEmptySeq DEF FlatText
  <2>5. Flat!EndOfLine
    BY <1>1, <1>2, <1>3, <2>2, <2>4 DEF Flat!EndOfLine, Flat!At, Flat!NoCall, NoCall
  <2>6. FlatInv'
    BY <1>1, <1>2, <2>1 DEF Inv, FlatInv, InLine
  <2>. QED  BY <2>5, <2>6 DEF FlatStep, Flat!Next
<1>6. CASE ~eof /\ ~blank
  <2>1. pushback' = <<line>> /\ pushback' # <<>> /\ pushback'[1] = line
    BY <1>1, <1>2, <1>6
  <2>2. RemainingText' = RemainingText
    <3>1. Pending' = line
      BY <1>2, <2>1 DEF Pending
    <3>. QED  BY <1>1, <1>2, <1>3, <3>1 DEF RemainingText
  <2>3. FlatInv'
    BY <1>1, <1>2, <2>1 DEF Inv, FlatInv, InLine
  <2>. QED  BY <1>1, <1>2, <1>3, <2>2, <2>3, Same
<1>. QED  BY <1>4, <1>5, <1>6
LEMMA MoreTextFlat ==
  ASSUME Inv, EmptyText \/ LineArgMore
  PROVE  FlatInv' /\ FlatStep
<1>1. /\ pc \in {"process", "line_arg"} /\ line = <<>> /\ pc' = "next_text"
      /\ ret' \in {"process", "line_arg"}
      /\ UNCHANGED <<input_stack, pushback, call, line_commands, out>>
  BY DEF EmptyText, LineArgMore, CallNextText, input_vars
<1>2. pushback = <<>> /\ OpenCommands = line_commands
  BY <1>1, LineText
<1>3. OpenCommands' = line_commands /\ ~BetweenLines'
  BY <1>1 DEF OpenCommands, AfterBye, BetweenLines
<1>. QED  BY <1>1, <1>2, <1>3, NextTextCalled

LEMMA NewLineFlat ==
  ASSUME Inv, NewLine
  PROVE  FlatInv' /\ FlatStep
<1>1. /\ pc = "newline" /\ pc' = "process" /\ ~eof
      /\ UNCHANGED <<input_stack, pushback, line, eof, ret, call, line_commands, out>>
  BY DEF NewLine, input_vars
<1>2. RemainingText' = RemainingText /\ OpenCommands' = OpenCommands
  BY <1>1 DEF RemainingText, OpenCommands, AfterBye, Pending
<1>3. FlatInv'
  BY <1>1 DEF Inv, FlatInv, InLine, BetweenLines
<1>. QED  BY <1>1, <1>2, <1>3, Same

LEMMA OutOfInputFlat ==
  ASSUME Inv, OutOfInput
  PROVE  FlatInv' /\ FlatStep
<1>1. /\ pc = "newline" /\ eof /\ pc' = "done"
      /\ UNCHANGED <<input_stack, pushback, line, eof, ret, call, line_commands, out>>
  BY DEF OutOfInput, input_vars
<1>2. line = <<>> /\ input_stack = <<>> /\ line_commands = <<>>
  BY <1>1 DEF Inv, FlatInv, InLine, BetweenLines
<1>3. RemainingText = <<>> /\ RemainingText' = <<>>
  <2>1. <<>> \o StackText(<<>>) = <<>>
    BY EmptyStackText
  <2>2. RemainingText = line \o StackText(input_stack)
    BY <1>1, LineText
  <2>. QED  BY <1>1, <1>2, <2>1, <2>2 DEF RemainingText, Pending
<1>4. OpenCommands' = OpenCommands
  BY <1>1, <1>2 DEF OpenCommands
<1>5. FlatInv'
  BY <1>1 DEF Inv, FlatInv, InLine, BetweenLines
<1>. QED  BY <1>1, <1>3, <1>4, <1>5, Same

LEMMA ByeFlat ==
  ASSUME Inv, Bye
  PROVE  FlatInv' /\ FlatStep
<1>1. /\ At("bye") /\ pc' = "end_line" /\ ret' = "bye_line"
      /\ UNCHANGED <<input_stack, pushback, call, out>>
  BY DEF Bye, EndLine, input_vars
<1>2. AfterBye' /\ ~InLine' /\ ~BetweenLines' /\ pc' # "after_bye"
  BY <1>1 DEF AfterBye, InLine, BetweenLines
<1>3. RemainingText' = <<>> /\ OpenCommands' = <<>>
  BY <1>2 DEF RemainingText, OpenCommands
<1>4. FlatInv'
  BY <1>1, <1>2 DEF Inv, FlatInv
<1>5. Flat!Bye
  BY <1>1, <1>3, AtToken DEF Flat!Bye
<1>. QED  BY <1>4, <1>5 DEF FlatStep, Flat!Next

LEMMA AfterByeFlat ==
  ASSUME Inv, ByeLine \/ GatherAfterBye \/ AfterByeEnd
  PROVE  FlatInv' /\ FlatStep
<1>1. UNCHANGED <<input_stack, pushback, call, out>>
  BY DEF ByeLine, GatherAfterBye, AfterByeEnd, input_vars
<1>2. AfterBye
  BY DEF ByeLine, GatherAfterBye, AfterByeEnd, AfterBye
<1>3. \/ pc' = "finish"
      \/ pc' = "next_text" /\ ret' \in {"bye_line", "after_bye"}
      \/ pc' = "done" /\ ret' = "after_bye"
  BY DEF ByeLine, GatherAfterBye, AfterByeEnd, CallNextText, Inv, FlatInv
<1>4. AfterBye' /\ ~InLine' /\ ~BetweenLines' /\ pc' # "after_bye"
  BY <1>3 DEF AfterBye, InLine, BetweenLines
<1>5. RemainingText' = RemainingText /\ OpenCommands' = OpenCommands
  BY <1>2, <1>4 DEF RemainingText, OpenCommands
<1>6. FlatInv'
  BY <1>1, <1>4 DEF Inv, FlatInv
<1>. QED  BY <1>1, <1>5, <1>6, Same

(* The end of a line or of the input: the commands that are open end first. *)
LEMMA EndOfLineFlat ==
  ASSUME Inv, EndOfLine
  PROVE  FlatInv' /\ FlatStep
<1>. DEFINE s == StackText(input_stack)
<1>1. /\ At("nl") /\ pc' = "end_line" /\ ret' = "newline"
      /\ UNCHANGED <<input_stack, pushback, call, line_commands, out>>
  BY DEF EndOfLine, EndLine, input_vars
<1>2. /\ Flat!At("nl") /\ line # <<>> /\ line[1] \in Token /\ line[1].k = "nl"
      /\ pc = "process" /\ RemainingText[1] = line[1] /\ RemainingText # <<>>
      /\ OpenCommands = line_commands /\ RemainingText \in FlatText
  BY <1>1, AtToken
<1>3. Tail(RemainingText) = s /\ s \in FlatText
  BY <1>2, NewlineAlone, LineText
<1>4. ~AfterBye' /\ ~InLine' /\ ~BetweenLines' /\ pc' # "after_bye"
  BY <1>1 DEF AfterBye, InLine, BetweenLines
<1>5. FlatInv'
  BY <1>1, <1>4 DEF Inv, FlatInv
<1>6. /\ OpenCommands' = line_commands
      /\ RemainingText' = (IF line_commands # <<>> THEN <<Nl>> ELSE <<>>) \o s
  BY <1>1, <1>4 DEF OpenCommands, RemainingText, Pending
<1>7. CASE line_commands # <<>>
  <2>1. line[1] = Nl
    BY <1>2 DEF Token, Nl
  <2>2. RemainingText = <<Nl>> \o Tail(RemainingText)
    BY <1>2, <2>1 DEF FlatText
  <2>. QED  BY <1>1, <1>2, <1>3, <1>5, <1>6, <1>7, <2>2, Same
<1>8. CASE line_commands = <<>>
  <2>1. RemainingText' = s
    BY <1>3, <1>6, <1>8, ConcatEmptySeq DEF FlatText
  <2>2. Flat!EndOfLine
    BY <1>1, <1>2, <1>3, <1>6, <1>8, <2>1 DEF Flat!EndOfLine
  <2>. QED  BY <1>5, <2>2 DEF FlatStep, Flat!Next
<1>. QED  BY <1>7, <1>8

LEMMA NoMoreLineFlat ==
  ASSUME Inv, NoMoreLine
  PROVE  FlatInv' /\ FlatStep
<1>1. /\ pc = "process" /\ eof /\ pc' = "end_line" /\ ret' = "newline"
      /\ UNCHANGED <<input_stack, pushback, call, line_commands, out>>
  BY DEF NoMoreLine, EndLine, input_vars
<1>2. line = <<>> /\ input_stack = <<>>
  BY <1>1 DEF Inv, FlatInv, InLine
<1>3. RemainingText = line \o StackText(input_stack) /\ OpenCommands = line_commands
  BY <1>1, LineText
<1>4. RemainingText = <<>> /\ StackText(input_stack) = <<>>
  BY <1>2, <1>3, EmptyStackText
<1>5. ~AfterBye' /\ ~InLine' /\ ~BetweenLines' /\ pc' # "after_bye"
  BY <1>1 DEF AfterBye, InLine, BetweenLines
<1>6. FlatInv'
  BY <1>1, <1>5 DEF Inv, FlatInv
<1>7. /\ OpenCommands' = line_commands
      /\ RemainingText' = (IF line_commands # <<>> THEN <<Nl>> ELSE <<>>) \o <<>>
  BY <1>1, <1>4, <1>5 DEF OpenCommands, RemainingText, Pending
<1>8. CASE line_commands # <<>>
  <2>1. RemainingText' = <<Nl>>
    BY <1>7, <1>8
  <2>2. Flat!EndOfText
    BY <1>1, <1>3, <1>4, <1>7, <1>8, <2>1 DEF Flat!EndOfText, Flat!Nl, Nl
  <2>. QED  BY <1>6, <2>2 DEF FlatStep, Flat!Next
<1>9. CASE line_commands = <<>>
  BY <1>1, <1>3, <1>4, <1>6, <1>7, <1>9, Same
<1>. QED  BY <1>8, <1>9

LEMMA LineEndedFlat ==
  ASSUME Inv, LineEnded
  PROVE  FlatInv' /\ FlatStep
<1>1. /\ pc = "end_line" /\ line_commands = <<>> /\ ret \in {"newline", "bye_line"}
      /\ UNCHANGED <<input_stack, pushback, call, line_commands, out>> /\ pushback = <<>>
      /\ \/ pc' = "next_text" /\ ret' = ret
         \/ pc' = "finish" /\ ret = "bye_line" /\ ret' = ret
  BY DEF LineEnded, CallNextText, input_vars, Inv, IInv, CallControl, LinesInv
<1>2. ~InLine' /\ pc' # "after_bye" /\ Pending = <<>> /\ (pc' = "next_text" => Pending' = <<>>)
  BY <1>1 DEF InLine, Pending
<1>3. AfterBye' <=> AfterBye
  BY <1>1 DEF AfterBye
<1>4. RemainingText' = RemainingText /\ OpenCommands' = OpenCommands
  BY <1>1, <1>2, <1>3 DEF RemainingText, OpenCommands, AfterBye
<1>5. FlatInv'
  BY <1>1, <1>2 DEF Inv, FlatInv
<1>. QED  BY <1>1, <1>4, <1>5, Same

(* The file of an @include comes after the newline of the outer commands. *)
LEMMA FileIncluded ==
  ASSUME Inv, EndCommand
  PROVE  LET content == IF Included(Innermost) THEN Content[FileText[Innermost.file]] ELSE <<>>
         IN  /\ StackSound(input_stack')
             /\ content \in FlatText /\ StackText(input_stack) \in FlatText
             /\ StackText(input_stack') = content \o StackText(input_stack)
<1>. DEFINE s == StackText(input_stack)
<1>1. /\ input_stack \in Seq(Frame) /\ StackSound(input_stack) /\ s \in FlatText
  BY LineTypes, StackTextType DEF Inv, FlatInv
<1>2. CASE Included(Innermost)
  <2>. DEFINE f == FileFrame(Innermost)
              t == FileText[Innermost.file]
              mark == NewMark("include", "start")
  <2>1. t \in Text /\ f \in Frame /\ mark \in SourceMark /\ input_stack' = Append(input_stack, f)
    BY <1>2, CommandEnded DEF Inv
  <2>2. mark.type = "include"
    BY DEF NewMark
  <2>3. /\ f.type = "IN_file" /\ f.text = t /\ f.source_info.macro = None
        /\ f.value_flag = None /\ f.macro_name = None /\ f.mark = mark
    BY DEF FileFrame
  <2>. HIDE DEF f, mark, t
  <2>4. FrameEnd(f) = <<>>
    BY <2>2, <2>3 DEF FrameEnd
  <2>5. FrameSound(input_stack, f)
    BY <2>3, <2>4 DEF FrameSound
  <2>6. Content[t] \in FlatText
    BY <2>1, ContentRead, FlatTypes
  <2>7. StackText(input_stack') = (Content[t] \o <<>>) \o s
    BY <1>1, <2>1, <2>3, <2>4, PushedText DEF FrameText
  <2>8. StackText(input_stack') = Content[t] \o s
    BY <2>6, <2>7, ConcatEmptySeq DEF FlatText
  <2>9. StackSound(input_stack')
    BY <1>1, <2>1, <2>5, SoundAppend
  <2>. QED  BY <1>1, <1>2, <2>6, <2>8, <2>9 DEF t
<1>3. CASE ~Included(Innermost)
  <2>1. input_stack' = input_stack
    BY <1>3, CommandEnded DEF Inv
  <2>2. <<>> \in FlatText /\ <<>> \o s = s
    BY <1>1, FlatTypes, ConcatEmptySeq DEF FlatText
  <2>. QED  BY <1>1, <1>3, <2>1, <2>2
<1>. QED  BY <1>2, <1>3

LEMMA EndCommandFlat ==
  ASSUME Inv, EndCommand
  PROVE  FlatInv' /\ FlatStep
<1>. DEFINE s == StackText(input_stack)
            c == Innermost
            outer == Outer(line_commands)
            content == IF Included(c) THEN Content[FileText[c.file]] ELSE <<>>
            newline == IF outer = <<>> THEN <<>> ELSE <<Nl>>
<1>1. /\ pc = "end_line" /\ call = NoCall /\ line_commands # <<>> /\ c \in LineCommand
      /\ outer \in Seq(LineCommand)
      /\ line_commands' = IF Removed(c) THEN outer ELSE NameSpoilt(outer)
      /\ UNCHANGED <<pushback, pc, ret, call, out>>
  BY CommandEnded DEF Inv
<1>2. /\ StackSound(input_stack') /\ content \in FlatText /\ s \in FlatText
      /\ StackText(input_stack') = content \o s
  BY FileIncluded
<1>3. ret \in {"newline", "bye_line"} /\ pushback = <<>>
  BY <1>1 DEF Inv, IInv, CallControl, LinesInv
<1>4. FlatInv'
  BY <1>1, <1>2, <1>3 DEF FlatInv, InLine, BetweenLines
<1>5. CASE ret = "bye_line"
  <2>1. AfterBye /\ AfterBye'
    BY <1>1, <1>5 DEF AfterBye
  <2>. QED  BY <1>1, <1>4, <2>1, Same DEF RemainingText, OpenCommands
<1>6. CASE ret = "newline"
  <2>1. ~AfterBye /\ ~AfterBye'
    BY <1>1, <1>6 DEF AfterBye
  <2>2. OpenCommands = line_commands /\ OpenCommands' = line_commands'
    BY <2>1 DEF OpenCommands
  <2>3. RemainingText = <<Nl>> \o s
    BY <1>1, <2>1 DEF RemainingText, Pending
  <2>4. line_commands' = <<>> <=> outer = <<>>
    BY <1>1, CommandTypes, EmptySeq DEF NameSpoilt
  <2>5. RemainingText' = newline \o (content \o s)
    BY <1>1, <1>2, <2>1, <2>4 DEF RemainingText, Pending
  <2>. HIDE DEF s, content
  <2>6. newline \in FlatText
    <3>1. Nl \in FlatToken
      BY DEF FlatToken, Token, Nl
    <3>2. <<>> \in FlatText /\ <<Nl>> \in FlatText
      BY <3>1 DEF FlatText
    <3>. QED  BY <3>2
  <2>7. RemainingText' = (newline \o content) \o s
    BY <1>2, <2>5, <2>6, FlatAssociative
  <2>8. RemainingText # <<>> /\ RemainingText[1] = Nl /\ Tail(RemainingText) = s
    <3>1. <<Nl>> \in Seq(FlatToken) /\ s \in Seq(FlatToken)
      BY <1>2 DEF FlatText, FlatToken, Token, Nl
    <3>2. <<Nl>> # <<>> /\ <<Nl>>[1] = Nl /\ Tail(<<Nl>>) = <<>>
      OBVIOUS
    <3>. QED  BY <2>3, <3>1, <3>2, TailConcat, ConcatEmptySeq
  <2>9. Flat!Read(c) <=> Included(c)
    BY DEF Flat!Read, Included
  <2>10. outer = SubSeq(OpenCommands, 1, Len(OpenCommands) - 1) /\ c = OpenCommands[Len(OpenCommands)]
    BY <2>2 DEF Outer, Innermost
  <2>11. /\ c.cmd \in {"include", "setfilename"}
         /\ \/ OpenCommands' = outer /\ (c.cmd = "include" => Flat!Read(c))
            \/ OpenCommands' = Flat!NameSpoilt(outer) /\ ~Flat!Read(c)
    BY <1>1, <2>2, <2>9 DEF LineCommand, Removed, Flat!NameSpoilt, NameSpoilt
  <2>12. content = IF Flat!Read(c) THEN [f \in Files |-> Content[FileText[f]]][c.file] ELSE <<>>
    <3>1. Included(c) => c.file \in Files
      BY ParserInputAssumption DEF Included
    <3>. QED  BY <2>9, <3>1 DEF content
  <2>. HIDE DEF c, outer, newline
  <2>13. Flat!At("nl")
    BY <1>1, <2>8 DEF Flat!At, Flat!NoCall, NoCall, Nl
  <2>14. newline = IF outer = <<>> THEN <<>> ELSE <<Flat!Nl>>
    BY DEF newline, Flat!Nl, Nl
  <2>15. RemainingText' = newline \o content \o Tail(RemainingText)
    BY <2>7, <2>8
  <2>16. Flat!EndCommand
    <3>. DEFINE d == OpenCommands[Len(OpenCommands)]
                o == SubSeq(OpenCommands, 1, Len(OpenCommands) - 1)
    <3>1. d = c /\ o = outer
      BY <2>10
    <3>. HIDE DEF d, o
    <3>2. RemainingText' = (IF o = <<>> THEN <<>> ELSE <<Flat!Nl>>)
            \o (IF Flat!Read(d) THEN [f \in Files |-> Content[FileText[f]]][d.file] ELSE <<>>)
            \o Tail(RemainingText)
      <4>1. newline = IF o = <<>> THEN <<>> ELSE <<Flat!Nl>>
        BY <2>14, <3>1
      <4>2. content = IF Flat!Read(d) THEN [f \in Files |-> Content[FileText[f]]][d.file] ELSE <<>>
        BY <2>12, <3>1
      <4>. QED  BY <2>15, <4>1, <4>2
    <3>3. \/ OpenCommands' = o /\ (d.cmd = "include" => Flat!Read(d))
          \/ OpenCommands' = Flat!NameSpoilt(o) /\ ~Flat!Read(d)
      BY <2>11, <3>1, Zenon
    <3>4. OpenCommands # <<>> /\ UNCHANGED <<call, out>>
      BY <1>1, <2>2
    <3>. QED  BY <2>13, <3>2, <3>3, <3>4 DEF Flat!EndCommand, d, o
  <2>. QED  BY <1>4, <2>16 DEF FlatStep, Flat!Next
<1>. QED  BY <1>3, <1>5, <1>6

LEMMA LineDirectiveFlat ==
  ASSUME Inv, LineDirective
  PROVE  FlatInv' /\ FlatStep
<1>. DEFINE s == StackText(input_stack)
            below == StackText(Below(input_stack))
            f == [Top EXCEPT !.source_info.line_nr = HashLine]
<1>1. /\ pc = "newline" /\ ~eof /\ line # <<>> /\ line[1].k = "hashline"
      /\ \A i \in 2 .. Len(line) : line[i].k = "nl"
      /\ input_stack' = SetTop(f) /\ pc' = "next_text" /\ ret' = "newline"
      /\ UNCHANGED <<pushback, line, eof, call, line_commands, out>>
  BY DEF LineDirective, IsLineDirective, CallNextText
<1>2. /\ pushback = <<>> /\ line_commands = <<>> /\ call = NoCall /\ OpenCommands = <<>>
      /\ RemainingText = line \o s /\ line \in FlatText /\ s \in FlatText /\ line \in Text
      /\ EndsWell(line, s) /\ OneLine(line) /\ input_stack # <<>>
  BY <1>1, LineText, LineTypes
     DEF Inv, FlatInv, LinesInv, BetweenLines, InLine, IInv, CallControl, ReadingArgument, LineHasFrame
<1>3. /\ Top \in Frame /\ below \in FlatText /\ FrameEnd(Top) \in FlatText
      /\ FrameSound(Below(input_stack), Top)
      /\ s = FrameText(Top) \o below
      /\ \A g \in Frame : /\ StackText(SetTop(g)) = FrameText(g) \o below
                          /\ FrameSound(Below(input_stack), g) => StackSound(SetTop(g))
  BY <1>2, TopFacts
<1>4. Top.source_info \in SourceInfo /\ HashLine \in Int
  BY <1>3, ParserInputAssumption DEF Frame
<1>5. /\ f \in Frame /\ f.text = Top.text /\ f.type = Top.type
      /\ f.source_info.macro = Top.source_info.macro
      /\ f.value_flag = Top.value_flag /\ f.macro_name = Top.macro_name /\ f.mark = Top.mark
  BY <1>3, <1>4 DEF Frame, SourceInfo
<1>. HIDE DEF f
<1>6. FrameText(f) = FrameText(Top) /\ FrameSound(Below(input_stack), f)
  BY <1>3, <1>5 DEF FrameSound, FrameText, FrameEnd
<1>7. StackText(input_stack') = s /\ StackSound(input_stack')
  BY <1>1, <1>3, <1>5, <1>6
<1>. HIDE DEF s, below
<1>8. ~AfterBye' /\ ~InLine' /\ Pending' = <<>> /\ pushback' = <<>>
  BY <1>1, <1>2 DEF AfterBye, InLine, Pending
<1>9. RemainingText' = s /\ OpenCommands' = <<>>
  <2>1. RemainingText' = <<>> \o StackText(input_stack')
    BY <1>8 DEF RemainingText
  <2>. QED  BY <1>1, <1>2, <1>7, <1>8, <2>1, ConcatEmptySeq DEF FlatText, OpenCommands
<1>10. FlatInv'
  BY <1>1, <1>2, <1>7, <1>8 DEF FlatInv
<1>11. Flat!At("hashline")
  <2>1. RemainingText # <<>> /\ RemainingText[1] = line[1]
    BY <1>1, <1>2, TailConcat DEF FlatText
  <2>. QED  BY <1>1, <1>2, <2>1 DEF Flat!At, Flat!NoCall, NoCall
<1>12. /\ Len(RemainingText) = Len(line) + Len(s) /\ Len(line) \in Nat \ {0} /\ Len(s) \in Nat
       /\ \A i \in 1 .. Len(line) : RemainingText[i] = line[i]
       /\ s # <<>> => RemainingText[Len(line) + 1] = s[1]
       /\ SubSeq(RemainingText, Len(line) + 1, Len(RemainingText)) = s
  <2>1. line \in Seq(FlatToken) /\ s \in Seq(FlatToken)
    BY <1>2 DEF FlatText
  <2>2. Len(line) \in Nat \ {0} /\ Len(s) \in Nat
    BY <1>1, <2>1
  <2>3. /\ Len(line \o s) = Len(line) + Len(s)
        /\ \A i \in 1 .. Len(line) : (line \o s)[i] = line[i]
        /\ s # <<>> => (line \o s)[Len(line) + 1] = s[1]
        /\ SubSeq(line \o s, Len(line) + 1, Len(line \o s)) = s
    BY <2>1, Parts
  <2>. QED  BY <1>2, <2>2, <2>3
<1>13. CASE Len(line) = 1
  <2>1. line[Len(line)].k # "nl"
    BY <1>1, <1>13
  <2>2. s = <<>> \/ s[1].k \in EndMarks
    BY <1>1, <1>2, <2>1 DEF EndsWell
  <2>3. s = <<>> => Len(s) = 0
    OBVIOUS
  <2>4. ~(Len(RemainingText) > 1 /\ RemainingText[2].k = "nl")
    BY <1>12, <1>13, <2>2, <2>3 DEF EndMarks
  <2>5. Flat!After(1) = s
    BY <1>12, <1>13 DEF Flat!After
  <2>. QED  BY <1>1, <1>2, <1>9, <1>10, <1>11, <2>4, <2>5 DEF FlatStep, Flat!Next, Flat!LineDirective
<1>14. CASE Len(line) # 1
  <2>1. Len(line) >= 2 /\ 2 \in DOMAIN line /\ line[2].k = "nl"
    <3>1. DOMAIN line = 1 .. Len(line)
      BY <1>2 DEF Text
    <3>2. 2 \in 2 .. Len(line)
      <4>1. Len(line) \in Nat \ {0}
        BY <1>12
      <4>2. \A n \in Nat \ {0} : n # 1 => 2 \in 2 .. n
        OBVIOUS
      <4>. QED  BY <1>14, <4>1, <4>2
    <3>. QED  BY <1>1, <3>1, <3>2
  <2>2. Len(line) = 2
    BY <1>2, <2>1 DEF OneLine
  <2>3. Len(RemainingText) > 1 /\ RemainingText[2].k = "nl"
    BY <1>12, <2>1, <2>2
  <2>4. Flat!After(2) = s
    BY <1>12, <2>2 DEF Flat!After
  <2>. QED  BY <1>1, <1>2, <1>9, <1>10, <1>11, <2>3, <2>4 DEF FlatStep, Flat!Next, Flat!LineDirective
<1>. QED  BY <1>13, <1>14

(* The argument of a call ends with the line or with what it was read from. *)
LEMMA LineArgument ==
  ASSUME Inv, pc = "line_arg", eof \/ line # <<>>
  PROVE  LET s == StackText(input_stack)
             args == BeforeKind(line, "nl")
             n == Len(args)
             newline == n < Len(RemainingText) /\ RemainingText[n + 1].k = "nl"
         IN  /\ args \in Text /\ n \in 0 .. Len(RemainingText)
             /\ \A i \in 1 .. n : RemainingText[i].k \notin Flat!Ends \cup {"nl"}
             /\ n < Len(RemainingText) =>
                  RemainingText[n + 1].k \in (IF n = 0 THEN {"nl"} ELSE {"nl"} \cup Flat!Ends)
             /\ SubSeq(RemainingText, 1, n) = args
             /\ eof => RemainingText = <<>> /\ s = <<>>
             /\ ~eof => /\ RemainingText # <<>>
                        /\ Flat!After(IF newline THEN n + 1 ELSE n) = s
<1>. DEFINE s == StackText(input_stack)
            args == BeforeKind(line, "nl")
            n == Len(args)
            l == Len(line)
            newline == n < Len(RemainingText) /\ RemainingText[n + 1].k = "nl"
<1>1. /\ RemainingText = line \o s /\ line \in FlatText /\ s \in FlatText /\ line \in Text
      /\ EndsWell(line, s) /\ OneLine(line) /\ (eof => line = <<>> /\ input_stack = <<>>)
      /\ args \in Text
  BY LineText, LineTypes, TextOps DEF Inv, FlatInv, LinesInv, InLine
<1>2. line \in Seq(FlatToken) /\ s \in Seq(FlatToken) /\ l \in Nat /\ Len(s) \in Nat
      /\ DOMAIN line = 1 .. l
  BY <1>1 DEF FlatText
<1>3. /\ Len(RemainingText) = l + Len(s)
      /\ \A i \in 1 .. l : RemainingText[i] = line[i]
      /\ s # <<>> => RemainingText[l + 1] = s[1]
      /\ \A i \in 0 .. l : SubSeq(RemainingText, 1, i) = SubSeq(line, 1, i)
      /\ SubSeq(RemainingText, l + 1, Len(RemainingText)) = s
  <2>1. /\ Len(line \o s) = Len(line) + Len(s)
        /\ \A i \in 1 .. Len(line) : (line \o s)[i] = line[i]
        /\ s # <<>> => (line \o s)[Len(line) + 1] = s[1]
        /\ \A i \in 0 .. Len(line) : SubSeq(line \o s, 1, i) = SubSeq(line, 1, i)
        /\ SubSeq(line \o s, Len(line) + 1, Len(line \o s)) = s
    BY <1>2, Parts
  <2>. QED  BY <1>1, <2>1
<1>4. eof => s = <<>> /\ RemainingText = <<>> /\ line = <<>> /\ l = 0
  <2>1. <<>> \o <<>> = <<>>
    OBVIOUS
  <2>. QED  BY <1>1, <2>1, EmptyStackText
<1>5. \A i \in 1 .. l : line[i].k \notin Flat!Ends
  <2>1. \A i \in 1 .. l : line[i] \in Token
    BY <1>1, <1>2 DEF Text
  <2>2. \A e \in Token : e.k \notin Flat!Ends
    BY DEF Token, Flat!Ends
  <2>. QED  BY <2>1, <2>2
<1>6. line # <<>> => l # 0
  BY <1>2
<1>7. s # <<>> => Len(s) > 0
  BY <1>2
<1>8. s = <<>> => Len(s) = 0
  OBVIOUS
<1>9. CASE HasKind(line, "nl")
  <2>. DEFINE j == FirstOf(line, "nl")
  <2>1. /\ j \in 1 .. l /\ line[j].k = "nl" /\ \A i \in 1 .. j - 1 : line[i].k # "nl"
    BY <1>1, <1>9, FirstOfKind
  <2>2. args = SubSeq(line, 1, j - 1)
    BY <1>9 DEF BeforeKind
  <2>. HIDE DEF j, args
  <2>3. j = l
    BY <1>1, <1>2, <2>1 DEF OneLine
  <2>4. n = l - 1
    <3>1. j - 1 \in Nat /\ j - 1 <= l
      BY <1>2, <2>1
    <3>2. Len(SubSeq(line, 1, j - 1)) = j - 1
      BY <1>2, <3>1
    <3>. QED  BY <2>2, <2>3, <3>2
  <2>. HIDE DEF n
  <2>5. n \in 0 .. l /\ n + 1 = l /\ n \in Nat /\ n < l + Len(s) /\ n + 1 \in 1 .. l
    BY <1>2, <2>1, <2>4
  <2>6. SubSeq(RemainingText, 1, n) = args
    BY <1>3, <2>2, <2>3, <2>4, <2>5
  <2>7. RemainingText[n + 1].k = "nl" /\ n < Len(RemainingText)
    BY <1>3, <2>1, <2>3, <2>5
  <2>8. \A i \in 1 .. n : i \in 1 .. l /\ i \in 1 .. j - 1
    BY <1>2, <2>3, <2>5
  <2>9. \A i \in 1 .. n : RemainingText[i].k \notin Flat!Ends \cup {"nl"}
    BY <1>3, <1>5, <2>1, <2>8
  <2>10. line # <<>> /\ ~eof /\ RemainingText # <<>>
    BY <1>1, <1>2, <1>3, <1>4, <2>5
  <2>11. newline /\ Flat!After(n + 1) = s
    BY <1>3, <2>5, <2>7 DEF Flat!After
  <2>12. n \in 0 .. Len(RemainingText)
    BY <1>2, <1>3, <2>5
  <2>. QED  BY <1>1, <2>6, <2>7, <2>9, <2>10, <2>11, <2>12 DEF n, args
<1>10. CASE ~HasKind(line, "nl")
  <2>1. args = line /\ n = l /\ \A i \in 1 .. l : line[i].k # "nl"
    BY <1>2, <1>10 DEF BeforeKind, HasKind
  <2>. HIDE DEF args
  <2>2. n \in 0 .. l /\ n \in 0 .. Len(RemainingText)
    BY <1>2, <1>3, <2>1
  <2>3. SubSeq(RemainingText, 1, n) = args
    BY <1>2, <1>3, <2>1, <2>2, SubSeqFull
  <2>4. \A i \in 1 .. n : RemainingText[i].k \notin Flat!Ends \cup {"nl"}
    BY <1>3, <1>5, <2>1
  <2>5. ~eof => /\ n # 0 /\ RemainingText # <<>>
                /\ s # <<>> => s[1].k \in EndMarks
    <3>1. ~eof => line # <<>> /\ l \in 1 .. l
      BY <1>2, <1>6
    <3>2. ~eof => line[Len(line)].k # "nl"
      BY <2>1, <3>1
    <3>3. ~eof => RemainingText # <<>>
      BY <1>2, <1>3, <3>1
    <3>. QED  BY <1>1, <2>1, <1>6, <3>1, <3>2, <3>3 DEF EndsWell
  <2>6. n < Len(RemainingText) => ~eof /\ s # <<>> /\ RemainingText[n + 1] = s[1]
    BY <1>2, <1>3, <1>4, <1>8, <2>1
  <2>7. n < Len(RemainingText) => RemainingText[n + 1].k \in Flat!Ends /\ n # 0
    BY <2>5, <2>6 DEF EndMarks, Flat!Ends
  <2>8. ~newline
    BY <2>7 DEF Flat!Ends
  <2>9. Flat!After(n) = s
    BY <1>3, <2>1 DEF Flat!After
  <2>. QED  BY <1>1, <1>4, <2>2, <2>3, <2>4, <2>5, <2>7, <2>8, <2>9 DEF args
<1>. QED  BY <1>9, <1>10

LEMMA LineArgEndFlat ==
  ASSUME Inv, LineArgEnd
  PROVE  FlatInv' /\ FlatStep
<1>. DEFINE s == StackText(input_stack)
            args == BeforeKind(line, "nl")
            n == Len(args)
            rest == IF eof THEN <<>> ELSE <<Nl>>
            m == call.name
            error == call.error
            newline == n < Len(RemainingText) /\ RemainingText[n + 1].k = "nl"
            flatrest == IF RemainingText = <<>> THEN <<>>
                        ELSE <<Flat!Nl>> \o Flat!After(IF newline THEN n + 1 ELSE n)
<1>1. /\ pc = "line_arg" /\ (eof \/ line # <<>>) /\ call' = NoCall
      /\ FinishMacro(m, error, args, rest, macro_expansion_nr)
  BY DEF LineArgEnd
<1>2. /\ args \in Text /\ n \in 0 .. Len(RemainingText)
      /\ \A i \in 1 .. n : RemainingText[i].k \notin Flat!Ends \cup {"nl"}
      /\ n < Len(RemainingText) =>
           RemainingText[n + 1].k \in (IF n = 0 THEN {"nl"} ELSE {"nl"} \cup Flat!Ends)
      /\ SubSeq(RemainingText, 1, n) = args
      /\ eof => RemainingText = <<>> /\ s = <<>>
      /\ ~eof => RemainingText # <<>> /\ Flat!After(IF newline THEN n + 1 ELSE n) = s
  BY <1>1, LineArgument
<1>3. /\ pushback = <<>> /\ s \in FlatText /\ OpenCommands = line_commands
      /\ m \in Macros /\ error \in BOOLEAN /\ StackSound(input_stack)
  BY <1>1, LineText DEF Inv, FlatInv, IInv, CallControl, ReadingArgument, TypeOK
<1>4. call # NoCall /\ NoCall = Flat!NoCall
  BY <1>3, ParserInputAssumption DEF NoCall, Flat!NoCall
<1>5. rest \in Text /\ EndsWell(rest, s)
  <2>1. Nl \in Token /\ Nl.k = "nl"
    BY DEF Nl, Token
  <2>2. <<Nl>> \in Seq(Token) /\ <<Nl>>[Len(<<Nl>>)] = Nl
    BY <2>1
  <2>3. \A t : t = <<>> \/ t[Len(t)].k = "nl" => EndsWell(t, s)
    BY DEF EndsWell
  <2>4. <<>> \in Text /\ <<Nl>> \in Text /\ EndsWell(<<>>, s) /\ EndsWell(<<Nl>>, s)
    BY <2>1, <2>2, <2>3 DEF Text
  <2>. QED  BY <2>4
<1>6. flatrest = rest \o s
  <2>1. CASE eof
    <3>1. <<>> \o s = s
      BY <1>3, ConcatEmptySeq DEF FlatText
    <3>. QED  BY <1>2, <2>1, <3>1
  <2>2. CASE ~eof
    BY <1>2, <2>2 DEF Nl, Flat!Nl
  <2>. QED  BY <2>1, <2>2
<1>7. out' = out /\ line_commands' = line_commands /\ pushback' = pushback /\ eof' = FALSE
  BY <1>1 DEF FinishMacro
<1>8. CASE error
  <2>1. line' = rest /\ pc' = "process" /\ UNCHANGED <<input_stack, ret>>
    BY <1>1, <1>8 DEF FinishMacro
  <2>. HIDE DEF rest
  <2>2. ~AfterBye' /\ ~BetweenLines' /\ pc' # "after_bye"
    BY <2>1 DEF AfterBye, BetweenLines
  <2>3. RemainingText' = rest \o s /\ OpenCommands' = line_commands
    BY <1>7, <2>1, <2>2 DEF RemainingText, OpenCommands, Pending
  <2>4. FlatInv'
    BY <1>3, <1>5, <1>7, <2>1, <2>2 DEF FlatInv
  <2>5. RemainingText' = flatrest
    BY <1>6, <2>3
  <2>6. Flat!Argument
    <3>. HIDE DEF n, flatrest
    <3>1. RemainingText' = IF error THEN flatrest
                           ELSE Flat!Expanded(m, SubSeq(RemainingText, 1, n), flatrest)
      BY <1>8, <2>5
    <3>. QED  BY <1>1, <1>2, <1>3, <1>4, <1>7, <2>3, <3>1 DEF Flat!Argument, flatrest
  <2>. QED  BY <2>4, <2>6 DEF FlatStep, Flat!Next
<1>9. CASE ~error
  <2>1. /\ FlatInv' /\ OpenCommands' = line_commands
        /\ RemainingText' = Flat!Expanded(m, args, rest \o s)
    <3>. HIDE DEF m, error, args, rest
    <3>. QED  BY <1>1, <1>2, <1>3, <1>5, <1>9, CallExpanded
  <2>2. RemainingText' = Flat!Expanded(m, args, flatrest)
    BY <1>6, <2>1
  <2>3. Flat!Argument
    <3>. HIDE DEF n, flatrest
    <3>1. RemainingText' = IF error THEN flatrest
                           ELSE Flat!Expanded(m, SubSeq(RemainingText, 1, n), flatrest)
      BY <1>2, <1>9, <2>2
    <3>. QED  BY <1>1, <1>2, <1>3, <1>4, <1>7, <2>1, <3>1 DEF Flat!Argument, flatrest
  <2>. QED  BY <2>1, <2>3 DEF FlatStep, Flat!Next
<1>. QED  BY <1>3, <1>8, <1>9
-----------------------------------------------------------------------------
(***************************************************************************)
(* The refinement.                                                         *)
(***************************************************************************)
LEMMA InitFlat == Init => FlatInv /\ Flat!Init
<1>. SUFFICES ASSUME Init  PROVE FlatInv /\ Flat!Init
  OBVIOUS
<1>1. PICK t \in MainTexts : ParseFile(t) \/ ParseText(t) \/ ParsePiece(t)
  BY DEF Init
<1>. DEFINE file == [type |-> "IN_file", text |-> t,
                     source_info |-> [file |-> MainFile, line_nr |-> 0, macro |-> None],
                     value_flag |-> None, macro_name |-> None, mark |-> None]
            text == TextFrame(<<>>, t, 1, None, None, None)
<1>2. t \in Text /\ <<>> \in Seq(Frame)
  BY ParserInputAssumption
<1>3. /\ pc = "next_text" /\ ret \in {"preamble", "newline"} /\ pushback = <<>> /\ call = NoCall
      /\ line_commands = <<>> /\ out = <<>>
  BY <1>1 DEF ParseFile, ParseText, ParsePiece, Start
<1>4. input_stack = Append(<<>>, file) \/ input_stack = Append(<<>>, text)
  BY <1>1 DEF ParseFile, ParseText, ParsePiece, Start, PushFile, PushText
<1>5. /\ file \in Frame /\ FrameText(file) = Content[t] \o <<>> /\ file.source_info.macro = None
  BY <1>2 DEF Frame, SourceInfo, FileNames, FrameText, FrameEnd
<1>6. /\ text \in Frame /\ FrameText(text) = t \o <<>> /\ text.source_info.macro = None
  <2>1. None \in Macros \cup {None} /\ None \in Values \cup {None} /\ None \in SourceMark \cup {None}
        /\ 1 \in Int
    OBVIOUS
  <2>2. text \in Frame
    BY <1>2, <2>1, TextFrameType DEF IsTextFrame
  <2>3. text.type = "IN_text" /\ text.text = t /\ text.source_info.macro = None
    BY DEF TextFrame
  <2>4. FrameEnd(text) = <<>>
    BY FrameEnds
  <2>. HIDE DEF text
  <2>5. FrameText(text) = t \o <<>>
    BY <2>3, <2>4 DEF FrameText
  <2>. QED  BY <2>2, <2>3, <2>5
<1>. HIDE DEF file, text
<1>7. PICK f \in {file, text} : input_stack = Append(<<>>, f)
  BY <1>4
<1>8. PICK d \in Documents : d \in FlatText /\ FrameText(f) = d \o <<>>
  <2>1. t \in Documents /\ Content[t] \in Documents
    BY DEF Documents
  <2>2. t \in FlatText /\ Content[t] \in FlatText
    BY <1>2, ContentRead, FlatTypes
  <2>. QED  BY <1>5, <1>6, <2>1, <2>2
<1>9. StackText(input_stack) = d
  <2>1. StackText(input_stack) = (d \o <<>>) \o <<>>
    BY <1>2, <1>5, <1>6, <1>7, <1>8, PushedText, EmptyStackText
  <2>. QED  BY <1>8, <2>1, ConcatEmptySeq DEF FlatText
<1>10. StackSound(input_stack)
  <2>1. StackSound(<<>>)
    BY DEF StackSound
  <2>2. FrameSound(<<>>, f)
    BY <1>5, <1>6, EmptyStackText DEF FrameSound, EndsWell
  <2>. QED  BY <1>2, <1>5, <1>6, <1>7, <2>1, <2>2, SoundAppend
<1>11. FlatInv
  BY <1>3, <1>10 DEF FlatInv, InLine
<1>12. RemainingText = d /\ OpenCommands = <<>>
  <2>1. ~AfterBye /\ Pending = <<>>
    BY <1>3 DEF AfterBye, Pending
  <2>2. RemainingText = <<>> \o StackText(input_stack)
    BY <2>1 DEF RemainingText
  <2>. QED  BY <1>3, <1>8, <1>9, <2>1, <2>2, ConcatEmptySeq DEF FlatText, OpenCommands
<1>13. Flat!Init
  BY <1>3, <1>8, <1>12 DEF Flat!Init, Flat!NoCall, NoCall
<1>. QED  BY <1>11, <1>13

LEMMA NextFlat == Inv /\ [Next]_vars => FlatInv' /\ FlatStep
<1>. SUFFICES ASSUME Inv, [Next]_vars  PROVE FlatInv' /\ FlatStep
  OBVIOUS
<1>1. CASE NextText
  BY <1>1, PushbackFlat, TextLineFlat, FileLineFlat, PopFlat, NextTextEndFlat DEF NextText
<1>2. CASE ProcessLine
  BY <1>2, NoMoreLineFlat, MoreTextFlat, EndOfLineFlat, WordFlat, IncludeFlat, SetfilenameFlat,
     EndCommandFlat, LineEndedFlat, ValueFlat, MacroCallFlat, LineMacroCallFlat, ByeFlat DEF ProcessLine
<1>3. CASE Preamble \/ OutOfInput \/ NewLine \/ LineDirective
  BY <1>3, PreambleFlat, OutOfInputFlat, NewLineFlat, LineDirectiveFlat
<1>4. CASE LineArgMore \/ LineArgEnd \/ ByeLine \/ GatherAfterBye \/ AfterByeEnd
  BY <1>4, MoreTextFlat, LineArgEndFlat, AfterByeFlat
<1>5. CASE UNCHANGED vars
  <2>1. UNCHANGED <<input_stack, pushback, line, eof, pc, ret, call, line_commands, out>>
    BY <1>5 DEF vars, input_vars
  <2>2. RemainingText' = RemainingText /\ OpenCommands' = OpenCommands
    BY <2>1 DEF RemainingText, OpenCommands, AfterBye, Pending
  <2>3. FlatInv'
    BY <2>1 DEF Inv, FlatInv, InLine, BetweenLines
  <2>. QED  BY <2>1, <2>2, <2>3, Same
<1>. QED  BY <1>1, <1>2, <1>3, <1>4, <1>5 DEF Next

(* Whatever the document, the parser reads its text with each macro call   *)
(* and @value replaced by its expansion and each @include by its file:     *)
(* the pushes and pops of input.c, the pushed back lines, the arguments    *)
(* read across frames and the limits on nesting lose, repeat and reorder   *)
(* nothing (next_text, input_push_text, input_push_file, handle_macro).    *)
THEOREM FlatTextCorrect == Spec => ReadsFlatText
<1>1. Init => FlatInv /\ Flat!Init
  BY InitFlat
<1>2. IInv /\ LinesInv /\ FlatInv /\ [Next]_vars => FlatInv' /\ FlatStep
  BY NextFlat DEF Inv
<1>3. FlatStep => [Flat!Next]_<<RemainingText, OpenCommands, call, out>>
  BY DEF FlatStep, FlatVars
<1>. QED  BY <1>1, <1>2, <1>3, IInvHolds, LinesInvHolds, PTL DEF Spec, ReadsFlatText, Flat!Spec
=============================================================================
