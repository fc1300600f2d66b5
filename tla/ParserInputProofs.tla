-------------------------- MODULE ParserInputProofs --------------------------
(***************************************************************************)
(* Theorems about ParserInput, for every set of macros, values, files and  *)
(* documents and every nesting limit.                                      *)
(***************************************************************************)
EXTENDS ParserInput, SequenceTheorems, FiniteSetTheorems, WellFoundedInduction, TLAPS

-----------------------------------------------------------------------------
(* Text operators return texts. *)

LEMMA LeastElement ==
  ASSUME NEW S \in SUBSET Nat, S # {}
  PROVE  \E m \in S : \A n \in S : m <= n
<1>. DEFINE R == OpToRel(<, Nat)
<1>1. PICK m \in S : \A n \in S : ~ (<<n, m>> \in R)
  BY NatLessThanWellFounded, WFMin
<1>2. \A x, y \in Nat : <<x, y>> \in R <=> x < y
  BY DEF OpToRel
<1>. HIDE DEF R
<1>3. ASSUME NEW n \in S
      PROVE  m <= n
  <2>1. <<n, m>> \notin R
    BY <1>1
  <2>2. n \in Nat /\ m \in Nat
    OBVIOUS
  <2>3. ~(n < m)
    BY <1>2, <2>1, <2>2, Zenon
  <2>. QED  BY <2>2, <2>3
<1>. QED  BY <1>3

LEMMA FirstOfIndex ==
  ASSUME NEW t \in Text, NEW k, HasKind(t, k)
  PROVE  FirstOf(t, k) \in 1 .. Len(t)
<1>. DEFINE S == {i \in 1 .. Len(t) : t[i].k = k}
<1>1. S \in SUBSET Nat /\ S # {}
  BY DEF HasKind, Text
<1>2. PICK m \in S : \A n \in S : m <= n
  BY <1>1, LeastElement
<1>3. m \in DOMAIN t /\ t[m].k = k /\ \A j \in 1 .. m - 1 : t[j].k # k
  BY <1>2 DEF Text
<1>4. DOMAIN t = 1 .. Len(t)
  BY DEF Text
<1>. QED  BY <1>3, <1>4 DEF FirstOf

LEMMA TextOps ==
  ASSUME NEW t \in Text, NEW k
  PROVE  /\ FirstLine(t) \in Text
         /\ AfterLine(t) \in Text
         /\ BeforeKind(t, k) \in Text
         /\ FileLine(t) \in Text
<1>1. LineLen(t) \in Nat /\ LineLen(t) <= Len(t)
  BY FirstOfIndex DEF LineLen, Text
<1>2. FirstLine(t) \in Text /\ AfterLine(t) \in Text
  BY <1>1 DEF FirstLine, AfterLine, Text
<1>3. BeforeKind(t, k) \in Text
  <2>1. CASE HasKind(t, k)
    <3>1. FirstOf(t, k) \in 1 .. Len(t)
      BY <2>1, FirstOfIndex
    <3>. QED  BY <2>1, <3>1 DEF BeforeKind, Text
  <2>2. CASE ~HasKind(t, k)
    BY <2>2 DEF BeforeKind
  <2>. QED  BY <2>1, <2>2
<1>4. FileLine(t) \in Text
  <2>1. Nl \in Token
    BY DEF Nl, Token
  <2>. QED  BY <1>2, <2>1 DEF FileLine, Text
<1>. QED  BY <1>2, <1>3, <1>4

LEMMA ExpandedBodyType ==
  ASSUME NEW m \in Macros, NEW args \in Text
  PROVE  ExpandedBody(m, args) \in Text
<1>. DEFINE body == Body[m]
            text == IF HasKind(body, "arg")
                    THEN BeforeKind(body, "arg") \o args
                         \o SubSeq(body, FirstOf(body, "arg") + 1, Len(body))
                    ELSE body
<1>1. body \in Text
  BY ParserInputAssumption
<1>2. text \in Text
  <2>1. CASE HasKind(body, "arg")
    <3>1. FirstOf(body, "arg") \in 1 .. Len(body)
      BY <1>1, <2>1, FirstOfIndex
    <3>2. SubSeq(body, FirstOf(body, "arg") + 1, Len(body)) \in Text
      BY <1>1, <3>1 DEF Text
    <3>3. BeforeKind(body, "arg") \in Text
      BY <1>1, TextOps
    <3>4. BeforeKind(body, "arg") \o args \in Text
      BY <3>3 DEF Text
    <3>. QED  BY <2>1, <3>2, <3>4 DEF Text
  <2>2. CASE ~HasKind(body, "arg")
    BY <1>1, <2>2
  <2>. QED  BY <2>1, <2>2
<1>. HIDE DEF text
<1>3. text # <<>> => SubSeq(text, 1, Len(text) - 1) \in Text
  BY <1>2 DEF Text
<1>4. ExpandedBody(m, args) = IF text # <<>> /\ text[Len(text)].k = "nl"
                              THEN SubSeq(text, 1, Len(text) - 1) ELSE text
  BY DEF ExpandedBody, text
<1>. QED  BY <1>2, <1>3, <1>4

-----------------------------------------------------------------------------
(***************************************************************************)
(* The stack: which expansions are open on it, and what a push and a pop   *)
(* do to them.                                                             *)
(***************************************************************************)
MacroIdx(s) == {i \in DOMAIN s : s[i].macro_name # None}
ValueIdx(s) == {i \in DOMAIN s : s[i].value_flag # None}
Reads(s, m) == \E i \in DOMAIN s : s[i].source_info.macro = m

StackInv(s, macros, values) ==
  /\ \A i \in DOMAIN s :
       s[i].macro_name # None => /\ s[i].source_info.macro = s[i].macro_name
                                 /\ s[i].value_flag = None
  /\ macros = Cardinality(MacroIdx(s))
  /\ values = Cardinality(ValueIdx(s))
  /\ \A i, j \in MacroIdx(s) :
       i # j /\ s[i].macro_name = s[j].macro_name => s[i].macro_name \in RMacros
  /\ MaxNesting # 0 => macros <= MaxNesting /\ values <= MaxNesting

LEMMA OpenFinite ==
  ASSUME NEW s \in Seq(Frame)
  PROVE  /\ IsFiniteSet(MacroIdx(s)) /\ Cardinality(MacroIdx(s)) \in Nat
         /\ IsFiniteSet(ValueIdx(s)) /\ Cardinality(ValueIdx(s)) \in Nat
<1>1. IsFiniteSet(1 .. Len(s))
  BY FS_Interval
<1>2. MacroIdx(s) \in SUBSET (1 .. Len(s)) /\ ValueIdx(s) \in SUBSET (1 .. Len(s))
  BY DEF MacroIdx, ValueIdx
<1>3. IsFiniteSet(MacroIdx(s)) /\ IsFiniteSet(ValueIdx(s))
  BY <1>1, <1>2, FS_Subset
<1>. QED  BY <1>3, FS_CardinalityType

LEMMA OpenAppend ==
  ASSUME NEW s \in Seq(Frame), NEW f \in Frame
  PROVE  /\ MacroIdx(Append(s, f)) = IF f.macro_name = None THEN MacroIdx(s)
                                     ELSE MacroIdx(s) \cup {Len(s) + 1}
         /\ ValueIdx(Append(s, f)) = IF f.value_flag = None THEN ValueIdx(s)
                                     ELSE ValueIdx(s) \cup {Len(s) + 1}
         /\ Cardinality(MacroIdx(Append(s, f))) =
              Cardinality(MacroIdx(s)) + IF f.macro_name = None THEN 0 ELSE 1
         /\ Cardinality(ValueIdx(Append(s, f))) =
              Cardinality(ValueIdx(s)) + IF f.value_flag = None THEN 0 ELSE 1
<1>1. MacroIdx(Append(s, f)) = IF f.macro_name = None THEN MacroIdx(s)
                               ELSE MacroIdx(s) \cup {Len(s) + 1}
  BY DEF MacroIdx
<1>2. ValueIdx(Append(s, f)) = IF f.value_flag = None THEN ValueIdx(s)
                               ELSE ValueIdx(s) \cup {Len(s) + 1}
  BY DEF ValueIdx
<1>3. Len(s) + 1 \notin MacroIdx(s) /\ Len(s) + 1 \notin ValueIdx(s)
  BY DEF MacroIdx, ValueIdx
<1>4. Cardinality(MacroIdx(s) \cup {Len(s) + 1}) = Cardinality(MacroIdx(s)) + 1
  BY <1>3, OpenFinite, FS_AddElement
<1>5. Cardinality(ValueIdx(s) \cup {Len(s) + 1}) = Cardinality(ValueIdx(s)) + 1
  BY <1>3, OpenFinite, FS_AddElement
<1>. QED  BY <1>1, <1>2, <1>4, <1>5, OpenFinite

(* A frame that is no expansion changes nothing. *)
LEMMA PushPlain ==
  ASSUME NEW s \in Seq(Frame), NEW f \in Frame, NEW n, NEW v, StackInv(s, n, v),
         f.macro_name = None, f.value_flag = None
  PROVE  StackInv(Append(s, f), n, v)
<1>1. /\ MacroIdx(Append(s, f)) = MacroIdx(s)
      /\ ValueIdx(Append(s, f)) = ValueIdx(s)
  BY OpenAppend
<1>2. \A i \in MacroIdx(s) : i \in 1 .. Len(s) /\ Append(s, f)[i] = s[i]
  BY DEF MacroIdx
<1>3. \A i \in DOMAIN Append(s, f) :
        Append(s, f)[i].macro_name # None =>
          /\ Append(s, f)[i].source_info.macro = Append(s, f)[i].macro_name
          /\ Append(s, f)[i].value_flag = None
  BY DEF StackInv
<1>. QED  BY <1>1, <1>2, <1>3 DEF StackInv

LEMMA PushMacro ==
  ASSUME NEW s \in Seq(Frame), NEW f \in Frame, NEW n \in Nat, NEW v, StackInv(s, n, v),
         f.macro_name # None, f.value_flag = None, f.source_info.macro = f.macro_name,
         f.macro_name \notin RMacros => ~Reads(s, f.macro_name),
         MaxNesting # 0 => n + 1 <= MaxNesting
  PROVE  StackInv(Append(s, f), n + 1, v)
<1>1. /\ MacroIdx(Append(s, f)) = MacroIdx(s) \cup {Len(s) + 1}
      /\ ValueIdx(Append(s, f)) = ValueIdx(s)
      /\ Cardinality(MacroIdx(Append(s, f))) = n + 1
  BY OpenAppend DEF StackInv
<1>2. \A i \in MacroIdx(s) : i \in 1 .. Len(s) /\ Append(s, f)[i] = s[i]
  BY DEF MacroIdx
<1>3. Append(s, f)[Len(s) + 1] = f
  OBVIOUS
<1>4. \A i \in DOMAIN Append(s, f) :
        Append(s, f)[i].macro_name # None =>
          /\ Append(s, f)[i].source_info.macro = Append(s, f)[i].macro_name
          /\ Append(s, f)[i].value_flag = None
  BY DEF StackInv
<1>5. \A i \in MacroIdx(s) : s[i].macro_name = f.macro_name => f.macro_name \in RMacros
  BY DEF MacroIdx, Reads, StackInv
<1>6. \A i, j \in MacroIdx(Append(s, f)) :
        i # j /\ Append(s, f)[i].macro_name = Append(s, f)[j].macro_name
          => Append(s, f)[i].macro_name \in RMacros
  BY <1>1, <1>2, <1>3, <1>5 DEF StackInv
<1>. QED  BY <1>1, <1>4, <1>6 DEF StackInv

LEMMA PushValue ==
  ASSUME NEW s \in Seq(Frame), NEW f \in Frame, NEW n, NEW v \in Nat, StackInv(s, n, v),
         f.macro_name = None, f.value_flag # None, MaxNesting # 0 => v + 1 <= MaxNesting
  PROVE  StackInv(Append(s, f), n, v + 1)
<1>1. /\ MacroIdx(Append(s, f)) = MacroIdx(s)
      /\ Cardinality(ValueIdx(Append(s, f))) = v + 1
  BY OpenAppend DEF StackInv
<1>2. \A i \in MacroIdx(s) : i \in 1 .. Len(s) /\ Append(s, f)[i] = s[i]
  BY DEF MacroIdx
<1>3. \A i \in DOMAIN Append(s, f) :
        Append(s, f)[i].macro_name # None =>
          /\ Append(s, f)[i].source_info.macro = Append(s, f)[i].macro_name
          /\ Append(s, f)[i].value_flag = None
  BY DEF StackInv
<1>. QED  BY <1>1, <1>2, <1>3 DEF StackInv

LEMMA PopTop ==
  ASSUME NEW s \in Seq(Frame), s # <<>>, NEW n, NEW v, StackInv(s, n, v)
  PROVE  LET r == SubSeq(s, 1, Len(s) - 1)
             t == s[Len(s)]
         IN  /\ r \in Seq(Frame)
             /\ \A m : ~Reads(s, m) => ~Reads(r, m)
             /\ StackInv(r, IF t.value_flag = None /\ t.macro_name # None THEN n - 1 ELSE n,
                            IF t.value_flag # None THEN v - 1 ELSE v)
<1>. DEFINE r == SubSeq(s, 1, Len(s) - 1)
            t == s[Len(s)]
<1>1. r \in Seq(Frame) /\ t \in Frame /\ s = Append(r, t) /\ Len(s) = Len(r) + 1
      /\ \A i \in 1 .. Len(r) : r[i] = s[i]
  <2>1. Len(s) \in Nat /\ Len(s) > 0 /\ t \in Frame
    OBVIOUS
  <2>2. r \in Seq(Frame) /\ Len(r) = Len(s) - 1 /\ \A i \in 1 .. Len(r) : r[i] = s[i]
    BY <2>1
  <2>3. Append(r, t) \in Seq(Frame) /\ Len(Append(r, t)) = Len(s)
    BY <2>1, <2>2
  <2>4. \A i \in 1 .. Len(s) : Append(r, t)[i] = s[i]
    BY <2>1, <2>2
  <2>. HIDE DEF r, t
  <2>5. s = Append(r, t)
    BY <2>3, <2>4, SeqEqual
  <2>. QED  BY <2>1, <2>2, <2>5
<1>2. \A m : ~Reads(s, m) => ~Reads(r, m)
  BY <1>1 DEF Reads
<1>3. Len(s) \in DOMAIN s /\ (t.macro_name # None => t.value_flag = None)
  BY <1>1 DEF StackInv
<1>. HIDE DEF r, t
<1>4. /\ n = Cardinality(MacroIdx(r)) + IF t.macro_name = None THEN 0 ELSE 1
      /\ v = Cardinality(ValueIdx(r)) + IF t.value_flag = None THEN 0 ELSE 1
  BY <1>1, OpenAppend DEF StackInv
<1>5. Cardinality(MacroIdx(r)) \in Nat /\ Cardinality(ValueIdx(r)) \in Nat
  BY <1>1, OpenFinite
<1>6. /\ (IF t.value_flag = None /\ t.macro_name # None THEN n - 1 ELSE n)
           = Cardinality(MacroIdx(r))
      /\ (IF t.value_flag # None THEN v - 1 ELSE v) = Cardinality(ValueIdx(r))
  BY <1>3, <1>4, <1>5
<1>7. \A i \in DOMAIN r : i \in DOMAIN s /\ r[i] = s[i]
  BY <1>1
<1>8. MacroIdx(r) \subseteq MacroIdx(s) /\ \A i \in MacroIdx(r) : r[i] = s[i]
  BY <1>7 DEF MacroIdx
<1>9. MaxNesting # 0 => Cardinality(MacroIdx(r)) <= MaxNesting
                        /\ Cardinality(ValueIdx(r)) <= MaxNesting
  BY <1>4, <1>5, ParserInputAssumption DEF StackInv
<1>10. StackInv(r, Cardinality(MacroIdx(r)), Cardinality(ValueIdx(r)))
  BY <1>7, <1>8, <1>9 DEF StackInv
<1>. QED  BY <1>1, <1>2, <1>6, <1>10 DEF r, t

(* Reading a line from the frame on top leaves the expansions alone. *)
LEMMA ReadTop ==
  ASSUME NEW s \in Seq(Frame), s # <<>>, NEW f \in Frame, NEW n, NEW v, StackInv(s, n, v),
         f.macro_name = s[Len(s)].macro_name, f.value_flag = s[Len(s)].value_flag,
         f.source_info.macro = s[Len(s)].source_info.macro
  PROVE  LET r == [s EXCEPT ![Len(s)] = f]
         IN  /\ r \in Seq(Frame) /\ r # <<>>
             /\ \A m : ~Reads(s, m) => ~Reads(r, m)
             /\ StackInv(r, n, v)
<1>. DEFINE r == [s EXCEPT ![Len(s)] = f]
<1>1. /\ r \in Seq(Frame) /\ r # <<>> /\ DOMAIN r = DOMAIN s
      /\ \A i \in DOMAIN s : /\ r[i].macro_name = s[i].macro_name
                             /\ r[i].value_flag = s[i].value_flag
                             /\ r[i].source_info.macro = s[i].source_info.macro
  OBVIOUS
<1>. HIDE DEF r
<1>2. MacroIdx(r) = MacroIdx(s) /\ ValueIdx(r) = ValueIdx(s)
  BY <1>1 DEF MacroIdx, ValueIdx
<1>3. \A i \in MacroIdx(s) : r[i].macro_name = s[i].macro_name
  BY <1>1 DEF MacroIdx
<1>4. StackInv(r, n, v)
  BY <1>1, <1>2, <1>3 DEF StackInv
<1>. QED  BY <1>1, <1>4 DEF Reads, r

-----------------------------------------------------------------------------
(* The frames and marks that are built are well typed. *)

LEMMA NewMarkType ==
  ASSUME TypeOK, NEW t \in MarkTypes, NEW status \in MarkStatus
  PROVE  NewMark(t, status) \in SourceMark
<1>. DEFINE S == {i \in DOMAIN marks : marks[i].type = t /\ marks[i].status # "end"}
<1>1. marks \in Seq(SourceMark)
  BY DEF TypeOK
<1>2. IsFiniteSet(1 .. Len(marks)) /\ S \in SUBSET (1 .. Len(marks))
  BY <1>1, FS_Interval
<1>3. Cardinality(S) \in Nat
  BY <1>2, FS_Subset, FS_CardinalityType
<1>. QED  BY <1>3 DEF NewMark, SourceMark

(* f is a frame of text pushed on s for the expansion of m or of v, if any. *)
IsTextFrame(s, m, v, f) ==
  /\ f \in Frame
  /\ f.macro_name = m /\ f.value_flag = v
  /\ m # None => f.source_info.macro = m
  /\ m = None => f.source_info.macro = None \/ Reads(s, f.source_info.macro)

LEMMA TextFrameType ==
  ASSUME NEW s \in Seq(Frame), NEW text \in Text, NEW nr \in Int,
         NEW m \in Macros \cup {None}, NEW v \in Values \cup {None},
         NEW mark \in SourceMark \cup {None}
  PROVE  IsTextFrame(s, m, v, TextFrame(s, text, nr, m, v, mark))
<1>. DEFINE below == IF s = <<>> THEN [file |-> None, macro |-> None]
                     ELSE [file  |-> s[Len(s)].source_info.file,
                           macro |-> s[Len(s)].source_info.macro]
            in_macro == IF m # None THEN m ELSE below.macro
            line_nr == IF in_macro = None /\ v = None THEN nr - 1 ELSE nr
            f == [type |-> "IN_text", text |-> text,
                  source_info |-> [file |-> below.file, line_nr |-> line_nr,
                                   macro |-> in_macro],
                  value_flag |-> v, macro_name |-> m, mark |-> mark]
<1>1. /\ below.file \in FileNames /\ below.macro \in Macros \cup {None}
      /\ below.macro = None \/ Reads(s, below.macro)
  <2>1. CASE s = <<>>
    BY <2>1 DEF FileNames
  <2>2. CASE s # <<>>
    <3>1. Len(s) \in DOMAIN s /\ s[Len(s)] \in Frame
      BY <2>2
    <3>2. s[Len(s)].source_info \in SourceInfo
      BY <3>1 DEF Frame
    <3>. QED  BY <2>2, <3>1, <3>2 DEF SourceInfo, Reads
  <2>. QED  BY <2>1, <2>2
<1>2. TextFrame(s, text, nr, m, v, mark) = f
  BY DEF TextFrame
<1>. HIDE DEF below
<1>3. f \in Frame
  BY <1>1 DEF Frame, SourceInfo
<1>. QED  BY <1>1, <1>2, <1>3 DEF IsTextFrame

IsStack(r, n, v) == r \in Seq(Frame) /\ r # <<>> /\ StackInv(r, n, v)
ReadsNoMore(r, s) == \A m \in Macros : ~Reads(s, m) => ~Reads(r, m)

(* Text that is no expansion: the rest of a line, or a commented out line. *)
LEMMA PlainText ==
  ASSUME NEW s \in Seq(Frame), NEW text \in Text, NEW nr \in Int,
         NEW mark \in SourceMark \cup {None}, NEW n, NEW v, StackInv(s, n, v)
  PROVE  LET r == PushText(s, text, nr, None, None, mark)
         IN  IsStack(r, n, v) /\ ReadsNoMore(r, s)
<1>. DEFINE r == PushText(s, text, nr, None, None, mark)
            f == TextFrame(s, text, nr, None, None, mark)
<1>1. None \in Macros \cup {None} /\ None \in Values \cup {None}
  OBVIOUS
<1>0. r = Append(s, f)
  BY DEF PushText
<1>a. IsTextFrame(s, None, None, f)
  BY <1>1, TextFrameType
<1>. HIDE DEF r, f
<1>2. /\ f \in Frame
      /\ f.macro_name = None /\ f.value_flag = None
      /\ f.source_info.macro = None \/ Reads(s, f.source_info.macro)
  BY <1>1, <1>a DEF IsTextFrame
<1>3. r \in Seq(Frame) /\ r # <<>>
  BY <1>0, <1>2
<1>4. StackInv(r, n, v)
  BY <1>0, <1>2, PushPlain
<1>5. ASSUME NEW m \in Macros, ~Reads(s, m)
      PROVE  ~Reads(r, m)
  <2>1. f.source_info.macro # m
    BY <1>2, <1>5, ParserInputAssumption
  <2>2. Append(s, f)[Len(s) + 1] = f /\ \A i \in DOMAIN s : Append(s, f)[i] = s[i]
    OBVIOUS
  <2>3. \A i \in DOMAIN Append(s, f) : i \in DOMAIN s \/ i = Len(s) + 1
    BY <1>2
  <2>. QED  BY <1>0, <1>5, <2>1, <2>2, <2>3 DEF Reads
<1>. QED  BY <1>3, <1>4, <1>5 DEF r, IsStack, ReadsNoMore

LEMMA MacroText ==
  ASSUME NEW s \in Seq(Frame), NEW text \in Text, NEW nr \in Int, NEW m \in Macros,
         NEW mark \in SourceMark \cup {None}, NEW n \in Nat, NEW v, StackInv(s, n, v),
         m \notin RMacros => ~Reads(s, m),
         MaxNesting # 0 => n + 1 <= MaxNesting
  PROVE  LET r == PushText(s, text, nr, m, None, mark)
         IN  IsStack(r, n + 1, v)
<1>. DEFINE r == PushText(s, text, nr, m, None, mark)
            f == TextFrame(s, text, nr, m, None, mark)
<1>1. m \in Macros \cup {None} /\ None \in Values \cup {None} /\ m # None
  BY ParserInputAssumption
<1>0. r = Append(s, f)
  BY DEF PushText
<1>a. IsTextFrame(s, m, None, f)
  BY <1>1, TextFrameType
<1>. HIDE DEF r, f
<1>2. /\ f \in Frame
      /\ f.macro_name = m /\ f.value_flag = None
      /\ f.source_info.macro = m
  BY <1>1, <1>a DEF IsTextFrame
<1>3. r \in Seq(Frame) /\ r # <<>>
  BY <1>0, <1>2
<1>4. StackInv(Append(s, f), n + 1, v)
  BY <1>1, <1>2, PushMacro
<1>. QED  BY <1>0, <1>3, <1>4 DEF r, IsStack

LEMMA FlagText ==
  ASSUME NEW s \in Seq(Frame), NEW text \in Text, NEW nr \in Int, NEW flag \in Values,
         NEW mark \in SourceMark \cup {None}, NEW n, NEW v \in Nat, StackInv(s, n, v),
         MaxNesting # 0 => v + 1 <= MaxNesting
  PROVE  LET r == PushText(s, text, nr, None, flag, mark)
         IN  IsStack(r, n, v + 1)
<1>. DEFINE r == PushText(s, text, nr, None, flag, mark)
            f == TextFrame(s, text, nr, None, flag, mark)
<1>1. None \in Macros \cup {None} /\ flag \in Values \cup {None} /\ flag # None
  BY ParserInputAssumption
<1>0. r = Append(s, f)
  BY DEF PushText
<1>a. IsTextFrame(s, None, flag, f)
  BY <1>1, TextFrameType
<1>. HIDE DEF r, f
<1>2. /\ f \in Frame
      /\ f.macro_name = None /\ f.value_flag = flag
  BY <1>1, <1>a DEF IsTextFrame
<1>3. r \in Seq(Frame) /\ r # <<>>
  BY <1>0, <1>2
<1>4. StackInv(Append(s, f), n, v + 1)
  BY <1>1, <1>2, PushValue
<1>. QED  BY <1>0, <1>3, <1>4 DEF r, IsStack

LEMMA OpenedFile ==
  ASSUME NEW s \in Seq(Frame), NEW text \in Text, NEW file \in FileNames,
         NEW mark \in SourceMark \cup {None}, NEW n, NEW v, StackInv(s, n, v)
  PROVE  LET r == PushFile(s, text, file, mark)
         IN  IsStack(r, n, v)
<1>. DEFINE f == [type |-> "IN_file", text |-> text,
                  source_info |-> [file |-> file, line_nr |-> 0, macro |-> None],
                  value_flag |-> None, macro_name |-> None, mark |-> mark]
<1>1. f \in Frame /\ f.macro_name = None /\ f.value_flag = None
  BY DEF Frame, SourceInfo
<1>2. PushFile(s, text, file, mark) = Append(s, f)
  BY DEF PushFile
<1>. HIDE DEF f
<1>3. StackInv(Append(s, f), n, v)
  BY <1>1, PushPlain
<1>. QED  BY <1>1, <1>2, <1>3 DEF IsStack

LEMMA TokenNames ==
  ASSUME NEW t \in Token
  PROVE  /\ t.k = "call" => t.n \in Macros
         /\ t.k = "value" => t.n \in Values
         /\ t.k = "include" => t.n \in Files
BY DEF Token

LEMMA CommandTypes ==
  ASSUME NEW cs \in Seq(LineCommand)
  PROVE  /\ NameSpoilt(cs) \in Seq(LineCommand)
         /\ Len(NameSpoilt(cs)) = Len(cs)
         /\ cs # <<>> => cs[Len(cs)] \in LineCommand /\ Outer(cs) \in Seq(LineCommand)
<1>1. ASSUME cs # <<>>
      PROVE  /\ Len(cs) \in DOMAIN cs /\ cs[Len(cs)] \in LineCommand
             /\ Outer(cs) \in Seq(LineCommand)
  BY <1>1 DEF Outer
<1>2. ASSUME cs # <<>>
      PROVE  [cs[Len(cs)] EXCEPT !.file = None] \in LineCommand
  BY <1>1, <1>2 DEF LineCommand
<1>3. NameSpoilt(cs) \in Seq(LineCommand) /\ Len(NameSpoilt(cs)) = Len(cs)
  BY <1>1, <1>2 DEF NameSpoilt
<1>. QED  BY <1>1, <1>3

-----------------------------------------------------------------------------
(***************************************************************************)
(* The inductive invariant.  The three properties of the stack need the    *)
(* frames to agree with the counters and, while the argument of a call is  *)
(* read, the tests made on entering the call to hold still.                *)
(***************************************************************************)
ReadingArgument == pc = "line_arg" \/ (pc = "next_text" /\ ret = "line_arg")

CallControl ==
  /\ ReadingArgument => call.name \in Macros
  /\ ~ReadingArgument => call = NoCall
  /\ pc = "end_line" => ret \in {"newline", "bye_line"}

StacksAgree == StackInv(input_stack, macro_expansion_nr - PendingCalls, value_expansion_nr)

IInv == TypeOK /\ LineHasFrame /\ CallControl /\ PendingCallAllowed /\ StacksAgree

LEMMA InitIInv == Init => IInv
<1>. SUFFICES ASSUME NEW text \in MainTexts,
                     ParseFile(text) \/ ParseText(text) \/ ParsePiece(text)
              PROVE  IInv
  BY DEF Init
<1>1. text \in Text
  BY ParserInputAssumption
<1>2. StackInv(<<>>, 0, 0)
  <2>1. MacroIdx(<<>>) = {} /\ ValueIdx(<<>>) = {}
    BY DEF MacroIdx, ValueIdx
  <2>2. Cardinality({}) = 0
    BY FS_EmptySet
  <2>3. MaxNesting \in Nat
    BY ParserInputAssumption
  <2>4. 0 = Cardinality(MacroIdx(<<>>)) /\ 0 = Cardinality(ValueIdx(<<>>))
    BY <2>1, <2>2
  <2>5. \A i \in DOMAIN <<>> : FALSE
    OBVIOUS
  <2>. QED  BY <2>1, <2>3, <2>4, <2>5 DEF StackInv
<1>3. PICK stack : \E caller \in {"preamble", "newline"} :
        /\ Start(stack, caller)
        /\ \/ stack = PushFile(<<>>, text, MainFile, None)
           \/ stack = PushText(<<>>, text, 1, None, None, None)
  <2>1. CASE ParseFile(text)
    BY <2>1 DEF ParseFile
  <2>2. CASE ParseText(text)
    BY <2>2 DEF ParseText
  <2>3. CASE ParsePiece(text)
    BY <2>3 DEF ParsePiece
  <2>. QED  BY <2>1, <2>2, <2>3
<1>4. stack \in Seq(Frame) /\ stack # <<>> /\ StackInv(stack, 0, 0)
  <2>1. /\ <<>> \in Seq(Frame) /\ None \in SourceMark \cup {None} /\ MainFile \in FileNames
        /\ 1 \in Int
    BY DEF FileNames
  <2>2. IsStack(PushFile(<<>>, text, MainFile, None), 0, 0)
    BY <1>1, <1>2, <2>1, OpenedFile
  <2>3. IsStack(PushText(<<>>, text, 1, None, None, None), 0, 0)
    BY <1>1, <1>2, <2>1, PlainText, Zenon
  <2>. QED  BY <1>3, <2>2, <2>3 DEF IsStack
<1>5. TypeOK
  <2>1. <<>> \in Text /\ <<>> \in Seq(Text) /\ <<>> \in Seq(SourceMark) /\ <<>> \in Seq(Token)
        /\ <<>> \in Seq(LineCommand)
    BY DEF Text
  <2>2. [file |-> None, line_nr |-> 0, macro |-> None] \in SourceInfo
    BY DEF SourceInfo, FileNames
  <2>3. PICK caller \in {"preamble", "newline"} : Start(stack, caller)
    BY <1>3
  <2>4. call \in [name : Macros \cup {None}, error : BOOLEAN] /\ setfilename \subseteq FileNames
    BY <2>3 DEF Start, NoCall
  <2>5. /\ input_stack \in Seq(Frame) /\ current_source_info \in SourceInfo
        /\ macro_expansion_nr \in Int /\ value_expansion_nr \in Int
    BY <1>4, <2>2, <2>3 DEF Start
  <2>6. /\ pushback \in Seq(Text) /\ line \in Text /\ marks \in Seq(SourceMark)
        /\ out \in Seq(Token) /\ line_commands \in Seq(LineCommand)
    BY <2>1, <2>3, Zenon DEF Start
  <2>7. /\ eof \in BOOLEAN
        /\ ret \in Callers /\ pc = "next_text"
    BY <2>3 DEF Start, Callers
  <2>. QED  BY <2>4, <2>5, <2>6, <2>7 DEF TypeOK
<1>6. LineHasFrame /\ CallControl /\ PendingCallAllowed
  BY <1>3, <1>4 DEF Start, LineHasFrame, CallControl, ReadingArgument, PendingCallAllowed
<1>7. StacksAgree
  BY <1>3, <1>4 DEF Start, StacksAgree, PendingCalls
<1>. QED  BY <1>5, <1>6, <1>7 DEF IInv

(* Steps that leave the stack, its counters and the pending call alone.    *)
LEMMA Quiet ==
  ASSUME IInv, UNCHANGED <<input_stack, macro_expansion_nr, value_expansion_nr, call>>
  PROVE  PendingCallAllowed' /\ StacksAgree'
BY DEF IInv, PendingCallAllowed, StacksAgree, ExpandingMacro, PendingCalls

LEMMA ReturnStep ==
  ASSUME IInv, NextTextPushback \/ NextTextEnd
  PROVE  IInv'
<1>1. TypeOK'
  <2>1. CASE NextTextPushback
    <3>1. pushback[1] \in Text /\ <<>> \in Seq(Text)
      BY <2>1 DEF NextTextPushback, IInv, TypeOK
    <3>. QED  BY <2>1, <3>1 DEF NextTextPushback, Return, IInv, TypeOK
  <2>2. CASE NextTextEnd
    <3>1. <<>> \in Text
      BY DEF Text
    <3>. QED  BY <2>2, <3>1 DEF NextTextEnd, input_vars, IInv, TypeOK
  <2>. QED  BY <2>1, <2>2
<1>2. LineHasFrame' /\ CallControl'
  BY DEF NextTextPushback, NextTextEnd, Return, input_vars, IInv, LineHasFrame,
         CallControl, ReadingArgument, TypeOK, Callers
<1>3. PendingCallAllowed' /\ StacksAgree'
  BY Quiet DEF NextTextPushback, NextTextEnd, input_vars
<1>. QED  BY <1>1, <1>2, <1>3 DEF IInv

(* Steps of the callers that only look at the line. *)
LEMMA LineStep ==
  ASSUME IInv,
         \/ OutOfInput \/ NewLine \/ EmptyText \/ LineArgMore \/ NoMoreLine \/ EndOfLine
         \/ Word \/ Include \/ Bye \/ LineEnded \/ ByeLine \/ GatherAfterBye \/ AfterByeEnd
  PROVE  IInv'
<1>1. TypeOK'
  <2>1. CASE OutOfInput \/ NewLine \/ EmptyText \/ LineArgMore \/ NoMoreLine \/ LineEnded
             \/ ByeLine \/ GatherAfterBye \/ AfterByeEnd
    BY <2>1 DEF OutOfInput, NewLine, EmptyText, LineArgMore, NoMoreLine, LineEnded, ByeLine,
                GatherAfterBye, AfterByeEnd, EndLine, CallNextText, input_vars, Callers, IInv,
                TypeOK
  <2>2. CASE EndOfLine \/ Word \/ Include \/ Bye
    <3>1. line \in Text /\ line # <<>> /\ line_commands \in Seq(LineCommand)
      BY <2>2 DEF EndOfLine, Word, Include, Bye, At, IInv, TypeOK
    <3>2. line[1] \in Token /\ Tail(line) \in Text
      BY <3>1 DEF Text
    <3>3. Include => Append(line_commands, [cmd |-> "include", file |-> line[1].n])
                       \in Seq(LineCommand)
      BY <3>1, <3>2, TokenNames DEF Include, At, LineCommand
    <3>4. CASE Word
      BY <3>1, <3>2, <3>4, CommandTypes DEF Word, input_vars, IInv, TypeOK
    <3>5. CASE Include
      BY <3>2, <3>3, <3>5 DEF Include, input_vars, IInv, TypeOK
    <3>6. CASE EndOfLine \/ Bye
      BY <3>2, <3>6 DEF EndOfLine, Bye, EndLine, Callers, input_vars, IInv, TypeOK
    <3>. QED  BY <2>2, <3>4, <3>5, <3>6
  <2>. QED  BY <2>1, <2>2
<1>2. LineHasFrame' /\ CallControl'
  <2>1. CASE OutOfInput \/ NewLine \/ EmptyText \/ LineArgMore \/ Word \/ Include
    BY <2>1 DEF OutOfInput, NewLine, EmptyText, LineArgMore, Word, Include, At, CallNextText,
                input_vars, IInv, LineHasFrame, CallControl, ReadingArgument
  <2>2. CASE NoMoreLine \/ EndOfLine \/ Bye \/ LineEnded
    BY <2>2 DEF NoMoreLine, EndOfLine, Bye, LineEnded, At, EndLine, CallNextText, input_vars,
                IInv, LineHasFrame, CallControl, ReadingArgument
  <2>3. CASE ByeLine \/ GatherAfterBye \/ AfterByeEnd
    BY <2>3 DEF ByeLine, GatherAfterBye, AfterByeEnd, CallNextText, input_vars, IInv,
                LineHasFrame, CallControl, ReadingArgument
  <2>. QED  BY <2>1, <2>2, <2>3
<1>3. PendingCallAllowed' /\ StacksAgree'
  BY Quiet DEF OutOfInput, NewLine, EmptyText, LineArgMore, NoMoreLine, EndOfLine, Word,
               Include, Bye, LineEnded, ByeLine, GatherAfterBye, AfterByeEnd, input_vars
<1>. QED  BY <1>1, <1>2, <1>3 DEF IInv

LEMMA PreambleStep ==
  ASSUME IInv, Preamble
  PROVE  IInv'
<1>1. TypeOK'
  BY DEF Preamble, CallNextText, Callers, IInv, TypeOK
<1>2. LineHasFrame' /\ CallControl'
  BY DEF Preamble, CallNextText, IInv, LineHasFrame, CallControl, ReadingArgument
<1>3. PendingCallAllowed' /\ StacksAgree'
  BY Quiet DEF Preamble
<1>. QED  BY <1>1, <1>2, <1>3 DEF IInv

LEMMA SetfilenameStep ==
  ASSUME IInv, Setfilename
  PROVE  IInv'
<1>1. TypeOK'
  <2>1. /\ line \in Text /\ line # <<>> /\ current_source_info.file \in FileNames
        /\ setfilename \subseteq FileNames /\ line_commands \in Seq(LineCommand)
    BY DEF Setfilename, At, IInv, TypeOK, SourceInfo
  <2>2. Tail(line) \in Text
    BY <2>1 DEF Text
  <2>3. line_commands' \in Seq(LineCommand)
    BY <2>1 DEF Setfilename, LineCommand
  <2>4. setfilename' \subseteq FileNames
    BY <2>1 DEF Setfilename
  <2>. QED  BY <2>2, <2>3, <2>4 DEF Setfilename, At, input_vars, IInv, TypeOK
<1>2. LineHasFrame' /\ CallControl'
  BY DEF Setfilename, At, input_vars, IInv, LineHasFrame, CallControl, ReadingArgument
<1>3. PendingCallAllowed' /\ StacksAgree'
  BY Quiet DEF Setfilename, input_vars
<1>. QED  BY <1>1, <1>2, <1>3 DEF IInv

-----------------------------------------------------------------------------
(* Steps that change the stack. *)

(* The stack as the lemmas on pushes and pops take it. *)
LEMMA StackFacts ==
  ASSUME IInv
  PROVE  /\ input_stack \in Seq(Frame)
         /\ StackInv(input_stack, macro_expansion_nr - PendingCalls, value_expansion_nr)
         /\ macro_expansion_nr - PendingCalls \in Nat /\ value_expansion_nr \in Nat
         /\ current_source_info.line_nr \in Int
<1>1. input_stack \in Seq(Frame)
  BY DEF IInv, TypeOK
<1>2. StackInv(input_stack, macro_expansion_nr - PendingCalls, value_expansion_nr)
  BY DEF IInv, StacksAgree
<1>3. current_source_info.line_nr \in Int
  BY DEF IInv, TypeOK, SourceInfo
<1>. QED  BY <1>1, <1>2, <1>3, OpenFinite DEF StackInv

LEMMA TopType ==
  ASSUME IInv, input_stack # <<>>
  PROVE  /\ Top \in Frame
         /\ Top.text \in Text /\ Top.source_info \in SourceInfo
         /\ Top.mark \in SourceMark \cup {None}
<1>1. input_stack \in Seq(Frame)
  BY DEF IInv, TypeOK
<1>2. Top \in Frame
  BY <1>1 DEF Top
<1>. QED  BY <1>2 DEF Frame

(* The tests made for a pending call hold as long as no expansion is added. *)
LEMMA KeepPending ==
  ASSUME IInv, call' = call, ReadsNoMore(input_stack', input_stack),
         macro_expansion_nr' \in Int, macro_expansion_nr' <= macro_expansion_nr
  PROVE  PendingCallAllowed'
<1>. SUFFICES ASSUME call # NoCall, ~call.error
              PROVE  /\ call.name \notin RMacros => ~Reads(input_stack', call.name)
                     /\ MaxNesting # 0 => macro_expansion_nr' <= MaxNesting
  BY DEF PendingCallAllowed, ExpandingMacro, Reads
<1>1. call.name \in Macros
  BY DEF IInv, CallControl
<1>2. /\ call.name \notin RMacros => ~Reads(input_stack, call.name)
      /\ MaxNesting # 0 => macro_expansion_nr <= MaxNesting
  BY DEF IInv, PendingCallAllowed, ExpandingMacro, Reads
<1>3. macro_expansion_nr \in Int /\ MaxNesting \in Nat
  BY ParserInputAssumption DEF IInv, TypeOK
<1>. QED  BY <1>1, <1>2, <1>3 DEF ReadsNoMore

(* Reading a line from the frame on top, for any new text and line number. *)
LEMMA SetTopResult ==
  ASSUME IInv, input_stack # <<>>, NEW text \in Text, NEW nr \in Int
  PROVE  LET info == [Top.source_info EXCEPT !.line_nr = nr]
             r == SetTop([Top EXCEPT !.text = text, !.source_info = info])
         IN  /\ info \in SourceInfo
             /\ IsStack(r, macro_expansion_nr - PendingCalls, value_expansion_nr)
             /\ ReadsNoMore(r, input_stack)
<1>. DEFINE info == [Top.source_info EXCEPT !.line_nr = nr]
            f == [Top EXCEPT !.text = text, !.source_info = info]
<1>1. info \in SourceInfo /\ info.macro = Top.source_info.macro
  BY TopType DEF SourceInfo
<1>2. /\ f \in Frame
      /\ f.macro_name = Top.macro_name /\ f.value_flag = Top.value_flag
      /\ f.source_info = info
  BY TopType, <1>1 DEF Frame
<1>. HIDE DEF info, f
<1>3. /\ f.macro_name = input_stack[Len(input_stack)].macro_name
      /\ f.value_flag = input_stack[Len(input_stack)].value_flag
      /\ f.source_info.macro = input_stack[Len(input_stack)].source_info.macro
  BY <1>1, <1>2 DEF Top
<1>. DEFINE n == macro_expansion_nr - PendingCalls
<1>. HIDE DEF n
<1>4. input_stack \in Seq(Frame) /\ StackInv(input_stack, n, value_expansion_nr)
  BY StackFacts DEF n
<1>5. LET r == [input_stack EXCEPT ![Len(input_stack)] = f]
      IN  /\ r \in Seq(Frame) /\ r # <<>>
          /\ \A m : ~Reads(input_stack, m) => ~Reads(r, m)
          /\ StackInv(r, n, value_expansion_nr)
  BY <1>2, <1>3, <1>4, ReadTop
<1>. QED  BY <1>1, <1>5 DEF SetTop, IsStack, ReadsNoMore, info, f, n

LEMMA NextTextLineStep ==
  ASSUME IInv, NextTextLine
  PROVE  IInv'
<1>. DEFINE counted == Top.source_info.macro = None /\ Top.value_flag = None
            nr == IF counted THEN Top.source_info.line_nr + 1 ELSE Top.source_info.line_nr
            info == [Top.source_info EXCEPT !.line_nr = nr]
            r == SetTop([Top EXCEPT !.text = AfterLine(Top.text), !.source_info = info])
<1>1. input_stack # <<>>
  BY DEF NextTextLine
<1>2. AfterLine(Top.text) \in Text /\ FirstLine(Top.text) \in Text /\ nr \in Int
  <2>1. Top.text \in Text /\ Top.source_info.line_nr \in Int
    BY <1>1, TopType DEF SourceInfo
  <2>2. AfterLine(Top.text) \in Text /\ FirstLine(Top.text) \in Text
    BY <2>1, TextOps
  <2>. QED  BY <2>1, <2>2
<1>3. input_stack' = r /\ current_source_info' = info /\ line' = FirstLine(Top.text)
  BY DEF NextTextLine, Return
<1>. HIDE DEF nr
<1>4. /\ info \in SourceInfo
      /\ IsStack(r, macro_expansion_nr - PendingCalls, value_expansion_nr)
      /\ ReadsNoMore(r, input_stack)
  BY <1>1, <1>2, SetTopResult
<1>. HIDE DEF info, r
<1>5. TypeOK'
  BY <1>2, <1>3, <1>4 DEF NextTextLine, Return, IInv, TypeOK, IsStack
<1>6. LineHasFrame'
  BY <1>3, <1>4 DEF LineHasFrame, IsStack
<1>7. CallControl'
  BY DEF NextTextLine, Return, IInv, CallControl, ReadingArgument, TypeOK, Callers
<1>8. PendingCallAllowed'
  BY <1>3, <1>4, KeepPending DEF NextTextLine, IInv, TypeOK
<1>9. StacksAgree'
  BY <1>3, <1>4 DEF NextTextLine, StacksAgree, PendingCalls, IsStack
<1>. QED  BY <1>5, <1>6, <1>7, <1>8, <1>9 DEF IInv

LEMMA NextTextFileLineStep ==
  ASSUME IInv, NextTextFileLine
  PROVE  IInv'
<1>. DEFINE read == FileLine(Top.text)
            nr == Top.source_info.line_nr + 1
            info == [Top.source_info EXCEPT !.line_nr = nr]
            file == SetTop([Top EXCEPT !.text = AfterLine(Top.text), !.source_info = info])
            mark == [type |-> "delcomment", counter |-> 0, status |-> "none"]
            comment == PushText(file, <<>>, Top.source_info.line_nr, None, None, mark)
            n == macro_expansion_nr - PendingCalls
<1>1. input_stack # <<>>
  BY DEF NextTextFileLine
<1>2. /\ AfterLine(Top.text) \in Text /\ BeforeKind(read, "del") \in Text /\ nr \in Int
      /\ Top.source_info.line_nr \in Int
  <2>1. Top.text \in Text /\ Top.source_info.line_nr \in Int
    BY <1>1, TopType DEF SourceInfo
  <2>2. AfterLine(Top.text) \in Text /\ read \in Text
    BY <2>1, TextOps
  <2>. HIDE DEF read
  <2>3. BeforeKind(read, "del") \in Text
    BY <2>2, TextOps
  <2>. QED  BY <2>1, <2>2, <2>3
<1>3. /\ input_stack' = IF HasKind(read, "del") THEN comment ELSE file
      /\ current_source_info' = info /\ line' = BeforeKind(read, "del")
  BY DEF NextTextFileLine, Return
<1>. HIDE DEF nr, read
<1>4. info \in SourceInfo /\ IsStack(file, n, value_expansion_nr)
      /\ ReadsNoMore(file, input_stack)
  BY <1>1, <1>2, SetTopResult
<1>. HIDE DEF info, file, n
<1>5. IsStack(comment, n, value_expansion_nr) /\ ReadsNoMore(comment, file)
  <2>1. mark \in SourceMark \cup {None} /\ <<>> \in Text
    BY DEF SourceMark, MarkTypes, MarkStatus, Text
  <2>2. file \in Seq(Frame) /\ StackInv(file, n, value_expansion_nr)
    BY <1>4 DEF IsStack
  <2>. QED  BY <1>2, <2>1, <2>2, PlainText
<1>6. ReadsNoMore(comment, input_stack)
  BY <1>4, <1>5 DEF ReadsNoMore
<1>. HIDE DEF comment
<1>7. IsStack(input_stack', n, value_expansion_nr) /\ ReadsNoMore(input_stack', input_stack)
  BY <1>3, <1>4, <1>5, <1>6
<1>8. TypeOK'
  BY <1>2, <1>3, <1>4, <1>7 DEF NextTextFileLine, Return, IInv, TypeOK, IsStack
<1>9. LineHasFrame'
  BY <1>7 DEF LineHasFrame, IsStack
<1>10. CallControl'
  BY DEF NextTextFileLine, Return, IInv, CallControl, ReadingArgument, TypeOK, Callers
<1>11. PendingCallAllowed'
  BY <1>7, KeepPending DEF NextTextFileLine, IInv, TypeOK
<1>12. StacksAgree'
  BY <1>7 DEF NextTextFileLine, StacksAgree, PendingCalls, IsStack, n
<1>. QED  BY <1>8, <1>9, <1>10, <1>11, <1>12 DEF IInv

LEMMA NextTextPopStep ==
  ASSUME IInv, NextTextPop
  PROVE  IInv'
<1>. DEFINE n == macro_expansion_nr - PendingCalls
            v == value_expansion_nr
            s == input_stack
            t == s[Len(s)]
<1>1. s \in Seq(Frame) /\ s # <<>> /\ StackInv(s, n, v) /\ t = Top
  BY StackFacts DEF NextTextPop, Top
<1>. HIDE DEF n
<1>2. LET r == SubSeq(s, 1, Len(s) - 1)
      IN  /\ r \in Seq(Frame)
          /\ \A m : ~Reads(s, m) => ~Reads(r, m)
          /\ StackInv(r, IF t.value_flag = None /\ t.macro_name # None THEN n - 1 ELSE n,
                         IF t.value_flag # None THEN v - 1 ELSE v)
  BY <1>1, PopTop
<1>3. input_stack' = SubSeq(s, 1, Len(s) - 1)
  BY DEF NextTextPop
<1>4. /\ macro_expansion_nr \in Int /\ value_expansion_nr \in Int /\ PendingCalls \in Int
      /\ PendingCalls' = PendingCalls
  BY DEF NextTextPop, IInv, TypeOK, PendingCalls
<1>5. /\ (IF t.value_flag = None /\ t.macro_name # None THEN n - 1 ELSE n)
           = macro_expansion_nr' - PendingCalls'
      /\ (IF t.value_flag # None THEN v - 1 ELSE v) = value_expansion_nr'
      /\ macro_expansion_nr' \in Int /\ macro_expansion_nr' <= macro_expansion_nr
      /\ value_expansion_nr' \in Int
  BY <1>1, <1>4 DEF NextTextPop, ValueEnds, MacroEnds, n
<1>6. marks' \in Seq(SourceMark)
  <2>1. marks \in Seq(SourceMark) /\ Top.mark \in SourceMark \cup {None}
    BY <1>1, TopType DEF IInv, TypeOK
  <2>2. NewMark("delcomment", "none") \in SourceMark
    BY NewMarkType DEF MarkTypes, MarkStatus, IInv
  <2>3. Top.mark # None => [Top.mark EXCEPT !.status = "end"] \in SourceMark
    BY <2>1 DEF SourceMark, MarkStatus
  <2>. QED  BY <2>1, <2>2, <2>3 DEF NextTextPop
<1>7. TypeOK'
  BY <1>2, <1>3, <1>5, <1>6 DEF NextTextPop, IInv, TypeOK
<1>8. LineHasFrame' /\ CallControl'
  BY DEF NextTextPop, IInv, LineHasFrame, CallControl, ReadingArgument
<1>9. PendingCallAllowed'
  <2>1. ReadsNoMore(input_stack', input_stack) /\ call' = call
    BY <1>2, <1>3 DEF ReadsNoMore, NextTextPop
  <2>. QED  BY <2>1, <1>5, KeepPending
<1>10. StacksAgree'
  BY <1>2, <1>3, <1>5 DEF StacksAgree
<1>. QED  BY <1>7, <1>8, <1>9, <1>10 DEF IInv

LEMMA LineDirectiveStep ==
  ASSUME IInv, LineDirective
  PROVE  IInv'
<1>. DEFINE r == SetTop([Top EXCEPT !.source_info.line_nr = HashLine])
            info == [Top.source_info EXCEPT !.line_nr = HashLine]
            q == SetTop([Top EXCEPT !.text = Top.text, !.source_info = info])
<1>1. input_stack # <<>>
  BY DEF LineDirective, IInv, LineHasFrame
<1>2. r = q
  BY <1>1, TopType DEF Frame, SourceInfo
<1>3. IsStack(q, macro_expansion_nr - PendingCalls, value_expansion_nr)
      /\ ReadsNoMore(q, input_stack)
  <2>1. Top.text \in Text /\ HashLine \in Int
    BY <1>1, TopType, ParserInputAssumption
  <2>. QED  BY <1>1, <2>1, SetTopResult
<1>4. input_stack' = r
  BY DEF LineDirective
<1>. HIDE DEF r, q
<1>5. NewMark("line_directive", "none") \in SourceMark
  BY NewMarkType DEF MarkTypes, MarkStatus, IInv
<1>6. TypeOK'
  BY <1>2, <1>3, <1>4, <1>5
     DEF LineDirective, CallNextText, Callers, IInv, TypeOK, IsStack
<1>7. LineHasFrame' /\ CallControl'
  BY <1>2, <1>3, <1>4
     DEF LineDirective, CallNextText, IInv, LineHasFrame, CallControl, ReadingArgument, IsStack
<1>8. PendingCallAllowed'
  BY <1>2, <1>3, <1>4, KeepPending DEF LineDirective, IInv, TypeOK
<1>9. StacksAgree'
  BY <1>2, <1>3, <1>4 DEF LineDirective, StacksAgree, PendingCalls, IsStack
<1>. QED  BY <1>6, <1>7, <1>8, <1>9 DEF IInv

(* What EndCommand pushes and registers. *)
FileFrame(c) ==
  [type |-> "IN_file", text |-> FileText[c.file],
   source_info |-> [file |-> c.file, line_nr |-> 0, macro |-> None],
   value_flag |-> None, macro_name |-> None, mark |-> NewMark("include", "start")]

LEMMA CommandEnded ==
  ASSUME IInv, EndCommand
  PROVE  /\ pc = "end_line" /\ call = NoCall
         /\ line_commands \in Seq(LineCommand) /\ line_commands # <<>>
         /\ Innermost \in LineCommand /\ Outer(line_commands) \in Seq(LineCommand)
         /\ line_commands' = IF Removed(Innermost) THEN Outer(line_commands)
                             ELSE NameSpoilt(Outer(line_commands))
         /\ UNCHANGED <<macro_expansion_nr, value_expansion_nr, current_source_info,
                        pushback, line, eof, pc, ret, call, out, setfilename>>
         /\ \/ /\ Included(Innermost) /\ Innermost.file \in Files
               /\ FileText[Innermost.file] \in Text
               /\ FileFrame(Innermost) \in Frame
               /\ NewMark("include", "start") \in SourceMark
               /\ input_stack' = Append(input_stack, FileFrame(Innermost))
               /\ marks' = Append(marks, NewMark("include", "start"))
            \/ /\ ~Included(Innermost) /\ input_stack' = input_stack
               /\ NewMark("setfilename", "none") \in SourceMark
               /\ marks' = marks \/ marks' = Append(marks, NewMark("setfilename", "none"))
<1>. DEFINE c == Innermost
<1>1. /\ pc = "end_line" /\ call = NoCall
      /\ line_commands \in Seq(LineCommand) /\ line_commands # <<>>
  BY DEF EndCommand, IInv, TypeOK, CallControl, ReadingArgument
<1>2. c \in LineCommand /\ Outer(line_commands) \in Seq(LineCommand)
  BY <1>1, CommandTypes DEF Innermost
<1>3. NewMark("include", "start") \in SourceMark /\ NewMark("setfilename", "none") \in SourceMark
  BY NewMarkType DEF MarkTypes, MarkStatus, IInv
<1>. DEFINE mark == IF c.cmd = "include" THEN NewMark("include", "start")
                    ELSE NewMark("setfilename", "none")
<1>4. /\ marks' = IF Removed(c) THEN Append(marks, mark) ELSE marks
      /\ input_stack' = IF Included(c) THEN PushFile(input_stack, FileText[c.file], c.file, mark)
                        ELSE input_stack
      /\ line_commands' = IF Removed(c) THEN Outer(line_commands)
                          ELSE NameSpoilt(Outer(line_commands))
      /\ UNCHANGED <<macro_expansion_nr, value_expansion_nr, current_source_info,
                     pushback, line, eof, pc, ret, call, out, setfilename>>
  BY DEF EndCommand
<1>. HIDE DEF c
<1>5. CASE Included(c)
  <2>1. c.cmd = "include" /\ c.file \in Files /\ FileText[c.file] \in Text
        /\ c.file \in FileNames
    BY <1>5, ParserInputAssumption DEF Included, FileNames
  <2>2. FileFrame(c) \in Frame
    BY <1>3, <2>1 DEF FileFrame, Frame, SourceInfo
  <2>3. input_stack' = Append(input_stack, FileFrame(c))
        /\ marks' = Append(marks, NewMark("include", "start"))
    BY <1>4, <1>5, <2>1 DEF Removed, PushFile, FileFrame
  <2>. QED  BY <1>1, <1>2, <1>3, <1>4, <1>5, <2>1, <2>2, <2>3 DEF c
<1>6. CASE ~Included(c)
  <2>1. marks' = marks \/ marks' = Append(marks, NewMark("setfilename", "none"))
    BY <1>4, <1>6 DEF Removed
  <2>. QED  BY <1>1, <1>2, <1>3, <1>4, <1>6, <2>1 DEF c
<1>. QED  BY <1>5, <1>6

LEMMA EndCommandStep ==
  ASSUME IInv, EndCommand
  PROVE  IInv'
<1>1. line_commands' \in Seq(LineCommand)
  BY CommandEnded, CommandTypes
<1>2. marks' \in Seq(SourceMark)
  <2>1. marks \in Seq(SourceMark)
    BY DEF IInv, TypeOK
  <2>2. PICK m \in SourceMark : marks' = marks \/ marks' = Append(marks, m)
    BY CommandEnded, Zenon
  <2>. QED  BY <2>1, <2>2
<1>3. \/ IsStack(input_stack', macro_expansion_nr - PendingCalls, value_expansion_nr)
      \/ UNCHANGED input_stack
  <2>. DEFINE n == macro_expansion_nr - PendingCalls
  <2>1. input_stack \in Seq(Frame) /\ StackInv(input_stack, n, value_expansion_nr)
    BY StackFacts
  <2>. HIDE DEF n
  <2>2. CASE Included(Innermost)
    <3>. DEFINE f == FileFrame(Innermost)
    <3>1. f \in Frame /\ f.macro_name = None /\ f.value_flag = None
          /\ input_stack' = Append(input_stack, f)
      BY <2>2, CommandEnded DEF FileFrame
    <3>. HIDE DEF f
    <3>2. StackInv(Append(input_stack, f), n, value_expansion_nr)
      BY <2>1, <3>1, PushPlain
    <3>. QED  BY <2>1, <3>1, <3>2 DEF IsStack, n
  <2>3. CASE ~Included(Innermost)
    BY <2>3, CommandEnded
  <2>. QED  BY <2>2, <2>3
<1>4. TypeOK'
  BY <1>1, <1>2, <1>3, CommandEnded DEF IInv, TypeOK, IsStack
<1>5. LineHasFrame' /\ CallControl'
  BY <1>3, CommandEnded DEF IInv, LineHasFrame, CallControl, ReadingArgument, IsStack
<1>6. PendingCallAllowed'
  BY CommandEnded DEF PendingCallAllowed
<1>7. StacksAgree'
  BY <1>3, CommandEnded DEF IInv, StacksAgree, PendingCalls, IsStack
<1>. QED  BY <1>4, <1>5, <1>6, <1>7 DEF IInv

LEMMA ValueStep ==
  ASSUME IInv, Value
  PROVE  IInv'
<1>. DEFINE n == macro_expansion_nr - PendingCalls
            v == value_expansion_nr
            deep == MaxNesting # 0 /\ v >= MaxNesting
            flag == line[1].n
            nr == current_source_info.line_nr
            mark == NewMark("value_expansion", "start")
            rest == PushText(input_stack, Tail(line), nr, None, None, None)
            r == PushText(rest, ValueText[flag], nr, None, flag, mark)
<1>1. call = NoCall /\ pc = "process" /\ line \in Text /\ line # <<>>
  BY DEF Value, At, IInv, TypeOK, CallControl, ReadingArgument
<1>2. flag \in Values /\ Tail(line) \in Text
  <2>1. line[1] \in Token /\ Tail(line) \in Text
    BY <1>1 DEF Text
  <2>. QED  BY <2>1, TokenNames DEF Value, At
<1>3. ValueText[flag] \in Text /\ <<>> \in Text /\ MaxNesting \in Nat
  BY <1>2, ParserInputAssumption DEF Text
<1>4. mark \in SourceMark
  BY NewMarkType DEF MarkTypes, MarkStatus, IInv
<1>5. /\ input_stack \in Seq(Frame) /\ StackInv(input_stack, n, v)
      /\ v \in Nat /\ nr \in Int /\ marks \in Seq(SourceMark)
  BY StackFacts DEF IInv, TypeOK
<1>. HIDE DEF n, flag, nr, mark
<1>6. ~deep => IsStack(r, n, v + 1)
  <2>1. IsStack(rest, n, v)
    BY <1>2, <1>5, PlainText
  <2>. HIDE DEF rest
  <2>2. rest \in Seq(Frame) /\ StackInv(rest, n, v)
    BY <2>1 DEF IsStack
  <2>3. ~deep => (MaxNesting # 0 => v + 1 <= MaxNesting)
    BY <1>3, <1>5
  <2>. QED  BY <1>2, <1>3, <1>4, <1>5, <2>2, <2>3, FlagText
<1>7. \/ line' = Tail(line) /\ UNCHANGED <<input_stack, value_expansion_nr, marks>>
      \/ /\ ~deep /\ input_stack' = r /\ value_expansion_nr' = v + 1
         /\ marks' = Append(marks, mark) /\ line' = <<>>
  BY DEF Value, Expand, flag, nr, mark
<1>8. UNCHANGED <<macro_expansion_nr, current_source_info, pushback, eof, pc, ret, call,
                  line_commands, out, setfilename>>
  BY DEF Value
<1>. HIDE DEF r, deep
<1>9. TypeOK'
  <2>1. input_stack' \in Seq(Frame)
    BY <1>5, <1>6, <1>7 DEF IsStack
  <2>3. value_expansion_nr' \in Int
    BY <1>5, <1>7
  <2>4. line' \in Text
    BY <1>2, <1>3, <1>7
  <2>2. marks' \in Seq(SourceMark)
    BY <1>4, <1>5, <1>7
  <2>. QED  BY <1>8, <2>1, <2>2, <2>3, <2>4 DEF IInv, TypeOK
<1>10. LineHasFrame' /\ CallControl'
  BY <1>1, <1>6, <1>7, <1>8 DEF IInv, LineHasFrame, CallControl, ReadingArgument, IsStack
<1>11. PendingCallAllowed'
  BY <1>1, <1>8 DEF PendingCallAllowed
<1>12. StacksAgree'
  BY <1>5, <1>6, <1>7, <1>8 DEF n, StacksAgree, PendingCalls, IsStack
<1>. QED  BY <1>9, <1>10, <1>11, <1>12 DEF IInv

(* The end of a call, of braces or of a line, once its error is known. *)
LEMMA FinishMacroStep ==
  ASSUME IInv, NEW m \in Macros, NEW error \in BOOLEAN, NEW args \in Text,
         NEW rest \in Text, NEW entered \in Int,
         FinishMacro(m, error, args, rest, entered), call' = NoCall,
         entered - 1 = macro_expansion_nr - PendingCalls,
         ~error => /\ m \notin RMacros => ~Reads(input_stack, m)
                   /\ MaxNesting # 0 => entered <= MaxNesting
  PROVE  IInv'
<1>. DEFINE n == macro_expansion_nr - PendingCalls
            v == value_expansion_nr
            nr == current_source_info.line_nr
            mark == NewMark("macro_expansion", "start")
            failed == NewMark("macro_expansion", "none")
            pending == PushText(input_stack, rest, nr, None, None, None)
            r == PushText(pending, ExpandedBody(m, args), nr, m, None, mark)
<1>1. /\ input_stack \in Seq(Frame) /\ StackInv(input_stack, n, v)
      /\ n \in Nat /\ nr \in Int /\ marks \in Seq(SourceMark)
  BY StackFacts DEF IInv, TypeOK
<1>2. mark \in SourceMark /\ failed \in SourceMark
  BY NewMarkType DEF MarkTypes, MarkStatus, IInv
<1>3. ExpandedBody(m, args) \in Text /\ <<>> \in Text
  BY ExpandedBodyType DEF Text
<1>4. \/ /\ error
         /\ macro_expansion_nr' = entered - 1 /\ marks' = Append(marks, failed)
         /\ line' = rest /\ pc' = "process" /\ UNCHANGED <<input_stack, ret>>
      \/ /\ ~error
         /\ macro_expansion_nr' = entered /\ marks' = Append(marks, mark)
         /\ input_stack' = r /\ line' = <<>>
         /\ pc' = "next_text" /\ ret' = "process"
  BY DEF FinishMacro, Expand, CallNextText
<1>5. /\ eof' = FALSE /\ call' = NoCall
      /\ UNCHANGED <<value_expansion_nr, current_source_info, pushback, line_commands, out,
                     setfilename>>
  BY DEF FinishMacro
<1>6. n + 1 = entered
  BY <1>1
<1>. HIDE DEF n, nr, mark, failed
<1>7. ~error => IsStack(r, n + 1, v)
  <2>1. IsStack(pending, n, v) /\ ReadsNoMore(pending, input_stack)
    BY <1>1, PlainText
  <2>. HIDE DEF pending
  <2>2. pending \in Seq(Frame) /\ StackInv(pending, n, v)
    BY <2>1 DEF IsStack
  <2>3. ~error => /\ m \notin RMacros => ~Reads(pending, m)
                  /\ MaxNesting # 0 => n + 1 <= MaxNesting
    BY <1>6, <2>1 DEF ReadsNoMore
  <2>. QED  BY <1>1, <1>2, <1>3, <2>2, <2>3, MacroText
<1>. HIDE DEF r
<1>8. TypeOK'
  <2>1. NoCall \in [name : Macros \cup {None}, error : BOOLEAN]
    BY DEF NoCall
  <2>2. input_stack' \in Seq(Frame) /\ line' \in Text
    BY <1>1, <1>3, <1>4, <1>7 DEF IsStack
  <2>3. marks' \in Seq(SourceMark)
    <3>1. marks' = Append(marks, failed) \/ marks' = Append(marks, mark)
      BY <1>4, Zenon
    <3>2. /\ marks \in Seq(SourceMark) /\ failed \in SourceMark /\ mark \in SourceMark
      BY <1>1, <1>2
    <3>. QED  BY <3>1, <3>2
  <2>4. /\ macro_expansion_nr' \in Int
        /\ pc' \in Callers \cup {"next_text"} /\ ret' \in Callers
    BY <1>4 DEF Callers, IInv, TypeOK
  <2>. QED  BY <1>5, <2>1, <2>2, <2>3, <2>4 DEF IInv, TypeOK
<1>9. LineHasFrame' /\ CallControl'
  BY <1>4, <1>5, <1>7 DEF IInv, LineHasFrame, CallControl, ReadingArgument, IsStack
<1>10. PendingCallAllowed'
  BY <1>5 DEF PendingCallAllowed
<1>11. StacksAgree'
  <2>1. PendingCalls' = 0 /\ macro_expansion_nr' - 0 = macro_expansion_nr'
    BY <1>1, <1>4, <1>5, <1>6 DEF PendingCalls
  <2>. QED  BY <1>1, <1>4, <1>5, <1>6, <1>7, <2>1 DEF StacksAgree, IsStack
<1>. QED  BY <1>8, <1>9, <1>10, <1>11 DEF IInv

LEMMA MacroErrorFalse ==
  ASSUME NEW m, NEW entered, ~MacroError(m, entered)
  PROVE  /\ m \notin RMacros => ~Reads(input_stack, m)
         /\ MaxNesting # 0 => ~(entered > MaxNesting)
BY DEF MacroError, ExpandingMacro, Reads

LEMMA MacroCallStep ==
  ASSUME IInv, MacroCall
  PROVE  IInv'
<1>. DEFINE m == line[1].n
            entered == macro_expansion_nr + 1
            error == MacroError(m, entered)
<1>1. line \in Text /\ line # <<>> /\ call = NoCall /\ macro_expansion_nr \in Int
  BY DEF MacroCall, At, IInv, TypeOK, CallControl, ReadingArgument
<1>2. m \in Macros /\ Tail(line) \in Text /\ <<>> \in Text
  <2>1. line[1] \in Token /\ Tail(line) \in Text
    BY <1>1 DEF Text
  <2>. QED  BY <2>1, TokenNames DEF MacroCall, At, Text
<1>3. /\ FinishMacro(m, error, <<>>, Tail(line), entered) /\ call' = NoCall
      /\ entered \in Int /\ entered - 1 = macro_expansion_nr - PendingCalls
      /\ error \in BOOLEAN
  <2>1. FinishMacro(m, error, <<>>, Tail(line), entered) /\ call' = NoCall
    BY <1>1, Zenon DEF MacroCall
  <2>2. entered \in Int /\ entered - 1 = macro_expansion_nr - PendingCalls
    BY <1>1 DEF PendingCalls
  <2>3. error \in BOOLEAN
    BY DEF MacroError
  <2>. QED  BY <2>1, <2>2, <2>3
<1>. HIDE DEF m, entered
<1>4. ~error => /\ m \notin RMacros => ~Reads(input_stack, m)
                /\ MaxNesting # 0 => entered <= MaxNesting
  BY <1>3, MacroErrorFalse, ParserInputAssumption
<1>. HIDE DEF error
<1>. QED  BY <1>2, <1>3, <1>4, FinishMacroStep

LEMMA LineMacroCallStep ==
  ASSUME IInv, LineMacroCall
  PROVE  IInv'
<1>. DEFINE m == line[1].n
            entered == macro_expansion_nr + 1
<1>1. line \in Text /\ line # <<>> /\ call = NoCall /\ macro_expansion_nr \in Int
  BY DEF LineMacroCall, At, IInv, TypeOK, CallControl, ReadingArgument
<1>2. m \in Macros /\ m # None /\ Tail(line) \in Text
  <2>1. line[1] \in Token /\ Tail(line) \in Text
    BY <1>1 DEF Text
  <2>. QED  BY <2>1, TokenNames, ParserInputAssumption DEF LineMacroCall, At
<1>3. /\ call' = [name |-> m, error |-> MacroError(m, entered)]
      /\ macro_expansion_nr' = entered /\ line' = Tail(line) /\ pc' = "line_arg"
      /\ UNCHANGED <<input_stack, value_expansion_nr, current_source_info, pushback, eof,
                     ret, line_commands, marks, out, setfilename>>
  BY DEF LineMacroCall
<1>4. MacroError(m, entered) \in BOOLEAN
  BY DEF MacroError
<1>5. ~MacroError(m, entered) => /\ m \notin RMacros => ~Reads(input_stack, m)
                                 /\ MaxNesting # 0 => entered <= MaxNesting
  BY <1>1, MacroErrorFalse, ParserInputAssumption
<1>6. call'.name = m /\ call'.error = MacroError(m, entered) /\ call' # NoCall
  BY <1>2, <1>3 DEF NoCall
<1>. HIDE DEF m
<1>7. TypeOK'
  <2>1. call' \in [name : Macros \cup {None}, error : BOOLEAN]
    BY <1>2, <1>3, <1>4
  <2>2. macro_expansion_nr' \in Int
    BY <1>1, <1>3
  <2>. HIDE DEF entered
  <2>3. line' \in Text /\ pc' \in Callers \cup {"next_text", "finish", "done"}
    BY <1>2, <1>3 DEF Callers
  <2>4. UNCHANGED <<input_stack, value_expansion_nr, current_source_info, pushback, eof,
                    ret, line_commands, marks, out, setfilename>>
    BY <1>3
  <2>5. /\ input_stack' \in Seq(Frame) /\ value_expansion_nr' \in Int
        /\ current_source_info' \in SourceInfo /\ pushback' \in Seq(Text)
        /\ eof' \in BOOLEAN /\ ret' \in Callers /\ line_commands' \in Seq(LineCommand)
        /\ marks' \in Seq(SourceMark) /\ out' \in Seq(Token)
        /\ setfilename' \subseteq FileNames
    BY <2>4 DEF IInv, TypeOK
  <2>. QED  BY <2>1, <2>2, <2>3, <2>5, Zenon DEF TypeOK
<1>8. LineHasFrame' /\ CallControl'
  BY <1>2, <1>3, <1>6 DEF IInv, LineHasFrame, CallControl, ReadingArgument
<1>9. PendingCallAllowed'
  BY <1>3, <1>5, <1>6 DEF PendingCallAllowed, ExpandingMacro, Reads
<1>10. StacksAgree'
  BY <1>1, <1>3, <1>6 DEF IInv, StacksAgree, PendingCalls
<1>. QED  BY <1>7, <1>8, <1>9, <1>10 DEF IInv

LEMMA LineArgEndStep ==
  ASSUME IInv, LineArgEnd
  PROVE  IInv'
<1>. DEFINE args == BeforeKind(line, "nl")
            rest == IF eof THEN <<>> ELSE <<Nl>>
<1>1. /\ call.name \in Macros /\ call.error \in BOOLEAN /\ line \in Text
      /\ macro_expansion_nr \in Int
  BY DEF LineArgEnd, IInv, TypeOK, CallControl, ReadingArgument
<1>2. args \in Text /\ rest \in Text
  <2>1. Nl \in Token
    BY DEF Nl, Token
  <2>2. args \in Text
    BY <1>1, TextOps
  <2>. QED  BY <2>1, <2>2 DEF Text
<1>3. /\ FinishMacro(call.name, call.error, args, rest, macro_expansion_nr)
      /\ call' = NoCall
  BY DEF LineArgEnd
<1>4. call # NoCall /\ macro_expansion_nr - 1 = macro_expansion_nr - PendingCalls
  BY <1>1, ParserInputAssumption DEF NoCall, PendingCalls
<1>5. ~call.error => /\ call.name \notin RMacros => ~Reads(input_stack, call.name)
                     /\ MaxNesting # 0 => macro_expansion_nr <= MaxNesting
  BY <1>4 DEF IInv, PendingCallAllowed, ExpandingMacro, Reads
<1>. HIDE DEF args, rest
<1>. QED  BY <1>1, <1>2, <1>3, <1>4, <1>5, FinishMacroStep

-----------------------------------------------------------------------------
LEMMA NextIInv == IInv /\ [Next]_vars => IInv'
<1>. SUFFICES ASSUME IInv, [Next]_vars
              PROVE  IInv'
  OBVIOUS
<1>1. CASE NextText
  BY <1>1, ReturnStep, NextTextLineStep, NextTextFileLineStep, NextTextPopStep
     DEF NextText
<1>2. CASE ProcessLine
  BY <1>2, EndCommandStep, LineStep, SetfilenameStep, ValueStep, MacroCallStep,
     LineMacroCallStep DEF ProcessLine
<1>3. CASE Preamble \/ LineDirective
  BY <1>3, PreambleStep, LineDirectiveStep
<1>4. CASE OutOfInput \/ NewLine \/ LineArgMore \/ ByeLine \/ GatherAfterBye \/ AfterByeEnd
  BY <1>4, LineStep
<1>5. CASE LineArgEnd
  BY <1>5, LineArgEndStep
<1>6. CASE UNCHANGED vars
  <2>1. TypeOK' /\ LineHasFrame' /\ CallControl'
    BY <1>6 DEF vars, input_vars, IInv, TypeOK, LineHasFrame, CallControl, ReadingArgument
  <2>2. PendingCallAllowed' /\ StacksAgree'
    BY <1>6, Quiet DEF vars, input_vars
  <2>. QED  BY <2>1, <2>2 DEF IInv
<1>. QED  BY <1>1, <1>2, <1>3, <1>4, <1>5, <1>6 DEF Next

LEMMA IInvHolds == Spec => []IInv
BY InitIInv, NextIInv, PTL DEF Spec

(* The state of the parser keeps its types. *)
THEOREM TypeCorrect == Spec => []TypeOK
<1>1. IInv => TypeOK
  BY DEF IInv
<1>. QED  BY <1>1, IInvHolds, PTL

(* macro_expansion_nr and value_expansion_nr count the open expansions.    *)
THEOREM CountersCorrect == Spec => []CountersMatchFrames
<1>1. IInv => CountersMatchFrames
  <2>1. MacroFrames = MacroIdx(input_stack) /\ ValueFrames = ValueIdx(input_stack)
    BY DEF MacroFrames, ValueFrames, MacroIdx, ValueIdx
  <2>2. IInv => PendingCalls \in Int /\ macro_expansion_nr \in Int
    BY DEF PendingCalls, IInv, TypeOK
  <2>3. IInv => /\ macro_expansion_nr - PendingCalls = Cardinality(MacroFrames)
                /\ value_expansion_nr = Cardinality(ValueFrames)
    BY <2>1 DEF IInv, StacksAgree, StackInv
  <2>. QED  BY <2>2, <2>3 DEF CountersMatchFrames
<1>. QED  BY <1>1, IInvHolds, PTL

(* MAX_MACRO_CALL_NESTING bounds the expansions open at once, so that a    *)
(* recursion that never ends by itself is cut.                             *)
THEOREM NestingCorrect == Spec => []NestingBounded
<1>1. IInv => NestingBounded
  <2>1. MacroFrames = MacroIdx(input_stack) /\ ValueFrames = ValueIdx(input_stack)
    BY DEF MacroFrames, ValueFrames, MacroIdx, ValueIdx
  <2>. QED  BY <2>1 DEF IInv, StacksAgree, StackInv, NestingBounded
<1>. QED  BY <1>1, IInvHolds, PTL

(* A macro that is not recursive is never being read twice at once.        *)
THEOREM NoSelfNestingCorrect == Spec => []NoSelfNesting
<1>1. IInv => NoSelfNesting
  <2>1. MacroFrames = MacroIdx(input_stack)
    BY DEF MacroFrames, MacroIdx
  <2>. QED  BY <2>1 DEF IInv, StacksAgree, StackInv, NoSelfNesting
<1>. QED  BY <1>1, IInvHolds, PTL

(* The tests made on entering a call hold until its argument is read.      *)
THEOREM PendingCallCorrect == Spec => []PendingCallAllowed
<1>1. IInv => PendingCallAllowed
  BY DEF IInv
<1>. QED  BY <1>1, IInvHolds, PTL

(* save_line_directive and the pushback always find a frame on the stack.  *)
THEOREM LineHasFrameCorrect == Spec => []LineHasFrame
<1>1. IInv => LineHasFrame
  BY DEF IInv
<1>. QED  BY <1>1, IInvHolds, PTL

-----------------------------------------------------------------------------
(***************************************************************************)
(* A line number that follows the frames: each frame of text in a file     *)
(* keeps the line of that file.                                            *)
(***************************************************************************)
(* A text in which only the end of a line may end it. *)
OneLine(t) == \A i \in DOMAIN t : t[i].k = "nl" => i = Len(t)

(* Frame j is the innermost file below place i of the stack. *)
FileBelow(s, i, j) ==
  /\ j \in DOMAIN s /\ j < i
  /\ s[j].type = "IN_file"
  /\ \A h \in DOMAIN s : j < h /\ h < i => s[h].type = "IN_text"

(* Lines are counted in a frame that is no expansion and in none. *)
CountsLines(f) == f.source_info.macro = None /\ f.value_flag = None

(* What is left of a line has the number of its line, once it is read. *)
FrameAgrees(f, file) ==
  /\ f.source_info.file = file.source_info.file
  /\ CountsLines(f) =>
       /\ OneLine(f.text)
       /\ f.text # <<>> => f.source_info.line_nr + 1 = file.source_info.line_nr
  /\ ~CountsLines(f) => f.source_info.line_nr = file.source_info.line_nr

FramesAgree(s) ==
  /\ \A i \in DOMAIN s : s[i].type = "IN_file" => CountsLines(s[i])
  /\ \A i, j \in DOMAIN s :
       s[i].type = "IN_text" /\ FileBelow(s, i, j) => FrameAgrees(s[i], s[j])

InfoAgrees(info, s) ==
  \A j \in DOMAIN s : FileBelow(s, Len(s) + 1, j) =>
    /\ info.line_nr = s[j].source_info.line_nr
    /\ info.file = s[j].source_info.file

-----------------------------------------------------------------------------
(* Texts of one line. *)

LEMMA FirstOfKind ==
  ASSUME NEW t \in Text, NEW k, HasKind(t, k)
  PROVE  /\ FirstOf(t, k) \in 1 .. Len(t) /\ t[FirstOf(t, k)].k = k
         /\ \A j \in 1 .. FirstOf(t, k) - 1 : t[j].k # k
<1>. DEFINE S == {i \in 1 .. Len(t) : t[i].k = k}
<1>1. S \in SUBSET Nat /\ S # {}
  BY DEF HasKind, Text
<1>2. PICK m \in S : \A n \in S : m <= n
  BY <1>1, LeastElement
<1>3. m \in DOMAIN t /\ t[m].k = k /\ \A j \in 1 .. m - 1 : t[j].k # k
  BY <1>2 DEF Text
<1>4. DOMAIN t = 1 .. Len(t)
  BY DEF Text
<1>. QED  BY <1>3, <1>4 DEF FirstOf

(* What is before a place of a text, and what is after it. *)
LEMMA PrefixOneLine ==
  ASSUME NEW t \in Text, NEW n \in 0 .. Len(t), \A j \in 1 .. n - 1 : t[j].k # "nl"
  PROVE  OneLine(SubSeq(t, 1, n))
BY DEF OneLine, Text

LEMMA FirstLineOne ==
  ASSUME NEW t \in Text
  PROVE  /\ OneLine(FirstLine(t)) /\ OneLine(FileLine(t))
         /\ OneLine(t) => AfterLine(t) = <<>>
<1>1. DOMAIN t = 1 .. Len(t) /\ Len(t) \in Nat
  BY DEF Text
<1>2. SubSeq(t, Len(t) + 1, Len(t)) = <<>>
  BY <1>1 DEF Text
<1>3. CASE HasKind(t, "nl")
  <2>. DEFINE n == FirstOf(t, "nl")
  <2>1. n \in 1 .. Len(t) /\ t[n].k = "nl" /\ \A j \in 1 .. n - 1 : t[j].k # "nl"
    BY <1>3, FirstOfKind
  <2>2. FirstLine(t) = SubSeq(t, 1, n) /\ AfterLine(t) = SubSeq(t, n + 1, Len(t))
        /\ FileLine(t) = FirstLine(t)
    BY <1>3 DEF FirstLine, AfterLine, LineLen, FileLine
  <2>. HIDE DEF n
  <2>3. n \in 0 .. Len(t)
    BY <1>1, <2>1
  <2>4. OneLine(SubSeq(t, 1, n))
    BY <2>1, <2>3, PrefixOneLine
  <2>5. OneLine(t) => n = Len(t)
    BY <1>1, <2>1 DEF OneLine
  <2>. QED  BY <1>2, <2>2, <2>4, <2>5
<1>4. CASE ~HasKind(t, "nl")
  <2>1. \A i \in DOMAIN t : t[i].k # "nl"
    BY <1>4 DEF HasKind
  <2>2. FirstLine(t) = SubSeq(t, 1, Len(t)) /\ AfterLine(t) = <<>> /\ FileLine(t) = Append(t, Nl)
    BY <1>2, <1>4 DEF FirstLine, AfterLine, LineLen, FileLine
  <2>3. OneLine(SubSeq(t, 1, Len(t)))
    BY <1>1, <2>1, PrefixOneLine
  <2>4. OneLine(Append(t, Nl))
    BY <1>1, <2>1 DEF OneLine, Text
  <2>. QED  BY <2>2, <2>3, <2>4
<1>. QED  BY <1>3, <1>4

LEMMA PartOneLine ==
  ASSUME NEW t \in Text, OneLine(t)
  PROVE  /\ \A k : OneLine(BeforeKind(t, k))
         /\ t # <<>> => OneLine(Tail(t))
<1>1. DOMAIN t = 1 .. Len(t) /\ Len(t) \in Nat
  BY DEF Text
<1>2. ASSUME NEW k
      PROVE  OneLine(BeforeKind(t, k))
  <2>1. CASE HasKind(t, k)
    <3>. DEFINE n == FirstOf(t, k) - 1
    <3>1. n \in 0 .. Len(t) /\ n < Len(t) /\ BeforeKind(t, k) = SubSeq(t, 1, n)
      BY <1>1, <2>1, FirstOfKind DEF BeforeKind
    <3>. HIDE DEF n
    <3>2. \A j \in 1 .. n - 1 : t[j].k # "nl"
      BY <1>1, <3>1 DEF OneLine
    <3>. QED  BY <3>1, <3>2, PrefixOneLine
  <2>2. CASE ~HasKind(t, k)
    BY <2>2 DEF BeforeKind
  <2>. QED  BY <2>1, <2>2
<1>3. t # <<>> => OneLine(Tail(t))
  BY <1>1 DEF OneLine, Text
<1>. QED  BY <1>2, <1>3

-----------------------------------------------------------------------------
(* What a push, a pop and a read do to the frames. *)

LEMMA FramesPushed ==
  ASSUME NEW s \in Seq(Frame), NEW f \in Frame
  PROVE  LET r == Append(s, f)
         IN  /\ r \in Seq(Frame) /\ Len(r) = Len(s) + 1 /\ r[Len(r)] = f
             /\ DOMAIN r = DOMAIN s \cup {Len(s) + 1}
             /\ \A i \in DOMAIN s : i \in 1 .. Len(s) /\ r[i] = s[i]
OBVIOUS

LEMMA FramesPopped ==
  ASSUME NEW s \in Seq(Frame), s # <<>>
  PROVE  LET r == SubSeq(s, 1, Len(s) - 1)
         IN  /\ r \in Seq(Frame) /\ Len(r) = Len(s) - 1 /\ Len(s) \in Nat /\ Len(s) > 0
             /\ DOMAIN r = 1 .. Len(s) - 1
             /\ \A i \in DOMAIN r : i \in DOMAIN s /\ r[i] = s[i]
<1>. DEFINE r == SubSeq(s, 1, Len(s) - 1)
<1>1. Len(s) \in Nat /\ Len(s) > 0 /\ DOMAIN s = 1 .. Len(s)
  OBVIOUS
<1>2. r \in Seq(Frame) /\ Len(r) = Len(s) - 1 /\ DOMAIN r = 1 .. Len(s) - 1
      /\ \A i \in 1 .. Len(s) - 1 : r[i] = s[i]
  BY <1>1
<1>3. \A i \in 1 .. Len(s) - 1 : i \in 1 .. Len(s)
  BY <1>1
<1>. HIDE DEF r
<1>. QED  BY <1>1, <1>2, <1>3 DEF r

(* The top of the stack is changed by a pop and a push. *)
LEMMA TopChanged ==
  ASSUME NEW s \in Seq(Frame), s # <<>>, NEW g \in Frame
  PROVE  [s EXCEPT ![Len(s)] = g] = Append(SubSeq(s, 1, Len(s) - 1), g)
<1>. DEFINE r == [s EXCEPT ![Len(s)] = g]
            q == SubSeq(s, 1, Len(s) - 1)
            p == Append(q, g)
<1>1. Len(s) \in Nat /\ Len(s) > 0 /\ DOMAIN s = 1 .. Len(s)
  OBVIOUS
<1>2. r \in Seq(Frame) /\ Len(r) = Len(s) /\ \A i \in 1 .. Len(s) : r[i] = IF i = Len(s) THEN g ELSE s[i]
  BY <1>1
<1>3. q \in Seq(Frame) /\ Len(q) = Len(s) - 1 /\ \A i \in 1 .. Len(s) - 1 : q[i] = s[i]
  BY <1>1
<1>. HIDE DEF r, q
<1>4. /\ p \in Seq(Frame) /\ Len(p) = Len(s) /\ p[Len(s)] = g
      /\ \A i \in 1 .. Len(s) : i # Len(s) => p[i] = s[i]
  <2>1. /\ p \in Seq(Frame) /\ Len(p) = Len(q) + 1 /\ p[Len(q) + 1] = g
        /\ \A i \in 1 .. Len(q) : p[i] = q[i]
    BY <1>3
  <2>2. /\ Len(q) + 1 = Len(s) /\ 1 .. Len(q) = 1 .. Len(s) - 1
        /\ \A i \in 1 .. Len(s) : i = Len(s) \/ i \in 1 .. Len(s) - 1
    <3>1. \A l, n \in Int : l = n - 1 => l + 1 = n
      OBVIOUS
    <3>2. Len(q) \in Int /\ Len(s) \in Int /\ Len(q) = Len(s) - 1
      BY <1>1, <1>3
    <3>3. Len(q) + 1 = Len(s) /\ 1 .. Len(q) = 1 .. Len(s) - 1
      BY <3>1, <3>2, Zenon
    <3>4. \A i \in 1 .. Len(s) : i = Len(s) \/ i \in 1 .. Len(s) - 1
      <4>. DEFINE n == Len(s)
      <4>1. n \in Nat
        BY <1>1
      <4>. HIDE DEF n
      <4>2. \A i \in 1 .. n : i = n \/ i \in 1 .. n - 1
        BY <4>1
      <4>. QED  BY <4>2 DEF n
    <3>. QED  BY <3>3, <3>4
  <2>. HIDE DEF p
  <2>3. ASSUME NEW i \in 1 .. Len(s), i # Len(s)
        PROVE  p[i] = s[i]
    BY <1>3, <2>1, <2>2, <2>3
  <2>. QED  BY <2>1, <2>2, <2>3
<1>. HIDE DEF p
<1>5. r = p
  <2>1. \A i \in 1 .. Len(s) : r[i] = p[i]
    <3>. TAKE i \in 1 .. Len(s)
    <3>. QED  BY <1>1, <1>2, <1>4
  <2>. QED  BY <1>1, <1>2, <1>4, <2>1, SeqEqual
<1>. QED  BY <1>5 DEF r, p, q

(* The file below a place does not depend on the frames above. *)
LEMMA SameFileBelow ==
  ASSUME NEW s \in Seq(Frame), NEW f \in Frame, NEW i \in 1 .. Len(s) + 1, NEW j
  PROVE  FileBelow(Append(s, f), i, j) <=> FileBelow(s, i, j)
<1>1. /\ DOMAIN Append(s, f) = DOMAIN s \cup {Len(s) + 1} /\ DOMAIN s = 1 .. Len(s)
      /\ \A h \in DOMAIN s : Append(s, f)[h] = s[h]
      /\ Len(s) \in Nat
  BY FramesPushed
<1>. DEFINE r == Append(s, f)
<1>. HIDE DEF r
<1>2. /\ DOMAIN r = DOMAIN s \cup {Len(s) + 1}
      /\ \A h \in DOMAIN s : r[h] = s[h]
  BY <1>1 DEF r
<1>3. \A h \in DOMAIN r : h < i => h \in DOMAIN s
  BY <1>1, <1>2
<1>4. FileBelow(r, i, j) <=> FileBelow(s, i, j)
  BY <1>2, <1>3 DEF FileBelow
<1>. QED  BY <1>4 DEF r

(* A frame is pushed that agrees with the file it is in. *)
LEMMA PushedAgree ==
  ASSUME NEW s \in Seq(Frame), FramesAgree(s), NEW f \in Frame,
         f.type = "IN_file" => CountsLines(f),
         f.type = "IN_text" =>
           \A j \in DOMAIN s : FileBelow(s, Len(s) + 1, j) => FrameAgrees(f, s[j])
  PROVE  FramesAgree(Append(s, f))
<1>. DEFINE r == Append(s, f)
            new == Len(s) + 1
<1>1. /\ DOMAIN r = DOMAIN s \cup {new} /\ r[new] = f
      /\ \A i \in DOMAIN s : r[i] = s[i] /\ i \in 1 .. new
      /\ new \in 1 .. new /\ ~(new < new)
  BY FramesPushed
<1>2. \A i \in 1 .. new : \A j : FileBelow(r, i, j) <=> FileBelow(s, i, j)
  BY SameFileBelow
<1>. HIDE DEF r, new
<1>3. ASSUME NEW i \in DOMAIN r, NEW j \in DOMAIN r, r[i].type = "IN_text", FileBelow(r, i, j)
      PROVE  FrameAgrees(r[i], r[j])
  <2>1. FileBelow(s, i, j) /\ j \in DOMAIN s /\ r[j] = s[j]
    BY <1>1, <1>2, <1>3 DEF FileBelow
  <2>2. CASE i = new
    BY <1>1, <1>3, <2>1, <2>2 DEF new
  <2>3. CASE i \in DOMAIN s
    BY <1>1, <1>3, <2>1, <2>3 DEF FramesAgree
  <2>. QED  BY <1>1, <2>2, <2>3
<1>4. \A i \in DOMAIN r : r[i].type = "IN_file" => CountsLines(r[i])
  BY <1>1 DEF FramesAgree
<1>5. FramesAgree(r)
  BY <1>3, <1>4 DEF FramesAgree
<1>. QED  BY <1>5 DEF r

(* A frame of text does not hide the file below it. *)
LEMMA TextKeepsInfo ==
  ASSUME NEW s \in Seq(Frame), NEW info, InfoAgrees(info, s), NEW f \in Frame,
         f.type = "IN_text"
  PROVE  InfoAgrees(info, Append(s, f))
<1>. DEFINE r == Append(s, f)
<1>1. /\ Len(r) = Len(s) + 1 /\ DOMAIN r = DOMAIN s \cup {Len(r)} /\ r[Len(r)] = f
      /\ \A i \in DOMAIN s : r[i] = s[i] /\ i < Len(r) + 1
      /\ Len(s) \in Nat
  BY FramesPushed
<1>2. \A j : FileBelow(r, Len(s) + 1, j) <=> FileBelow(s, Len(s) + 1, j)
  BY SameFileBelow
<1>. HIDE DEF r
<1>3. ASSUME NEW j \in DOMAIN r, FileBelow(r, Len(r) + 1, j)
      PROVE  FileBelow(r, Len(s) + 1, j) /\ j \in DOMAIN s
  <2>1. j # Len(r) /\ j \in DOMAIN s
    BY <1>1, <1>3 DEF FileBelow
  <2>2. j < Len(s) + 1 /\ \A h \in DOMAIN r : h < Len(s) + 1 => h < Len(r) + 1
    BY <1>1, <2>1
  <2>. QED  BY <1>3, <2>1, <2>2 DEF FileBelow
<1>4. InfoAgrees(info, r)
  BY <1>1, <1>2, <1>3 DEF InfoAgrees
<1>. QED  BY <1>4 DEF r

LEMMA PoppedAgree ==
  ASSUME NEW s \in Seq(Frame), s # <<>>, FramesAgree(s)
  PROVE  LET r == SubSeq(s, 1, Len(s) - 1)
         IN  /\ r \in Seq(Frame) /\ FramesAgree(r)
             /\ Len(r) + 1 = Len(s)
             /\ \A j : FileBelow(r, Len(s), j) => FileBelow(s, Len(s), j) /\ s[j] = r[j]
<1>. DEFINE r == SubSeq(s, 1, Len(s) - 1)
<1>1. /\ r \in Seq(Frame) /\ Len(r) = Len(s) - 1 /\ Len(s) \in Nat /\ Len(s) > 0
      /\ DOMAIN r = 1 .. Len(s) - 1
      /\ \A i \in DOMAIN r : i \in DOMAIN s /\ r[i] = s[i]
  BY FramesPopped
<1>2. DOMAIN s = 1 .. Len(s)
  OBVIOUS
<1>. HIDE DEF r
<1>3. \A i \in 1 .. Len(s) : \A h \in DOMAIN s : h < i => h \in DOMAIN r
  BY <1>1, <1>2
<1>4. \A i \in 1 .. Len(s) : \A j : FileBelow(r, i, j) => FileBelow(s, i, j) /\ s[j] = r[j]
  BY <1>1, <1>3 DEF FileBelow
<1>5. FramesAgree(r)
  <2>1. \A i \in DOMAIN r : i \in 1 .. Len(s)
    BY <1>1
  <2>. QED  BY <1>1, <1>4, <2>1 DEF FramesAgree
<1>6. Len(r) + 1 = Len(s) /\ Len(s) \in 1 .. Len(s)
  BY <1>1
<1>7. \A j : FileBelow(r, Len(s), j) => FileBelow(s, Len(s), j) /\ s[j] = r[j]
  BY <1>4, <1>6
<1>. QED  BY <1>1, <1>5, <1>6, <1>7 DEF r

LEMMA TextFrameFields ==
  ASSUME NEW s, s # <<>>, NEW text, NEW nr, NEW m, NEW v, NEW mark
  PROVE  LET f == TextFrame(s, text, nr, m, v, mark)
             in_macro == IF m # None THEN m ELSE s[Len(s)].source_info.macro
         IN  /\ f.text = text /\ f.value_flag = v
             /\ f.source_info.file = s[Len(s)].source_info.file
             /\ f.source_info.macro = in_macro
             /\ f.source_info.line_nr = IF in_macro = None /\ v = None THEN nr - 1 ELSE nr
BY DEF TextFrame

(* An expansion, or the rest of a line, has the line number of its file. *)
LEMMA TextFrameAgrees ==
  ASSUME NEW s \in Seq(Frame), FramesAgree(s), NEW text \in Text, NEW info \in SourceInfo,
         InfoAgrees(info, s), NEW m \in Macros \cup {None}, NEW v \in Values \cup {None},
         NEW mark \in SourceMark \cup {None},
         m = None /\ v = None => OneLine(text),
         NEW j \in DOMAIN s, FileBelow(s, Len(s) + 1, j)
  PROVE  FrameAgrees(TextFrame(s, text, info.line_nr, m, v, mark), s[j])
<1>. DEFINE top == s[Len(s)]
            in_macro == IF m # None THEN m ELSE top.source_info.macro
            line_nr == IF in_macro = None /\ v = None THEN info.line_nr - 1 ELSE info.line_nr
            f == TextFrame(s, text, info.line_nr, m, v, mark)
<1>1. DOMAIN s = 1 .. Len(s) /\ Len(s) \in Nat /\ s # <<>> /\ Len(s) \in DOMAIN s
  OBVIOUS
<1>2. /\ f.text = text /\ f.value_flag = v
      /\ f.source_info.file = top.source_info.file
      /\ f.source_info.macro = in_macro
      /\ f.source_info.line_nr = line_nr
  BY <1>1, TextFrameFields
<1>. HIDE DEF f
<1>3. info.line_nr = s[j].source_info.line_nr /\ info.line_nr \in Int
  BY DEF InfoAgrees, SourceInfo
<1>4. top.source_info.file = s[j].source_info.file
  <2>0. top \in Frame
    BY <1>1
  <2>1. top.type \in {"IN_file", "IN_text"}
    BY <2>0 DEF Frame
  <2>2. CASE top.type = "IN_file"
    <3>1. j = Len(s)
      BY <1>1, <2>2 DEF FileBelow
    <3>. QED  BY <3>1
  <2>3. CASE top.type = "IN_text"
    <3>1. j # Len(s)
      BY <2>3 DEF FileBelow
    <3>2. j < Len(s) /\ \A h \in DOMAIN s : h < Len(s) => h < Len(s) + 1
      BY <1>1, <3>1
    <3>3. FileBelow(s, Len(s), j)
      BY <3>2 DEF FileBelow
    <3>. QED  BY <1>1, <2>3, <3>3 DEF FramesAgree, FrameAgrees
  <2>. QED  BY <2>1, <2>2, <2>3
<1>5. f.source_info.file = s[j].source_info.file
  BY <1>2, <1>4
<1>6. CountsLines(f) <=> in_macro = None /\ v = None
  BY <1>2 DEF CountsLines
<1>7. CountsLines(f) => OneLine(f.text) /\ f.source_info.line_nr + 1 = s[j].source_info.line_nr
  <2>1. in_macro = None => m = None
    OBVIOUS
  <2>. QED  BY <1>2, <1>3, <1>6, <2>1
<1>8. ~CountsLines(f) => f.source_info.line_nr = s[j].source_info.line_nr
  BY <1>2, <1>3, <1>6
<1>9. FrameAgrees(f, s[j])
  BY <1>5, <1>7, <1>8 DEF FrameAgrees
<1>. QED  BY <1>9 DEF f

(* Pushing text for the line in hand. *)
Pushed(r, s, info, text, v) ==
  /\ r \in Seq(Frame) /\ FramesAgree(r) /\ InfoAgrees(info, r)
  /\ Len(r) = Len(s) + 1
  /\ r[Len(r)].text = text /\ r[Len(r)].value_flag = v
  /\ \A i \in DOMAIN s : r[i] = s[i]
  /\ DOMAIN r = DOMAIN s \cup {Len(r)}

LEMMA PushTextAgrees ==
  ASSUME NEW s \in Seq(Frame), FramesAgree(s), NEW text \in Text, NEW info \in SourceInfo,
         InfoAgrees(info, s), NEW m \in Macros \cup {None}, NEW v \in Values \cup {None},
         NEW mark \in SourceMark \cup {None},
         m = None /\ v = None => OneLine(text)
  PROVE  Pushed(PushText(s, text, info.line_nr, m, v, mark), s, info, text, v)
<1>. DEFINE f == TextFrame(s, text, info.line_nr, m, v, mark)
            r == Append(s, f)
<1>0. info.line_nr \in Int
  BY DEF SourceInfo
<1>1. IsTextFrame(s, m, v, f)
  BY <1>0, TextFrameType
<1>2. f.type = "IN_text" /\ f.text = text /\ f.value_flag = v
  BY DEF TextFrame
<1>3. \A j \in DOMAIN s : FileBelow(s, Len(s) + 1, j) => FrameAgrees(f, s[j])
  BY TextFrameAgrees
<1>4. f \in Frame
  BY <1>1 DEF IsTextFrame
<1>5. PushText(s, text, info.line_nr, m, v, mark) = r
  BY DEF PushText
<1>. HIDE DEF f
<1>6. FramesAgree(r)
  BY <1>2, <1>3, <1>4, PushedAgree
<1>7. InfoAgrees(info, r)
  BY <1>2, <1>4, TextKeepsInfo
<1>8. /\ r \in Seq(Frame) /\ Len(r) = Len(s) + 1 /\ r[Len(r)] = f
      /\ DOMAIN r = DOMAIN s \cup {Len(r)} /\ \A i \in DOMAIN s : r[i] = s[i]
  BY <1>4, FramesPushed
<1>. HIDE DEF r
<1>. QED  BY <1>2, <1>5, <1>6, <1>7, <1>8 DEF Pushed

-----------------------------------------------------------------------------
(***************************************************************************)
(* The inductive invariant.  While a line is processed the line number is  *)
(* that of the file; a line that is looked at for a directive has been     *)
(* read to its end, so that the number a directive sets is that of no      *)
(* frame with text to come, unless it is a file.                           *)
(***************************************************************************)
(* A line that was read has emptied the frame of text it comes from. *)
TopIsRead ==
  /\ Top.value_flag = None
  /\ Top.source_info.macro = current_source_info.macro
  /\ \A j \in DOMAIN input_stack :
       /\ Top.type = "IN_text" /\ FileBelow(input_stack, Len(input_stack), j)
       /\ CountsLines(Top)
       => Top.text = <<>>

(* The text of a value is read right after its frame is pushed. *)
ReadingValue ==
  \/ pc = "process" /\ line = <<>> /\ ~eof
  \/ pc = "next_text" /\ ret = "process" /\ pushback = <<>>

ValuesReadAtOnce ==
  \A i \in DOMAIN input_stack :
    input_stack[i].value_flag # None /\ input_stack[i].text # <<>> =>
      /\ i = Len(input_stack) /\ ReadingValue
      /\ OneLine(input_stack[i].text)

HasLine == pc \in {"newline", "preamble"} /\ ~eof
InLine  == pc \in {"newline", "preamble", "process", "line_arg"}

LinesInv ==
  /\ FramesAgree(input_stack)
  /\ OneLine(line) /\ \A i \in DOMAIN pushback : OneLine(pushback[i])
  /\ InLine \/ pushback # <<>> => InfoAgrees(current_source_info, input_stack)
  /\ HasLine \/ pushback # <<>> => TopIsRead
  /\ ValuesReadAtOnce
  /\ pushback # <<>> => pc = "next_text" /\ ret = "newline"

NoValue(s) == \A i \in DOMAIN s : s[i].value_flag # None => s[i].text = <<>>

LEMMA LineTypes ==
  ASSUME IInv
  PROVE  /\ input_stack \in Seq(Frame) /\ current_source_info \in SourceInfo
         /\ line \in Text /\ pushback \in Seq(Text)
         /\ line # <<>> => line[1] \in Token /\ Tail(line) \in Text
BY DEF IInv, TypeOK, Text

LEMMA NoneRead ==
  ASSUME LinesInv, ~ReadingValue
  PROVE  NoValue(input_stack)
BY DEF LinesInv, ValuesReadAtOnce, NoValue

LEMMA InitLines == Init => LinesInv
<1>. SUFFICES ASSUME Init  PROVE LinesInv
  OBVIOUS
<1>1. \/ \E text : input_stack = PushFile(<<>>, text, MainFile, None)
      \/ \E text : input_stack = PushText(<<>>, text, 1, None, None, None)
  BY DEF Init, ParseFile, ParseText, ParsePiece, Start
<1>2. /\ line = <<>> /\ pushback = <<>> /\ pc = "next_text"
  BY DEF Init, ParseFile, ParseText, ParsePiece, Start
<1>3. PICK f : input_stack = <<f>> /\ f.value_flag = None
               /\ (f.type = "IN_file" => f.source_info.macro = None)
  BY <1>1 DEF PushFile, PushText, TextFrame
<1>4. DOMAIN input_stack = {1} /\ input_stack[1] = f
  BY <1>3
<1>5. FramesAgree(input_stack)
  BY <1>3, <1>4 DEF FramesAgree, FileBelow, CountsLines
<1>6. ValuesReadAtOnce
  BY <1>3, <1>4 DEF ValuesReadAtOnce
<1>. QED  BY <1>2, <1>5, <1>6 DEF LinesInv, OneLine, InLine, HasLine

(* Neither the stack nor the line number changes, and no value is read. *)
LEMMA KeepLines ==
  ASSUME LinesInv, NoValue(input_stack), UNCHANGED <<input_stack, current_source_info>>,
         OneLine(line'), \A i \in DOMAIN pushback' : OneLine(pushback'[i]),
         InLine' \/ pushback' # <<>> => InLine \/ pushback # <<>>,
         HasLine' \/ pushback' # <<>> => HasLine \/ pushback # <<>>,
         pushback' # <<>> => pc' = "next_text" /\ ret' = "newline"
  PROVE  LinesInv'
<1>1. ValuesReadAtOnce'
  BY DEF NoValue, ValuesReadAtOnce
<1>2. TopIsRead' <=> TopIsRead
  BY DEF TopIsRead, Top
<1>. QED  BY <1>1, <1>2 DEF LinesInv

LEMMA ReturnLines ==
  ASSUME IInv, LinesInv, NextTextPushback \/ NextTextEnd
  PROVE  LinesInv'
<1>1. CASE NextTextPushback
  <2>1. ~ReadingValue /\ pushback # <<>> /\ 1 \in DOMAIN pushback
    BY <1>1, LineTypes DEF NextTextPushback, ReadingValue
  <2>2. NoValue(input_stack)
    BY <2>1, NoneRead
  <2>3. OneLine(line') /\ pushback' = <<>> /\ UNCHANGED <<input_stack, current_source_info>>
    BY <1>1, <2>1 DEF NextTextPushback, Return, LinesInv
  <2>. QED  BY <2>1, <2>2, <2>3, KeepLines
<1>2. CASE NextTextEnd
  <2>1. /\ input_stack = <<>> /\ input_stack' = <<>> /\ line' = <<>> /\ eof' = TRUE
        /\ pushback' = <<>>
    BY <1>2 DEF NextTextEnd, input_vars
  <2>. QED  BY <2>1 DEF LinesInv, FramesAgree, InfoAgrees, OneLine, HasLine, ValuesReadAtOnce
<1>. QED  BY <1>1, <1>2

LEMMA PreambleLines ==
  ASSUME IInv, LinesInv, Preamble
  PROVE  LinesInv'
<1>1. pc = "preamble" /\ pushback = <<>> /\ ~ReadingValue
  BY DEF Preamble, LinesInv, ReadingValue
<1>2. NoValue(input_stack)
  BY <1>1, NoneRead
<1>3. UNCHANGED <<input_stack, current_source_info, line, eof>> /\ pc' = "next_text"
  BY DEF Preamble, CallNextText
<1>4. \/ pushback' = <<>>
      \/ pushback' = <<line>> /\ ~eof /\ ret' = "newline"
  BY <1>1 DEF Preamble, CallNextText
<1>5. OneLine(line') /\ \A i \in DOMAIN pushback' : OneLine(pushback'[i])
  BY <1>3, <1>4 DEF LinesInv
<1>. QED  BY <1>1, <1>2, <1>3, <1>4, <1>5, KeepLines DEF InLine, HasLine

(* The callers go on with the line, with another, or with none. *)
LEMMA CallerLines ==
  ASSUME IInv, LinesInv,
         \/ OutOfInput \/ NewLine \/ EmptyText \/ Word \/ Include \/ Setfilename
         \/ LineMacroCall \/ Bye \/ LineArgMore \/ ByeLine \/ GatherAfterBye \/ AfterByeEnd
         \/ NoMoreLine \/ EndOfLine \/ LineEnded
  PROVE  LinesInv'
<1>1. UNCHANGED <<input_stack, current_source_info, pushback>> /\ pushback = <<>>
      /\ pc # "next_text"
  BY DEF OutOfInput, NewLine, EmptyText, Word, Include, Setfilename, LineMacroCall, Bye,
         LineArgMore, ByeLine, GatherAfterBye, AfterByeEnd, NoMoreLine, EndOfLine,
         LineEnded, EndLine, CallNextText, At, input_vars, LinesInv
<1>2. line' = line \/ (line # <<>> /\ line' = Tail(line))
  BY DEF OutOfInput, NewLine, EmptyText, Word, Include, Setfilename, LineMacroCall, Bye,
         LineArgMore, ByeLine, GatherAfterBye, AfterByeEnd, NoMoreLine, EndOfLine,
         LineEnded, EndLine, CallNextText, At
<1>3. OneLine(line')
  BY <1>2, LineTypes, PartOneLine DEF LinesInv
<1>4. /\ InLine' => InLine
      /\ ~HasLine'
  BY DEF OutOfInput, NewLine, EmptyText, Word, Include, Setfilename, LineMacroCall, Bye,
         LineArgMore, ByeLine, GatherAfterBye, AfterByeEnd, NoMoreLine, EndOfLine,
         LineEnded, EndLine, CallNextText, At, InLine, HasLine
<1>5. CASE ~ReadingValue
  BY <1>1, <1>3, <1>4, <1>5, NoneRead, KeepLines DEF LinesInv
<1>6. CASE ReadingValue
  <2>1. EmptyText
    BY <1>1, <1>6 DEF OutOfInput, NewLine, EmptyText, Word, Include, Setfilename,
         LineMacroCall, Bye, LineArgMore, ByeLine, GatherAfterBye, AfterByeEnd, NoMoreLine, EndOfLine,
         LineEnded, EndLine, CallNextText, At, ReadingValue
  <2>2. ReadingValue' /\ ~InLine'
    BY <1>1, <2>1 DEF EmptyText, CallNextText, ReadingValue, InLine
  <2>3. ValuesReadAtOnce'
    BY <1>1, <1>6, <2>2 DEF LinesInv, ValuesReadAtOnce
  <2>. QED  BY <1>1, <1>3, <1>4, <2>2, <2>3 DEF LinesInv
<1>. QED  BY <1>5, <1>6

(* A line is read from the frame on top. *)
LEMMA NextTextLineLines ==
  ASSUME IInv, LinesInv, IInv', NextTextLine
  PROVE  LinesInv'
<1>. DEFINE s == input_stack
            counted == Top.source_info.macro = None /\ Top.value_flag = None
            nr == IF counted THEN Top.source_info.line_nr + 1 ELSE Top.source_info.line_nr
            info == [Top.source_info EXCEPT !.line_nr = nr]
            g == [Top EXCEPT !.text = AfterLine(Top.text), !.source_info = info]
            q == SubSeq(s, 1, Len(s) - 1)
            r == Append(q, g)
<1>1. /\ s \in Seq(Frame) /\ s # <<>> /\ Top = s[Len(s)] /\ Top \in Frame
      /\ Top.text \in Text /\ Top.text # <<>> /\ Top.type = "IN_text"
      /\ Top.source_info \in SourceInfo /\ Top.source_info.line_nr \in Int
      /\ Len(s) \in DOMAIN s
  BY LineTypes, TopType DEF NextTextLine, Top, SourceInfo
<1>2. nr \in Int /\ AfterLine(Top.text) \in Text
  <2>1. nr \in Int
    BY <1>1
  <2>2. AfterLine(Top.text) \in Text
    BY <1>1, TextOps
  <2>. QED  BY <2>1, <2>2
<1>3. /\ input_stack' = SetTop(g) /\ current_source_info' = info
      /\ line' = FirstLine(Top.text) /\ eof' = FALSE /\ pc' = ret /\ ret' = ret
      /\ pushback = <<>> /\ pushback' = <<>> /\ pc = "next_text"
  BY DEF NextTextLine, Return
<1>. HIDE DEF nr
<1>4. /\ info \in SourceInfo /\ info.file = Top.source_info.file
      /\ info.macro = Top.source_info.macro /\ info.line_nr = nr
  BY <1>1, <1>2 DEF SourceInfo
<1>. HIDE DEF info
<1>5. /\ g \in Frame /\ g.type = "IN_text" /\ g.text = AfterLine(Top.text)
      /\ g.source_info = info /\ g.value_flag = Top.value_flag
  BY <1>1, <1>2, <1>4 DEF Frame
<1>. HIDE DEF g
<1>6. input_stack' = r
  BY <1>1, <1>3, <1>5, TopChanged DEF SetTop
<1>7. /\ q \in Seq(Frame) /\ FramesAgree(q) /\ Len(q) + 1 = Len(s)
      /\ \A j : FileBelow(q, Len(s), j) => FileBelow(s, Len(s), j) /\ s[j] = q[j]
  BY <1>1, PoppedAgree DEF LinesInv
<1>8. \A j \in DOMAIN q : FileBelow(q, Len(q) + 1, j) => FrameAgrees(Top, q[j])
  <2>. SUFFICES ASSUME NEW j \in DOMAIN q, FileBelow(q, Len(s), j)
                PROVE  FrameAgrees(Top, q[j])
    BY <1>7
  <2>1. FileBelow(s, Len(s), j) /\ s[j] = q[j] /\ j \in DOMAIN s
    BY <1>7 DEF FileBelow
  <2>. QED  BY <1>1, <2>1 DEF LinesInv, FramesAgree
<1>. HIDE DEF q
<1>9. ASSUME NEW j \in DOMAIN q, FileBelow(q, Len(q) + 1, j)
      PROVE  /\ FrameAgrees(g, q[j])
             /\ nr = q[j].source_info.line_nr /\ info.file = q[j].source_info.file
             /\ CountsLines(g) => g.text = <<>>
  <2>1. FrameAgrees(Top, q[j])
    BY <1>8, <1>9
  <2>2. CountsLines(g) <=> counted
    BY <1>4, <1>5 DEF CountsLines
  <2>3. nr = q[j].source_info.line_nr
    BY <1>1, <2>1 DEF FrameAgrees, CountsLines, nr
  <2>4. counted => g.text = <<>>
    BY <1>1, <1>5, <2>1, FirstLineOne DEF FrameAgrees, CountsLines
  <2>5. OneLine(<<>>)
    BY DEF OneLine
  <2>. QED  BY <1>4, <1>5, <2>1, <2>2, <2>3, <2>4, <2>5 DEF FrameAgrees
<1>10. FramesAgree(r)
  BY <1>5, <1>7, <1>9, PushedAgree
<1>11. InfoAgrees(info, q)
  BY <1>4, <1>9 DEF InfoAgrees
<1>12. InfoAgrees(info, r)
  BY <1>5, <1>7, <1>11, TextKeepsInfo
<1>13. /\ r \in Seq(Frame) /\ Len(r) = Len(s) /\ r[Len(r)] = g
       /\ DOMAIN r = DOMAIN q \cup {Len(r)} /\ \A i \in DOMAIN q : r[i] = q[i]
  BY <1>5, <1>7, FramesPushed
<1>14. \A i \in DOMAIN q : i \in DOMAIN s /\ i # Len(s) /\ q[i] = s[i]
  BY <1>1, FramesPopped DEF q
<1>15. \A i \in DOMAIN q : q[i].value_flag # None => q[i].text = <<>>
  BY <1>14 DEF LinesInv, ValuesReadAtOnce
<1>16. g.value_flag # None => ret = "process" /\ g.text = <<>>
  <2>. SUFFICES ASSUME g.value_flag # None
                PROVE  ret = "process" /\ g.text = <<>>
    OBVIOUS
  <2>1. ReadingValue /\ OneLine(Top.text)
    BY <1>1, <1>5 DEF LinesInv, ValuesReadAtOnce
  <2>. QED  BY <1>1, <1>3, <1>5, <2>1, FirstLineOne DEF ReadingValue
<1>17. ValuesReadAtOnce'
  BY <1>6, <1>13, <1>15, <1>16 DEF ValuesReadAtOnce
<1>18. HasLine' => TopIsRead'
  <2>. SUFFICES ASSUME HasLine'  PROVE TopIsRead'
    OBVIOUS
  <2>1. ret # "process"
    BY <1>3 DEF HasLine
  <2>2. Top' = g /\ Top'.value_flag = None
    BY <1>5, <1>6, <1>13, <1>16, <2>1 DEF Top
  <2>3. ASSUME NEW j \in DOMAIN r, FileBelow(r, Len(r), j)
        PROVE  j \in DOMAIN q /\ FileBelow(q, Len(q) + 1, j)
    <3>1. Len(r) \in 1 .. Len(q) + 1 /\ Len(r) = Len(q) + 1
      BY <1>7, <1>13
    <3>2. FileBelow(q, Len(r), j)
      BY <1>5, <1>7, <2>3, <3>1, SameFileBelow
    <3>. QED  BY <3>1, <3>2 DEF FileBelow
  <2>4. \A j \in DOMAIN r : FileBelow(r, Len(r), j) /\ CountsLines(g) => g.text = <<>>
    BY <1>9, <2>3
  <2>. QED  BY <1>3, <1>4, <1>5, <1>6, <2>2, <2>4 DEF TopIsRead
<1>19. OneLine(line')
  BY <1>1, <1>3, FirstLineOne
<1>. HIDE DEF r
<1>. QED  BY <1>3, <1>6, <1>10, <1>12, <1>17, <1>18, <1>19 DEF LinesInv

(* A line is read from the file on top, and its commented out end goes. *)
LEMMA NextTextFileLineLines ==
  ASSUME IInv, LinesInv, IInv', NextTextFileLine
  PROVE  LinesInv'
<1>. DEFINE s == input_stack
            read == FileLine(Top.text)
            nr == Top.source_info.line_nr + 1
            info == [Top.source_info EXCEPT !.line_nr = nr]
            g == [Top EXCEPT !.text = AfterLine(Top.text), !.source_info = info]
            q == SubSeq(s, 1, Len(s) - 1)
            r == Append(q, g)
            mark == [type |-> "delcomment", counter |-> 0, status |-> "none"]
            f == TextFrame(r, <<>>, Top.source_info.line_nr, None, None, mark)
            next == input_stack'
<1>1. /\ s \in Seq(Frame) /\ s # <<>> /\ Top = s[Len(s)] /\ Top \in Frame
      /\ Top.text \in Text /\ Top.text # <<>> /\ Top.type = "IN_file"
      /\ Top.source_info \in SourceInfo /\ Top.source_info.line_nr \in Int
      /\ Len(s) \in DOMAIN s
  BY LineTypes, TopType DEF NextTextFileLine, Top, SourceInfo
<1>2. nr \in Int /\ AfterLine(Top.text) \in Text /\ read \in Text
  <2>1. nr \in Int
    BY <1>1
  <2>2. AfterLine(Top.text) \in Text /\ read \in Text
    BY <1>1, TextOps
  <2>. QED  BY <2>1, <2>2
<1>3. /\ \/ input_stack' = SetTop(g)
         \/ input_stack' = PushText(SetTop(g), <<>>, Top.source_info.line_nr, None, None, mark)
      /\ current_source_info' = info
      /\ line' = BeforeKind(read, "del") /\ eof' = FALSE /\ pc' = ret /\ ret' = ret
      /\ pushback = <<>> /\ pushback' = <<>> /\ pc = "next_text"
  BY DEF NextTextFileLine, Return
<1>4. CountsLines(Top)
  BY <1>1 DEF LinesInv, FramesAgree
<1>. HIDE DEF nr, mark
<1>5. OneLine(line')
  BY <1>1, <1>2, <1>3, FirstLineOne, PartOneLine
<1>. HIDE DEF read
<1>6. /\ info \in SourceInfo /\ info.file = Top.source_info.file
      /\ info.macro = Top.source_info.macro /\ info.line_nr = nr
  BY <1>1, <1>2 DEF SourceInfo
<1>. HIDE DEF info
<1>7. /\ g \in Frame /\ g.type = "IN_file" /\ g.source_info = info
      /\ g.value_flag = Top.value_flag
  BY <1>1, <1>2, <1>6 DEF Frame
<1>8. CountsLines(g) /\ g.value_flag = None /\ info.macro = None
  BY <1>4, <1>6, <1>7 DEF CountsLines
<1>. HIDE DEF g
<1>9. SetTop(g) = r
  BY <1>1, <1>7, TopChanged DEF SetTop
<1>10. q \in Seq(Frame) /\ FramesAgree(q) /\ Len(q) + 1 = Len(s)
  BY <1>1, PoppedAgree DEF LinesInv
<1>11. \A i \in DOMAIN q : i \in DOMAIN s /\ i # Len(s) /\ q[i] = s[i]
  BY <1>1, FramesPopped DEF q
<1>. HIDE DEF q
<1>12. FramesAgree(r)
  BY <1>7, <1>8, <1>10, PushedAgree
<1>13. /\ r \in Seq(Frame) /\ Len(r) = Len(s) /\ r[Len(r)] = g
       /\ DOMAIN r = DOMAIN q \cup {Len(r)} /\ \A i \in DOMAIN q : r[i] = q[i]
  BY <1>7, <1>10, FramesPushed
<1>14. NoValue(r)
  BY <1>8, <1>11, <1>13 DEF LinesInv, ValuesReadAtOnce, NoValue
<1>. HIDE DEF r
<1>15. \A j \in DOMAIN r : FileBelow(r, Len(r) + 1, j) => j = Len(r)
  <2>1. DOMAIN r = 1 .. Len(r) /\ Len(r) \in Nat /\ Len(r) \in DOMAIN r
    <3>1. r \in Seq(Frame) /\ Len(r) \in DOMAIN r
      BY <1>13
    <3>. QED  BY <3>1
  <2>2. \A j \in DOMAIN r : j < Len(r) \/ j = Len(r)
    BY <2>1
  <2>3. Len(r) < Len(r) + 1
    BY <2>1
  <2>. QED  BY <1>7, <1>13, <2>1, <2>2, <2>3 DEF FileBelow
<1>16. InfoAgrees(info, r)
  BY <1>6, <1>7, <1>13, <1>15 DEF InfoAgrees
<1>17. /\ f \in Frame /\ f.type = "IN_text" /\ f.text = <<>> /\ f.value_flag = None
       /\ f.source_info.macro = None /\ f.source_info.file = info.file
  <2>1. r # <<>>
    BY <1>1, <1>13
  <2>2. <<>> \in Text /\ mark \in SourceMark \cup {None}
    BY DEF Text, mark, SourceMark, MarkTypes, MarkStatus
  <2>3. IsTextFrame(r, None, None, f)
    <3>1. None \in Macros \cup {None} /\ None \in Values \cup {None}
      OBVIOUS
    <3>. QED  BY <1>1, <1>13, <2>2, <3>1, TextFrameType
  <2>4. /\ f.text = <<>> /\ f.value_flag = None
        /\ f.source_info.file = r[Len(r)].source_info.file
        /\ f.source_info.macro = r[Len(r)].source_info.macro
    BY <2>1, TextFrameFields
  <2>5. f.type = "IN_text"
    BY DEF TextFrame
  <2>. QED  BY <1>7, <1>8, <1>13, <2>3, <2>4, <2>5 DEF IsTextFrame
<1>18. PushText(r, <<>>, Top.source_info.line_nr, None, None, mark) = Append(r, f)
  BY DEF PushText
<1>. HIDE DEF f
<1>19. next = r \/ next = Append(r, f)
  BY <1>3, <1>9, <1>18
<1>20. CASE next = r
  <2>1. FramesAgree(next) /\ InfoAgrees(info, next) /\ NoValue(next)
    BY <1>12, <1>14, <1>16, <1>20
  <2>2. TopIsRead'
    <3>1. Top' = g
      BY <1>13, <1>20 DEF Top
    <3>. QED  BY <1>3, <1>7, <1>8, <3>1 DEF TopIsRead
  <2>3. ValuesReadAtOnce'
    BY <2>1 DEF NoValue, ValuesReadAtOnce
  <2>. QED  BY <1>3, <1>5, <2>1, <2>2, <2>3 DEF LinesInv
<1>21. CASE next = Append(r, f)
  <2>1. FramesAgree(next)
    <3>1. \A j \in DOMAIN r : FileBelow(r, Len(r) + 1, j) => FrameAgrees(f, r[j])
      BY <1>7, <1>13, <1>15, <1>17 DEF FrameAgrees, CountsLines, OneLine
    <3>. QED  BY <1>12, <1>13, <1>17, <1>21, <3>1, PushedAgree
  <2>2. InfoAgrees(info, next)
    BY <1>13, <1>16, <1>17, <1>21, TextKeepsInfo
  <2>3. /\ next[Len(next)] = f
        /\ DOMAIN next = DOMAIN r \cup {Len(next)} /\ \A i \in DOMAIN r : next[i] = r[i]
    BY <1>13, <1>17, <1>21, FramesPushed
  <2>4. ValuesReadAtOnce'
    BY <1>14, <1>17, <2>3 DEF NoValue, ValuesReadAtOnce
  <2>5. TopIsRead'
    <3>1. Top' = f
      BY <2>3 DEF Top
    <3>. QED  BY <1>3, <1>8, <1>17, <3>1 DEF TopIsRead
  <2>. QED  BY <1>3, <1>5, <2>1, <2>2, <2>4, <2>5 DEF LinesInv
<1>. QED  BY <1>19, <1>20, <1>21

LEMMA PopLines ==
  ASSUME IInv, LinesInv, NextTextPop
  PROVE  LinesInv'
<1>. DEFINE s == input_stack
            r == SubSeq(s, 1, Len(s) - 1)
<1>1. /\ s \in Seq(Frame) /\ s # <<>> /\ input_stack' = r
      /\ pc' = "next_text" /\ pushback' = <<>> /\ line' = line
  BY LineTypes DEF NextTextPop
<1>2. FramesAgree(r)
  BY <1>1, PoppedAgree DEF LinesInv
<1>3. \A i \in DOMAIN r : i \in DOMAIN s /\ i # Len(s) /\ r[i] = s[i]
  BY <1>1, FramesPopped
<1>. HIDE DEF r
<1>4. ValuesReadAtOnce'
  BY <1>1, <1>3 DEF LinesInv, ValuesReadAtOnce
<1>. QED  BY <1>1, <1>2, <1>4 DEF LinesInv, InLine, HasLine

(* The number is set in the file, or in a frame that has been read. *)
LEMMA LineDirectiveLines ==
  ASSUME IInv, LinesInv, IInv', LineDirective
  PROVE  LinesInv'
<1>. DEFINE s == input_stack
            info == [Top.source_info EXCEPT !.line_nr = HashLine]
            g == [Top EXCEPT !.source_info.line_nr = HashLine]
            q == SubSeq(s, 1, Len(s) - 1)
            r == Append(q, g)
<1>1. /\ s \in Seq(Frame) /\ s # <<>> /\ Top = s[Len(s)] /\ Top \in Frame
      /\ Top.source_info \in SourceInfo /\ HashLine \in Int
      /\ Len(s) \in DOMAIN s
  BY LineTypes, TopType, ParserInputAssumption DEF LineDirective, IInv, LineHasFrame, Top
<1>2. /\ input_stack' = SetTop(g) /\ pc = "newline" /\ ~eof /\ pc' = "next_text"
      /\ current_source_info.macro = None /\ line' = line /\ pushback' = pushback
  BY DEF LineDirective, CallNextText, IsLineDirective
<1>3. g \in Frame /\ g.type = Top.type /\ g.text = Top.text /\ g.value_flag = Top.value_flag
      /\ g.source_info.macro = Top.source_info.macro /\ g.source_info.file = Top.source_info.file
  BY <1>1 DEF Frame, SourceInfo
<1>. HIDE DEF g
<1>4. TopIsRead
  BY <1>2 DEF LinesInv, HasLine
<1>5. CountsLines(Top) /\ CountsLines(g)
  BY <1>2, <1>3, <1>4 DEF TopIsRead, CountsLines
<1>6. input_stack' = r
  BY <1>1, <1>2, <1>3, TopChanged DEF SetTop
<1>7. /\ q \in Seq(Frame) /\ FramesAgree(q) /\ Len(q) + 1 = Len(s)
      /\ \A j : FileBelow(q, Len(s), j) => FileBelow(s, Len(s), j) /\ s[j] = q[j]
  BY <1>1, PoppedAgree DEF LinesInv
<1>8. \A i \in DOMAIN q : i \in DOMAIN s /\ i # Len(s) /\ q[i] = s[i]
  BY <1>1, FramesPopped DEF q
<1>. HIDE DEF q
<1>9. ASSUME g.type = "IN_text", NEW j \in DOMAIN q, FileBelow(q, Len(q) + 1, j)
      PROVE  FrameAgrees(g, q[j])
  <2>1. FileBelow(s, Len(s), j) /\ s[j] = q[j] /\ j \in DOMAIN s
    BY <1>7, <1>9 DEF FileBelow
  <2>2. g.text = <<>>
    BY <1>3, <1>4, <1>5, <1>9, <2>1 DEF TopIsRead
  <2>3. FrameAgrees(Top, q[j])
    BY <1>1, <1>3, <1>9, <2>1 DEF LinesInv, FramesAgree
  <2>. QED  BY <1>3, <1>5, <2>2, <2>3 DEF FrameAgrees, OneLine
<1>10. FramesAgree(r)
  BY <1>3, <1>5, <1>7, <1>9, PushedAgree
<1>11. /\ r[Len(r)] = g /\ DOMAIN r = DOMAIN q \cup {Len(r)} /\ \A i \in DOMAIN q : r[i] = q[i]
  BY <1>3, <1>7, FramesPushed
<1>12. NoValue(s)
  BY <1>2, NoneRead DEF ReadingValue
<1>13. ValuesReadAtOnce'
  BY <1>1, <1>3, <1>6, <1>8, <1>11, <1>12 DEF NoValue, ValuesReadAtOnce
<1>. HIDE DEF r
<1>14. pushback' = <<>>
  BY <1>2 DEF LinesInv
<1>. QED  BY <1>2, <1>6, <1>10, <1>13, <1>14 DEF LinesInv, InLine, HasLine

LEMMA EndCommandLines ==
  ASSUME IInv, LinesInv, EndCommand
  PROVE  LinesInv'
<1>. DEFINE s == input_stack
<1>1. /\ pc = "end_line" /\ pc' = "end_line" /\ line' = line /\ pushback' = pushback
      /\ current_source_info' = current_source_info
  BY CommandEnded
<1>2. /\ ~ReadingValue /\ s \in Seq(Frame) /\ pushback = <<>>
  BY <1>1, LineTypes DEF ReadingValue, LinesInv
<1>3. NoValue(s)
  BY <1>2, NoneRead
<1>4. CASE Included(Innermost)
  <2>. DEFINE f == FileFrame(Innermost)
  <2>1. /\ f \in Frame /\ f.type = "IN_file" /\ f.value_flag = None /\ CountsLines(f)
        /\ input_stack' = Append(s, f)
    BY <1>4, CommandEnded DEF FileFrame, CountsLines
  <2>. HIDE DEF f
  <2>2. FramesAgree(input_stack')
    BY <1>2, <2>1, PushedAgree DEF LinesInv
  <2>3. /\ DOMAIN input_stack' = DOMAIN s \cup {Len(s) + 1}
        /\ \A i \in DOMAIN s : input_stack'[i] = s[i]
        /\ input_stack'[Len(s) + 1] = f
    BY <1>2, <2>1, FramesPushed
  <2>4. ValuesReadAtOnce'
    BY <1>3, <2>1, <2>3 DEF NoValue, ValuesReadAtOnce
  <2>. QED  BY <1>1, <1>2, <2>2, <2>4 DEF LinesInv, InLine, HasLine
<1>5. CASE ~Included(Innermost)
  <2>1. UNCHANGED <<input_stack, current_source_info>>
    BY <1>5, CommandEnded
  <2>. QED  BY <1>1, <1>2, <1>3, <2>1, KeepLines DEF LinesInv, InLine, HasLine
<1>. QED  BY <1>4, <1>5

(* The rest of the line, then the text of an expansion. *)
LEMMA ExpandLines ==
  ASSUME IInv, LinesInv, InfoAgrees(current_source_info, input_stack), NoValue(input_stack),
         NEW rest \in Text, OneLine(rest), NEW text \in Text,
         NEW m \in Macros \cup {None}, NEW v \in Values \cup {None}, m # None \/ v # None,
         NEW mark \in SourceMark
  PROVE  LET r == Expand(rest, text, m, v, mark)
         IN  /\ FramesAgree(r) /\ InfoAgrees(current_source_info, r)
             /\ \A i \in DOMAIN r : r[i].value_flag # None /\ r[i].text # <<>> =>
                  i = Len(r) /\ r[i].text = text /\ r[i].value_flag = v
<1>. DEFINE info == current_source_info
            nr == info.line_nr
            p == PushText(input_stack, rest, nr, None, None, None)
            r == PushText(p, text, nr, m, v, mark)
<1>1. input_stack \in Seq(Frame) /\ info \in SourceInfo /\ FramesAgree(input_stack)
  BY LineTypes DEF LinesInv
<1>2. /\ p \in Seq(Frame) /\ FramesAgree(p) /\ InfoAgrees(info, p)
      /\ p[Len(p)].value_flag = None
      /\ \A i \in DOMAIN input_stack : p[i] = input_stack[i]
      /\ DOMAIN p = DOMAIN input_stack \cup {Len(p)}
  <2>1. /\ None \in Macros \cup {None} /\ None \in Values \cup {None}
        /\ None \in SourceMark \cup {None}
    OBVIOUS
  <2>2. InfoAgrees(info, input_stack) /\ rest \in Text /\ OneLine(rest)
    OBVIOUS
  <2>3. Pushed(p, input_stack, info, rest, None)
    BY ONLY <1>1, <2>1, <2>2, PushTextAgrees
  <2>. HIDE DEF p
  <2>. QED  BY <2>3 DEF Pushed
<1>3. NoValue(p)
  BY <1>2 DEF NoValue
<1>. HIDE DEF p
<1>4. /\ r \in Seq(Frame) /\ FramesAgree(r) /\ InfoAgrees(info, r)
      /\ r[Len(r)].text = text /\ r[Len(r)].value_flag = v
      /\ \A i \in DOMAIN p : r[i] = p[i]
      /\ DOMAIN r = DOMAIN p \cup {Len(r)}
  <2>1. mark \in SourceMark \cup {None} /\ ~(m = None /\ v = None)
    OBVIOUS
  <2>2. Pushed(r, p, info, text, v)
    BY <1>1, <1>2, <2>1, PushTextAgrees
  <2>. HIDE DEF r
  <2>. QED  BY <2>2 DEF Pushed
<1>5. Expand(rest, text, m, v, mark) = r
  BY DEF Expand, p
<1>. HIDE DEF r
<1>6. \A i \in DOMAIN r : r[i].value_flag # None /\ r[i].text # <<>> =>
        i = Len(r) /\ r[i].text = text /\ r[i].value_flag = v
  BY <1>3, <1>4 DEF NoValue
<1>. QED  BY <1>4, <1>5, <1>6

LEMMA ValueLines ==
  ASSUME IInv, LinesInv, Value
  PROVE  LinesInv'
<1>. DEFINE mark == NewMark("value_expansion", "start")
            flag == line[1].n
            text == ValueText[flag]
            r == Expand(Tail(line), text, None, flag, mark)
<1>1. /\ pc = "process" /\ pc' = pc /\ ret' = ret /\ line # <<>> /\ ~eof /\ eof' = eof
      /\ line \in Text /\ pushback = <<>> /\ pushback' = <<>>
      /\ current_source_info' = current_source_info
  BY LineTypes DEF Value, At, LinesInv
<1>2. flag \in Values /\ Tail(line) \in Text /\ OneLine(Tail(line))
  <2>1. line[1] \in Token /\ Tail(line) \in Text
    BY <1>1, LineTypes
  <2>2. OneLine(Tail(line))
    BY <1>1, PartOneLine DEF LinesInv
  <2>. QED  BY <2>1, <2>2, TokenNames DEF Value, At
<1>3. text \in Text /\ OneLine(text)
  <2>1. text \in Text
    BY <1>2, ParserInputAssumption
  <2>2. ~HasKind(text, "nl")
    BY <1>2, ValueAssumption
  <2>. QED  BY <2>1, <2>2 DEF HasKind, OneLine
<1>4. mark \in SourceMark
  BY NewMarkType DEF MarkTypes, MarkStatus, IInv
<1>5. InfoAgrees(current_source_info, input_stack) /\ NoValue(input_stack)
  BY <1>1, NoneRead DEF LinesInv, InLine, ReadingValue
<1>6. CASE UNCHANGED <<input_stack, marks>> /\ line' = Tail(line)
  BY <1>1, <1>2, <1>5, <1>6, KeepLines DEF LinesInv, InLine, HasLine
<1>7. CASE input_stack' = r /\ line' = <<>>
  <2>1. flag \in Values \cup {None} /\ flag # None /\ None \in Macros \cup {None}
    BY <1>2, ParserInputAssumption
  <2>. HIDE DEF flag, text, mark
  <2>2. /\ FramesAgree(r) /\ InfoAgrees(current_source_info, r)
        /\ \A i \in DOMAIN r : r[i].value_flag # None /\ r[i].text # <<>> =>
             i = Len(r) /\ r[i].text = text
    BY <1>2, <1>3, <1>4, <1>5, <2>1, ExpandLines
  <2>. HIDE DEF r
  <2>3. ReadingValue'
    BY <1>1, <1>7 DEF ReadingValue
  <2>4. ValuesReadAtOnce'
    BY <1>3, <1>7, <2>2, <2>3 DEF ValuesReadAtOnce
  <2>5. OneLine(line') /\ ~HasLine'
    BY <1>1, <1>7 DEF OneLine, HasLine
  <2>. QED  BY <1>1, <1>7, <2>2, <2>4, <2>5 DEF LinesInv
<1>. QED  BY <1>6, <1>7 DEF Value

LEMMA FinishMacroLines ==
  ASSUME IInv, LinesInv, NEW m \in Macros, NEW error \in BOOLEAN, NEW args \in Text,
         NEW rest \in Text, OneLine(rest), NEW entered,
         FinishMacro(m, error, args, rest, entered),
         pc \in {"process", "line_arg"}, ~ReadingValue
  PROVE  LinesInv'
<1>. DEFINE mark == NewMark("macro_expansion", "start")
            text == ExpandedBody(m, args)
            r == Expand(rest, text, m, None, mark)
<1>1. \/ line' = rest /\ pc' = "process" /\ UNCHANGED input_stack
      \/ line' = <<>> /\ pc' = "next_text" /\ input_stack' = r
  BY DEF FinishMacro, CallNextText
<1>2. /\ pushback = <<>> /\ pushback' = <<>> /\ current_source_info' = current_source_info
      /\ InfoAgrees(current_source_info, input_stack) /\ NoValue(input_stack)
  BY NoneRead DEF FinishMacro, LinesInv, InLine
<1>3. CASE line' = rest /\ pc' = "process" /\ UNCHANGED input_stack
  BY <1>2, <1>3, KeepLines DEF LinesInv, InLine, HasLine
<1>4. CASE line' = <<>> /\ pc' = "next_text" /\ input_stack' = r
  <2>1. text \in Text /\ mark \in SourceMark
    BY ExpandedBodyType, NewMarkType DEF MarkTypes, MarkStatus, IInv
  <2>2. m \in Macros \cup {None} /\ m # None /\ None \in Values \cup {None}
    BY ParserInputAssumption
  <2>. HIDE DEF text, mark
  <2>3. /\ FramesAgree(r) /\ InfoAgrees(current_source_info, r)
        /\ \A i \in DOMAIN r : r[i].value_flag # None /\ r[i].text # <<>> =>
             r[i].value_flag = None
    BY <1>2, <2>1, <2>2, ExpandLines
  <2>. HIDE DEF r
  <2>4. ValuesReadAtOnce'
    BY <1>4, <2>3 DEF ValuesReadAtOnce
  <2>. QED  BY <1>2, <1>4, <2>3, <2>4 DEF LinesInv, OneLine, InLine, HasLine
<1>. QED  BY <1>1, <1>3, <1>4

LEMMA CallLines ==
  ASSUME IInv, LinesInv, MacroCall \/ LineArgEnd
  PROVE  LinesInv'
<1>1. CASE MacroCall
  <2>1. line # <<>> /\ pc = "process" /\ ~ReadingValue
    BY <1>1 DEF MacroCall, At, ReadingValue
  <2>2. Tail(line) \in Text /\ line[1].n \in Macros /\ OneLine(Tail(line))
    <3>1. line[1] \in Token /\ Tail(line) \in Text /\ OneLine(Tail(line))
      BY <2>1, LineTypes, PartOneLine DEF LinesInv
    <3>. QED  BY <1>1, <3>1, TokenNames DEF MacroCall, At
  <2>3. MacroError(line[1].n, macro_expansion_nr + 1) \in BOOLEAN /\ <<>> \in Text
    BY DEF MacroError, Text
  <2>4. FinishMacro(line[1].n, MacroError(line[1].n, macro_expansion_nr + 1), <<>>,
                 Tail(line), macro_expansion_nr + 1)
    BY <1>1 DEF MacroCall
  <2>. QED  BY <2>1, <2>2, <2>3, <2>4, FinishMacroLines
<1>2. CASE LineArgEnd
  <2>1. /\ pc = "line_arg" /\ call.name \in Macros /\ call.error \in BOOLEAN /\ ~ReadingValue
    BY <1>2 DEF LineArgEnd, IInv, CallControl, ReadingArgument, TypeOK, ReadingValue
  <2>2. BeforeKind(line, "nl") \in Text
    BY LineTypes, TextOps
  <2>3. (IF eof THEN <<>> ELSE <<Nl>>) \in Text /\ OneLine(IF eof THEN <<>> ELSE <<Nl>>)
    <3>1. Nl \in Token
      BY DEF Nl, Token
    <3>2. <<Nl>> \in Text /\ <<>> \in Text
      BY <3>1 DEF Text
    <3>3. OneLine(<<Nl>>) /\ OneLine(<<>>)
      BY DEF OneLine
    <3>. QED  BY <3>2, <3>3
  <2>4. FinishMacro(call.name, call.error, BeforeKind(line, "nl"),
                    IF eof THEN <<>> ELSE <<Nl>>, macro_expansion_nr)
    BY <1>2 DEF LineArgEnd
  <2>. QED  BY <2>1, <2>2, <2>3, <2>4, FinishMacroLines
<1>. QED  BY <1>1, <1>2

LEMMA NextLines == IInv /\ LinesInv /\ [Next]_vars => LinesInv'
<1>. SUFFICES ASSUME IInv, LinesInv, [Next]_vars
              PROVE  LinesInv'
  OBVIOUS
<1>0. IInv'
  BY NextIInv
<1>1. CASE NextText
  BY <1>0, <1>1, ReturnLines, NextTextLineLines, NextTextFileLineLines, PopLines DEF NextText
<1>2. CASE ProcessLine
  BY <1>2, EndCommandLines, CallerLines, ValueLines, CallLines DEF ProcessLine
<1>3. CASE Preamble \/ OutOfInput \/ NewLine \/ LineDirective
  BY <1>0, <1>3, PreambleLines, CallerLines, LineDirectiveLines
<1>4. CASE LineArgMore \/ LineArgEnd \/ ByeLine \/ GatherAfterBye \/ AfterByeEnd
  BY <1>4, CallerLines, CallLines
<1>5. CASE UNCHANGED vars
  <2>1. UNCHANGED <<input_stack, current_source_info, pushback, line, eof, pc, ret>>
    BY <1>5 DEF vars, input_vars
  <2>2. /\ TopIsRead' = TopIsRead /\ ValuesReadAtOnce' = ValuesReadAtOnce
        /\ InLine' = InLine /\ HasLine' = HasLine
    BY <2>1 DEF TopIsRead, Top, ValuesReadAtOnce, ReadingValue, InLine, HasLine
  <2>. QED  BY <2>1, <2>2 DEF LinesInv
<1>. QED  BY <1>1, <1>2, <1>3, <1>4, <1>5 DEF Next

LEMMA LinesInvHolds == Spec => []LinesInv
<1>1. Init => LinesInv
  BY InitLines
<1>2. IInv /\ LinesInv /\ [Next]_vars => LinesInv'
  BY NextLines
<1>. QED  BY <1>1, <1>2, IInvHolds, PTL DEF Spec

(* The line number and the file given to messages are those of the file    *)
(* being read, however many expansions stand between it and the text       *)
(* (input_push, next_text, save_line_directive).                           *)
THEOREM LineNumberCorrect == Spec => []LineNumberOfFile
<1>1. IInv /\ LinesInv => LineNumberOfFile
  <2>. SUFFICES ASSUME IInv, LinesInv, pc = "process", TopFileIndex >= 0
                PROVE  LET file == input_stack[TopFileIndex + 1].source_info
                       IN  /\ current_source_info.line_nr = file.line_nr
                           /\ current_source_info.file = file.file
    BY DEF LineNumberOfFile
  <2>. DEFINE s == input_stack
              files == {i \in DOMAIN s : s[i].type = "IN_file"}
              above == {k \in Nat : Len(s) - k \in files}
  <2>1. s \in Seq(Frame) /\ DOMAIN s = 1 .. Len(s) /\ Len(s) \in Nat
    BY LineTypes
  <2>2. TopFileIndex = IF files = {} THEN -1 ELSE (CHOOSE i \in files : \A j \in files : j <= i) - 1
    BY DEF TopFileIndex
  <2>3. files # {}
    BY <2>2
  <2>4. \E i \in files : \A j \in files : j <= i
    <3>1. above \in SUBSET Nat
      OBVIOUS
    <3>2. \A i \in files : Len(s) - i \in above /\ i \in Nat
      BY <2>1
    <3>3. PICK k \in above : \A n \in above : k <= n
      BY <2>3, <3>1, <3>2, LeastElement
    <3>4. k \in Nat /\ Len(s) - k \in files
      BY <3>3
    <3>. HIDE DEF files, above
    <3>5. \A j \in files : j <= Len(s) - k
      BY <2>1, <3>2, <3>3, <3>4
    <3>. QED  BY <3>4, <3>5
  <2>5. PICK i \in files : TopFileIndex = i - 1 /\ \A j \in files : j <= i
    BY <2>2, <2>3, <2>4
  <2>6. i \in DOMAIN s /\ i \in Nat /\ s[i].type = "IN_file" /\ i <= Len(s) /\ i < Len(s) + 1
    BY <2>1
  <2>7. \A h \in DOMAIN s : i < h => s[h].type = "IN_text"
    <3>1. \A h \in DOMAIN s : s[h] \in Frame /\ h \in Nat
      BY <2>1
    <3>2. \A h \in DOMAIN s : s[h].type \in {"IN_file", "IN_text"}
      BY <3>1 DEF Frame
    <3>. QED  BY <2>5, <2>6, <3>1, <3>2
  <2>8. FileBelow(s, Len(s) + 1, i)
    BY <2>6, <2>7 DEF FileBelow
  <2>9. TopFileIndex + 1 = i
    BY <2>5, <2>6
  <2>. HIDE DEF s
  <2>10. InfoAgrees(current_source_info, s)
    BY DEF LinesInv, InLine, s
  <2>. QED  BY <2>6, <2>8, <2>9, <2>10 DEF InfoAgrees, s
<1>. QED  BY <1>1, IInvHolds, LinesInvHolds, PTL
=============================================================================
