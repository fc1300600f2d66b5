------------------------ MODULE ParserContextProofs ------------------------
(***************************************************************************)
(* Theorems about ParserContext, for every table of commands that is as    *)
(* CommandTable says, every set of expanded formats and every bound.       *)
(*                                                                         *)
(* Each stack is shown first to follow the path when one element is added  *)
(* to it or taken from it, with what is pushed and popped for that element *)
(* (CtxOK, ArgsOK, NestOK, ItemsOK).  PathOK says which element may be in  *)
(* which: it is what makes a function that closes the element it finds     *)
(* close that element's context too.  AgendaOK and AgendaFits say which    *)
(* task may come after which, and on which path it may be begun: it is     *)
(* what makes a function that is called in the middle of another one find  *)
(* the element it is written for.  Each action keeps all of them.          *)
(***************************************************************************)
EXTENDS ParserContext, SequenceTheorems, FiniteSetTheorems, TLAPS

-----------------------------------------------------------------------------
(* Sequences: the last element and what is in front of it. *)

LEMMA AppendFacts ==
  ASSUME NEW S, NEW s \in Seq(S), NEW x \in S
  PROVE  /\ Append(s, x) \in Seq(S) /\ Append(s, x) # <<>>
         /\ Len(Append(s, x)) = Len(s) + 1
         /\ DOMAIN Append(s, x) = 1 .. (Len(s) + 1)
         /\ \A i \in DOMAIN s : Append(s, x)[i] = s[i]
         /\ Append(s, x)[Len(s) + 1] = x
         /\ Last(Append(s, x)) = x
  BY DEF Last

LEMMA Prefix ==
  ASSUME NEW S, NEW s \in Seq(S), NEW n \in 0 .. Len(s)
  PROVE  /\ SubSeq(s, 1, n) \in Seq(S) /\ Len(SubSeq(s, 1, n)) = n
         /\ \A i \in 1 .. n : SubSeq(s, 1, n)[i] = s[i]
<1>1. Len(s) \in Nat /\ n \in Nat /\ n <= Len(s)
  OBVIOUS
<1>2. SubSeq(s, 1, n) \in Seq(S) /\ Len(SubSeq(s, 1, n)) = n
  BY <1>1
<1>3. \A i \in 1 .. n : SubSeq(s, 1, n)[i] = s[i]
  BY <1>1
<1>. QED  BY <1>2, <1>3

LEMMA FrontFacts ==
  ASSUME NEW S, NEW s \in Seq(S), s # <<>>
  PROVE  /\ Front(s) \in Seq(S)
         /\ Len(Front(s)) = Len(s) - 1
         /\ DOMAIN Front(s) = 1 .. (Len(s) - 1)
         /\ \A i \in 1 .. (Len(s) - 1) : Front(s)[i] = s[i]
         /\ Last(s) \in S /\ Last(s) = s[Len(s)] /\ Len(s) \in DOMAIN s
         /\ Len(s) > 0 /\ Len(s) \in Nat /\ DOMAIN s = 1 .. Len(s)
         /\ \A k \in DOMAIN Front(s) : k \in DOMAIN s /\ Front(s)[k] = s[k]
<1>. DEFINE n == Len(s) - 1
<1>1. Len(s) \in Nat /\ Len(s) > 0 /\ n \in 0 .. Len(s) /\ n \in Nat
  OBVIOUS
<1>2. Front(s) = SubSeq(s, 1, n)
  BY DEF Front
<1>3. Front(s) \in Seq(S) /\ Len(Front(s)) = n
  BY <1>1, <1>2, Prefix
<1>4. \A i \in 1 .. n : Front(s)[i] = s[i]
  BY <1>1, <1>2, Prefix
<1>5. DOMAIN Front(s) = 1 .. n
  BY <1>3
<1>. QED  BY <1>1, <1>3, <1>4, <1>5 DEF Last

LEMMA FrontType ==
  ASSUME NEW S, NEW s \in Seq(S)
  PROVE  Front(s) \in Seq(S)
<1>1. CASE s = <<>>
  BY <1>1 DEF Front
<1>2. CASE s # <<>>
  BY <1>2, FrontFacts
<1>. QED  BY <1>1, <1>2

LEMMA DropFacts ==
  ASSUME NEW S, NEW s \in Seq(S), Len(s) >= 2
  PROVE  Drop(s, 2) = Front(Front(s))
  BY DEF Drop, Front

-----------------------------------------------------------------------------
(* A stack that follows the elements of a set, as the path grows and shrinks. *)

LEMMA DepthsAppend ==
  ASSUME NEW p \in Seq(Element), NEW e \in Element, NEW B
  PROVE  /\ e \in B => Depths(Append(p, e), B) = Depths(p, B) \cup {Len(p) + 1}
         /\ e \notin B => Depths(Append(p, e), B) = Depths(p, B)
  BY AppendFacts DEF Depths

LEMMA DepthsFront ==
  ASSUME NEW p \in Seq(Element), p # <<>>, NEW B
  PROVE  /\ Last(p) \in B => /\ Depths(Front(p), B) = Depths(p, B) \ {Len(p)}
                             /\ Len(p) \in Depths(p, B)
         /\ Last(p) \notin B => Depths(Front(p), B) = Depths(p, B)
         /\ \A i \in Depths(p, B) : i \in 1 .. Len(p)
  BY FrontFacts DEF Depths

LEMMA FollowsAppend ==
  ASSUME NEW S, NEW s \in Seq(S), NEW x \in S, \A y \in S : y.elt \in Nat,
         NEW D, Follows(s, D), \A i \in D : i < x.elt
  PROVE  Follows(Append(s, x), D \cup {x.elt})
<1>1. \A k \in DOMAIN s : s[k].elt \in D
  BY DEF Follows
<1>2. DOMAIN s = 1 .. Len(s) /\ Len(s) \in Nat
  OBVIOUS
<1>3. \A k \in DOMAIN Append(s, x) : Append(s, x)[k].elt \in D \cup {x.elt}
  BY <1>1, <1>2, AppendFacts
<1>5. \A d \in D \cup {x.elt} : \E k \in DOMAIN Append(s, x) : Append(s, x)[k].elt = d
  <2>1. \A d \in D : \E k \in DOMAIN s : s[k].elt = d
    BY DEF Follows
  <2>. QED  BY <2>1, <1>2, AppendFacts
<1>4. \A j, k \in DOMAIN Append(s, x) : j < k => Append(s, x)[j].elt < Append(s, x)[k].elt
  <2>1. \A j, k \in DOMAIN s : j < k => s[j].elt < s[k].elt
    BY DEF Follows
  <2>. QED  BY <2>1, <1>1, <1>2, AppendFacts
<1>. QED  BY <1>3, <1>4, <1>5 DEF Follows

LEMMA FollowsFront ==
  ASSUME NEW S, NEW s \in Seq(S), \A y \in S : y.elt \in Nat,
         NEW D, Follows(s, D), NEW d \in D, \A i \in D : i <= d
  PROVE  s # <<>> /\ Last(s).elt = d /\ Follows(Front(s), D \ {d})
<1>1. PICK k \in DOMAIN s : s[k].elt = d
  BY DEF Follows
<1>2. DOMAIN s = 1 .. Len(s) /\ Len(s) \in Nat /\ s # <<>>
  BY <1>1
<1>3. \A j \in DOMAIN s : s[j].elt \in D /\ s[j].elt \in Nat
  BY DEF Follows
<1>4. \A i, j \in DOMAIN s : i < j => s[i].elt < s[j].elt
  BY DEF Follows
<1>5. k = Len(s)
  <2>1. SUFFICES ASSUME k < Len(s)
                 PROVE  FALSE
    BY <1>1, <1>2
  <2>2. s[k].elt < s[Len(s)].elt /\ s[Len(s)].elt <= d
    BY <1>2, <1>3, <1>4, <2>1
  <2>. QED  BY <1>1, <1>2, <1>3, <2>2
<1>6. ASSUME NEW f \in Seq(S), Len(f) = Len(s) - 1,
             \A j \in 1 .. (Len(s) - 1) : f[j] = s[j]
      PROVE  Follows(f, D \ {d})
  <2>1. \A x \in D : \E j \in DOMAIN s : s[j].elt = x
    BY DEF Follows
  <2>2. \A j \in DOMAIN s : j # k => s[j].elt # d
    BY <1>1, <1>2, <1>3, <1>4, <1>5
  <2>3. DOMAIN f = 1 .. (Len(s) - 1)
    BY <1>6
  <2>4. \A j \in DOMAIN f : f[j].elt \in D \ {d}
    BY <2>2, <2>3, <1>2, <1>3, <1>5, <1>6
  <2>5. \A x \in D \ {d} : \E j \in DOMAIN f : f[j].elt = x
    <3>1. TAKE x \in D \ {d}
    <3>2. PICK j \in DOMAIN s : s[j].elt = x
      BY <2>1
    <3>3. j # k
      BY <1>1, <3>2
    <3>4. j \in DOMAIN f
      BY <1>2, <1>5, <2>3, <3>3
    <3>5. f[j] = s[j]
      BY <1>6, <2>3, <3>4
    <3>. QED  BY <3>2, <3>4, <3>5
  <2>6. \A i, j \in DOMAIN f : i < j => f[i].elt < f[j].elt
    <3>1. TAKE i, j \in DOMAIN f
    <3>2. i \in DOMAIN s /\ j \in DOMAIN s /\ f[i] = s[i] /\ f[j] = s[j]
      BY <1>2, <1>6, <2>3
    <3>. QED  BY <1>4, <3>2
  <2>. QED  BY <2>4, <2>5, <2>6 DEF Follows
<1>7. Follows(Front(s), D \ {d})
  BY <1>2, <1>6, FrontFacts
<1>. QED  BY <1>1, <1>2, <1>5, <1>7 DEF Last

LEMMA FollowPush ==
  ASSUME NEW S, NEW s \in Seq(S), NEW x \in S, \A y \in S : y.elt \in Nat,
         NEW p \in Seq(Element), NEW e \in Element, NEW B,
         e \in B, x.elt = Len(p) + 1, Follows(s, Depths(p, B))
  PROVE  Follows(Append(s, x), Depths(Append(p, e), B))
<1>1. Depths(Append(p, e), B) = Depths(p, B) \cup {x.elt}
  BY DepthsAppend
<1>2. \A i \in Depths(p, B) : i < x.elt
  BY DEF Depths
<1>. QED  BY <1>1, <1>2, FollowsAppend

LEMMA FollowSame ==
  ASSUME NEW s, NEW p \in Seq(Element), NEW e \in Element, NEW B,
         e \notin B, Follows(s, Depths(p, B))
  PROVE  Follows(s, Depths(Append(p, e), B))
<1>1. Depths(Append(p, e), B) = Depths(p, B)
  BY DepthsAppend
<1>. QED  BY <1>1

LEMMA FollowPop ==
  ASSUME NEW S, NEW s \in Seq(S), \A y \in S : y.elt \in Nat,
         NEW p \in Seq(Element), p # <<>>, NEW B,
         Last(p) \in B, Follows(s, Depths(p, B))
  PROVE  /\ s # <<>> /\ Last(s).elt = Len(p)
         /\ Follows(Front(s), Depths(Front(p), B))
<1>1. Depths(Front(p), B) = Depths(p, B) \ {Len(p)}
  BY DepthsFront
<1>2. Len(p) \in Depths(p, B)
  BY DepthsFront
<1>3. \A i \in Depths(p, B) : i <= Len(p)
  BY DEF Depths
<1>4. s # <<>> /\ Last(s).elt = Len(p) /\ Follows(Front(s), Depths(p, B) \ {Len(p)})
  BY <1>2, <1>3, FollowsFront, Zenon
<1>. QED  BY <1>1, <1>4

LEMMA FollowStay ==
  ASSUME NEW s, NEW p \in Seq(Element), p # <<>>, NEW B,
         Last(p) \notin B, Follows(s, Depths(p, B))
  PROVE  Follows(s, Depths(Front(p), B))
<1>1. Depths(Front(p), B) = Depths(p, B)
  BY DepthsFront
<1>. QED  BY <1>1

-----------------------------------------------------------------------------
(* The stack of contexts. *)

CtxOK(p, s) ==
  /\ Follows(s, Depths(p, HasContext))
  /\ \A k \in DOMAIN s : s[k].context = ContextOf(p[s[k].elt])

LEMMA EntryElt ==
  /\ \A y \in ContextEntry : y.elt \in Nat
  /\ \A y \in CommandEntry : y.elt \in Nat
  /\ \A y \in Counter : y.elt \in Nat
  BY DEF ContextEntry, CommandEntry, Counter

LEMMA CtxPush ==
  ASSUME NEW p \in Seq(Element), NEW e \in Element, NEW s \in Seq(ContextEntry),
         NEW x \in ContextEntry, x.elt = Len(p) + 1,
         x.context = ContextOf(e), ContextOf(e) # None, CtxOK(p, s)
  PROVE  CtxOK(Append(p, e), Append(s, x))
<1>1. Follows(Append(s, x), Depths(Append(p, e), HasContext))
  BY FollowPush, EntryElt DEF CtxOK, HasContext
<1>2. ASSUME NEW k \in DOMAIN Append(s, x)
      PROVE  Append(s, x)[k].context = ContextOf(Append(p, e)[Append(s, x)[k].elt])
  <2>1. CASE k \in DOMAIN s
    <3>1. s[k].elt \in DOMAIN p
      BY <2>1 DEF CtxOK, Follows, Depths
    <3>2. Append(s, x)[k] = s[k]
      BY <2>1, AppendFacts
    <3>3. Append(p, e)[s[k].elt] = p[s[k].elt]
      BY <3>1, AppendFacts
    <3>. QED  BY <2>1, <3>2, <3>3 DEF CtxOK
  <2>2. CASE k = Len(s) + 1
    <3>1. Append(s, x)[k] = x
      BY <2>2, AppendFacts
    <3>2. Append(p, e)[x.elt] = e
      BY AppendFacts
    <3>. QED  BY <3>1, <3>2
  <2>3. DOMAIN Append(s, x) = 1 .. (Len(s) + 1) /\ DOMAIN s = 1 .. Len(s) /\ Len(s) \in Nat
    BY AppendFacts
  <2>4. k \in DOMAIN s \/ k = Len(s) + 1
    BY <2>3
  <2>. QED  BY <2>1, <2>2, <2>4
<1>. QED  BY <1>1, <1>2 DEF CtxOK

LEMMA CtxSame ==
  ASSUME NEW p \in Seq(Element), NEW e \in Element, NEW s \in Seq(ContextEntry),
         ContextOf(e) = None, CtxOK(p, s)
  PROVE  CtxOK(Append(p, e), s)
<1>1. Follows(s, Depths(Append(p, e), HasContext))
  BY FollowSame DEF CtxOK, HasContext
<1>2. \A k \in DOMAIN s : s[k].elt \in DOMAIN p
  BY DEF CtxOK, Follows, Depths
<1>3. \A k \in DOMAIN s : s[k].context = ContextOf(Append(p, e)[s[k].elt])
  BY <1>2, AppendFacts DEF CtxOK
<1>. QED  BY <1>1, <1>3 DEF CtxOK

LEMMA CtxPop ==
  ASSUME NEW p \in Seq(Element), p # <<>>, NEW s \in Seq(ContextEntry),
         ContextOf(Last(p)) # None, CtxOK(p, s)
  PROVE  /\ s # <<>> /\ Last(s).elt = Len(p) /\ Last(s).context = ContextOf(Last(p))
         /\ CtxOK(Front(p), Front(s))
<1>1. Last(p) \in HasContext
  BY FrontFacts DEF HasContext
<1>2. s # <<>> /\ Last(s).elt = Len(p) /\ Follows(Front(s), Depths(Front(p), HasContext))
  BY <1>1, FollowPop, EntryElt DEF CtxOK
<1>3. Last(s).context = ContextOf(Last(p))
  BY <1>2, FrontFacts DEF CtxOK, Last
<1>4. ASSUME NEW k \in DOMAIN Front(s)
      PROVE  Front(s)[k].context = ContextOf(Front(p)[Front(s)[k].elt])
  <2>1. k \in DOMAIN s /\ Front(s)[k] = s[k]
    BY <1>2, FrontFacts
  <2>2. Front(s)[k].elt \in DOMAIN Front(p)
    BY <1>2 DEF Follows, Depths
  <2>3. Front(p)[s[k].elt] = p[s[k].elt]
    BY <2>1, <2>2, FrontFacts
  <2>. QED  BY <2>1, <2>3 DEF CtxOK
<1>. QED  BY <1>2, <1>3, <1>4 DEF CtxOK

LEMMA CtxStay ==
  ASSUME NEW p \in Seq(Element), p # <<>>, NEW s \in Seq(ContextEntry),
         ContextOf(Last(p)) = None, CtxOK(p, s)
  PROVE  CtxOK(Front(p), s)
<1>1. Last(p) \notin HasContext
  BY DEF HasContext
<1>2. Follows(s, Depths(Front(p), HasContext))
  BY <1>1, FollowStay DEF CtxOK
<1>3. ASSUME NEW k \in DOMAIN s
      PROVE  s[k].context = ContextOf(Front(p)[s[k].elt])
  <2>1. s[k].elt \in DOMAIN Front(p)
    BY <1>2 DEF Follows, Depths
  <2>2. Front(p)[s[k].elt] = p[s[k].elt]
    BY <2>1, FrontFacts
  <2>. QED  BY <2>2 DEF CtxOK
<1>. QED  BY <1>2, <1>3 DEF CtxOK

-----------------------------------------------------------------------------
(* The counters of arguments.  ArgsDepth is the depth of the command that  *)
(* has an argument opened by e at the end of p, 0 when e opens none.       *)

ArgsDepth(p, e) ==
  IF e.type = "ET_brace_command" THEN Len(p) + 1
  ELSE IF OpensArguments(Last(p), e) THEN Len(p) ELSE 0

LEMMA ReadsAppend ==
  ASSUME NEW p \in Seq(Element), p # <<>>, NEW e \in Element
  PROVE  /\ ArgsDepth(p, e) # 0 =>
              /\ ReadsArguments(Append(p, e)) = ReadsArguments(p) \cup {ArgsDepth(p, e)}
              /\ \A i \in ReadsArguments(p) : i < ArgsDepth(p, e)
         /\ ArgsDepth(p, e) = 0 => ReadsArguments(Append(p, e)) = ReadsArguments(p)
         /\ ArgsDepth(p, e) \in Nat
<1>. DEFINE q == Append(p, e)
            Reads(r, i) == \/ r[i].type = "ET_brace_command"
                           \/ i < Len(r) /\ OpensArguments(r[i], r[i + 1])
<1>1. /\ Len(p) \in Nat /\ Len(p) > 0 /\ DOMAIN p = 1 .. Len(p)
      /\ DOMAIN q = 1 .. (Len(p) + 1) /\ Len(q) = Len(p) + 1
      /\ \A i \in 1 .. Len(p) : q[i] = p[i]
      /\ q[Len(p) + 1] = e /\ Last(p) = p[Len(p)]
  <2>1. Len(p) \in Nat /\ Len(p) > 0 /\ DOMAIN p = 1 .. Len(p) /\ Last(p) = p[Len(p)]
    BY FrontFacts
  <2>2. /\ DOMAIN q = 1 .. (Len(p) + 1) /\ Len(q) = Len(p) + 1
        /\ \A i \in DOMAIN p : q[i] = p[i]
        /\ q[Len(p) + 1] = e
    BY AppendFacts
  <2>. QED  BY <2>1, <2>2
<1>. HIDE DEF q
<1>2. ReadsArguments(q) = {i \in 1 .. (Len(p) + 1) : Reads(q, i)}
      /\ ReadsArguments(p) = {i \in 1 .. Len(p) : Reads(p, i)}
  BY <1>1 DEF ReadsArguments
<1>3. \A i \in 1 .. (Len(p) - 1) : Reads(q, i) <=> Reads(p, i)
  BY <1>1
<1>4. Reads(q, Len(p) + 1) <=> e.type = "ET_brace_command"
  BY <1>1
<1>5. Reads(q, Len(p)) <=> \/ p[Len(p)].type = "ET_brace_command"
                          \/ OpensArguments(Last(p), e)
  BY <1>1
<1>6. Reads(p, Len(p)) <=> p[Len(p)].type = "ET_brace_command"
  BY <1>1
<1>7. OpensArguments(Last(p), e) => /\ p[Len(p)].type # "ET_brace_command"
                                    /\ e.type # "ET_brace_command"
  BY <1>1 DEF OpensArguments
<1>8. ArgsDepth(p, e) \in Nat
  BY <1>1 DEF ArgsDepth
<1>. HIDE DEF Reads
<1>9. CASE e.type = "ET_brace_command"
  <2>1. ArgsDepth(p, e) = Len(p) + 1 /\ ~OpensArguments(Last(p), e)
    BY <1>7, <1>9 DEF ArgsDepth
  <2>2. \A i \in 1 .. Len(p) : Reads(q, i) <=> Reads(p, i)
    BY <1>1, <1>3, <1>5, <1>6, <2>1
  <2>. QED  BY <1>1, <1>2, <1>4, <1>9, <2>1, <2>2 DEF q
<1>10. CASE e.type # "ET_brace_command" /\ OpensArguments(Last(p), e)
  <2>1. ArgsDepth(p, e) = Len(p)
    BY <1>10 DEF ArgsDepth
  <2>2. ~Reads(p, Len(p)) /\ Reads(q, Len(p)) /\ ~Reads(q, Len(p) + 1)
    BY <1>4, <1>5, <1>6, <1>7, <1>10
  <2>. QED  BY <1>1, <1>2, <1>3, <2>1, <2>2 DEF q
<1>11. CASE e.type # "ET_brace_command" /\ ~OpensArguments(Last(p), e)
  <2>1. ArgsDepth(p, e) = 0
    BY <1>11 DEF ArgsDepth
  <2>2. \A i \in 1 .. Len(p) : Reads(q, i) <=> Reads(p, i)
    BY <1>1, <1>3, <1>5, <1>6, <1>11
  <2>3. ~Reads(q, Len(p) + 1)
    BY <1>4, <1>11
  <2>. QED  BY <1>1, <1>2, <2>1, <2>2, <2>3 DEF q
<1>. QED  BY <1>8, <1>9, <1>10, <1>11

LEMMA Rebuilt ==
  ASSUME NEW S, NEW p \in Seq(S), p # <<>>
  PROVE  p = Append(Front(p), Last(p))
<1>1. Len(p) \in Nat /\ Len(p) > 0 /\ Len(p) - 1 \in 0 .. Len(p) /\ Len(p) - 1 \in Nat
  OBVIOUS
<1>2. /\ Front(p) \in Seq(S) /\ Len(Front(p)) = Len(p) - 1 /\ Last(p) \in S
      /\ \A i \in 1 .. (Len(p) - 1) : Front(p)[i] = p[i]
      /\ Last(p) = p[Len(p)]
  BY FrontFacts
<1>. DEFINE q == Append(Front(p), Last(p))
<1>3. q \in Seq(S) /\ Len(q) = Len(p)
  BY <1>1, <1>2, AppendFacts
<1>4. \A i \in 1 .. Len(p) : q[i] = p[i]
  BY <1>1, <1>2, AppendFacts
<1>. HIDE DEF q
<1>5. q = p
  BY <1>3, <1>4, SeqEqual
<1>. QED  BY <1>5 DEF q

(* The counters follow the commands that read arguments.  A counter goes   *)
(* below 0 only for a brace command that takes none.                       *)
ArgsOK(p, s) ==
  /\ Follows(s, ReadsArguments(p))
  /\ \A k \in DOMAIN s : s[k].value >= 0 \/ p[s[k].elt].type = "ET_brace_command"

LEMMA ReadsInPath ==
  ASSUME NEW p, NEW s, ArgsOK(p, s)
  PROVE  \A k \in DOMAIN s : s[k].elt \in DOMAIN p
  BY DEF ArgsOK, Follows, ReadsArguments

LEMMA ArgPush ==
  ASSUME NEW p \in Seq(Element), p # <<>>, NEW e \in Element, NEW s \in Seq(Counter),
         NEW x \in Counter, x.elt = ArgsDepth(p, e), ArgsDepth(p, e) # 0,
         x.value >= 0 \/ e.type = "ET_brace_command", ArgsOK(p, s)
  PROVE  ArgsOK(Append(p, e), Append(s, x))
<1>1. /\ ReadsArguments(Append(p, e)) = ReadsArguments(p) \cup {x.elt}
      /\ \A i \in ReadsArguments(p) : i < x.elt
  BY ReadsAppend
<1>2. Follows(Append(s, x), ReadsArguments(Append(p, e)))
  BY <1>1, FollowsAppend, EntryElt DEF ArgsOK
<1>3. ASSUME NEW k \in DOMAIN s
      PROVE  s[k].value >= 0 \/ Append(p, e)[s[k].elt].type = "ET_brace_command"
  <2>1. Append(p, e)[s[k].elt] = p[s[k].elt]
    BY ReadsInPath, AppendFacts
  <2>. QED  BY <2>1 DEF ArgsOK
<1>4. x.value >= 0 \/ Append(p, e)[x.elt].type = "ET_brace_command"
  BY AppendFacts DEF ArgsDepth
<1>5. \A k \in DOMAIN Append(s, x) :
        \/ k \in DOMAIN s /\ Append(s, x)[k] = s[k]
        \/ k = Len(s) + 1 /\ Append(s, x)[k] = x
  BY AppendFacts
<1>6. \A k \in DOMAIN Append(s, x) :
        \/ Append(s, x)[k].value >= 0
        \/ Append(p, e)[Append(s, x)[k].elt].type = "ET_brace_command"
  BY <1>3, <1>4, <1>5
<1>. QED  BY <1>2, <1>6 DEF ArgsOK

LEMMA ArgSame ==
  ASSUME NEW p \in Seq(Element), p # <<>>, NEW e \in Element, NEW s \in Seq(Counter),
         ArgsDepth(p, e) = 0, ArgsOK(p, s)
  PROVE  ArgsOK(Append(p, e), s)
<1>1. Follows(s, ReadsArguments(Append(p, e)))
  BY ReadsAppend DEF ArgsOK
<1>2. ASSUME NEW k \in DOMAIN s
      PROVE  s[k].value >= 0 \/ Append(p, e)[s[k].elt].type = "ET_brace_command"
  <2>1. Append(p, e)[s[k].elt] = p[s[k].elt]
    BY ReadsInPath, AppendFacts
  <2>. QED  BY <2>1 DEF ArgsOK
<1>. QED  BY <1>1, <1>2 DEF ArgsOK

LEMMA ArgPop ==
  ASSUME NEW p \in Seq(Element), Len(p) > 1, NEW s \in Seq(Counter),
         NEW d, d = ArgsDepth(Front(p), Last(p)), d # 0, ArgsOK(p, s)
  PROVE  s # <<>> /\ Last(s).elt = d /\ ArgsOK(Front(p), Front(s))
<1>1. p # <<>> /\ p = Append(Front(p), Last(p))
  BY Rebuilt
<1>2. Front(p) \in Seq(Element) /\ Front(p) # <<>> /\ Last(p) \in Element
  BY <1>1, FrontFacts
<1>3. /\ ReadsArguments(p) = ReadsArguments(Front(p)) \cup {d}
      /\ \A i \in ReadsArguments(Front(p)) : i < d
      /\ d \in Nat
  BY <1>1, <1>2, ReadsAppend
<1>4. ReadsArguments(p) \ {d} = ReadsArguments(Front(p))
  BY <1>3
<1>5. d \in ReadsArguments(p) /\ \A i \in ReadsArguments(p) : i <= d
  <2>1. \A i \in ReadsArguments(Front(p)) : i \in Nat
    BY <1>2, FrontFacts DEF ReadsArguments
  <2>. QED  BY <1>3, <2>1
<1>6. s # <<>> /\ Last(s).elt = d /\ Follows(Front(s), ReadsArguments(p) \ {d})
  BY <1>5, FollowsFront, EntryElt DEF ArgsOK
<1>7. ASSUME NEW k \in DOMAIN Front(s)
      PROVE  Front(s)[k].value >= 0 \/ Front(p)[Front(s)[k].elt].type = "ET_brace_command"
  <2>1. k \in DOMAIN s /\ Front(s)[k] = s[k]
    BY <1>6, FrontFacts
  <2>2. s[k].elt \in DOMAIN Front(p)
    BY <1>4, <1>6, <2>1 DEF Follows, ReadsArguments
  <2>3. Front(p)[s[k].elt] = p[s[k].elt]
    BY <1>1, <2>2, FrontFacts
  <2>. QED  BY <2>1, <2>3 DEF ArgsOK
<1>. QED  BY <1>4, <1>6, <1>7 DEF ArgsOK

LEMMA ArgStay ==
  ASSUME NEW p \in Seq(Element), Len(p) > 1, NEW s \in Seq(Counter),
         ArgsDepth(Front(p), Last(p)) = 0, ArgsOK(p, s)
  PROVE  ArgsOK(Front(p), s)
<1>1. p # <<>> /\ p = Append(Front(p), Last(p))
  BY Rebuilt
<1>2. Front(p) \in Seq(Element) /\ Front(p) # <<>> /\ Last(p) \in Element
  BY <1>1, FrontFacts
<1>3. ReadsArguments(p) = ReadsArguments(Front(p))
  BY <1>1, <1>2, ReadsAppend
<1>4. ASSUME NEW k \in DOMAIN s
      PROVE  s[k].value >= 0 \/ Front(p)[s[k].elt].type = "ET_brace_command"
  <2>2. s[k].elt \in DOMAIN Front(p)
    BY <1>3 DEF ArgsOK, Follows, ReadsArguments
  <2>3. Front(p)[s[k].elt] = p[s[k].elt]
    BY <1>1, <2>2, FrontFacts
  <2>. QED  BY <2>3 DEF ArgsOK
<1>. QED  BY <1>3, <1>4 DEF ArgsOK

-----------------------------------------------------------------------------
(* The stacks of commands, the counts and the counters of lists. *)

LEMMA CountAppend ==
  ASSUME NEW p \in Seq(Element), NEW e \in Element, NEW B
  PROVE  /\ Cardinality(Depths(p, B)) \in Nat
         /\ e \in B => Cardinality(Depths(Append(p, e), B)) = Cardinality(Depths(p, B)) + 1
         /\ e \notin B => Cardinality(Depths(Append(p, e), B)) = Cardinality(Depths(p, B))
<1>1. IsFiniteSet(Depths(p, B))
  <2>1. IsFiniteSet(1 .. Len(p))
    BY FS_Interval
  <2>2. Depths(p, B) \in SUBSET (1 .. Len(p))
    BY DEF Depths
  <2>. QED  BY <2>1, <2>2, FS_Subset
<1>2. Len(p) + 1 \notin Depths(p, B)
  BY DEF Depths
<1>. QED  BY <1>1, <1>2, DepthsAppend, FS_AddElement, FS_CardinalityType

LEMMA CountFront ==
  ASSUME NEW p \in Seq(Element), p # <<>>, NEW B
  PROVE  /\ Cardinality(Depths(Front(p), B)) \in Nat
         /\ Last(p) \in B => Cardinality(Depths(Front(p), B)) = Cardinality(Depths(p, B)) - 1
         /\ Last(p) \notin B => Cardinality(Depths(Front(p), B)) = Cardinality(Depths(p, B))
<1>1. p = Append(Front(p), Last(p)) /\ Front(p) \in Seq(Element) /\ Last(p) \in Element
  BY Rebuilt, FrontFacts
<1>2. /\ Cardinality(Depths(Front(p), B)) \in Nat
      /\ Last(p) \in B => Cardinality(Depths(Append(Front(p), Last(p)), B))
                             = Cardinality(Depths(Front(p), B)) + 1
      /\ Last(p) \notin B => Cardinality(Depths(Append(Front(p), Last(p)), B))
                             = Cardinality(Depths(Front(p), B))
  BY <1>1, CountAppend
<1>3. Cardinality(Depths(p, B)) = Cardinality(Depths(Append(Front(p), Last(p)), B))
  BY <1>1, Zenon
<1>4. Cardinality(Depths(p, B)) \in Nat
  BY CountAppend
<1>. QED  BY <1>2, <1>3, <1>4

List == {e \in Element : e.type = "ET_block_command" /\ e.cmd \in ListCommands}

NestOK(p, n) ==
  /\ Follows(n.basic_inline_stack, Depths(p, BasicInline("ET_brace_command")))
  /\ Follows(n.basic_inline_stack_on_line, Depths(p, BasicInline("ET_line_arg")))
  /\ Follows(n.basic_inline_stack_block, Depths(p, BasicInline("ET_block_line_arg")))
  /\ Follows(n.regions_stack, Depths(p, Region))
  /\ n.footnote = Cardinality(Depths(p, Brace({"footnote"})))
  /\ n.caption = Cardinality(Depths(p, Brace(CaptionCommands)))

(* There is a counter for each list that is open, and there may be more.   *)
ItemsOK(p, ci) == Cardinality(Depths(p, List)) <= Len(ci)

StacksTypes(cs, n, cra, ci) ==
  /\ cs \in Seq(ContextEntry) /\ n \in NestingContext
  /\ cra \in Seq(Counter) /\ ci \in Seq(Counter)

(* All the stacks follow the path p. *)
StacksOK(p, cs, n, cra, ci) ==
  /\ StacksTypes(cs, n, cra, ci)
  /\ CtxOK(p, cs)
  /\ ArgsOK(p, cra)
  /\ NestOK(p, n)
  /\ ItemsOK(p, ci)

LEMMA NestSame ==
  ASSUME NEW p \in Seq(Element), NEW e \in Element, NEW n, NEW ci,
         e.type \notin {"ET_brace_command", "ET_line_arg", "ET_block_line_arg",
                       "ET_block_command"}
  PROVE  /\ NestOK(p, n) => NestOK(Append(p, e), n)
         /\ ItemsOK(p, ci) => ItemsOK(Append(p, e), ci)
<1>1. \A t \in {"ET_brace_command", "ET_line_arg", "ET_block_line_arg"} : e \notin BasicInline(t)
  BY DEF BasicInline
<1>2. e \notin Region /\ e \notin List /\ \A S : e \notin Brace(S)
  BY DEF Region, List, Brace
<1>. QED  BY <1>1, <1>2, FollowSame, CountAppend DEF NestOK, ItemsOK

LEMMA NestStay ==
  ASSUME NEW p \in Seq(Element), p # <<>>, NEW n, NEW ci,
         Last(p).type \notin {"ET_brace_command", "ET_line_arg", "ET_block_line_arg",
                             "ET_block_command"}
  PROVE  /\ NestOK(p, n) => NestOK(Front(p), n)
         /\ ItemsOK(p, ci) => ItemsOK(Front(p), ci)
<1>1. \A t \in {"ET_brace_command", "ET_line_arg", "ET_block_line_arg"} :
        Last(p) \notin BasicInline(t)
  BY DEF BasicInline
<1>2. Last(p) \notin Region /\ Last(p) \notin List /\ \A S : Last(p) \notin Brace(S)
  BY DEF Region, List, Brace
<1>. QED  BY <1>1, <1>2, FollowStay, CountFront DEF NestOK, ItemsOK

(* Elements that no stack has an entry for. *)
PlainTypes == Types \ {"ET_document_root", "ET_paragraph", "ET_line_arg", "ET_block_line_arg",
                       "ET_arguments_line", "ET_brace_command", "ET_block_command"}

LEMMA PlainArgs ==
  ASSUME NEW p, NEW e, e.type \notin {"ET_brace_command", "ET_arguments_line", "ET_line_arg"}
  PROVE  ArgsDepth(p, e) = 0
  BY DEF ArgsDepth, OpensArguments

LEMMA PlainAppend ==
  ASSUME NEW p \in Seq(Element), p # <<>>, NEW e \in Element, e.type \in PlainTypes,
         NEW cs, NEW n, NEW cra, NEW ci, StacksOK(p, cs, n, cra, ci)
  PROVE  StacksOK(Append(p, e), cs, n, cra, ci)
<1>1. CtxOK(Append(p, e), cs)
  <2>1. ContextOf(e) = None
    BY DEF ContextOf, PlainTypes, Types, CommandTypes
  <2>. QED  BY <2>1, CtxSame DEF StacksOK, StacksTypes
<1>2. ArgsOK(Append(p, e), cra)
  <2>1. ArgsDepth(p, e) = 0
    BY PlainArgs DEF PlainTypes
  <2>. QED  BY <2>1, ArgSame DEF StacksOK, StacksTypes
<1>3. NestOK(Append(p, e), n) /\ ItemsOK(Append(p, e), ci)
  BY NestSame DEF StacksOK, PlainTypes
<1>. QED  BY <1>1, <1>2, <1>3 DEF StacksOK

LEMMA PlainFront ==
  ASSUME NEW p \in Seq(Element), Len(p) > 1, Last(p).type \in PlainTypes,
         NEW cs, NEW n, NEW cra, NEW ci, StacksOK(p, cs, n, cra, ci)
  PROVE  StacksOK(Front(p), cs, n, cra, ci)
<1>. p # <<>>
  OBVIOUS
<1>1. CtxOK(Front(p), cs)
  <2>1. ContextOf(Last(p)) = None
    BY DEF ContextOf, PlainTypes, Types, CommandTypes
  <2>. QED  BY <2>1, CtxStay DEF StacksOK, StacksTypes
<1>2. ArgsOK(Front(p), cra)
  <2>1. ArgsDepth(Front(p), Last(p)) = 0
    BY PlainArgs DEF PlainTypes
  <2>. QED  BY <2>1, ArgStay DEF StacksOK, StacksTypes
<1>3. NestOK(Front(p), n) /\ ItemsOK(Front(p), ci)
  BY NestStay DEF StacksOK, PlainTypes
<1>. QED  BY <1>1, <1>2, <1>3 DEF StacksOK

LEMMA ParagraphAppend ==
  ASSUME NEW p \in Seq(Element), p # <<>>,
         NEW cs, NEW n, NEW cra, NEW ci, StacksOK(p, cs, n, cra, ci)
  PROVE  StacksOK(Append(p, E("ET_paragraph", CM_NONE)),
                  PushedContext(cs, Len(p) + 1, "ct_paragraph", CM_NONE), n, cra, ci)
<1>. DEFINE e == E("ET_paragraph", CM_NONE)
            x == [elt |-> Len(p) + 1, context |-> "ct_paragraph", command |-> CM_NONE]
<1>0. e \in Element /\ e.type = "ET_paragraph" /\ x \in ContextEntry
      /\ x.elt = Len(p) + 1 /\ x.context = "ct_paragraph"
  BY DEF E, Element, Types, AllCommands, ContextEntry, Contexts
<1>5. ContextOf(e) = "ct_paragraph" /\ ContextOf(e) # None
  BY <1>0 DEF ContextOf, None
<1>. HIDE DEF e, x
<1>1. CtxOK(Append(p, e), Append(cs, x))
  BY <1>0, <1>5, CtxPush DEF StacksOK, StacksTypes
<1>2. ArgsOK(Append(p, e), cra)
  BY <1>0, PlainArgs, ArgSame DEF StacksOK, StacksTypes
<1>3. NestOK(Append(p, e), n) /\ ItemsOK(Append(p, e), ci)
  BY <1>0, NestSame DEF StacksOK
<1>4. StacksTypes(Append(cs, x), n, cra, ci)
  BY <1>0, AppendFacts DEF StacksOK, StacksTypes
<1>6. StacksOK(Append(p, e), Append(cs, x), n, cra, ci)
  BY <1>1, <1>2, <1>3, <1>4 DEF StacksOK
<1>. QED  BY <1>6 DEF PushedContext, e, x

LEMMA ParagraphFront ==
  ASSUME NEW p \in Seq(Element), Len(p) > 1, Last(p).type = "ET_paragraph",
         NEW cs, NEW n, NEW cra, NEW ci, StacksOK(p, cs, n, cra, ci)
  PROVE  /\ StacksOK(Front(p), Front(cs), n, cra, ci)
         /\ top_(cs) = "ct_paragraph"
<1>. p # <<>>
  OBVIOUS
<1>1. CtxOK(Front(p), Front(cs)) /\ top_(cs) = "ct_paragraph"
  <2>1. ContextOf(Last(p)) = "ct_paragraph" /\ ContextOf(Last(p)) # None
    BY DEF ContextOf, None
  <2>2. cs # <<>> /\ Last(cs).context = "ct_paragraph" /\ CtxOK(Front(p), Front(cs))
    BY <2>1, CtxPop DEF StacksOK, StacksTypes
  <2>. QED  BY <2>2 DEF top_
<1>2. ArgsOK(Front(p), cra)
  BY PlainArgs, ArgStay DEF StacksOK, StacksTypes
<1>3. NestOK(Front(p), n) /\ ItemsOK(Front(p), ci)
  BY NestStay DEF StacksOK
<1>4. StacksTypes(Front(cs), n, cra, ci)
  BY FrontType DEF StacksOK, StacksTypes
<1>. QED  BY <1>1, <1>2, <1>3, <1>4 DEF StacksOK

-----------------------------------------------------------------------------
(* Brace commands. *)

LEMMA CommandData ==
  ASSUME NEW c \in Commands
  PROVE  /\ c \in AllCommands /\ c # CM_NONE
         /\ args_number[c] \in Nat
         /\ Has(c, "CF_brace") => PoppedBraceContext(c) = BraceContext(c)
         /\ ~Has(c, "CF_def") => PoppedBlockContext(c) = BlockContext(c)
         /\ Has(c, "CF_def") => /\ PoppedBlockContext(c) = None
                                /\ data[c] # "BLOCK_region" /\ c \notin ListCommands
<1>1. c \in AllCommands /\ c # CM_NONE /\ args_number[c] \in Nat
  BY CommandTable DEF AllCommands
<1>2. Has(c, "CF_brace") => PoppedBraceContext(c) = BraceContext(c)
  BY CommandTable DEF PoppedBraceContext, BraceContext
<1>3. /\ Has(c, "CF_preformatted") <=> data[c] = "BLOCK_preformatted"
      /\ c = "displaymath" =>
           data[c] \notin {"BLOCK_preformatted", "BLOCK_menu", "BLOCK_format_raw"}
      /\ (\/ data[c] \in {"BLOCK_preformatted", "BLOCK_menu", "BLOCK_format_raw",
                           "BLOCK_region", "BLOCK_conditional", "BLOCK_raw"}
          \/ c \in ListCommands \cup {"displaymath"}) => ~Has(c, "CF_def")
  BY CommandTable
<1>4. PoppedBlockContext(c) = BlockContext(c)
  BY <1>3 DEF PoppedBlockContext, BlockContext
<1>5. Has(c, "CF_def") => /\ PoppedBlockContext(c) = None
                          /\ data[c] # "BLOCK_region" /\ c \notin ListCommands
  BY <1>3 DEF PoppedBlockContext
<1>. QED  BY <1>1, <1>2, <1>4, <1>5

LEMMA ContextTypes ==
  ASSUME NEW c
  PROVE  /\ BraceContext(c) = None \/ BraceContext(c) \in Contexts
         /\ BlockContext(c) = None \/ BlockContext(c) \in Contexts
  BY DEF BraceContext, BlockContext, Contexts, None

LEMMA PushedTypes ==
  ASSUME NEW d \in Nat, NEW c \in AllCommands
  PROVE  /\ \A cs \in Seq(ContextEntry), ct \in Contexts :
                PushedContext(cs, d, ct, c) \in Seq(ContextEntry)
         /\ \A s \in Seq(CommandEntry) : Pushed(s, d, c) \in Seq(CommandEntry)
         /\ \A s \in Seq(Counter), n \in Int : PushedCounter(s, d, n) \in Seq(Counter)
<1>1. \A ct \in Contexts : [elt |-> d, context |-> ct, command |-> c] \in ContextEntry
  BY DEF ContextEntry
<1>2. [elt |-> d, command |-> c] \in CommandEntry
  BY DEF CommandEntry
<1>3. \A n \in Int : [elt |-> d, value |-> n] \in Counter
  BY DEF Counter
<1>4. \A cs \in Seq(ContextEntry), ct \in Contexts :
         PushedContext(cs, d, ct, c) \in Seq(ContextEntry)
  BY <1>1, AppendFacts DEF PushedContext
<1>5. \A s \in Seq(CommandEntry) : Pushed(s, d, c) \in Seq(CommandEntry)
  BY <1>2, AppendFacts DEF Pushed
<1>6. \A s \in Seq(Counter), n \in Int : PushedCounter(s, d, n) \in Seq(Counter)
  BY <1>3, AppendFacts DEF PushedCounter
<1>. QED  BY <1>4, <1>5, <1>6

LEMMA ContextPushed ==
  ASSUME NEW p \in Seq(Element), NEW e \in Element, NEW cs \in Seq(ContextEntry),
         NEW c \in AllCommands, ContextOf(e) = None \/ ContextOf(e) \in Contexts,
         CtxOK(p, cs)
  PROVE  CtxOK(Append(p, e), IF ContextOf(e) = None THEN cs
                             ELSE PushedContext(cs, Len(p) + 1, ContextOf(e), c))
<1>1. CASE ContextOf(e) = None
  BY <1>1, CtxSame
<1>2. CASE ContextOf(e) # None
  <2>. DEFINE x == [elt |-> Len(p) + 1, context |-> ContextOf(e), command |-> c]
  <2>1. x \in ContextEntry /\ x.elt = Len(p) + 1 /\ x.context = ContextOf(e)
    BY <1>2 DEF ContextEntry
  <2>. HIDE DEF x
  <2>2. CtxOK(Append(p, e), Append(cs, x))
    BY <1>2, <2>1, CtxPush
  <2>. QED  BY <1>2, <2>2 DEF PushedContext, x
<1>. QED  BY <1>1, <1>2

LEMMA CommandPushed ==
  ASSUME NEW p \in Seq(Element), NEW e \in Element, NEW s \in Seq(CommandEntry),
         NEW c \in AllCommands, NEW B, Follows(s, Depths(p, B))
  PROVE  Follows(IF e \in B THEN Pushed(s, Len(p) + 1, c) ELSE s, Depths(Append(p, e), B))
<1>1. CASE e \notin B
  BY <1>1, FollowSame
<1>2. CASE e \in B
  <2>. DEFINE x == [elt |-> Len(p) + 1, command |-> c]
  <2>1. x \in CommandEntry /\ x.elt = Len(p) + 1
    BY DEF CommandEntry
  <2>. HIDE DEF x
  <2>2. Follows(Append(s, x), Depths(Append(p, e), B))
    BY <1>2, <2>1, FollowPush, EntryElt
  <2>. QED  BY <1>2, <2>2 DEF Pushed, x
<1>. QED  BY <1>1, <1>2

LEMMA CommandPopped ==
  ASSUME NEW p \in Seq(Element), p # <<>>, NEW s \in Seq(CommandEntry),
         NEW B, Follows(s, Depths(p, B))
  PROVE  /\ Follows(IF Last(p) \in B THEN Front(s) ELSE s, Depths(Front(p), B))
         /\ Last(p) \in B => s # <<>>
<1>1. CASE Last(p) \notin B
  BY <1>1, FollowStay
<1>2. CASE Last(p) \in B
  BY <1>2, FollowPop, EntryElt
<1>. QED  BY <1>1, <1>2

(* The stacks of commands after a { was read for c at depth d, and after   *)
(* the command is closed.                                                  *)
BraceOpened(n, d, c) ==
  [n EXCEPT !.footnote = IF c = "footnote" THEN @ + 1 ELSE @,
            !.caption = IF c \in CaptionCommands THEN @ + 1 ELSE @,
            !.basic_inline_stack =
              IF Has(c, "CF_contain_basic_inline") THEN Pushed(@, d, c) ELSE @]

BraceClosed(n, c) ==
  [n EXCEPT !.footnote = IF c = "footnote" THEN @ - 1 ELSE @,
            !.caption = IF c \in CaptionCommands THEN @ - 1 ELSE @,
            !.basic_inline_stack =
              IF Has(c, "CF_contain_basic_inline") THEN Front(@) ELSE @]

LEMMA BraceOpenedFacts ==
  ASSUME NEW n \in NestingContext, NEW d \in Nat, NEW c \in AllCommands
  PROVE  LET m == BraceOpened(n, d, c)
         IN /\ m \in NestingContext
            /\ m.basic_inline_stack = IF Has(c, "CF_contain_basic_inline")
                                      THEN Pushed(n.basic_inline_stack, d, c) ELSE n.basic_inline_stack
            /\ m.basic_inline_stack_on_line = n.basic_inline_stack_on_line
            /\ m.basic_inline_stack_block = n.basic_inline_stack_block
            /\ m.regions_stack = n.regions_stack
            /\ m.footnote = IF c = "footnote" THEN n.footnote + 1 ELSE n.footnote
            /\ m.caption = IF c \in CaptionCommands THEN n.caption + 1 ELSE n.caption
<1>. DEFINE a == IF c = "footnote" THEN n.footnote + 1 ELSE n.footnote
            b == IF c \in CaptionCommands THEN n.caption + 1 ELSE n.caption
            s == IF Has(c, "CF_contain_basic_inline")
                 THEN Pushed(n.basic_inline_stack, d, c) ELSE n.basic_inline_stack
<1>1. BraceOpened(n, d, c) =
        [n EXCEPT !.footnote = a, !.caption = b, !.basic_inline_stack = s]
  BY DEF BraceOpened, NestingContext
<1>2. n.footnote \in Int /\ n.caption \in Int /\ n.basic_inline_stack \in Seq(CommandEntry)
  BY DEF NestingContext
<1>3. a \in Int /\ b \in Int /\ s \in Seq(CommandEntry)
  BY <1>2, PushedTypes, FrontType
<1>. HIDE DEF a, b, s
<1>4. /\ [n EXCEPT !.footnote = a, !.caption = b, !.basic_inline_stack = s] \in NestingContext
      /\ [n EXCEPT !.footnote = a, !.caption = b, !.basic_inline_stack = s].footnote = a
      /\ [n EXCEPT !.footnote = a, !.caption = b, !.basic_inline_stack = s].caption = b
      /\ [n EXCEPT !.footnote = a, !.caption = b, !.basic_inline_stack = s]
             .basic_inline_stack = s
      /\ [n EXCEPT !.footnote = a, !.caption = b, !.basic_inline_stack = s]
             .basic_inline_stack_on_line = n.basic_inline_stack_on_line
      /\ [n EXCEPT !.footnote = a, !.caption = b, !.basic_inline_stack = s]
             .basic_inline_stack_block = n.basic_inline_stack_block
      /\ [n EXCEPT !.footnote = a, !.caption = b, !.basic_inline_stack = s]
             .regions_stack = n.regions_stack
  BY <1>3 DEF NestingContext
<1>. QED  BY <1>1, <1>4 DEF a, b, s

LEMMA BraceClosedFacts ==
  ASSUME NEW n \in NestingContext, NEW c \in AllCommands
  PROVE  LET m == BraceClosed(n, c)
         IN /\ m \in NestingContext
            /\ m.basic_inline_stack = IF Has(c, "CF_contain_basic_inline")
                                      THEN Front(n.basic_inline_stack) ELSE n.basic_inline_stack
            /\ m.basic_inline_stack_on_line = n.basic_inline_stack_on_line
            /\ m.basic_inline_stack_block = n.basic_inline_stack_block
            /\ m.regions_stack = n.regions_stack
            /\ m.footnote = IF c = "footnote" THEN n.footnote - 1 ELSE n.footnote
            /\ m.caption = IF c \in CaptionCommands THEN n.caption - 1 ELSE n.caption
<1>. DEFINE a == IF c = "footnote" THEN n.footnote - 1 ELSE n.footnote
            b == IF c \in CaptionCommands THEN n.caption - 1 ELSE n.caption
            s == IF Has(c, "CF_contain_basic_inline")
                 THEN Front(n.basic_inline_stack) ELSE n.basic_inline_stack
<1>1. BraceClosed(n, c) =
        [n EXCEPT !.footnote = a, !.caption = b, !.basic_inline_stack = s]
  BY DEF BraceClosed, NestingContext
<1>2. n.footnote \in Int /\ n.caption \in Int /\ n.basic_inline_stack \in Seq(CommandEntry)
  BY DEF NestingContext
<1>3. a \in Int /\ b \in Int /\ s \in Seq(CommandEntry)
  BY <1>2, PushedTypes, FrontType
<1>. HIDE DEF a, b, s
<1>4. /\ [n EXCEPT !.footnote = a, !.caption = b, !.basic_inline_stack = s] \in NestingContext
      /\ [n EXCEPT !.footnote = a, !.caption = b, !.basic_inline_stack = s].footnote = a
      /\ [n EXCEPT !.footnote = a, !.caption = b, !.basic_inline_stack = s].caption = b
      /\ [n EXCEPT !.footnote = a, !.caption = b, !.basic_inline_stack = s]
             .basic_inline_stack = s
      /\ [n EXCEPT !.footnote = a, !.caption = b, !.basic_inline_stack = s]
             .basic_inline_stack_on_line = n.basic_inline_stack_on_line
      /\ [n EXCEPT !.footnote = a, !.caption = b, !.basic_inline_stack = s]
             .basic_inline_stack_block = n.basic_inline_stack_block
      /\ [n EXCEPT !.footnote = a, !.caption = b, !.basic_inline_stack = s]
             .regions_stack = n.regions_stack
  BY <1>3 DEF NestingContext
<1>. QED  BY <1>1, <1>4 DEF a, b, s

LEMMA BraceAppend ==
  ASSUME NEW p \in Seq(Element), p # <<>>, NEW c \in Commands,
         NEW cs, NEW n, NEW cra, NEW ci, StacksOK(p, cs, n, cra, ci)
  PROVE  StacksOK(Append(p, E("ET_brace_command", c)),
                  IF BraceContext(c) = None THEN cs
                  ELSE PushedContext(cs, Len(p) + 1, BraceContext(c), c),
                  BraceOpened(n, Len(p) + 1, c),
                  PushedCounter(cra, Len(p) + 1, args_number[c] - 1), ci)
<1>. DEFINE e == E("ET_brace_command", c)
            m == BraceOpened(n, Len(p) + 1, c)
            ds == IF BraceContext(c) = None THEN cs
                  ELSE PushedContext(cs, Len(p) + 1, BraceContext(c), c)
            x == [elt |-> Len(p) + 1, value |-> args_number[c] - 1]
<1>1. e \in Element /\ e.type = "ET_brace_command" /\ e.cmd = c
  BY DEF E, Element, Types, CommandTypes, AllCommands
<1>2. c \in AllCommands /\ args_number[c] \in Nat /\ Len(p) + 1 \in Nat
  BY CommandData
<1>3. ContextOf(e) = BraceContext(c)
  BY <1>1 DEF ContextOf
<1>4. cs \in Seq(ContextEntry) /\ cra \in Seq(Counter) /\ ci \in Seq(Counter)
  BY DEF StacksOK, StacksTypes
<1>10. n \in NestingContext
  BY DEF StacksOK, StacksTypes
<1>11. CtxOK(p, cs) /\ ArgsOK(p, cra) /\ NestOK(p, n) /\ ItemsOK(p, ci)
  BY DEF StacksOK
<1>5. m \in NestingContext
  BY <1>2, <1>10, BraceOpenedFacts
<1>13. m.basic_inline_stack = IF Has(c, "CF_contain_basic_inline")
                                THEN Pushed(n.basic_inline_stack, Len(p) + 1, c)
                                ELSE n.basic_inline_stack
  BY <1>2, <1>10, BraceOpenedFacts
<1>14. /\ m.basic_inline_stack_on_line = n.basic_inline_stack_on_line
       /\ m.basic_inline_stack_block = n.basic_inline_stack_block
       /\ m.regions_stack = n.regions_stack
  BY <1>2, <1>10, BraceOpenedFacts
<1>12. /\ m.footnote = IF c = "footnote" THEN n.footnote + 1 ELSE n.footnote
       /\ m.caption = IF c \in CaptionCommands THEN n.caption + 1 ELSE n.caption
  BY <1>2, <1>10, BraceOpenedFacts
<1>. HIDE DEF e, m, ds, x
<1>6. CtxOK(Append(p, e), ds) /\ ds \in Seq(ContextEntry)
  <2>1. CtxOK(Append(p, e), ds)
    BY <1>1, <1>2, <1>3, <1>4, <1>11, ContextPushed, ContextTypes DEF ds
  <2>2. ds \in Seq(ContextEntry)
    BY <1>2, <1>4, ContextTypes, PushedTypes DEF ds
  <2>. QED  BY <2>1, <2>2
<1>7. ArgsOK(Append(p, e), Append(cra, x)) /\ Append(cra, x) \in Seq(Counter)
  <2>1. x \in Counter /\ x.elt = Len(p) + 1
    BY <1>2 DEF Counter, x
  <2>2. ArgsDepth(p, e) = Len(p) + 1 /\ ArgsDepth(p, e) # 0
    BY <1>1 DEF ArgsDepth
  <2>3. ArgsOK(Append(p, e), Append(cra, x))
    BY <1>1, <1>4, <1>11, <2>1, <2>2, ArgPush
  <2>. QED  BY <1>4, <2>1, <2>3, AppendFacts
<1>8. NestOK(Append(p, e), m) /\ ItemsOK(Append(p, e), ci)
  <2>1. e \in BasicInline("ET_brace_command") <=> Has(c, "CF_contain_basic_inline")
    BY <1>1 DEF BasicInline
  <2>2. /\ e \notin BasicInline("ET_line_arg") /\ e \notin BasicInline("ET_block_line_arg")
        /\ e \notin Region /\ e \notin List
    BY <1>1 DEF BasicInline, Region, List
  <2>3. \A S : e \in Brace(S) <=> c \in S
    BY <1>1 DEF Brace
  <2>4. n.basic_inline_stack \in Seq(CommandEntry)
    BY <1>10 DEF NestingContext
  <2>5. Follows(m.basic_inline_stack, Depths(Append(p, e), BasicInline("ET_brace_command")))
    <3>1. Follows(n.basic_inline_stack, Depths(p, BasicInline("ET_brace_command")))
      BY <1>11 DEF NestOK
    <3>. QED  BY <1>1, <1>2, <1>13, <2>1, <2>4, <3>1, CommandPushed
  <2>6. /\ Follows(m.basic_inline_stack_on_line, Depths(Append(p, e), BasicInline("ET_line_arg")))
        /\ Follows(m.basic_inline_stack_block,
                   Depths(Append(p, e), BasicInline("ET_block_line_arg")))
        /\ Follows(m.regions_stack, Depths(Append(p, e), Region))
    <3>1. /\ Follows(n.basic_inline_stack_on_line, Depths(p, BasicInline("ET_line_arg")))
          /\ Follows(n.basic_inline_stack_block, Depths(p, BasicInline("ET_block_line_arg")))
          /\ Follows(n.regions_stack, Depths(p, Region))
      BY <1>11 DEF NestOK
    <3>. QED  BY <1>1, <1>14, <2>2, <3>1, FollowSame
  <2>7. /\ m.footnote = Cardinality(Depths(Append(p, e), Brace({"footnote"})))
        /\ m.caption = Cardinality(Depths(Append(p, e), Brace(CaptionCommands)))
    <3>1. /\ n.footnote = Cardinality(Depths(p, Brace({"footnote"})))
          /\ n.caption = Cardinality(Depths(p, Brace(CaptionCommands)))
      BY <1>11 DEF NestOK
    <3>. QED  BY <1>1, <1>12, <2>3, <3>1, CountAppend
  <2>8. ItemsOK(Append(p, e), ci)
    BY <1>1, <1>11, <2>2, CountAppend DEF ItemsOK
  <2>. QED  BY <2>5, <2>6, <2>7, <2>8 DEF NestOK
<1>9. StacksOK(Append(p, e), ds, m, Append(cra, x), ci)
  BY <1>4,  <1>5, <1>6, <1>7, <1>8 DEF StacksOK, StacksTypes
<1>. QED  BY <1>9 DEF e, m, ds, x, PushedCounter

LEMMA BraceFront ==
  ASSUME NEW p \in Seq(Element), Len(p) > 1,
         NEW c \in Commands, Last(p) = E("ET_brace_command", c), Has(c, "CF_brace"),
         NEW cs, NEW n, NEW cra, NEW ci, StacksOK(p, cs, n, cra, ci)
  PROVE  /\ StacksOK(Front(p), IF PoppedBraceContext(c) = None THEN cs ELSE Front(cs),
                     BraceClosed(n, c), Front(cra), ci)
         /\ PoppedBraceContext(c) # None => top_(cs) = PoppedBraceContext(c)
         /\ cra # <<>>
         /\ Has(c, "CF_contain_basic_inline") => n.basic_inline_stack # <<>>
<1>. DEFINE e == Last(p)
            m == BraceClosed(n, c)
            ds == IF PoppedBraceContext(c) = None THEN cs ELSE Front(cs)
<1>. p # <<>>
  OBVIOUS
<1>1. e \in Element /\ e.type = "ET_brace_command" /\ e.cmd = c
  BY FrontFacts DEF E
<1>2. c \in AllCommands /\ PoppedBraceContext(c) = BraceContext(c)
  BY CommandData
<1>3. ContextOf(e) = PoppedBraceContext(c)
  BY <1>1, <1>2 DEF ContextOf
<1>4. cs \in Seq(ContextEntry) /\ cra \in Seq(Counter) /\ ci \in Seq(Counter)
  BY DEF StacksOK, StacksTypes
<1>10. n \in NestingContext
  BY DEF StacksOK, StacksTypes
<1>11. CtxOK(p, cs) /\ ArgsOK(p, cra) /\ NestOK(p, n) /\ ItemsOK(p, ci)
  BY DEF StacksOK
<1>5. m \in NestingContext
  BY <1>2, <1>10, BraceClosedFacts
<1>13. m.basic_inline_stack = IF Has(c, "CF_contain_basic_inline")
                                THEN Front(n.basic_inline_stack) ELSE n.basic_inline_stack
  BY <1>2, <1>10, BraceClosedFacts
<1>14. /\ m.basic_inline_stack_on_line = n.basic_inline_stack_on_line
       /\ m.basic_inline_stack_block = n.basic_inline_stack_block
       /\ m.regions_stack = n.regions_stack
  BY <1>2, <1>10, BraceClosedFacts
<1>12. /\ m.footnote = IF c = "footnote" THEN n.footnote - 1 ELSE n.footnote
       /\ m.caption = IF c \in CaptionCommands THEN n.caption - 1 ELSE n.caption
  BY <1>2, <1>10, BraceClosedFacts
<1>. HIDE DEF e, m, ds
<1>6. /\ CtxOK(Front(p), ds) /\ ds \in Seq(ContextEntry)
      /\ PoppedBraceContext(c) # None => top_(cs) = PoppedBraceContext(c)
  <2>1. CASE PoppedBraceContext(c) = None
    BY <1>3, <1>4, <1>11, <2>1, CtxStay DEF ds, e
  <2>2. CASE PoppedBraceContext(c) # None
    BY <1>3, <1>4, <1>11, <2>2, CtxPop, FrontType DEF ds, e, top_
  <2>. QED  BY <2>1, <2>2
<1>7. /\ ArgsOK(Front(p), Front(cra)) /\ Front(cra) \in Seq(Counter)
      /\ cra # <<>>
  <2>. DEFINE d == ArgsDepth(Front(p), e)
  <2>1. d # 0
    BY <1>1, FrontFacts DEF ArgsDepth
  <2>2. ArgsOK(Front(p), Front(cra)) /\ cra # <<>>
    BY <1>4, <1>11, <2>1, ArgPop DEF e
  <2>. QED  BY <1>4, <2>2, FrontType
<1>8. /\ NestOK(Front(p), m) /\ ItemsOK(Front(p), ci)
      /\ Has(c, "CF_contain_basic_inline") => n.basic_inline_stack # <<>>
  <2>1. e \in BasicInline("ET_brace_command") <=> Has(c, "CF_contain_basic_inline")
    BY <1>1 DEF BasicInline
  <2>2. /\ e \notin BasicInline("ET_line_arg") /\ e \notin BasicInline("ET_block_line_arg")
        /\ e \notin Region /\ e \notin List
    BY <1>1 DEF BasicInline, Region, List
  <2>3. \A S : e \in Brace(S) <=> c \in S
    BY <1>1 DEF Brace
  <2>4. n.basic_inline_stack \in Seq(CommandEntry)
    BY <1>10 DEF NestingContext
  <2>5. /\ Follows(m.basic_inline_stack, Depths(Front(p), BasicInline("ET_brace_command")))
        /\ Has(c, "CF_contain_basic_inline") => n.basic_inline_stack # <<>>
    <3>1. Follows(n.basic_inline_stack, Depths(p, BasicInline("ET_brace_command")))
      BY <1>11 DEF NestOK
    <3>. QED  BY <1>13, <2>1, <2>4, <3>1, CommandPopped DEF e
  <2>6. /\ Follows(m.basic_inline_stack_on_line, Depths(Front(p), BasicInline("ET_line_arg")))
        /\ Follows(m.basic_inline_stack_block, Depths(Front(p), BasicInline("ET_block_line_arg")))
        /\ Follows(m.regions_stack, Depths(Front(p), Region))
    <3>1. /\ Follows(n.basic_inline_stack_on_line, Depths(p, BasicInline("ET_line_arg")))
          /\ Follows(n.basic_inline_stack_block, Depths(p, BasicInline("ET_block_line_arg")))
          /\ Follows(n.regions_stack, Depths(p, Region))
      BY <1>11 DEF NestOK
    <3>. QED  BY <1>14, <2>2, <3>1, FollowStay DEF e
  <2>7. /\ m.footnote = Cardinality(Depths(Front(p), Brace({"footnote"})))
        /\ m.caption = Cardinality(Depths(Front(p), Brace(CaptionCommands)))
    <3>1. /\ n.footnote = Cardinality(Depths(p, Brace({"footnote"})))
          /\ n.caption = Cardinality(Depths(p, Brace(CaptionCommands)))
      BY <1>11 DEF NestOK
    <3>. QED  BY <1>12, <2>3, <3>1, CountFront DEF e
  <2>8. ItemsOK(Front(p), ci)
    BY <1>11, <2>2, CountFront DEF ItemsOK, e
  <2>. QED  BY <2>5, <2>6, <2>7, <2>8 DEF NestOK
<1>9. StacksOK(Front(p), ds, m, Front(cra), ci)
  BY <1>4, <1>5, <1>6, <1>7, <1>8 DEF StacksOK, StacksTypes
<1>. QED  BY <1>6, <1>7, <1>8, <1>9 DEF m, ds

-----------------------------------------------------------------------------
(* Line and block commands and the elements of their lines. *)

LEMMA ArgPushed ==
  ASSUME NEW p \in Seq(Element), p # <<>>, NEW e \in Element, NEW s \in Seq(Counter),
         NEW v \in Int, v >= 0 \/ e.type = "ET_brace_command", ArgsOK(p, s)
  PROVE  /\ ArgsOK(Append(p, e),
                   IF ArgsDepth(p, e) = 0 THEN s ELSE PushedCounter(s, ArgsDepth(p, e), v))
         /\ (IF ArgsDepth(p, e) = 0 THEN s ELSE PushedCounter(s, ArgsDepth(p, e), v))
              \in Seq(Counter)
<1>1. CASE ArgsDepth(p, e) = 0
  BY <1>1, ArgSame
<1>2. CASE ArgsDepth(p, e) # 0
  <2>. DEFINE x == [elt |-> ArgsDepth(p, e), value |-> v]
  <2>1. x \in Counter /\ x.elt = ArgsDepth(p, e) /\ x.value = v
    BY ReadsAppend DEF Counter
  <2>. HIDE DEF x
  <2>2. ArgsOK(Append(p, e), Append(s, x)) /\ Append(s, x) \in Seq(Counter)
    BY <1>2, <2>1, ArgPush, AppendFacts
  <2>. QED  BY <1>2, <2>2 DEF PushedCounter, x
<1>. QED  BY <1>1, <1>2

LEMMA ArgPopped ==
  ASSUME NEW p \in Seq(Element), Len(p) > 1, NEW s \in Seq(Counter),
         ArgsOK(p, s),
         NEW d, d = ArgsDepth(Front(p), Last(p))
  PROVE  /\ ArgsOK(Front(p), IF d = 0 THEN s ELSE Front(s))
         /\ d # 0 => s # <<>> /\ Last(s).elt = d
         /\ (IF d = 0 THEN s ELSE Front(s)) \in Seq(Counter)
<1>1. CASE d = 0
  BY <1>1, ArgStay
<1>2. CASE d # 0
  BY <1>2, ArgPop, FrontType
<1>. QED  BY <1>1, <1>2

LEMMA BlockNestAppend ==
  ASSUME NEW p \in Seq(Element), NEW e \in Element, e.type = "ET_block_command",
         NEW c \in AllCommands, NEW n \in NestingContext, NestOK(p, n),
         NEW m, m = [n EXCEPT !.regions_stack =
                       IF e \in Region THEN Pushed(@, Len(p) + 1, c) ELSE @]
  PROVE  NestOK(Append(p, e), m) /\ m \in NestingContext
<1>. DEFINE s == IF e \in Region
                 THEN Pushed(n.regions_stack, Len(p) + 1, c) ELSE n.regions_stack
<1>1. n.regions_stack \in Seq(CommandEntry) /\ Len(p) + 1 \in Nat
  BY DEF NestingContext
<1>2. s \in Seq(CommandEntry)
  BY <1>1, PushedTypes
<1>3. m = [n EXCEPT !.regions_stack = s]
  BY DEF NestingContext
<1>4. Follows(s, Depths(Append(p, e), Region))
  BY <1>1, CommandPushed DEF NestOK
<1>. HIDE DEF s
<1>5. /\ m \in NestingContext /\ m.regions_stack = s
      /\ m.basic_inline_stack = n.basic_inline_stack
      /\ m.basic_inline_stack_on_line = n.basic_inline_stack_on_line
      /\ m.basic_inline_stack_block = n.basic_inline_stack_block
      /\ m.footnote = n.footnote /\ m.caption = n.caption
  BY <1>2, <1>3 DEF NestingContext
<1>6. /\ e \notin BasicInline("ET_brace_command")
      /\ e \notin BasicInline("ET_line_arg")
      /\ e \notin BasicInline("ET_block_line_arg")
      /\ \A S : e \notin Brace(S)
  BY DEF BasicInline, Region, Brace
<1>7. Follows(m.basic_inline_stack, Depths(Append(p, e), BasicInline("ET_brace_command")))
  <2>1. Follows(n.basic_inline_stack, Depths(p, BasicInline("ET_brace_command")))
    BY DEF NestOK
  <2>. QED  BY <1>5, <1>6, <2>1, FollowSame
<1>8. Follows(m.basic_inline_stack_on_line, Depths(Append(p, e), BasicInline("ET_line_arg")))
  <2>1. Follows(n.basic_inline_stack_on_line, Depths(p, BasicInline("ET_line_arg")))
    BY DEF NestOK
  <2>. QED  BY <1>5, <1>6, <2>1, FollowSame
<1>9. Follows(m.basic_inline_stack_block, Depths(Append(p, e), BasicInline("ET_block_line_arg")))
  <2>1. Follows(n.basic_inline_stack_block, Depths(p, BasicInline("ET_block_line_arg")))
    BY DEF NestOK
  <2>. QED  BY <1>5, <1>6, <2>1, FollowSame
<1>10. /\ m.footnote = Cardinality(Depths(Append(p, e), Brace({"footnote"})))
       /\ m.caption = Cardinality(Depths(Append(p, e), Brace(CaptionCommands)))
  <2>1. /\ n.footnote = Cardinality(Depths(p, Brace({"footnote"})))
        /\ n.caption = Cardinality(Depths(p, Brace(CaptionCommands)))
    BY DEF NestOK
  <2>. QED  BY <1>5, <1>6, <2>1, CountAppend
<1>. QED  BY <1>4, <1>5, <1>7, <1>8, <1>9, <1>10 DEF NestOK

LEMMA BlockNestFront ==
  ASSUME NEW p \in Seq(Element), p # <<>>, Last(p).type = "ET_block_command",
         NEW n \in NestingContext, NestOK(p, n),
         NEW m, m = [n EXCEPT !.regions_stack =
                       IF Last(p) \in Region THEN Front(@) ELSE @]
  PROVE  /\ NestOK(Front(p), m) /\ m \in NestingContext
         /\ Last(p) \in Region => n.regions_stack # <<>>
<1>. DEFINE e == Last(p)
            s == IF e \in Region THEN Front(n.regions_stack) ELSE n.regions_stack
<1>1. n.regions_stack \in Seq(CommandEntry)
  BY DEF NestingContext
<1>2. s \in Seq(CommandEntry)
  BY <1>1, FrontType
<1>3. m = [n EXCEPT !.regions_stack = s]
  BY DEF NestingContext
<1>4. Follows(s, Depths(Front(p), Region)) /\ (e \in Region => n.regions_stack # <<>>)
  BY <1>1, CommandPopped DEF NestOK
<1>. HIDE DEF s
<1>5. /\ m \in NestingContext /\ m.regions_stack = s
      /\ m.basic_inline_stack = n.basic_inline_stack
      /\ m.basic_inline_stack_on_line = n.basic_inline_stack_on_line
      /\ m.basic_inline_stack_block = n.basic_inline_stack_block
      /\ m.footnote = n.footnote /\ m.caption = n.caption
  BY <1>2, <1>3 DEF NestingContext
<1>6. /\ e \notin BasicInline("ET_brace_command")
      /\ e \notin BasicInline("ET_line_arg")
      /\ e \notin BasicInline("ET_block_line_arg")
      /\ \A S : e \notin Brace(S)
  BY DEF BasicInline, Region, Brace
<1>. HIDE DEF e
<1>7. Follows(m.basic_inline_stack, Depths(Front(p), BasicInline("ET_brace_command")))
  <2>1. Follows(n.basic_inline_stack, Depths(p, BasicInline("ET_brace_command")))
    BY DEF NestOK
  <2>. QED  BY <1>5, <1>6, <2>1, FollowStay DEF e
<1>8. Follows(m.basic_inline_stack_on_line, Depths(Front(p), BasicInline("ET_line_arg")))
  <2>1. Follows(n.basic_inline_stack_on_line, Depths(p, BasicInline("ET_line_arg")))
    BY DEF NestOK
  <2>. QED  BY <1>5, <1>6, <2>1, FollowStay DEF e
<1>9. Follows(m.basic_inline_stack_block, Depths(Front(p), BasicInline("ET_block_line_arg")))
  <2>1. Follows(n.basic_inline_stack_block, Depths(p, BasicInline("ET_block_line_arg")))
    BY DEF NestOK
  <2>. QED  BY <1>5, <1>6, <2>1, FollowStay DEF e
<1>10. /\ m.footnote = Cardinality(Depths(Front(p), Brace({"footnote"})))
       /\ m.caption = Cardinality(Depths(Front(p), Brace(CaptionCommands)))
  <2>1. /\ n.footnote = Cardinality(Depths(p, Brace({"footnote"})))
        /\ n.caption = Cardinality(Depths(p, Brace(CaptionCommands)))
    BY DEF NestOK
  <2>. QED  BY <1>5, <1>6, <2>1, CountFront DEF e
<1>. QED  BY <1>4, <1>5, <1>7, <1>8, <1>9, <1>10 DEF NestOK, e

LEMMA LineArgNestAppend ==
  ASSUME NEW p \in Seq(Element), NEW e \in Element, e.type = "ET_line_arg",
         NEW c \in AllCommands, NEW n \in NestingContext, NestOK(p, n),
         NEW m, m = [n EXCEPT !.basic_inline_stack_on_line =
                       IF e \in BasicInline("ET_line_arg") THEN Pushed(@, Len(p) + 1, c) ELSE @]
  PROVE  NestOK(Append(p, e), m) /\ m \in NestingContext
<1>. DEFINE s == IF e \in BasicInline("ET_line_arg")
                 THEN Pushed(n.basic_inline_stack_on_line, Len(p) + 1, c)
                 ELSE n.basic_inline_stack_on_line
<1>1. n.basic_inline_stack_on_line \in Seq(CommandEntry) /\ Len(p) + 1 \in Nat
  BY DEF NestingContext
<1>2. s \in Seq(CommandEntry)
  BY <1>1, PushedTypes
<1>3. m = [n EXCEPT !.basic_inline_stack_on_line = s]
  BY DEF NestingContext
<1>4. Follows(s, Depths(Append(p, e), BasicInline("ET_line_arg")))
  BY <1>1, CommandPushed DEF NestOK
<1>. HIDE DEF s
<1>5. /\ m \in NestingContext /\ m.basic_inline_stack_on_line = s
      /\ m.basic_inline_stack = n.basic_inline_stack
      /\ m.basic_inline_stack_block = n.basic_inline_stack_block
      /\ m.regions_stack = n.regions_stack
      /\ m.footnote = n.footnote /\ m.caption = n.caption
  BY <1>2, <1>3 DEF NestingContext
<1>6. /\ e \notin BasicInline("ET_brace_command")
      /\ e \notin BasicInline("ET_block_line_arg")
      /\ e \notin Region
      /\ \A S : e \notin Brace(S)
  BY DEF BasicInline, Region, Brace
<1>7. Follows(m.basic_inline_stack, Depths(Append(p, e), BasicInline("ET_brace_command")))
  <2>1. Follows(n.basic_inline_stack, Depths(p, BasicInline("ET_brace_command")))
    BY DEF NestOK
  <2>. QED  BY <1>5, <1>6, <2>1, FollowSame
<1>8. Follows(m.basic_inline_stack_block, Depths(Append(p, e), BasicInline("ET_block_line_arg")))
  <2>1. Follows(n.basic_inline_stack_block, Depths(p, BasicInline("ET_block_line_arg")))
    BY DEF NestOK
  <2>. QED  BY <1>5, <1>6, <2>1, FollowSame
<1>9. Follows(m.regions_stack, Depths(Append(p, e), Region))
  <2>1. Follows(n.regions_stack, Depths(p, Region))
    BY DEF NestOK
  <2>. QED  BY <1>5, <1>6, <2>1, FollowSame
<1>10. /\ m.footnote = Cardinality(Depths(Append(p, e), Brace({"footnote"})))
       /\ m.caption = Cardinality(Depths(Append(p, e), Brace(CaptionCommands)))
  <2>1. /\ n.footnote = Cardinality(Depths(p, Brace({"footnote"})))
        /\ n.caption = Cardinality(Depths(p, Brace(CaptionCommands)))
    BY DEF NestOK
  <2>. QED  BY <1>5, <1>6, <2>1, CountAppend
<1>. QED  BY <1>4, <1>5, <1>7, <1>8, <1>9, <1>10 DEF NestOK

LEMMA LineArgNestFront ==
  ASSUME NEW p \in Seq(Element), p # <<>>, Last(p).type = "ET_line_arg",
         NEW n \in NestingContext, NestOK(p, n),
         NEW m, m = [n EXCEPT !.basic_inline_stack_on_line =
                       IF Last(p) \in BasicInline("ET_line_arg") THEN Front(@) ELSE @]
  PROVE  /\ NestOK(Front(p), m) /\ m \in NestingContext
         /\ Last(p) \in BasicInline("ET_line_arg") => n.basic_inline_stack_on_line # <<>>
<1>. DEFINE e == Last(p)
            s == IF e \in BasicInline("ET_line_arg") THEN Front(n.basic_inline_stack_on_line)
                 ELSE n.basic_inline_stack_on_line
<1>1. n.basic_inline_stack_on_line \in Seq(CommandEntry)
  BY DEF NestingContext
<1>2. s \in Seq(CommandEntry)
  BY <1>1, FrontType
<1>3. m = [n EXCEPT !.basic_inline_stack_on_line = s]
  BY DEF NestingContext
<1>4. /\ Follows(s, Depths(Front(p), BasicInline("ET_line_arg")))
      /\ e \in BasicInline("ET_line_arg") => n.basic_inline_stack_on_line # <<>>
  BY <1>1, CommandPopped DEF NestOK
<1>. HIDE DEF s
<1>5. /\ m \in NestingContext /\ m.basic_inline_stack_on_line = s
      /\ m.basic_inline_stack = n.basic_inline_stack
      /\ m.basic_inline_stack_block = n.basic_inline_stack_block
      /\ m.regions_stack = n.regions_stack
      /\ m.footnote = n.footnote /\ m.caption = n.caption
  BY <1>2, <1>3 DEF NestingContext
<1>6. /\ e \notin BasicInline("ET_brace_command")
      /\ e \notin BasicInline("ET_block_line_arg")
      /\ e \notin Region
      /\ \A S : e \notin Brace(S)
  BY DEF BasicInline, Region, Brace
<1>. HIDE DEF e
<1>7. Follows(m.basic_inline_stack, Depths(Front(p), BasicInline("ET_brace_command")))
  <2>1. Follows(n.basic_inline_stack, Depths(p, BasicInline("ET_brace_command")))
    BY DEF NestOK
  <2>. QED  BY <1>5, <1>6, <2>1, FollowStay DEF e
<1>8. Follows(m.basic_inline_stack_block, Depths(Front(p), BasicInline("ET_block_line_arg")))
  <2>1. Follows(n.basic_inline_stack_block, Depths(p, BasicInline("ET_block_line_arg")))
    BY DEF NestOK
  <2>. QED  BY <1>5, <1>6, <2>1, FollowStay DEF e
<1>9. Follows(m.regions_stack, Depths(Front(p), Region))
  <2>1. Follows(n.regions_stack, Depths(p, Region))
    BY DEF NestOK
  <2>. QED  BY <1>5, <1>6, <2>1, FollowStay DEF e
<1>10. /\ m.footnote = Cardinality(Depths(Front(p), Brace({"footnote"})))
       /\ m.caption = Cardinality(Depths(Front(p), Brace(CaptionCommands)))
  <2>1. /\ n.footnote = Cardinality(Depths(p, Brace({"footnote"})))
        /\ n.caption = Cardinality(Depths(p, Brace(CaptionCommands)))
    BY DEF NestOK
  <2>. QED  BY <1>5, <1>6, <2>1, CountFront DEF e
<1>. QED  BY <1>4, <1>5, <1>7, <1>8, <1>9, <1>10 DEF NestOK, e

LEMMA BlockLineArgNestAppend ==
  ASSUME NEW p \in Seq(Element), NEW e \in Element, e.type = "ET_block_line_arg",
         NEW c \in AllCommands, NEW n \in NestingContext, NestOK(p, n),
         NEW m, m = [n EXCEPT !.basic_inline_stack_block =
                       IF e \in BasicInline("ET_block_line_arg") THEN Pushed(@, Len(p) + 1, c) ELSE @]
  PROVE  NestOK(Append(p, e), m) /\ m \in NestingContext
<1>. DEFINE s == IF e \in BasicInline("ET_block_line_arg")
                 THEN Pushed(n.basic_inline_stack_block, Len(p) + 1, c) ELSE n.basic_inline_stack_block
<1>1. n.basic_inline_stack_block \in Seq(CommandEntry) /\ Len(p) + 1 \in Nat
  BY DEF NestingContext
<1>2. s \in Seq(CommandEntry)
  BY <1>1, PushedTypes
<1>3. m = [n EXCEPT !.basic_inline_stack_block = s]
  BY DEF NestingContext
<1>4. Follows(s, Depths(Append(p, e), BasicInline("ET_block_line_arg")))
  BY <1>1, CommandPushed DEF NestOK
<1>. HIDE DEF s
<1>5. /\ m \in NestingContext /\ m.basic_inline_stack_block = s
      /\ m.basic_inline_stack = n.basic_inline_stack
      /\ m.basic_inline_stack_on_line = n.basic_inline_stack_on_line
      /\ m.regions_stack = n.regions_stack
      /\ m.footnote = n.footnote /\ m.caption = n.caption
  BY <1>2, <1>3 DEF NestingContext
<1>6. /\ e \notin BasicInline("ET_brace_command")
      /\ e \notin BasicInline("ET_line_arg")
      /\ e \notin Region
      /\ \A S : e \notin Brace(S)
  BY DEF BasicInline, Region, Brace
<1>7. Follows(m.basic_inline_stack, Depths(Append(p, e), BasicInline("ET_brace_command")))
  <2>1. Follows(n.basic_inline_stack, Depths(p, BasicInline("ET_brace_command")))
    BY DEF NestOK
  <2>. QED  BY <1>5, <1>6, <2>1, FollowSame
<1>8. Follows(m.basic_inline_stack_on_line, Depths(Append(p, e), BasicInline("ET_line_arg")))
  <2>1. Follows(n.basic_inline_stack_on_line, Depths(p, BasicInline("ET_line_arg")))
    BY DEF NestOK
  <2>. QED  BY <1>5, <1>6, <2>1, FollowSame
<1>9. Follows(m.regions_stack, Depths(Append(p, e), Region))
  <2>1. Follows(n.regions_stack, Depths(p, Region))
    BY DEF NestOK
  <2>. QED  BY <1>5, <1>6, <2>1, FollowSame
<1>10. /\ m.footnote = Cardinality(Depths(Append(p, e), Brace({"footnote"})))
       /\ m.caption = Cardinality(Depths(Append(p, e), Brace(CaptionCommands)))
  <2>1. /\ n.footnote = Cardinality(Depths(p, Brace({"footnote"})))
        /\ n.caption = Cardinality(Depths(p, Brace(CaptionCommands)))
    BY DEF NestOK
  <2>. QED  BY <1>5, <1>6, <2>1, CountAppend
<1>. QED  BY <1>4, <1>5, <1>7, <1>8, <1>9, <1>10 DEF NestOK

LEMMA BlockLineArgNestFront ==
  ASSUME NEW p \in Seq(Element), p # <<>>, Last(p).type = "ET_block_line_arg",
         NEW n \in NestingContext, NestOK(p, n),
         NEW m, m = [n EXCEPT !.basic_inline_stack_block =
                       IF Last(p) \in BasicInline("ET_block_line_arg") THEN Front(@) ELSE @]
  PROVE  /\ NestOK(Front(p), m) /\ m \in NestingContext
         /\ Last(p) \in BasicInline("ET_block_line_arg") => n.basic_inline_stack_block # <<>>
<1>. DEFINE e == Last(p)
            s == IF e \in BasicInline("ET_block_line_arg") THEN Front(n.basic_inline_stack_block)
                 ELSE n.basic_inline_stack_block
<1>1. n.basic_inline_stack_block \in Seq(CommandEntry)
  BY DEF NestingContext
<1>2. s \in Seq(CommandEntry)
  BY <1>1, FrontType
<1>3. m = [n EXCEPT !.basic_inline_stack_block = s]
  BY DEF NestingContext
<1>4. /\ Follows(s, Depths(Front(p), BasicInline("ET_block_line_arg")))
      /\ e \in BasicInline("ET_block_line_arg") => n.basic_inline_stack_block # <<>>
  BY <1>1, CommandPopped DEF NestOK
<1>. HIDE DEF s
<1>5. /\ m \in NestingContext /\ m.basic_inline_stack_block = s
      /\ m.basic_inline_stack = n.basic_inline_stack
      /\ m.basic_inline_stack_on_line = n.basic_inline_stack_on_line
      /\ m.regions_stack = n.regions_stack
      /\ m.footnote = n.footnote /\ m.caption = n.caption
  BY <1>2, <1>3 DEF NestingContext
<1>6. /\ e \notin BasicInline("ET_brace_command")
      /\ e \notin BasicInline("ET_line_arg")
      /\ e \notin Region
      /\ \A S : e \notin Brace(S)
  BY DEF BasicInline, Region, Brace
<1>. HIDE DEF e
<1>7. Follows(m.basic_inline_stack, Depths(Front(p), BasicInline("ET_brace_command")))
  <2>1. Follows(n.basic_inline_stack, Depths(p, BasicInline("ET_brace_command")))
    BY DEF NestOK
  <2>. QED  BY <1>5, <1>6, <2>1, FollowStay DEF e
<1>8. Follows(m.basic_inline_stack_on_line, Depths(Front(p), BasicInline("ET_line_arg")))
  <2>1. Follows(n.basic_inline_stack_on_line, Depths(p, BasicInline("ET_line_arg")))
    BY DEF NestOK
  <2>. QED  BY <1>5, <1>6, <2>1, FollowStay DEF e
<1>9. Follows(m.regions_stack, Depths(Front(p), Region))
  <2>1. Follows(n.regions_stack, Depths(p, Region))
    BY DEF NestOK
  <2>. QED  BY <1>5, <1>6, <2>1, FollowStay DEF e
<1>10. /\ m.footnote = Cardinality(Depths(Front(p), Brace({"footnote"})))
       /\ m.caption = Cardinality(Depths(Front(p), Brace(CaptionCommands)))
  <2>1. /\ n.footnote = Cardinality(Depths(p, Brace({"footnote"})))
        /\ n.caption = Cardinality(Depths(p, Brace(CaptionCommands)))
    BY DEF NestOK
  <2>. QED  BY <1>5, <1>6, <2>1, CountFront DEF e
<1>. QED  BY <1>4, <1>5, <1>7, <1>8, <1>9, <1>10 DEF NestOK, e

LEMMA ItemsSame ==
  ASSUME NEW p \in Seq(Element), NEW e \in Element, e.type # "ET_block_command",
         NEW ci, ItemsOK(p, ci)
  PROVE  ItemsOK(Append(p, e), ci)
<1>1. e \notin List
  BY DEF List
<1>. QED  BY <1>1, CountAppend DEF ItemsOK

LEMMA ItemsStay ==
  ASSUME NEW p \in Seq(Element), p # <<>>, Last(p).type # "ET_block_command",
         NEW ci, ItemsOK(p, ci)
  PROVE  ItemsOK(Front(p), ci)
<1>1. Last(p) \notin List
  BY DEF List
<1>. QED  BY <1>1, CountFront DEF ItemsOK

LEMMA LeftBehindType ==
  ASSUME NEW s \in Seq(Counter), NEW d
  PROVE  LeftBehind(s, d) \in Seq(Counter) /\ Len(LeftBehind(s, d)) = Len(s)
<1>. DEFINE f == [k \in 1 .. Len(s) |->
                    IF s[k].elt = d THEN [s[k] EXCEPT !.elt = 0] ELSE s[k]]
<1>1. LeftBehind(s, d) = f
  BY DEF LeftBehind
<1>2. \A y \in Counter : [y EXCEPT !.elt = 0] \in Counter
  BY DEF Counter
<1>4. Len(s) \in Nat /\ \A k \in 1 .. Len(s) : s[k] \in Counter
  OBVIOUS
<1>5. \A k \in 1 .. Len(s) : f[k] \in Counter
  BY <1>2, <1>4
<1>6. f \in [1 .. Len(s) -> Counter]
  BY <1>5
<1>. HIDE DEF f
<1>7. f \in Seq(Counter)
  BY <1>4, <1>6, SeqDef
<1>8. DOMAIN f = 1 .. Len(s) /\ DOMAIN f = 1 .. Len(f) /\ Len(f) \in Nat
  BY <1>6, <1>7
<1>3. f \in Seq(Counter) /\ Len(f) = Len(s)
  BY <1>4, <1>7, <1>8
<1>. QED  BY <1>1, <1>3

LEMMA StacksParts ==
  ASSUME NEW p, NEW cs, NEW n, NEW cra, NEW ci, StacksOK(p, cs, n, cra, ci)
  PROVE  /\ cs \in Seq(ContextEntry) /\ n \in NestingContext
         /\ cra \in Seq(Counter) /\ ci \in Seq(Counter)
         /\ CtxOK(p, cs) /\ ArgsOK(p, cra)
         /\ NestOK(p, n) /\ ItemsOK(p, ci)
  BY DEF StacksOK, StacksTypes

(* What is open once an element of a line or of a block is opened at depth *)
(* d, and once it is closed.                                               *)
LineOpened(n, d, c) ==
  [n EXCEPT !.basic_inline_stack_on_line =
     IF Has(c, "CF_contain_basic_inline") THEN Pushed(@, d, c) ELSE @]

LineClosed(n, c) ==
  [n EXCEPT !.basic_inline_stack_on_line =
     IF Has(c, "CF_contain_basic_inline") THEN Front(@) ELSE @]

BlockLineOpened(n, d, c) ==
  [n EXCEPT !.basic_inline_stack_block =
     IF Has(c, "CF_contain_basic_inline") THEN Pushed(@, d, c) ELSE @]

BlockLineClosed(n, c) ==
  [n EXCEPT !.basic_inline_stack_block =
     IF Has(c, "CF_contain_basic_inline") THEN Front(@) ELSE @]

RegionOpened(n, d, c) ==
  [n EXCEPT !.regions_stack =
     IF ~Has(c, "CF_def") /\ data[c] = "BLOCK_region" THEN Pushed(@, d, c) ELSE @]

RegionClosed(n, c) ==
  [n EXCEPT !.regions_stack = IF data[c] = "BLOCK_region" THEN Front(@) ELSE @]

ItemsOpened(ci, d, c) ==
  IF ~Has(c, "CF_def") /\ c \in ListCommands THEN PushedCounter(ci, d, 0) ELSE ci

(* With close_command_cleanup before or without. *)
ItemsClosed(ci, d, c) ==
  IF c \notin ListCommands THEN {ci}
  ELSE {LeftBehind(Front(ci), d), LeftBehind(ci, d)}

LEMMA ArgumentsLineAppend ==
  ASSUME NEW p \in Seq(Element), p # <<>>, NEW c \in Commands, NEW v \in Nat,
         NEW e, e = E("ET_arguments_line", c),
         NEW cs, NEW n, NEW cra, NEW ci, StacksOK(p, cs, n, cra, ci),
         NEW k, k = IF ArgsDepth(p, e) = 0 THEN cra ELSE PushedCounter(cra, ArgsDepth(p, e), v)
  PROVE  StacksOK(Append(p, e), cs, n, k, ci)
<1>1. e \in Element /\ e.type = "ET_arguments_line"
  BY DEF E, Element, Types, CommandTypes, AllCommands
<1>2. CtxOK(Append(p, e), cs)
  <2>1. ContextOf(e) = None
    BY <1>1 DEF ContextOf
  <2>. QED  BY <1>1, <2>1, CtxSame, StacksParts
<1>3. ArgsOK(Append(p, e), k) /\ k \in Seq(Counter)
  BY <1>1, ArgPushed, StacksParts
<1>4. NestOK(Append(p, e), n) /\ ItemsOK(Append(p, e), ci)
  BY <1>1, NestSame, StacksParts
<1>. QED  BY <1>2, <1>3, <1>4, StacksParts DEF StacksOK, StacksTypes

LEMMA ArgumentsLineFront ==
  ASSUME NEW p \in Seq(Element), Len(p) > 1, Last(p).type = "ET_arguments_line",
         NEW cs, NEW n, NEW cra, NEW ci, StacksOK(p, cs, n, cra, ci),
         NEW d, d = ArgsDepth(Front(p), Last(p))
  PROVE  /\ StacksOK(Front(p), cs, n, IF d = 0 THEN cra ELSE Front(cra), ci)
         /\ d # 0 => cra # <<>> /\ Last(cra).elt = d
<1>. p # <<>>
  OBVIOUS
<1>. DEFINE k == IF d = 0 THEN cra ELSE Front(cra)
<1>2. CtxOK(Front(p), cs)
  <2>1. ContextOf(Last(p)) = None
    BY DEF ContextOf
  <2>. QED  BY <2>1, CtxStay, StacksParts
<1>3. /\ ArgsOK(Front(p), k) /\ k \in Seq(Counter)
      /\ d # 0 => cra # <<>> /\ Last(cra).elt = d
  BY ArgPopped, StacksParts
<1>4. NestOK(Front(p), n) /\ ItemsOK(Front(p), ci)
  BY NestStay, StacksParts
<1>. HIDE DEF k
<1>5. StacksOK(Front(p), cs, n, k, ci)
  BY <1>2, <1>3, <1>4, StacksParts DEF StacksOK, StacksTypes
<1>. QED  BY <1>3, <1>5 DEF k

LineContext(c) == IF Has(c, "CF_def") THEN "ct_def" ELSE "ct_line"

LEMMA LineArgAppend ==
  ASSUME NEW p \in Seq(Element), p # <<>>, NEW c \in Commands, NEW v \in Nat,
         NEW e, e = E("ET_line_arg", c),
         NEW cs, NEW n, NEW cra, NEW ci, StacksOK(p, cs, n, cra, ci),
         NEW m, m = LineOpened(n, Len(p) + 1, c),
         NEW k, k = IF ArgsDepth(p, e) = 0 THEN cra ELSE PushedCounter(cra, ArgsDepth(p, e), v)
  PROVE  StacksOK(Append(p, e), PushedContext(cs, Len(p) + 1, LineContext(c), c), m, k, ci)
<1>1. e \in Element /\ e.type = "ET_line_arg" /\ e.cmd = c /\ c \in AllCommands
  BY DEF E, Element, Types, CommandTypes, AllCommands
<1>. DEFINE ds == PushedContext(cs, Len(p) + 1, LineContext(c), c)
<1>2. CtxOK(Append(p, e), ds) /\ ds \in Seq(ContextEntry)
  <2>1. ContextOf(e) = LineContext(c) /\ LineContext(c) \in Contexts /\ LineContext(c) # None
    BY <1>1 DEF ContextOf, LineContext, Contexts, None
  <2>2. CtxOK(Append(p, e), ds)
    BY <1>1, <2>1, ContextPushed, StacksParts
  <2>3. Len(p) + 1 \in Nat
    OBVIOUS
  <2>. QED  BY <1>1, <2>1, <2>2, <2>3, PushedTypes, StacksParts
<1>3. ArgsOK(Append(p, e), k) /\ k \in Seq(Counter)
  BY <1>1, ArgPushed, StacksParts
<1>4. NestOK(Append(p, e), m) /\ m \in NestingContext
  <2>1. e \in BasicInline("ET_line_arg") <=> Has(c, "CF_contain_basic_inline")
    BY <1>1 DEF BasicInline
  <2>2. m = [n EXCEPT !.basic_inline_stack_on_line =
               IF e \in BasicInline("ET_line_arg") THEN Pushed(@, Len(p) + 1, c) ELSE @]
    BY <2>1 DEF LineOpened
  <2>. QED  BY <1>1, <2>2, LineArgNestAppend, StacksParts
<1>5. ItemsOK(Append(p, e), ci)
  BY <1>1, ItemsSame, StacksParts
<1>. HIDE DEF ds
<1>6. StacksOK(Append(p, e), ds, m, k, ci)
  BY <1>2, <1>3, <1>4, <1>5, StacksParts DEF StacksOK, StacksTypes
<1>. QED  BY <1>6 DEF ds

LEMMA LineArgFront ==
  ASSUME NEW p \in Seq(Element), Len(p) > 1, NEW c \in Commands,
         Last(p) = E("ET_line_arg", c),
         NEW cs, NEW n, NEW cra, NEW ci, StacksOK(p, cs, n, cra, ci),
         NEW d, d = ArgsDepth(Front(p), Last(p)),
         NEW m, m = LineClosed(n, c)
  PROVE  /\ StacksOK(Front(p), Front(cs), m, IF d = 0 THEN cra ELSE Front(cra), ci)
         /\ top_(cs) = LineContext(c)
         /\ d # 0 => cra # <<>> /\ Last(cra).elt = d
         /\ Has(c, "CF_contain_basic_inline") => n.basic_inline_stack_on_line # <<>>
<1>. p # <<>>
  OBVIOUS
<1>1. Last(p) \in Element /\ Last(p).type = "ET_line_arg" /\ Last(p).cmd = c
  BY FrontFacts DEF E
<1>. DEFINE k == IF d = 0 THEN cra ELSE Front(cra)
<1>2. CtxOK(Front(p), Front(cs)) /\ Front(cs) \in Seq(ContextEntry) /\ top_(cs) = LineContext(c)
  <2>1. ContextOf(Last(p)) = LineContext(c) /\ LineContext(c) # None
    BY <1>1 DEF ContextOf, LineContext, None
  <2>2. cs # <<>> /\ Last(cs).context = LineContext(c) /\ CtxOK(Front(p), Front(cs))
    BY <2>1, CtxPop, StacksParts
  <2>. QED  BY <2>2, FrontType, StacksParts DEF top_
<1>3. /\ ArgsOK(Front(p), k) /\ k \in Seq(Counter)
      /\ d # 0 => cra # <<>> /\ Last(cra).elt = d
  BY ArgPopped, StacksParts
<1>4. /\ NestOK(Front(p), m) /\ m \in NestingContext
      /\ Has(c, "CF_contain_basic_inline") => n.basic_inline_stack_on_line # <<>>
  <2>1. Last(p) \in BasicInline("ET_line_arg") <=> Has(c, "CF_contain_basic_inline")
    BY <1>1 DEF BasicInline
  <2>2. m = [n EXCEPT !.basic_inline_stack_on_line =
               IF Last(p) \in BasicInline("ET_line_arg") THEN Front(@) ELSE @]
    BY <2>1 DEF LineClosed
  <2>. QED  BY <1>1, <2>1, <2>2, LineArgNestFront, StacksParts
<1>5. ItemsOK(Front(p), ci)
  BY <1>1, ItemsStay, StacksParts
<1>. HIDE DEF k
<1>6. StacksOK(Front(p), Front(cs), m, k, ci)
  BY <1>2, <1>3, <1>4, <1>5, StacksParts DEF StacksOK, StacksTypes
<1>. QED  BY <1>2, <1>3, <1>4, <1>6 DEF k

LEMMA BlockLineArgAppend ==
  ASSUME NEW p \in Seq(Element), p # <<>>, NEW c \in Commands,
         NEW e, e = E("ET_block_line_arg", c),
         NEW cs, NEW n, NEW cra, NEW ci, StacksOK(p, cs, n, cra, ci),
         NEW m, m = BlockLineOpened(n, Len(p) + 1, c)
  PROVE  StacksOK(Append(p, e), PushedContext(cs, Len(p) + 1, LineContext(c), c), m, cra, ci)
<1>1. e \in Element /\ e.type = "ET_block_line_arg" /\ e.cmd = c /\ c \in AllCommands
  BY DEF E, Element, Types, CommandTypes, AllCommands
<1>. DEFINE ds == PushedContext(cs, Len(p) + 1, LineContext(c), c)
<1>2. CtxOK(Append(p, e), ds) /\ ds \in Seq(ContextEntry)
  <2>1. ContextOf(e) = LineContext(c) /\ LineContext(c) \in Contexts /\ LineContext(c) # None
    BY <1>1 DEF ContextOf, LineContext, Contexts, None
  <2>2. CtxOK(Append(p, e), ds)
    BY <1>1, <2>1, ContextPushed, StacksParts
  <2>3. Len(p) + 1 \in Nat
    OBVIOUS
  <2>. QED  BY <1>1, <2>1, <2>2, <2>3, PushedTypes, StacksParts
<1>3. ArgsOK(Append(p, e), cra)
  BY <1>1, PlainArgs, ArgSame, StacksParts
<1>4. NestOK(Append(p, e), m) /\ m \in NestingContext
  <2>1. e \in BasicInline("ET_block_line_arg") <=> Has(c, "CF_contain_basic_inline")
    BY <1>1 DEF BasicInline
  <2>2. m = [n EXCEPT !.basic_inline_stack_block =
               IF e \in BasicInline("ET_block_line_arg") THEN Pushed(@, Len(p) + 1, c) ELSE @]
    BY <2>1 DEF BlockLineOpened
  <2>. QED  BY <1>1, <2>2, BlockLineArgNestAppend, StacksParts
<1>5. ItemsOK(Append(p, e), ci)
  BY <1>1, ItemsSame, StacksParts
<1>. HIDE DEF ds
<1>6. StacksOK(Append(p, e), ds, m, cra, ci)
  BY <1>2, <1>3, <1>4, <1>5, StacksParts DEF StacksOK, StacksTypes
<1>. QED  BY <1>6 DEF ds

LEMMA BlockLineArgFront ==
  ASSUME NEW p \in Seq(Element), Len(p) > 1, NEW c \in Commands,
         Last(p) = E("ET_block_line_arg", c),
         NEW cs, NEW n, NEW cra, NEW ci, StacksOK(p, cs, n, cra, ci),
         NEW m, m = BlockLineClosed(n, c)
  PROVE  /\ StacksOK(Front(p), Front(cs), m, cra, ci)
         /\ top_(cs) = LineContext(c)
         /\ Has(c, "CF_contain_basic_inline") => n.basic_inline_stack_block # <<>>
<1>. p # <<>>
  OBVIOUS
<1>1. Last(p) \in Element /\ Last(p).type = "ET_block_line_arg" /\ Last(p).cmd = c
  BY FrontFacts DEF E
<1>2. CtxOK(Front(p), Front(cs)) /\ Front(cs) \in Seq(ContextEntry) /\ top_(cs) = LineContext(c)
  <2>1. ContextOf(Last(p)) = LineContext(c) /\ LineContext(c) # None
    BY <1>1 DEF ContextOf, LineContext, None
  <2>2. cs # <<>> /\ Last(cs).context = LineContext(c) /\ CtxOK(Front(p), Front(cs))
    BY <2>1, CtxPop, StacksParts
  <2>. QED  BY <2>2, FrontType, StacksParts DEF top_
<1>3. ArgsOK(Front(p), cra)
  BY <1>1, PlainArgs, ArgStay, StacksParts
<1>4. /\ NestOK(Front(p), m) /\ m \in NestingContext
      /\ Has(c, "CF_contain_basic_inline") => n.basic_inline_stack_block # <<>>
  <2>1. Last(p) \in BasicInline("ET_block_line_arg") <=> Has(c, "CF_contain_basic_inline")
    BY <1>1 DEF BasicInline
  <2>2. m = [n EXCEPT !.basic_inline_stack_block =
               IF Last(p) \in BasicInline("ET_block_line_arg") THEN Front(@) ELSE @]
    BY <2>1 DEF BlockLineClosed
  <2>. QED  BY <1>1, <2>1, <2>2, BlockLineArgNestFront, StacksParts
<1>5. ItemsOK(Front(p), ci)
  BY <1>1, ItemsStay, StacksParts
<1>6. StacksOK(Front(p), Front(cs), m, cra, ci)
  BY <1>2, <1>3, <1>4, <1>5, StacksParts DEF StacksOK, StacksTypes
<1>. QED  BY <1>2, <1>4, <1>6

LEMMA BlockAppend ==
  ASSUME NEW p \in Seq(Element), p # <<>>, NEW c \in Commands,
         NEW e, e = E("ET_block_command", c),
         NEW cs, NEW n, NEW cra, NEW ci, StacksOK(p, cs, n, cra, ci),
         NEW ds, ds = IF Has(c, "CF_def") \/ BlockContext(c) = None THEN cs
                      ELSE PushedContext(cs, Len(p) + 1, BlockContext(c), c),
         NEW m, m = RegionOpened(n, Len(p) + 1, c),
         NEW k, k = ItemsOpened(ci, Len(p) + 1, c)
  PROVE  StacksOK(Append(p, e), ds, m, cra, k)
<1>1. e \in Element /\ e.type = "ET_block_command" /\ e.cmd = c /\ c \in AllCommands
  BY DEF E, Element, Types, CommandTypes, AllCommands
<1>2. CtxOK(Append(p, e), ds) /\ ds \in Seq(ContextEntry)
  <2>1. ContextOf(e) = IF Has(c, "CF_def") THEN None ELSE BlockContext(c)
    BY <1>1 DEF ContextOf
  <2>2. ContextOf(e) = None \/ ContextOf(e) \in Contexts
    BY <2>1, ContextTypes
  <2>3. ds = IF ContextOf(e) = None THEN cs
             ELSE PushedContext(cs, Len(p) + 1, ContextOf(e), c)
    BY <2>1
  <2>4. Len(p) + 1 \in Nat
    OBVIOUS
  <2>5. ds \in Seq(ContextEntry)
    BY <1>1, <2>2, <2>3, <2>4, PushedTypes, StacksParts
  <2>. QED  BY <1>1, <2>2, <2>3, <2>5, ContextPushed, StacksParts
<1>3. ArgsOK(Append(p, e), cra)
  BY <1>1, PlainArgs, ArgSame, StacksParts
<1>4. NestOK(Append(p, e), m) /\ m \in NestingContext
  <2>1. e \in Region <=> ~Has(c, "CF_def") /\ data[c] = "BLOCK_region"
    BY <1>1, CommandData DEF Region
  <2>2. m = [n EXCEPT !.regions_stack = IF e \in Region THEN Pushed(@, Len(p) + 1, c) ELSE @]
    BY <2>1 DEF RegionOpened
  <2>. QED  BY <1>1, <2>2, BlockNestAppend, StacksParts
<1>5. ItemsOK(Append(p, e), k) /\ k \in Seq(Counter)
  <2>1. e \in List <=> ~Has(c, "CF_def") /\ c \in ListCommands
    BY <1>1, CommandData DEF List
  <2>2. CASE e \notin List
    BY <1>1, <2>1, <2>2, CountAppend, StacksParts DEF ItemsOK, ItemsOpened
  <2>3. CASE e \in List
    <3>. DEFINE x == [elt |-> Len(p) + 1, value |-> 0]
    <3>1. x \in Counter
      BY DEF Counter
    <3>. HIDE DEF x
    <3>2. k = Append(ci, x)
      BY <2>1, <2>3 DEF ItemsOpened, PushedCounter, x
    <3>6. ci \in Seq(Counter)
      BY StacksParts
    <3>3. k \in Seq(Counter) /\ Len(k) = Len(ci) + 1
      BY <3>1, <3>2, <3>6, AppendFacts
    <3>4. Cardinality(Depths(Append(p, e), List)) = Cardinality(Depths(p, List)) + 1
          /\ Cardinality(Depths(p, List)) \in Nat
      BY <1>1, <2>3, CountAppend
    <3>5. Cardinality(Depths(p, List)) <= Len(ci) /\ ci \in Seq(Counter)
      BY StacksParts DEF ItemsOK
    <3>. QED  BY <3>3, <3>4, <3>5 DEF ItemsOK
  <2>. QED  BY <2>2, <2>3
<1>6. StacksOK(Append(p, e), ds, m, cra, k)
  BY <1>2, <1>3, <1>4, <1>5, StacksParts DEF StacksOK, StacksTypes
<1>. QED  BY <1>6

LEMMA BlockFront ==
  ASSUME NEW p \in Seq(Element), Len(p) > 1, NEW c \in Commands,
         Last(p) = E("ET_block_command", c),
         NEW cs, NEW n, NEW cra, NEW ci, StacksOK(p, cs, n, cra, ci),
         NEW m, m = RegionClosed(n, c),
         NEW k \in ItemsClosed(ci, Len(p), c)
  PROVE  /\ StacksOK(Front(p), IF PoppedBlockContext(c) = None THEN cs ELSE Front(cs), m, cra, k)
         /\ PoppedBlockContext(c) # None => top_(cs) = PoppedBlockContext(c)
         /\ data[c] = "BLOCK_region" => n.regions_stack # <<>>
         /\ c \in ListCommands => ci # <<>>
<1>. p # <<>>
  OBVIOUS
<1>. DEFINE ds == IF PoppedBlockContext(c) = None THEN cs ELSE Front(cs)
<1>1. Last(p) \in Element /\ Last(p).type = "ET_block_command" /\ Last(p).cmd = c
  BY FrontFacts DEF E
<1>2. /\ CtxOK(Front(p), ds) /\ ds \in Seq(ContextEntry)
      /\ PoppedBlockContext(c) # None => top_(cs) = PoppedBlockContext(c)
  <2>1. ContextOf(Last(p)) = PoppedBlockContext(c)
    BY <1>1, CommandData DEF ContextOf
  <2>2. CASE PoppedBlockContext(c) = None
    BY <2>1, <2>2, CtxStay, StacksParts
  <2>3. CASE PoppedBlockContext(c) # None
    BY <2>1, <2>3, CtxPop, FrontType, StacksParts DEF top_
  <2>. QED  BY <2>2, <2>3
<1>3. ArgsOK(Front(p), cra)
  BY <1>1, PlainArgs, ArgStay, StacksParts
<1>4. /\ NestOK(Front(p), m) /\ m \in NestingContext
      /\ data[c] = "BLOCK_region" => n.regions_stack # <<>>
  <2>1. Last(p) \in Region <=> data[c] = "BLOCK_region"
    BY <1>1 DEF Region
  <2>2. m = [n EXCEPT !.regions_stack = IF Last(p) \in Region THEN Front(@) ELSE @]
    BY <2>1 DEF RegionClosed
  <2>. QED  BY <1>1, <2>1, <2>2, BlockNestFront, StacksParts
<1>5. /\ ItemsOK(Front(p), k) /\ k \in Seq(Counter)
      /\ c \in ListCommands => ci # <<>>
  <2>1. Last(p) \in List <=> c \in ListCommands
    BY <1>1 DEF List
  <2>2. CASE c \notin ListCommands
    BY <2>1, <2>2, CountFront, StacksParts DEF ItemsOK, ItemsClosed
  <2>3. CASE c \in ListCommands
    <3>1. Cardinality(Depths(Front(p), List)) = Cardinality(Depths(p, List)) - 1
          /\ Cardinality(Depths(Front(p), List)) \in Nat
      BY <2>1, <2>3, CountFront
    <3>2. Cardinality(Depths(p, List)) <= Len(ci) /\ ci \in Seq(Counter)
      BY StacksParts DEF ItemsOK
    <3>5. Cardinality(Depths(p, List)) \in Nat
      BY CountAppend, <1>1
    <3>3. ci # <<>> /\ Len(Front(ci)) = Len(ci) - 1 /\ Front(ci) \in Seq(Counter)
      BY <3>1, <3>2, <3>5, FrontFacts
    <3>4. k \in Seq(Counter) /\ (Len(k) = Len(ci) - 1 \/ Len(k) = Len(ci))
      BY <2>3, <3>2, <3>3, LeftBehindType DEF ItemsClosed
    <3>. QED  BY <3>1, <3>2, <3>3, <3>4, <3>5 DEF ItemsOK
  <2>. QED  BY <2>2, <2>3
<1>. HIDE DEF ds
<1>6. StacksOK(Front(p), ds, m, cra, k)
  BY <1>2, <1>3, <1>4, <1>5, StacksParts DEF StacksOK, StacksTypes
<1>. QED  BY <1>2, <1>4, <1>5, <1>6 DEF ds

-----------------------------------------------------------------------------
(* The path from the root: which element may be below which.               *)

BraceArguments == {"ET_brace_arg", "ET_brace_container", "ET_brace_command_context"}

LineTypes == {"ET_arguments_line", "ET_def_line", "ET_line_arg", "ET_block_line_arg"}

ContentTypes == Types \ (BraceArguments \cup LineTypes \cup {"ET_document_root"})

(* Any command or text may be added to the element. *)
Holds(e) ==
  /\ e.type \notin {"ET_arguments_line", "ET_def_line", "ET_brace_command", "unbraced"}
  /\ e.type = "ET_line_command" => Has(e.cmd, "CF_root")

(* The element b is rightly in the element a. *)
Fits(a, b) ==
  /\ b.type # "ET_document_root"
  /\ b.type \in ContentTypes => Holds(a)
  /\ b.type \in BraceArguments => a = E("ET_brace_command", b.cmd)
  /\ b.type = "ET_def_line" =>
       a = E("ET_block_command", b.cmd) /\ Has(b.cmd, "CF_def")
  /\ b.type = "ET_arguments_line" =>
       \/ a = E("ET_line_command", b.cmd) /\ Has(b.cmd, "CF_root")
       \/ a = E("ET_block_command", b.cmd) /\ ~Has(b.cmd, "CF_def")
  /\ b.type = "ET_line_arg" =>
       \/ a = E("ET_line_command", b.cmd) /\ ~Has(b.cmd, "CF_root")
       \/ a = E("ET_arguments_line", b.cmd) /\ Has(b.cmd, "CF_root")
  /\ b.type = "ET_block_line_arg" =>
       /\ Has(b.cmd, "CF_block")
       /\ a = E(IF Has(b.cmd, "CF_def") THEN "ET_def_line" ELSE "ET_arguments_line", b.cmd)

(* The command of an element is of the kind that its type says. *)
Kind(e) ==
  /\ e.type = "ET_line_command" => Has(e.cmd, "CF_line")
  /\ e.type = "ET_block_command" => Has(e.cmd, "CF_block")
  /\ e.type \in {"ET_brace_command", "unbraced"} => Has(e.cmd, "CF_brace")
  /\ e.type = "ET_nobrace_command" => Has(e.cmd, "CF_nobrace")

PathOK(p) ==
  /\ p \in Seq(Element) /\ p # <<>>
  /\ p[1].type = "ET_document_root"
  /\ \A i \in DOMAIN p : Kind(p[i])
  /\ \A i \in DOMAIN p : i = 2 => IsRoot(p[i])
  /\ \A i \in DOMAIN p : i > 2 => ~IsRoot(p[i])
  /\ \A i \in DOMAIN p : i > 1 => Fits(p[i - 1], p[i])

LEMMA Beyond == \A n \in Nat : n > 1 /\ n # 2 => n > 2
  OBVIOUS

LEMMA Categorised ==
  ASSUME NEW c \in AllCommands
  PROVE  /\ \A f, g \in Categories : Has(c, f) /\ Has(c, g) => f = g
         /\ Has(c, "CF_root") => Has(c, "CF_line")
         /\ \A f : Has(c, f) => c \in Commands
<1>1. CASE c \in Commands
  <2>1. PICK f \in Categories : flags[c] \cap Categories = {f}
    BY <1>1, CommandTable
  <2>2. \A g, h \in Categories : Has(c, g) /\ Has(c, h) => g = h
    BY <2>1 DEF Has
  <2>3. Has(c, "CF_root") => Has(c, "CF_line")
    BY <1>1, CommandTable
  <2>. QED  BY <1>1, <2>2, <2>3
<1>2. CASE c = CM_NONE
  BY <1>2, CommandTable DEF Has
<1>. QED  BY <1>1, <1>2 DEF AllCommands

(* Only a line command is a root command. *)
LEMMA RootTypes ==
  ASSUME NEW e \in Element, Kind(e), IsRoot(e)
  PROVE  \/ e.type = "ET_before_node_section"
         \/ e.type = "ET_line_command" /\ Has(e.cmd, "CF_root")
<1>1. CASE e.type = "ET_before_node_section"
  BY <1>1
<1>2. CASE e.type # "ET_before_node_section"
  <2>1. Has(Cmd(e), "CF_root")
    BY <1>2 DEF IsRoot
  <2>2. ~Has(CM_NONE, "CF_root")
    BY CommandTable DEF Has
  <2>3. e.type \in CommandTypes /\ Has(e.cmd, "CF_root")
    BY <2>1, <2>2 DEF Cmd
  <2>4. Has(e.cmd, "CF_line") /\ e.cmd \in AllCommands
    BY <2>3, Categorised DEF Element
  <2>5. /\ ~Has(e.cmd, "CF_block") /\ ~Has(e.cmd, "CF_brace") /\ ~Has(e.cmd, "CF_nobrace")
    BY <2>4, Categorised DEF Categories
  <2>. QED  BY <2>3, <2>5 DEF Kind, CommandTypes
<1>. QED  BY <1>1, <1>2

LEMMA NotRoot ==
  ASSUME NEW e \in Element, Kind(e), e.type # "ET_before_node_section",
         e.type = "ET_line_command" => ~Has(e.cmd, "CF_root")
  PROVE  ~IsRoot(e)
  BY RootTypes

LEMMA PathAppend ==
  ASSUME NEW p, PathOK(p), NEW e \in Element, Kind(e), Fits(Last(p), e),
         (Len(p) = 1 /\ IsRoot(e)) \/ (Len(p) > 1 /\ ~IsRoot(e))
  PROVE  PathOK(Append(p, e)) /\ Append(p, e) \in Seq(Element) /\ Append(p, e) # <<>>
         /\ Last(Append(p, e)) = e /\ Len(Append(p, e)) = Len(p) + 1
         /\ Len(Append(p, e)) > 1
<1>. DEFINE q == Append(p, e)
<1>1. p \in Seq(Element) /\ p # <<>> /\ DOMAIN p = 1 .. Len(p) /\ Len(p) \in Nat /\ Len(p) > 0
      /\ Last(p) = p[Len(p)]
  BY FrontFacts DEF PathOK
<1>2. /\ q \in Seq(Element) /\ q # <<>> /\ Len(q) = Len(p) + 1
      /\ DOMAIN q = 1 .. (Len(p) + 1) /\ \A i \in 1 .. Len(p) : q[i] = p[i]
      /\ q[Len(p) + 1] = e /\ Last(q) = e
  BY <1>1, AppendFacts
<1>. HIDE DEF q
<1>3. q[1].type = "ET_document_root"
  BY <1>1, <1>2 DEF PathOK
<1>4. \A i \in DOMAIN q : Kind(q[i])
  BY <1>1, <1>2 DEF PathOK
<1>5. \A i \in DOMAIN q : (i = 2 => IsRoot(q[i])) /\ (i > 2 => ~IsRoot(q[i]))
  BY <1>1, <1>2 DEF PathOK
<1>6. \A i \in DOMAIN q : i > 1 => Fits(q[i - 1], q[i])
  <2>1. TAKE i \in DOMAIN q
  <2>2. HAVE i > 1
  <2>3. CASE i <= Len(p)
    BY <1>1, <1>2, <2>2, <2>3 DEF PathOK
  <2>4. CASE i = Len(p) + 1
    BY <1>1, <1>2, <2>4
  <2>. QED  BY <1>2, <2>3, <2>4, <1>1
<1>. QED  BY <1>2, <1>3, <1>4, <1>5, <1>6 DEF PathOK, q

LEMMA PathLast ==
  ASSUME NEW p, PathOK(p)
  PROVE  /\ p \in Seq(Element) /\ p # <<>> /\ Len(p) \in Nat /\ Len(p) > 0
         /\ Last(p) \in Element /\ Kind(Last(p)) /\ Last(p) = p[Len(p)]
         /\ Len(p) = 1 => Last(p).type = "ET_document_root"
         /\ Last(p).type # "ET_document_root" => Len(p) > 1
         /\ Len(p) = 2 => IsRoot(Last(p))
         /\ Len(p) > 2 => ~IsRoot(Last(p))
         /\ ~IsRoot(Last(p)) /\ Len(p) > 1 => Len(p) > 2
         /\ Last(p).cmd \in AllCommands /\ Last(p).type \in Types
<1>1. p \in Seq(Element) /\ p # <<>> /\ DOMAIN p = 1 .. Len(p) /\ Len(p) \in Nat /\ Len(p) > 0
      /\ Last(p) = p[Len(p)] /\ Last(p) \in Element
  BY FrontFacts DEF PathOK
<1>2. Kind(Last(p)) /\ (Len(p) = 2 => IsRoot(Last(p))) /\ (Len(p) > 2 => ~IsRoot(Last(p)))
  BY <1>1 DEF PathOK
<1>3. Len(p) > 1 => Last(p).type # "ET_document_root"
  BY <1>1 DEF PathOK, Fits
<1>4. Len(p) = 1 => Last(p).type = "ET_document_root"
  BY <1>1 DEF PathOK
<1>5. ~IsRoot(Last(p)) /\ Len(p) > 1 => Len(p) > 2
  BY <1>1, <1>2, Beyond
<1>6. Last(p).type # "ET_document_root" => Len(p) > 1
  BY <1>1, <1>4, \A n \in Nat : n > 0 /\ n # 1 => n > 1
<1>. QED  BY <1>1, <1>2, <1>3, <1>4, <1>5, <1>6 DEF Element

LEMMA PathFront ==
  ASSUME NEW p, PathOK(p), Len(p) > 1
  PROVE  /\ PathOK(Front(p)) /\ Front(p) # <<>> /\ Front(p) \in Seq(Element)
         /\ Fits(Last(Front(p)), Last(p))
         /\ Last(Front(p)) = p[Len(p) - 1] /\ Len(Front(p)) = Len(p) - 1
<1>. DEFINE q == Front(p)
<1>1. p \in Seq(Element) /\ p # <<>> /\ DOMAIN p = 1 .. Len(p) /\ Len(p) \in Nat
      /\ Last(p) = p[Len(p)] /\ Last(p) \in Element
      /\ q \in Seq(Element) /\ Len(q) = Len(p) - 1 /\ DOMAIN q = 1 .. (Len(p) - 1)
      /\ \A i \in 1 .. (Len(p) - 1) : q[i] = p[i]
  BY FrontFacts DEF PathOK
<1>. HIDE DEF q
<1>2. q # <<>> /\ Last(q) = p[Len(p) - 1]
  BY <1>1 DEF Last
<1>3. Fits(Last(q), Last(p))
  BY <1>1, <1>2 DEF PathOK
<1>4. q[1].type = "ET_document_root"
  BY <1>1 DEF PathOK
<1>5. \A i \in DOMAIN q : i \in DOMAIN p /\ q[i] = p[i] /\ (i > 1 => i - 1 \in DOMAIN q)
  BY <1>1
<1>6. \A i \in DOMAIN q : Kind(q[i])
  BY <1>5 DEF PathOK
<1>7. \A i \in DOMAIN q : (i = 2 => IsRoot(q[i])) /\ (i > 2 => ~IsRoot(q[i]))
  BY <1>5 DEF PathOK
<1>8. \A i \in DOMAIN q : i > 1 => Fits(q[i - 1], q[i])
  BY <1>5 DEF PathOK
<1>9. PathOK(q)
  BY <1>1, <1>2, <1>4, <1>6, <1>7, <1>8 DEF PathOK
<1>. QED  BY <1>1, <1>2, <1>3, <1>9 DEF q

-----------------------------------------------------------------------------
(* The path with the stacks: what opens and what closes an element.        *)

Tree(p, cs, n, cra, ci) == PathOK(p) /\ StacksOK(p, cs, n, cra, ci)

(* Elements with a path of their own that other elements may be added to.  *)
Open(p) == Len(p) > 1 /\ Holds(Last(p))

LEMMA ContentOpened ==
  ASSUME NEW p, NEW cs, NEW n, NEW cra, NEW ci, Tree(p, cs, n, cra, ci), Open(p),
         NEW e \in Element, Kind(e), ~IsRoot(e), e.type \in ContentTypes,
         e.type \in PlainTypes
  PROVE  /\ Tree(Append(p, e), cs, n, cra, ci)
         /\ Len(Append(p, e)) > 1 /\ Last(Append(p, e)) = e
<1>1. PathOK(p) /\ StacksOK(p, cs, n, cra, ci) /\ Len(p) > 1 /\ Holds(Last(p))
  BY DEF Tree, Open
<1>2. Fits(Last(p), e)
  BY <1>1 DEF Fits, ContentTypes, BraceArguments, LineTypes
<1>3. p \in Seq(Element) /\ p # <<>> /\ Len(p) \in Nat
  BY <1>1, PathLast
<1>4. /\ PathOK(Append(p, e)) /\ Last(Append(p, e)) = e
      /\ Len(Append(p, e)) = Len(p) + 1
  BY <1>1, <1>2, PathAppend
<1>5. StacksOK(Append(p, e), cs, n, cra, ci)
  BY <1>1, <1>3, PlainAppend
<1>. QED  BY <1>1, <1>3, <1>4, <1>5 DEF Tree

LEMMA ContentClosed ==
  ASSUME NEW p, NEW cs, NEW n, NEW cra, NEW ci, Tree(p, cs, n, cra, ci), Len(p) > 1,
         ~IsRoot(Last(p)), Last(p).type \in ContentTypes,
         Last(p).type \in PlainTypes
  PROVE  Tree(Front(p), cs, n, cra, ci) /\ Open(Front(p))
<1>1. PathOK(p) /\ StacksOK(p, cs, n, cra, ci)
  BY DEF Tree
<1>2. p \in Seq(Element) /\ Len(p) \in Nat /\ Len(p) > 2
  BY <1>1, PathLast
<1>3. PathOK(Front(p)) /\ Len(Front(p)) = Len(p) - 1 /\ Fits(Last(Front(p)), Last(p))
  BY <1>1, PathFront
<1>4. StacksOK(Front(p), cs, n, cra, ci)
  BY <1>1, <1>2, PlainFront
<1>5. Holds(Last(Front(p)))
  BY <1>3 DEF Fits
<1>. QED  BY <1>2, <1>3, <1>4, <1>5 DEF Tree, Open

LEMMA ParagraphOpened ==
  ASSUME NEW p, NEW cs, NEW n, NEW cra, NEW ci, Tree(p, cs, n, cra, ci), Open(p),
         NEW q, q = Append(p, E("ET_paragraph", CM_NONE)),
         NEW ds, ds = PushedContext(cs, Len(p) + 1, "ct_paragraph", CM_NONE)
  PROVE  Tree(q, ds, n, cra, ci) /\ Open(q)
<1>. DEFINE e == E("ET_paragraph", CM_NONE)
<1>1. PathOK(p) /\ StacksOK(p, cs, n, cra, ci) /\ Len(p) > 1 /\ Holds(Last(p))
  BY DEF Tree, Open
<1>2. e \in Element /\ e.type = "ET_paragraph"
  BY DEF E, Element, Types, AllCommands
<1>3. Kind(e) /\ ~IsRoot(e) /\ Holds(e)
  <2>1. Kind(e) /\ Holds(e)
    BY <1>2 DEF Kind, Holds
  <2>. QED  BY <1>2, <2>1, NotRoot
<1>. HIDE DEF e
<1>4. Fits(Last(p), e)
  BY <1>1, <1>2 DEF Fits, ContentTypes, BraceArguments, LineTypes
<1>5. p \in Seq(Element) /\ p # <<>> /\ Len(p) \in Nat
  BY <1>1, PathLast
<1>6. PathOK(Append(p, e)) /\ Last(Append(p, e)) = e /\ Len(Append(p, e)) = Len(p) + 1
  BY <1>1, <1>2, <1>3, <1>4, PathAppend
<1>7. StacksOK(q, ds, n, cra, ci)
  BY <1>1, <1>5, ParagraphAppend
<1>. QED  BY <1>1, <1>3, <1>5, <1>6, <1>7 DEF Tree, Open, e

LEMMA ParagraphClosed ==
  ASSUME NEW p, NEW cs, NEW n, NEW cra, NEW ci, Tree(p, cs, n, cra, ci),
         Last(p).type = "ET_paragraph"
  PROVE  /\ Tree(Front(p), Front(cs), n, cra, ci) /\ Open(Front(p))
         /\ top_(cs) = "ct_paragraph"
<1>1. PathOK(p) /\ StacksOK(p, cs, n, cra, ci)
  BY DEF Tree
<1>2. p \in Seq(Element) /\ Len(p) \in Nat /\ Len(p) > 2
  <2>1. /\ p \in Seq(Element) /\ Len(p) \in Nat /\ Len(p) > 1
        /\ Last(p) \in Element /\ Kind(Last(p))
        /\ ~IsRoot(Last(p)) /\ Len(p) > 1 => Len(p) > 2
    BY <1>1, PathLast
  <2>2. ~IsRoot(Last(p))
    BY <2>1, NotRoot
  <2>. QED  BY <2>1, <2>2
<1>3. PathOK(Front(p)) /\ Len(Front(p)) = Len(p) - 1 /\ Fits(Last(Front(p)), Last(p))
  BY <1>1, <1>2, PathFront
<1>4. StacksOK(Front(p), Front(cs), n, cra, ci) /\ top_(cs) = "ct_paragraph"
  BY <1>1, <1>2, ParagraphFront
<1>5. Holds(Last(Front(p)))
  BY <1>3 DEF Fits, ContentTypes, Types, BraceArguments, LineTypes
<1>. QED  BY <1>2, <1>3, <1>4, <1>5 DEF Tree, Open

LEMMA ElementIs ==
  ASSUME NEW e \in Element
  PROVE  e = E(e.type, e.cmd)
  BY DEF Element, E

LEMMA CommandOf ==
  ASSUME NEW e \in Element, Kind(e)
  PROVE  /\ e.type = "ET_line_command" => e.cmd \in Commands /\ Has(e.cmd, "CF_line")
         /\ e.type = "ET_block_command" => e.cmd \in Commands /\ Has(e.cmd, "CF_block")
         /\ e.type \in {"ET_brace_command", "unbraced"} =>
              e.cmd \in Commands /\ Has(e.cmd, "CF_brace")
<1>1. e.cmd \in AllCommands
  BY DEF Element
<1>2. \A f : Has(e.cmd, f) => e.cmd \in Commands
  BY <1>1, Categorised
<1>. QED  BY <1>2 DEF Kind

(* The elements in a brace command are its arguments. *)
LEMMA InBraceCommand ==
  ASSUME NEW p, PathOK(p), Len(p) > 1, Last(Front(p)).type = "ET_brace_command"
  PROVE  Last(p).type \in BraceArguments
<1>1. Fits(Last(Front(p)), Last(p)) /\ Last(p).type \in Types
  BY PathLast, PathFront
<1>2. /\ Last(p).type \notin ContentTypes
      /\ Last(p).type \notin LineTypes /\ Last(p).type # "ET_document_root"
  BY <1>1 DEF Fits, Holds, LineTypes, E
<1>. QED  BY <1>1, <1>2 DEF ContentTypes

(* Brace commands: the { is read, the argument is closed, the command is.  *)
LEMMA BraceCommandOpened ==
  ASSUME NEW p, NEW cs, NEW n, NEW cra, NEW ci, Tree(p, cs, n, cra, ci),
         NEW c \in Commands, Last(p) = E("unbraced", c), NEW t \in BraceArguments,
         NEW ds, ds = IF BraceContext(c) = None THEN cs
                      ELSE PushedContext(cs, Len(p), BraceContext(c), c),
         NEW m, m = BraceOpened(n, Len(p), c),
         NEW k, k = PushedCounter(cra, Len(p), args_number[c] - 1)
  PROVE  LET q == Append(Append(Front(p), E("ET_brace_command", c)), E(t, c))
         IN Tree(q, ds, m, k, ci) /\ Open(q)
<1>0. Last(p).type = "unbraced" /\ c = Last(p).cmd
  BY DEF E
<1>1. /\ PathOK(p) /\ Len(p) \in Nat /\ Len(p) > 1 /\ c \in Commands /\ Has(c, "CF_brace")
      /\ ~IsRoot(Last(p))
  <2>1. /\ PathOK(p) /\ Len(p) \in Nat /\ Len(p) > 1 /\ Last(p) \in Element /\ Kind(Last(p))
    BY <1>0, PathLast DEF Tree
  <2>2. c \in Commands /\ Has(c, "CF_brace") /\ ~IsRoot(Last(p))
    BY <1>0, <2>1, CommandOf, NotRoot
  <2>. QED  BY <2>1, <2>2
<1>. DEFINE b == E("ET_brace_command", c)
            a == E(t, c)
            r == Append(Front(p), b)
            q == Append(r, a)
<1>2. Tree(Front(p), cs, n, cra, ci) /\ Open(Front(p)) /\ Len(Front(p)) = Len(p) - 1
  BY <1>0, <1>1, ContentClosed, PathFront
     DEF ContentTypes, PlainTypes, Types, CommandTypes, BraceArguments, LineTypes
<1>3. /\ b \in Element /\ b.type = "ET_brace_command" /\ b.cmd = c
      /\ a \in Element /\ a.type = t /\ a.cmd = c
  BY <1>1 DEF E, Element, Types, CommandTypes, AllCommands, BraceArguments
<1>4. Kind(b) /\ Kind(a) /\ ~IsRoot(b) /\ ~IsRoot(a)
  <2>1. Kind(b) /\ Kind(a)
    BY <1>1, <1>3 DEF Kind, BraceArguments
  <2>. QED  BY <1>3, <2>1, NotRoot DEF BraceArguments
<1>5. a = E(t, b.cmd)
  BY <1>3
<1>6. Fits(Last(Front(p)), b)
  <2>1. Holds(Last(Front(p)))
    BY <1>2 DEF Open
  <2>. QED  BY <1>3, <2>1 DEF Fits, BraceArguments
<1>7. Fits(b, a)
  <2>1. b = E("ET_brace_command", a.cmd) /\ a.type \in BraceArguments
    BY <1>3
  <2>. QED  BY <2>1 DEF Fits, ContentTypes, BraceArguments
<1>. HIDE DEF a, b
<1>8. PathOK(r) /\ r \in Seq(Element) /\ r # <<>> /\ Last(r) = b /\ Len(r) = Len(p)
  <2>1. PathOK(Front(p)) /\ Len(Front(p)) > 1
    BY <1>2 DEF Tree, Open
  <2>. QED  BY <1>1, <1>2, <1>3, <1>4, <1>6, <2>1, PathAppend
<1>9. StacksOK(r, ds, m, k, ci)
  <2>1. StacksOK(Front(p), cs, n, cra, ci) /\ Front(p) \in Seq(Element) /\ Front(p) # <<>>
    BY <1>1, <1>2, PathFront DEF Tree
  <2>2. Len(Front(p)) + 1 = Len(p)
    BY <1>1, <1>2
  <2>. QED  BY <1>1, <2>1, <2>2, BraceAppend DEF b
<1>. HIDE DEF r
<1>10. PathOK(Append(r, a)) /\ Last(Append(r, a)) = a /\ Len(Append(r, a)) > 1
  BY <1>1, <1>3, <1>4, <1>7, <1>8, PathAppend
<1>11. StacksOK(Append(r, a), ds, m, k, ci)
  <2>1. a.type \in PlainTypes
    BY <1>3 DEF PlainTypes, Types, BraceArguments
  <2>. QED  BY <1>3, <1>8, <1>9, <2>1, PlainAppend
<1>12. Holds(a) /\ q = Append(r, a)
  BY <1>3 DEF Holds, BraceArguments
<1>13. Len(q) > 1 /\ Last(q) = a
  BY <1>10, <1>12
<1>. QED  BY <1>10, <1>11, <1>12, <1>13 DEF Tree, Open, a, b, r

LEMMA BraceArgumentClosed ==
  ASSUME NEW p, NEW cs, NEW n, NEW cra, NEW ci, Tree(p, cs, n, cra, ci),
         Last(p).type \in BraceArguments
  PROVE  /\ Tree(Front(p), cs, n, cra, ci) /\ Len(Front(p)) > 1 /\ Len(p) > 1
         /\ Last(Front(p)).type = "ET_brace_command"
<1>1. /\ PathOK(p) /\ Len(p) \in Nat /\ Len(p) > 1 /\ p \in Seq(Element)
      /\ Last(p) \in Element /\ Kind(Last(p)) /\ (~IsRoot(Last(p)) => Len(p) > 2)
  <2>1. Last(p).type # "ET_document_root"
    BY DEF BraceArguments
  <2>. QED  BY <2>1, PathLast DEF Tree
<1>2. PathOK(Front(p)) /\ Fits(Last(Front(p)), Last(p)) /\ Len(Front(p)) = Len(p) - 1
  BY <1>1, PathFront
<1>3. Last(Front(p)).type = "ET_brace_command"
  BY <1>2 DEF Fits, E
<1>4. ~IsRoot(Last(p))
  BY <1>1, NotRoot DEF BraceArguments
<1>5. StacksOK(Front(p), cs, n, cra, ci)
  BY <1>1, PlainFront DEF Tree, PlainTypes, BraceArguments, Types
<1>. QED  BY <1>1, <1>2, <1>3, <1>4, <1>5 DEF Tree

LEMMA BraceCommandClosed ==
  ASSUME NEW p, NEW cs, NEW n, NEW cra, NEW ci, Tree(p, cs, n, cra, ci),
         Last(p).type = "ET_brace_command", NEW c, c = Last(p).cmd
  PROVE  /\ Tree(Front(p), IF PoppedBraceContext(c) = None THEN cs ELSE Front(cs),
                 BraceClosed(n, c), Front(cra), ci)
         /\ Open(Front(p)) /\ Len(p) > 2
         /\ PoppedBraceContext(c) # None => top_(cs) = PoppedBraceContext(c)
         /\ cra # <<>>
         /\ Has(c, "CF_contain_basic_inline") => n.basic_inline_stack # <<>>
<1>1. /\ PathOK(p) /\ Len(p) \in Nat /\ Len(p) > 1 /\ p \in Seq(Element)
      /\ Last(p) \in Element /\ Kind(Last(p)) /\ (~IsRoot(Last(p)) => Len(p) > 2)
      /\ StacksOK(p, cs, n, cra, ci)
  BY PathLast DEF Tree
<1>2. c \in Commands /\ Has(c, "CF_brace") /\ Last(p) = E("ET_brace_command", c)
  BY <1>1, CommandOf, ElementIs
<1>3. ~IsRoot(Last(p))
  BY <1>1, NotRoot
<1>4. PathOK(Front(p)) /\ Len(Front(p)) = Len(p) - 1 /\ Fits(Last(Front(p)), Last(p))
  BY <1>1, PathFront
<1>5. Holds(Last(Front(p)))
  BY <1>4 DEF Fits, ContentTypes, Types, CommandTypes, BraceArguments, LineTypes
<1>6. Open(Front(p)) /\ Len(p) > 2
  BY <1>1, <1>3, <1>4, <1>5 DEF Open
<1>. QED  BY <1>1, <1>2, <1>4, <1>6, BraceFront DEF Tree

(* Block commands. *)
LEMMA BlockClosed ==
  ASSUME NEW p, NEW cs, NEW n, NEW cra, NEW ci, Tree(p, cs, n, cra, ci),
         Last(p).type = "ET_block_command", NEW c, c = Last(p).cmd,
         NEW m, m = RegionClosed(n, c),
         NEW k \in ItemsClosed(ci, Len(p), c)
  PROVE  /\ Tree(Front(p), IF PoppedBlockContext(c) = None THEN cs ELSE Front(cs), m, cra, k)
         /\ Open(Front(p)) /\ Len(p) > 2
         /\ PoppedBlockContext(c) # None => top_(cs) = PoppedBlockContext(c)
         /\ data[c] = "BLOCK_region" => n.regions_stack # <<>>
         /\ c \in ListCommands => ci # <<>>
<1>1. /\ PathOK(p) /\ Len(p) \in Nat /\ Len(p) > 1 /\ p \in Seq(Element)
      /\ Last(p) \in Element /\ Kind(Last(p)) /\ (~IsRoot(Last(p)) => Len(p) > 2)
      /\ StacksOK(p, cs, n, cra, ci)
  BY PathLast DEF Tree
<1>2. c \in Commands /\ Last(p) = E("ET_block_command", c)
  BY <1>1, CommandOf, ElementIs
<1>3. ~IsRoot(Last(p))
  BY <1>1, NotRoot
<1>4. PathOK(Front(p)) /\ Len(Front(p)) = Len(p) - 1 /\ Fits(Last(Front(p)), Last(p))
  BY <1>1, PathFront
<1>5. Holds(Last(Front(p)))
  BY <1>4 DEF Fits, ContentTypes, Types, CommandTypes, BraceArguments, LineTypes
<1>6. Open(Front(p)) /\ Len(p) > 2
  BY <1>1, <1>3, <1>4, <1>5 DEF Open
<1>7. /\ StacksOK(Front(p), IF PoppedBlockContext(c) = None THEN cs ELSE Front(cs), m, cra, k)
      /\ PoppedBlockContext(c) # None => top_(cs) = PoppedBlockContext(c)
      /\ data[c] = "BLOCK_region" => n.regions_stack # <<>>
      /\ c \in ListCommands => ci # <<>>
  <2>1. p \in Seq(Element) /\ Len(p) > 1 /\ StacksOK(p, cs, n, cra, ci)
    BY <1>1
  <2>. QED  BY <1>2, <2>1, BlockFront
<1>. QED  BY <1>4, <1>6, <1>7 DEF Tree

(* Line commands. *)
LEMMA RemainingArgsType ==
  ASSUME NEW c \in Commands
  PROVE  RemainingArgs(c) \in Nat
  BY CommandData DEF RemainingArgs, COUNTER_VARIADIC

LEMMA ElementType ==
  ASSUME NEW c \in Commands, NEW t \in Types
  PROVE  E(t, c) \in Element /\ E(t, c).type = t /\ E(t, c).cmd = c
  BY DEF E, Element, AllCommands

LEMMA LineKinds ==
  ASSUME NEW c \in Commands, NEW t \in LineTypes
  PROVE  Kind(E(t, c)) /\ ~IsRoot(E(t, c)) /\ t \in Types
<1>1. t \in Types
  BY DEF LineTypes, Types
<1>2. Kind(E(t, c))
  BY <1>1, ElementType DEF Kind, LineTypes
<1>. QED  BY <1>1, <1>2, ElementType, NotRoot DEF LineTypes

LEMMA LineArgOpened ==
  ASSUME NEW p, NEW cs, NEW n, NEW cra, NEW ci, Tree(p, cs, n, cra, ci), Len(p) > 1,
         NEW c \in Commands, Fits(Last(p), E("ET_line_arg", c)), NEW v \in Nat,
         NEW k, k = IF ArgsDepth(p, E("ET_line_arg", c)) = 0 THEN cra
                    ELSE PushedCounter(cra, ArgsDepth(p, E("ET_line_arg", c)), v)
  PROVE  LET q == Append(p, E("ET_line_arg", c))
         IN /\ Tree(q, PushedContext(cs, Len(p) + 1, LineContext(c), c),
                    LineOpened(n, Len(p) + 1, c), k, ci)
            /\ Open(q)
<1>. DEFINE e == E("ET_line_arg", c)
<1>1. e \in Element /\ e.type = "ET_line_arg" /\ Kind(e) /\ ~IsRoot(e)
  BY ElementType, LineKinds DEF LineTypes
<1>2. PathOK(p) /\ StacksOK(p, cs, n, cra, ci) /\ p \in Seq(Element) /\ p # <<>>
  BY PathLast DEF Tree
<1>3. StacksOK(Append(p, e), PushedContext(cs, Len(p) + 1, LineContext(c), c),
               LineOpened(n, Len(p) + 1, c), k, ci)
  BY <1>2, LineArgAppend
<1>4. Holds(e)
  BY <1>1 DEF Holds
<1>. HIDE DEF e
<1>5. PathOK(Append(p, e)) /\ Last(Append(p, e)) = e /\ Len(Append(p, e)) > 1
  BY <1>1, <1>2, PathAppend DEF e
<1>. QED  BY <1>3, <1>4, <1>5 DEF Tree, Open, e

LEMMA LineCommandOpened ==
  ASSUME NEW p, NEW cs, NEW n, NEW cra, NEW ci, Tree(p, cs, n, cra, ci), Open(p),
         NEW c \in Commands, Has(c, "CF_line"), ~Has(c, "CF_root"),
         NEW r, r = Append(p, E("ET_line_command", c)),
         NEW k, k = IF CountsArgs(c) THEN PushedCounter(cra, Len(p) + 1, RemainingArgs(c))
                    ELSE cra
  PROVE  LET q == Append(r, E("ET_line_arg", c))
         IN /\ Tree(q, PushedContext(cs, Len(r) + 1, LineContext(c), c),
                    LineOpened(n, Len(r) + 1, c), k, ci)
            /\ Open(q)
<1>. DEFINE e == E("ET_line_command", c)
            a == E("ET_line_arg", c)
<1>1. e \in Element /\ e.type = "ET_line_command" /\ e.cmd = c
      /\ a \in Element /\ a.type = "ET_line_arg" /\ a.cmd = c
  BY ElementType DEF Types, CommandTypes
<1>2. Kind(e) /\ ~IsRoot(e)
  <2>1. Kind(e)
    BY <1>1 DEF Kind
  <2>. QED  BY <1>1, <2>1, NotRoot
<1>3. PathOK(p) /\ StacksOK(p, cs, n, cra, ci) /\ p \in Seq(Element) /\ p # <<>>
      /\ Len(p) > 1 /\ Holds(Last(p)) /\ Len(p) \in Nat
  BY PathLast DEF Tree, Open
<1>4. Fits(Last(p), e)
  BY <1>1, <1>3 DEF Fits, BraceArguments
<1>5. /\ PathOK(r) /\ Last(r) = e /\ Len(r) = Len(p) + 1 /\ Len(r) > 1
  <2>1. r = Append(p, e)
    OBVIOUS
  <2>. HIDE DEF e
  <2>. QED  BY <1>1, <1>2, <1>3, <1>4, <2>1, PathAppend
<1>6. StacksOK(r, cs, n, cra, ci)
  <2>1. e.type \in PlainTypes
    BY <1>1 DEF PlainTypes, Types, CommandTypes
  <2>. QED  BY <1>1, <1>3, <2>1, PlainAppend
<1>7. Fits(Last(r), a)
  <2>1. Last(r) = E("ET_line_command", a.cmd) /\ ~Has(a.cmd, "CF_root")
    BY <1>1, <1>5
  <2>. QED  BY <1>1, <2>1 DEF Fits, ContentTypes, LineTypes, BraceArguments
<1>8. ArgsDepth(r, a) = IF CountsArgs(c) THEN Len(p) + 1 ELSE 0
  BY <1>1, <1>5 DEF ArgsDepth, OpensArguments
<1>9. k = IF ArgsDepth(r, a) = 0 THEN cra
          ELSE PushedCounter(cra, ArgsDepth(r, a), RemainingArgs(c))
  BY <1>3, <1>8
<1>10. Tree(r, cs, n, cra, ci) /\ RemainingArgs(c) \in Nat
  BY <1>5, <1>6, RemainingArgsType DEF Tree
<1>. QED  BY <1>5, <1>7, <1>9, <1>10, LineArgOpened

(* Root commands are in the root of the tree, and have an arguments_line.  *)
LEMMA RootCommandOpened ==
  ASSUME NEW p, NEW cs, NEW n, NEW cra, NEW ci, Tree(p, cs, n, cra, ci), Len(p) = 1,
         NEW c \in Commands, Has(c, "CF_root"),
         NEW r, r = Append(Append(p, E("ET_line_command", c)), E("ET_arguments_line", c)),
         NEW k, k = IF CountsArgs(c) THEN PushedCounter(cra, Len(p) + 1, RemainingArgs(c))
                    ELSE cra
  PROVE  LET q == Append(r, E("ET_line_arg", c))
         IN /\ Tree(q, PushedContext(cs, Len(r) + 1, LineContext(c), c),
                    LineOpened(n, Len(r) + 1, c), k, ci)
            /\ Open(q)
<1>. DEFINE e == E("ET_line_command", c)
            l == E("ET_arguments_line", c)
            a == E("ET_line_arg", c)
            o == Append(p, e)
<1>1. /\ e \in Element /\ e.type = "ET_line_command" /\ e.cmd = c
      /\ l \in Element /\ l.type = "ET_arguments_line" /\ l.cmd = c
      /\ a \in Element /\ a.type = "ET_line_arg" /\ a.cmd = c
  BY ElementType DEF Types, CommandTypes
<1>2. /\ Kind(e) /\ IsRoot(e) /\ Kind(l) /\ ~IsRoot(l)
      /\ Has(c, "CF_line") /\ c \in AllCommands
  <2>1. Has(c, "CF_line") /\ c \in AllCommands
    BY Categorised DEF AllCommands
  <2>2. Kind(e)
    BY <1>1, <2>1 DEF Kind
  <2>3. IsRoot(e)
    BY <1>1 DEF IsRoot, Cmd, CommandTypes
  <2>. QED  BY <2>1, <2>2, <2>3, LineKinds DEF LineTypes
<1>3. PathOK(p) /\ StacksOK(p, cs, n, cra, ci) /\ p \in Seq(Element) /\ p # <<>>
      /\ Len(p) \in Nat /\ Last(p).type = "ET_document_root"
  BY PathLast DEF Tree
<1>4. Fits(Last(p), e) /\ Fits(e, l)
  <2>1. Fits(Last(p), e)
    BY <1>1, <1>3 DEF Fits, BraceArguments, Holds
  <2>2. Fits(e, l)
    <3>1. e = E("ET_line_command", l.cmd) /\ Has(l.cmd, "CF_root")
      BY <1>1
    <3>. QED  BY <1>1, <3>1 DEF Fits, ContentTypes, LineTypes, BraceArguments
  <2>. QED  BY <2>1, <2>2
<1>5. /\ PathOK(o) /\ o \in Seq(Element) /\ o # <<>> /\ Last(o) = e /\ Len(o) = Len(p) + 1
      /\ Len(o) > 1
  <2>. HIDE DEF e
  <2>. QED  BY <1>1, <1>2, <1>3, <1>4, PathAppend
<1>6. StacksOK(o, cs, n, cra, ci)
  <2>1. e.type \in PlainTypes
    BY <1>1 DEF PlainTypes, Types, CommandTypes
  <2>. QED  BY <1>1, <1>3, <2>1, PlainAppend
<1>7. ArgsDepth(o, l) = IF CountsArgs(c) THEN Len(p) + 1 ELSE 0
  BY <1>1, <1>5 DEF ArgsDepth, OpensArguments
<1>8. k = IF ArgsDepth(o, l) = 0 THEN cra
          ELSE PushedCounter(cra, ArgsDepth(o, l), RemainingArgs(c))
  BY <1>3, <1>7
<1>. HIDE DEF o
<1>9. StacksOK(r, cs, n, k, ci)
  BY <1>5, <1>6, <1>8, ArgumentsLineAppend, RemainingArgsType DEF o
<1>10. PathOK(r) /\ Last(r) = l /\ Len(r) > 1
  <2>1. r = Append(o, l)
    BY DEF o
  <2>. HIDE DEF l
  <2>. QED  BY <1>1, <1>2, <1>4, <1>5, <2>1, PathAppend
<1>11. Fits(Last(r), a)
  <2>1. Last(r) = E("ET_arguments_line", a.cmd) /\ Has(a.cmd, "CF_root")
    BY <1>1, <1>10
  <2>. QED  BY <1>1, <2>1 DEF Fits, ContentTypes, LineTypes, BraceArguments
<1>12. ArgsDepth(r, a) = 0
  BY <1>1, <1>10 DEF ArgsDepth, OpensArguments
<1>13. Tree(r, cs, n, k, ci)
  BY <1>9, <1>10 DEF Tree
<1>. QED  BY <1>10, <1>11, <1>12, <1>13, LineArgOpened, RemainingArgsType

LEMMA EndedLine ==
  ASSUME NEW p, NEW cs, NEW n, NEW cra, NEW ci, Tree(p, cs, n, cra, ci),
         Last(p).type = "ET_line_arg", NEW c, c = Last(p).cmd
  PROVE  LET a == Last(Front(p))
         IN /\ c \in Commands /\ Has(c, "CF_line")
            /\ Len(p) > 1 /\ Len(Front(p)) > 1 /\ Drop(p, 2) = Front(Front(p))
            /\ Has(c, "CF_root") => a.type = "ET_arguments_line"
            /\ ~Has(c, "CF_root") => a.type = "ET_line_command" /\ a.cmd = c
<1>. DEFINE a == Last(Front(p))
            b == Last(Front(Front(p)))
<1>1. /\ PathOK(p) /\ Len(p) > 1 /\ PathOK(Front(p)) /\ Fits(a, Last(p))
      /\ p \in Seq(Element)
  BY PathLast, PathFront DEF Tree
<1>2. \/ a = E("ET_line_command", c) /\ ~Has(c, "CF_root")
      \/ a = E("ET_arguments_line", c) /\ Has(c, "CF_root")
  BY <1>1 DEF Fits
<1>3. a.type \in {"ET_line_command", "ET_arguments_line"} /\ a.cmd = c
  BY <1>2 DEF E
<1>4. a \in Element /\ Kind(a) /\ Len(Front(p)) > 1 /\ c \in AllCommands
  <2>1. a.type # "ET_document_root"
    BY <1>3
  <2>. QED  BY <1>1, <1>3, <2>1, PathLast
<1>5. Has(c, "CF_line")
  <2>1. CASE a.type = "ET_line_command"
    BY <1>3, <1>4, <2>1 DEF Kind
  <2>2. CASE a.type = "ET_arguments_line"
    <3>1. Has(c, "CF_root")
      BY <1>2, <2>2 DEF E
    <3>. QED  BY <1>4, <3>1, Categorised
  <2>. QED  BY <1>3, <2>1, <2>2
<1>6. c \in Commands
  BY <1>4, <1>5, Categorised
<1>7. Len(p) >= 2 /\ Drop(p, 2) = Front(Front(p))
  <2>1. Len(p) >= 2
    BY <1>1
  <2>. QED  BY <1>1, <2>1, DropFacts
<1>. QED  BY <1>1, <1>2, <1>3, <1>4, <1>5, <1>6, <1>7 DEF E

LEMMA LineArgClosed ==
  ASSUME NEW p, NEW cs, NEW n, NEW cra, NEW ci, Tree(p, cs, n, cra, ci),
         NEW c \in Commands,
         Last(p) = E("ET_line_arg", c)
  PROVE  LET q == Front(Front(p))
         IN /\ Tree(q, Front(cs), LineClosed(n, c),
                    IF CountsArgs(c) THEN Front(cra) ELSE cra, ci)
            /\ Open(q)
            /\ top_(cs) = LineContext(c)
            /\ CountsArgs(c) => cra # <<>>
            /\ Has(c, "CF_contain_basic_inline") => n.basic_inline_stack_on_line # <<>>
<1>. DEFINE r == Front(p)
            q == Front(Front(p))
            a == Last(Front(p))
            m == LineClosed(n, c)
            d == ArgsDepth(r, Last(p))
            k == IF d = 0 THEN cra ELSE Front(cra)
<1>0. Last(p).type = "ET_line_arg" /\ c = Last(p).cmd
  BY DEF E
<1>1. /\ PathOK(p) /\ p \in Seq(Element) /\ Len(p) > 1 /\ StacksOK(p, cs, n, cra, ci)
      /\ Last(p) \in Element
  BY <1>0, EndedLine, PathLast DEF Tree
<1>2. /\ c \in Commands /\ Has(c, "CF_line") /\ Len(r) > 1
      /\ Has(c, "CF_root") => a.type = "ET_arguments_line"
      /\ ~Has(c, "CF_root") => a.type = "ET_line_command" /\ a.cmd = c
  BY <1>0, EndedLine
<1>4. /\ StacksOK(r, Front(cs), m, k, ci)
      /\ top_(cs) = LineContext(c)
      /\ d # 0 => cra # <<>> /\ Last(cra).elt = d
      /\ Has(c, "CF_contain_basic_inline") => n.basic_inline_stack_on_line # <<>>
  <2>1. m = LineClosed(n, c) /\ d = ArgsDepth(Front(p), Last(p))
    OBVIOUS
  <2>. HIDE DEF m, d
  <2>2. p \in Seq(Element) /\ Len(p) > 1 /\ StacksOK(p, cs, n, cra, ci) /\ c \in Commands
    BY <1>1, <1>2
  <2>. QED  BY <2>1, <2>2, LineArgFront
<1>5. /\ PathOK(r) /\ r \in Seq(Element) /\ Len(r) \in Nat /\ a \in Element /\ Kind(a)
      /\ PathOK(q) /\ Fits(Last(q), a) /\ r # <<>> /\ q # <<>>
      /\ Len(q) \in Nat /\ Last(q) \in Element /\ Kind(Last(q))
      /\ Len(r) = Len(q) + 1
  <2>1. PathOK(r) /\ PathOK(q) /\ Fits(Last(q), a) /\ Len(q) = Len(r) - 1
    BY <1>1, <1>2, PathFront
  <2>. QED  BY <2>1, PathLast
<1>6. CASE ~Has(c, "CF_root")
  <2>1. a.type = "ET_line_command" /\ a.cmd = c /\ Last(p).type = "ET_line_arg"
    BY <1>0, <1>2, <1>6
  <2>2. d = IF CountsArgs(c) THEN Len(r) ELSE 0
    BY <2>1 DEF ArgsDepth, OpensArguments
  <2>3. Len(r) # 0
    BY <1>5
  <2>4. k = IF CountsArgs(c) THEN Front(cra) ELSE cra
    BY <2>2, <2>3
  <2>5. ~IsRoot(a)
    BY <1>5, <1>6, <2>1, NotRoot
  <2>6. Len(r) > 2 /\ Len(q) > 1
    <3>1. Len(r) > 2
      BY <1>2, <1>5, <2>5, PathLast
    <3>. QED  BY <1>5, <3>1
  <2>7. Holds(Last(q))
    BY <1>5, <2>1 DEF Fits, ContentTypes, Types, CommandTypes, BraceArguments, LineTypes
  <2>8. StacksOK(q, Front(cs), m, k, ci)
    <3>1. a.type \in PlainTypes
      BY <2>1 DEF PlainTypes, Types, CommandTypes
    <3>. HIDE DEF k, m
    <3>. QED  BY <1>2, <1>4, <1>5, <3>1, PlainFront
  <2>9. CountsArgs(c) => cra # <<>>
    BY <1>4, <2>2, <2>3
  <2>. HIDE DEF k
  <2>. QED  BY <1>4, <1>5, <2>4, <2>6, <2>7, <2>8, <2>9 DEF Tree, Open
<1>7. CASE Has(c, "CF_root")
  <2>1. a.type = "ET_arguments_line"
    BY <1>2, <1>7
  <2>2. a.cmd = c
    <3>1. Fits(a, Last(p))
      BY <1>1, PathFront
    <3>. QED  BY <3>1, <2>1 DEF Fits, E
  <2>3. Last(q).type = "ET_line_command" /\ Last(q).cmd = c
    <3>1. \/ Last(q) = E("ET_line_command", c)
          \/ Last(q) = E("ET_block_command", c)
      BY <1>5, <2>1, <2>2 DEF Fits
    <3>2. Last(q) # E("ET_block_command", c)
      <4>1. ~Has(c, "CF_block")
        BY <1>2, Categorised DEF Categories, AllCommands
      <4>. QED  BY <1>5, <4>1 DEF Kind, E
    <3>. QED  BY <3>1, <3>2 DEF E
  <2>4. d = 0
    BY <1>0, <2>1 DEF ArgsDepth, OpensArguments
  <2>. DEFINE f == ArgsDepth(q, a)
  <2>5. f = IF CountsArgs(c) THEN Len(q) ELSE 0
    BY <2>1, <2>3 DEF ArgsDepth, OpensArguments
  <2>6. Len(q) > 1 /\ Len(q) # 0
    BY <1>5, <2>3, PathLast
  <2>7. /\ StacksOK(q, Front(cs), m, IF f = 0 THEN cra ELSE Front(cra), ci)
        /\ f # 0 => cra # <<>>
    <3>1. StacksOK(r, Front(cs), m, cra, ci)
      BY <1>4, <2>4
    <3>. HIDE DEF m
    <3>. QED  BY <1>2, <1>5, <2>1, <3>1, ArgumentsLineFront
  <2>8. Holds(Last(q))
    BY <1>7, <2>3 DEF Holds
  <2>. HIDE DEF k
  <2>. QED  BY <1>4, <1>5, <2>5, <2>6, <2>7, <2>8 DEF Tree, Open
<1>. QED  BY <1>6, <1>7

LEMMA EndedBlockLine ==
  ASSUME NEW p, NEW cs, NEW n, NEW cra, NEW ci, Tree(p, cs, n, cra, ci),
         Last(p).type = "ET_block_line_arg", NEW c, c = Last(p).cmd
  PROVE  LET a == Last(Front(p))
             q == Front(Front(p))
         IN /\ c \in Commands /\ Has(c, "CF_block")
            /\ Len(p) > 1 /\ Len(Front(p)) > 1 /\ Drop(p, 2) = q
            /\ Has(c, "CF_def") => a.type = "ET_def_line" /\ a.cmd = c
            /\ ~Has(c, "CF_def") => a.type = "ET_arguments_line" /\ a.cmd = c
            /\ Last(q) = E("ET_block_command", c) /\ PathOK(q) /\ Open(q)
            /\ Len(q) > 2
<1>. DEFINE a == Last(Front(p))
            q == Front(Front(p))
<1>1. /\ PathOK(p) /\ Len(p) > 1 /\ PathOK(Front(p)) /\ Fits(a, Last(p))
      /\ p \in Seq(Element) /\ c \in AllCommands
  BY PathLast, PathFront DEF Tree
<1>2. /\ Has(c, "CF_block")
      /\ a = E(IF Has(c, "CF_def") THEN "ET_def_line" ELSE "ET_arguments_line", c)
  BY <1>1 DEF Fits
<1>3. /\ Has(c, "CF_def") => a.type = "ET_def_line" /\ a.cmd = c
      /\ ~Has(c, "CF_def") => a.type = "ET_arguments_line" /\ a.cmd = c
  BY <1>2 DEF E
<1>4. a.type # "ET_document_root" /\ Len(Front(p)) > 1
  <2>1. a.type # "ET_document_root"
    BY <1>3
  <2>. QED  BY <1>1, <2>1, PathLast
<1>5. c \in Commands /\ ~Has(c, "CF_root")
  BY <1>1, <1>2, Categorised DEF Categories
<1>6. PathOK(q) /\ Fits(Last(q), a)
  BY <1>1, <1>4, PathFront
<1>7. Last(q) = E("ET_block_command", c)
  BY <1>3, <1>5, <1>6 DEF Fits
<1>8. Len(q) > 1 /\ Holds(Last(q)) /\ Len(q) > 2
  <2>1. Last(q).type = "ET_block_command"
    BY <1>7 DEF E
  <2>2. Len(q) > 1 /\ Last(q) \in Element /\ Kind(Last(q))
    BY <1>6, <2>1, PathLast
  <2>3. ~IsRoot(Last(q))
    BY <2>1, <2>2, NotRoot
  <2>. QED  BY <1>6, <2>1, <2>2, <2>3, PathLast DEF Holds
<1>9. Len(p) >= 2 /\ Drop(p, 2) = q
  <2>1. Len(p) >= 2
    BY <1>1
  <2>. QED  BY <1>1, <2>1, DropFacts
<1>. QED  BY <1>1, <1>2, <1>3, <1>4, <1>5, <1>6, <1>7, <1>8, <1>9 DEF Open

LEMMA BlockLineArgClosed ==
  ASSUME NEW p, NEW cs, NEW n, NEW cra, NEW ci, Tree(p, cs, n, cra, ci),
         NEW c \in Commands,
         Last(p) = E("ET_block_line_arg", c),
         NEW q, q = Front(Front(p)),
         NEW k, k = IF ~Has(c, "CF_def") /\ counter_value(cra, Len(q)) # -1
                    THEN Front(cra) ELSE cra
  PROVE  /\ Tree(q, Front(cs), BlockLineClosed(n, c), k, ci)
         /\ top_(cs) = LineContext(c)
         /\ Has(c, "CF_contain_basic_inline") => n.basic_inline_stack_block # <<>>
<1>. DEFINE r == Front(p)
            a == Last(Front(p))
            m == BlockLineClosed(n, c)
<1>0. Last(p).type = "ET_block_line_arg" /\ c = Last(p).cmd
  BY DEF E
<1>1. /\ PathOK(p) /\ p \in Seq(Element) /\ Len(p) > 1 /\ StacksOK(p, cs, n, cra, ci)
      /\ Last(p) \in Element
  BY <1>0, EndedBlockLine, PathLast DEF Tree
<1>2. /\ c \in Commands /\ Has(c, "CF_block") /\ Len(r) > 1
      /\ Has(c, "CF_def") => a.type = "ET_def_line" /\ a.cmd = c
      /\ ~Has(c, "CF_def") => a.type = "ET_arguments_line" /\ a.cmd = c
      /\ Last(q) = E("ET_block_command", c) /\ PathOK(q)
  BY <1>0, EndedBlockLine
<1>4. /\ StacksOK(r, Front(cs), m, cra, ci)
      /\ top_(cs) = LineContext(c)
      /\ Has(c, "CF_contain_basic_inline") => n.basic_inline_stack_block # <<>>
  <2>1. m = BlockLineClosed(n, c)
    OBVIOUS
  <2>. HIDE DEF m
  <2>2. p \in Seq(Element) /\ Len(p) > 1 /\ StacksOK(p, cs, n, cra, ci) /\ c \in Commands
    BY <1>1, <1>2
  <2>. QED  BY <2>1, <2>2, BlockLineArgFront
<1>5. /\ PathOK(r) /\ r \in Seq(Element) /\ r # <<>> /\ a \in Element
      /\ q \in Seq(Element) /\ q # <<>> /\ Len(q) \in Nat /\ Len(q) > 0
      /\ q = Front(r) /\ Last(q) = q[Len(q)]
  BY <1>1, <1>2, PathFront, PathLast
<1>. HIDE DEF m
<1>6. CASE Has(c, "CF_def")
  <2>1. a.type \in PlainTypes
    BY <1>2, <1>6 DEF PlainTypes, Types
  <2>2. StacksOK(q, Front(cs), m, cra, ci)
    BY <1>2, <1>4, <1>5, <2>1, PlainFront
  <2>. QED  BY <1>2, <1>4, <1>6, <2>2 DEF Tree, m
<1>7. CASE ~Has(c, "CF_def")
  <2>. DEFINE d == ArgsDepth(q, a)
  <2>1. a.type = "ET_arguments_line" /\ d \in {0, Len(q)}
    BY <1>2, <1>7 DEF ArgsDepth
  <2>2. /\ StacksOK(q, Front(cs), m, IF d = 0 THEN cra ELSE Front(cra), ci)
        /\ d # 0 => cra # <<>> /\ Last(cra).elt = d
    BY <1>2, <1>4, <1>5, <2>1, ArgumentsLineFront
  <2>3. d # 0 => counter_value(cra, Len(q)) # -1
    <3>1. SUFFICES ASSUME d # 0
                   PROVE  counter_value(cra, Len(q)) # -1
      OBVIOUS
    <3>2. cra # <<>> /\ Last(cra).elt = Len(q) /\ cra \in Seq(Counter) /\ ArgsOK(r, cra)
      BY <1>4, <2>1, <2>2, <3>1, StacksParts
    <3>3. Len(cra) \in DOMAIN cra /\ Last(cra) = cra[Len(cra)] /\ Last(cra) \in Counter
      BY <3>2, FrontFacts
    <3>4. r[Len(q)] = Last(q)
      <4>1. Len(q) \in DOMAIN Front(r) /\ Front(r)[Len(q)] = r[Len(q)]
        BY <1>5, FrontFacts
      <4>. QED  BY <1>5, <4>1
    <3>5. r[Len(q)].type # "ET_brace_command"
      BY <1>2, <3>4 DEF E
    <3>6. Last(cra).value >= 0 /\ Last(cra).value \in Int
      BY <3>2, <3>3, <3>5 DEF ArgsOK, Counter
    <3>7. counter_value(cra, Len(q)) = Last(cra).value
      BY <3>2 DEF counter_value
    <3>. QED  BY <3>6, <3>7
  <2>4. d = 0 => counter_value(cra, Len(q)) = -1
    <3>1. SUFFICES ASSUME d = 0
                   PROVE  counter_value(cra, Len(q)) = -1
      OBVIOUS
    <3>2. cra \in Seq(Counter) /\ ArgsOK(q, cra)
      BY <2>2, <3>1, StacksParts
    <3>3. Len(q) \notin ReadsArguments(q)
      <4>1. q[Len(q)].type # "ET_brace_command" /\ Last(q) = q[Len(q)]
        BY <1>2, <1>5 DEF E
      <4>2. ~(Len(q) < Len(q))
        BY <1>5
      <4>. QED  BY <4>1, <4>2 DEF ReadsArguments
    <3>4. cra # <<>> => Last(cra).elt # Len(q)
      <4>1. \A j \in DOMAIN cra : cra[j].elt # Len(q)
        BY <3>2, <3>3 DEF ArgsOK, Follows
      <4>2. cra # <<>> => Len(cra) \in DOMAIN cra /\ Last(cra) = cra[Len(cra)]
        BY <3>2, FrontFacts
      <4>. QED  BY <4>1, <4>2
    <3>. QED  BY <3>4 DEF counter_value
  <2>5. k = IF d = 0 THEN cra ELSE Front(cra)
    BY <1>7, <2>3, <2>4
  <2>. HIDE DEF d
  <2>. QED  BY <1>2, <1>4, <2>2, <2>5 DEF Tree, m
<1>. QED  BY <1>6, <1>7

LEMMA BlockOpened ==
  ASSUME NEW p, NEW cs, NEW n, NEW cra, NEW ci, Tree(p, cs, n, cra, ci), Open(p),
         NEW c \in Commands, Has(c, "CF_block"),
         NEW r, r = Append(p, E("ET_block_command", c)),
         NEW l, l = E(IF Has(c, "CF_def") THEN "ET_def_line" ELSE "ET_arguments_line", c),
         NEW own, own = IF Has(c, "CF_def") \/ BlockContext(c) = None THEN cs
                        ELSE PushedContext(cs, Len(p) + 1, BlockContext(c), c),
         NEW k, k = IF Has(c, "CF_def") THEN cra
                    ELSE IF args_number[c] > 1
                    THEN PushedCounter(cra, Len(p) + 1, args_number[c] - 1)
                    ELSE IF Has(c, "CF_variadic")
                    THEN PushedCounter(cra, Len(p) + 1, COUNTER_VARIADIC) ELSE cra
  PROVE  LET q == Append(Append(r, l), E("ET_block_line_arg", c))
         IN /\ Tree(q, PushedContext(own, Len(p) + 3, LineContext(c), c),
                    BlockLineOpened(RegionOpened(n, Len(p) + 1, c), Len(p) + 3, c), k,
                    ItemsOpened(ci, Len(p) + 1, c))
            /\ Open(q)
<1>. DEFINE e == E("ET_block_command", c)
            a == E("ET_block_line_arg", c)
            m == RegionOpened(n, Len(p) + 1, c)
            i == ItemsOpened(ci, Len(p) + 1, c)
            o == Append(r, l)
<1>1. /\ e \in Element /\ e.type = "ET_block_command" /\ e.cmd = c
      /\ a \in Element /\ a.type = "ET_block_line_arg" /\ a.cmd = c
      /\ l \in Element /\ l.cmd = c
      /\ l.type = IF Has(c, "CF_def") THEN "ET_def_line" ELSE "ET_arguments_line"
  BY ElementType DEF Types, CommandTypes
<1>2. Kind(e) /\ ~IsRoot(e) /\ Kind(l) /\ ~IsRoot(l) /\ Kind(a) /\ ~IsRoot(a)
  <2>1. Kind(e)
    BY <1>1 DEF Kind
  <2>2. ~IsRoot(e)
    BY <1>1, <2>1, NotRoot
  <2>. QED  BY <2>1, <2>2, LineKinds DEF LineTypes
<1>3. PathOK(p) /\ StacksOK(p, cs, n, cra, ci) /\ p \in Seq(Element) /\ p # <<>>
      /\ Len(p) > 1 /\ Holds(Last(p)) /\ Len(p) \in Nat
  BY PathLast DEF Tree, Open
<1>4. Fits(Last(p), e)
  BY <1>1, <1>3 DEF Fits, BraceArguments
<1>5. /\ PathOK(r) /\ r \in Seq(Element) /\ r # <<>> /\ Last(r) = e
      /\ Len(r) = Len(p) + 1 /\ Len(r) > 1
  <2>1. r = Append(p, e)
    OBVIOUS
  <2>. HIDE DEF e
  <2>. QED  BY <1>1, <1>2, <1>3, <1>4, <2>1, PathAppend
<1>6. StacksOK(r, own, m, cra, i)
  BY <1>3, BlockAppend
<1>7. ~Has(c, "CF_root")
  BY Categorised DEF Categories, AllCommands
<1>8. Fits(e, l)
  <2>1. CASE Has(c, "CF_def")
    BY <1>1, <2>1 DEF Fits, ContentTypes, LineTypes, BraceArguments
  <2>2. CASE ~Has(c, "CF_def")
    BY <1>1, <2>2 DEF Fits, ContentTypes, LineTypes, BraceArguments
  <2>. QED  BY <2>1, <2>2
<1>9. Fits(l, a)
  <2>1. /\ Has(a.cmd, "CF_block")
        /\ l = E(IF Has(a.cmd, "CF_def") THEN "ET_def_line" ELSE "ET_arguments_line", a.cmd)
    BY <1>1
  <2>. QED  BY <1>1, <2>1 DEF Fits, ContentTypes, LineTypes, BraceArguments
<1>10. /\ PathOK(o) /\ o \in Seq(Element) /\ o # <<>> /\ Last(o) = l
       /\ Len(o) = Len(r) + 1 /\ Len(o) > 1
  <2>. HIDE DEF e
  <2>. QED  BY <1>1, <1>2, <1>5, <1>8, PathAppend
<1>. HIDE DEF m, i
<1>11. StacksOK(o, own, m, k, i)
  <2>1. CASE Has(c, "CF_def")
    <3>1. l.type \in PlainTypes
      BY <1>1, <2>1 DEF PlainTypes, Types
    <3>2. k = cra
      BY <2>1
    <3>. QED  BY <1>1, <1>5, <1>6, <3>1, <3>2, PlainAppend
  <2>2. CASE ~Has(c, "CF_def")
    <3>. DEFINE v == IF args_number[c] > 1 THEN args_number[c] - 1 ELSE COUNTER_VARIADIC
    <3>1. v \in Nat
      BY CommandData DEF COUNTER_VARIADIC
    <3>2. l = E("ET_arguments_line", c) /\ l.type = "ET_arguments_line"
      BY <1>1, <2>2
    <3>3. ArgsDepth(r, l) = IF args_number[c] > 1 \/ Has(c, "CF_variadic")
                            THEN Len(p) + 1 ELSE 0
      BY <1>1, <1>5, <2>2, <3>2 DEF ArgsDepth, OpensArguments
    <3>4. k = IF ArgsDepth(r, l) = 0 THEN cra ELSE PushedCounter(cra, ArgsDepth(r, l), v)
      BY <1>3, <2>2, <3>3
    <3>. HIDE DEF v
    <3>. QED  BY <1>5, <1>6, <3>1, <3>2, <3>4, ArgumentsLineAppend
  <2>. QED  BY <2>1, <2>2
<1>. HIDE DEF o
<1>12. Len(o) + 1 = Len(p) + 3
  BY <1>3, <1>5, <1>10
<1>13. StacksOK(Append(o, a), PushedContext(own, Len(p) + 3, LineContext(c), c),
                BlockLineOpened(m, Len(p) + 3, c), k, i)
  BY <1>10, <1>11, <1>12, BlockLineArgAppend
<1>14. PathOK(Append(o, a)) /\ Last(Append(o, a)) = a /\ Len(Append(o, a)) > 1
  <2>. HIDE DEF a
  <2>. QED  BY <1>1, <1>2, <1>9, <1>10, PathAppend
<1>15. Holds(a)
  BY <1>1 DEF Holds
<1>. QED  BY <1>13, <1>14, <1>15 DEF Tree, Open, m, i, o

(* What a block opens after its line fits in it. *)
LEMMA BlockContentOpened ==
  ASSUME NEW p, NEW cs, NEW n, NEW cra, NEW ci, Tree(p, cs, n, cra, ci), Open(p),
         NEW c \in Commands
  PROVE  Tree(p \o BlockContent(c), cs, n, cra, ci) /\ Open(p \o BlockContent(c))
<1>1. p \in Seq(Element)
  BY PathLast DEF Tree
<1>2. \/ BlockContent(c) = <<>>
      \/ \E t \in {"ET_before_item", "ET_menu_comment", "ET_rawpreformatted"} :
           BlockContent(c) = <<E(t, c)>>
  BY DEF BlockContent
<1>3. CASE BlockContent(c) = <<>>
  <2>1. p \o BlockContent(c) = p
    BY <1>1, <1>3
  <2>. QED  BY <2>1
<1>4. ASSUME NEW t \in {"ET_before_item", "ET_menu_comment", "ET_rawpreformatted"},
             BlockContent(c) = <<E(t, c)>>
      PROVE  Tree(p \o BlockContent(c), cs, n, cra, ci) /\ Open(p \o BlockContent(c))
  <2>. DEFINE e == E(t, c)
  <2>1. e \in Element /\ e.type = t
    BY ElementType DEF Types
  <2>2. Kind(e) /\ Holds(e)
    BY <2>1 DEF Kind, Holds
  <2>3. ~IsRoot(e)
    BY <2>1, <2>2, NotRoot
  <2>4. e.type \in ContentTypes /\ e.type \in PlainTypes
    BY <2>1 DEF ContentTypes, PlainTypes, Types, CommandTypes, BraceArguments, LineTypes
  <2>. HIDE DEF e
  <2>5. p \o BlockContent(c) = Append(p, e)
    BY <1>1, <1>4, <2>1 DEF e
  <2>6. Tree(Append(p, e), cs, n, cra, ci) /\ Len(Append(p, e)) > 1 /\ Last(Append(p, e)) = e
    BY <2>1, <2>2, <2>3, <2>4, ContentOpened
  <2>. QED  BY <2>2, <2>5, <2>6 DEF Open
<1>. QED  BY <1>2, <1>3, <1>4

(* At the root of the tree there is one context, and it is the first one. *)
LEMMA RootContext ==
  ASSUME NEW p, NEW cs, NEW n, NEW cra, NEW ci, Tree(p, cs, n, cra, ci), Len(p) <= 2
  PROVE  Len(cs) = 1 /\ top_(cs) = "ct_base" /\ Front(cs) = <<>>
<1>1. /\ p \in Seq(Element) /\ p # <<>> /\ Len(p) \in Nat /\ Len(p) > 0
      /\ Last(p) \in Element /\ Kind(Last(p)) /\ Last(p) = p[Len(p)]
      /\ Len(p) = 2 => IsRoot(Last(p))
  BY PathLast DEF Tree
<1>2. p[1].type = "ET_document_root" /\ p[1] \in Element /\ 1 \in DOMAIN p
  BY <1>1 DEF Tree, PathOK
<1>3. cs \in Seq(ContextEntry) /\ CtxOK(p, cs)
  BY StacksParts DEF Tree
<1>4. ContextOf(p[1]) = "ct_base" /\ p[1] \in HasContext
  BY <1>2 DEF ContextOf, HasContext, None
<1>5. Len(p) = 2 => p[2] \notin HasContext
  <2>1. SUFFICES ASSUME Len(p) = 2 PROVE p[2] \notin HasContext
    OBVIOUS
  <2>2. p[2].type = "ET_before_node_section" \/ p[2].type = "ET_line_command"
    BY <1>1, <2>1, RootTypes
  <2>. QED  BY <2>2 DEF HasContext, ContextOf
<1>6. Depths(p, HasContext) = {1}
  <2>1. DOMAIN p = 1 .. Len(p)
    BY <1>1
  <2>2. \A i \in DOMAIN p : i = 1 \/ (i = 2 /\ Len(p) = 2)
    BY <1>1, <2>1
  <2>. QED  BY <1>2, <1>4, <1>5, <2>2 DEF Depths
<1>7. Follows(cs, {1})
  BY <1>3, <1>6 DEF CtxOK
<1>8. DOMAIN cs = 1 .. Len(cs) /\ Len(cs) \in Nat
  BY <1>3
<1>9. \A k \in DOMAIN cs : cs[k].elt = 1
  BY <1>7 DEF Follows
<1>10. \A j, k \in DOMAIN cs : ~(j < k)
  BY <1>7, <1>9 DEF Follows
<1>11. \E k \in DOMAIN cs : TRUE
  BY <1>7 DEF Follows
<1>12. Len(cs) = 1
  BY <1>8, <1>10, <1>11
<1>13. cs[1].context = "ct_base" /\ 1 \in DOMAIN cs
  <2>1. 1 \in DOMAIN cs
    BY <1>8, <1>12
  <2>. QED  BY <1>3, <1>4, <1>9, <2>1 DEF CtxOK
<1>14. top_(cs) = "ct_base"
  BY <1>12, <1>13 DEF top_, Last
<1>15. cs # <<>> /\ Len(Front(cs)) = 0 /\ Front(cs) \in Seq(ContextEntry)
  <2>1. cs # <<>>
    BY <1>12
  <2>. QED  BY <1>3, <1>12, <2>1, FrontFacts
<1>. QED  BY <1>12, <1>14, <1>15

(* The innermost element that has a context gives the one that is current. *)
LEMMA InnermostContext ==
  ASSUME NEW p, NEW cs, NEW n, NEW cra, NEW ci, Tree(p, cs, n, cra, ci),
         ContextOf(Last(p)) # None
  PROVE  top_(cs) = ContextOf(Last(p))
<1>1. p \in Seq(Element) /\ p # <<>> /\ cs \in Seq(ContextEntry) /\ CtxOK(p, cs)
  BY PathLast, StacksParts DEF Tree
<1>. QED  BY <1>1, CtxPop DEF top_

-----------------------------------------------------------------------------
(* The agenda: one task that ends what was begun by a token, and before it *)
(* tasks that may be in any number.                                        *)

CloseToProcs == {"close_to_line", "close_to_def"}

FreeProcs == {"end_line", "end_empty_line", "still_opened", "close_styles",
              "end_paragraph", "end_paragraph_preformatted", "close_commands",
              "closing", "begin_preformatted"}

FinalProcs == {"command", "root_command", "raw_line", "close_brace", "finish",
               "end_of_parse"}

AtRootProcs == {"root_command", "end_of_parse"}

TaskOK(t) ==
  /\ t.proc \in {"close_commands", "closing"} =>
       t.cmd = CM_NONE \/ Has(t.cmd, "CF_block")
  /\ t.proc = "command" => t.cmd \in Commands
  /\ t.proc = "root_command" =>
       t.cmd \in Commands /\ (Has(t.cmd, "CF_root") \/ t.cmd = "bye")

ClosesAll(t) == t.proc \in {"close_commands", "closing"} /\ t.cmd = CM_NONE

AgendaOK(a) ==
  /\ a \in Seq(Task)
  /\ \A k \in DOMAIN a : TaskOK(a[k])
  /\ \A k \in DOMAIN a : k < Len(a) => a[k].proc \notin FinalProcs
  /\ \A k \in DOMAIN a : k > 1 => a[k].proc \notin CloseToProcs
  /\ \A k \in DOMAIN a : k > 1 /\ a[k].proc \in AtRootProcs => ClosesAll(a[k - 1])

(* What is left to do when the last @-command was @bye. *)
ByeProcs == {"end_line", "still_opened", "raw_line", "finish", "close_commands",
             "end_paragraph_preformatted", "closing", "end_of_parse"}

(* What is left to do when the input ends after a brace command. *)
UnbracedProcs == {"end_line", "end_empty_line", "still_opened", "close_styles",
                  "end_paragraph", "close_commands", "finish", "end_of_parse"}

EndsParse(t) == t.proc \in {"finish", "end_of_parse"} \/ t = T("raw_line", "bye")

(* The tasks are those that the path allows. *)
Carries(a, p) ==
  /\ Last(p).type = "unbraced" => \A k \in DOMAIN a : a[k].proc \in UnbracedProcs
  /\ Len(p) = 1 => /\ a # <<>> /\ EndsParse(Last(a))
                   /\ \A k \in DOMAIN a : a[k].proc \in ByeProcs

(* The next task is right for the path and the context the parser is in. *)
HeadFits(a, p, ct) ==
  a # <<>> => /\ a[1].proc \in AtRootProcs => Len(p) <= 2
              /\ a[1].proc = "root_command" => Len(p) = 2
              /\ a[1].proc = "close_to_line" => ct = "ct_line"
              /\ a[1].proc = "close_to_def" => ct = "ct_def"

AgendaFits(a, p, ct) ==
  /\ Carries(a, p) /\ HeadFits(a, p, ct)
  /\ Last(p).type = "ET_brace_command" =>
       a # <<>> /\ a[1].proc \in {"closing"} \cup CloseToProcs
  /\ Last(p).type # "ET_brace_command" /\ Last(p).type # "unbraced" => Holds(Last(p))

(* The parser with an agenda. *)
Parse(p, cs, n, cra, ci, a) ==
  Tree(p, cs, n, cra, ci) /\ AgendaOK(a) /\ AgendaFits(a, p, top_(cs))

(* The next task may be done in any element. *)
Plain(a) ==
  AgendaOK(a) /\ (a # <<>> => a[1].proc \notin AtRootProcs \cup CloseToProcs)

LEMMA Cons ==
  ASSUME NEW S, NEW b \in Seq(S), NEW x \in S
  PROVE  LET a == <<x>> \o b
         IN /\ a \in Seq(S) /\ a # <<>> /\ Len(a) = Len(b) + 1 /\ a[1] = x
            /\ \A k \in DOMAIN a : k = 1 \/ (k > 1 /\ k - 1 \in DOMAIN b /\ a[k] = b[k - 1])
            /\ b = <<>> => Last(a) = x
            /\ b # <<>> => Last(a) = Last(b)
<1>. DEFINE a == <<x>> \o b
<1>1. a \in Seq(S) /\ Len(a) = Len(b) + 1 /\ a[1] = x /\ a # <<>> /\ Len(b) \in Nat
  OBVIOUS
<1>2. \A k \in 1 .. Len(b) : a[k + 1] = b[k]
  OBVIOUS
<1>3. DOMAIN a = 1 .. (Len(b) + 1) /\ DOMAIN b = 1 .. Len(b)
  BY <1>1
<1>. HIDE DEF a
<1>4. \A k \in 2 .. (Len(b) + 1) : k - 1 \in 1 .. Len(b) /\ a[k] = b[k - 1]
  BY <1>1, <1>2
<1>5. \A k \in DOMAIN a : k = 1 \/ (k > 1 /\ k - 1 \in DOMAIN b /\ a[k] = b[k - 1])
  BY <1>1, <1>3, <1>4
<1>6. b = <<>> => Last(a) = x
  BY <1>1 DEF Last
<1>7. b # <<>> => Last(a) = Last(b)
  <2>1. SUFFICES ASSUME b # <<>> PROVE Last(a) = Last(b)
    OBVIOUS
  <2>2. Len(b) \in 1 .. Len(b)
    BY <1>1, <2>1
  <2>. QED  BY <1>1, <1>2, <2>2 DEF Last
<1>. QED  BY <1>1, <1>5, <1>6, <1>7 DEF a

LEMMA Uncons ==
  ASSUME NEW S, NEW a \in Seq(S), a # <<>>
  PROVE  /\ Head(a) = a[1] /\ 1 \in DOMAIN a /\ a[1] \in S
         /\ Tail(a) \in Seq(S) /\ Len(Tail(a)) = Len(a) - 1
         /\ DOMAIN Tail(a) = 1 .. (Len(a) - 1) /\ DOMAIN a = 1 .. Len(a) /\ Len(a) \in Nat
         /\ \A k \in DOMAIN Tail(a) : k + 1 \in DOMAIN a /\ Tail(a)[k] = a[k + 1]
         /\ Tail(a) = <<>> => Last(a) = Head(a)
         /\ Tail(a) # <<>> => Last(Tail(a)) = Last(a)
<1>1. Head(a) = a[1] /\ DOMAIN a = 1 .. Len(a) /\ Len(a) \in Nat /\ Len(a) > 0
      /\ 1 \in DOMAIN a /\ a[1] \in S
  OBVIOUS
<1>2. Tail(a) \in Seq(S) /\ Len(Tail(a)) = Len(a) - 1
  OBVIOUS
<1>3. DOMAIN Tail(a) = 1 .. (Len(a) - 1)
  BY <1>2
<1>4. \A k \in 1 .. (Len(a) - 1) : k + 1 \in 1 .. Len(a) /\ Tail(a)[k] = a[k + 1]
  BY <1>1, <1>2
<1>5. Tail(a) = <<>> => Last(a) = Head(a)
  <2>1. SUFFICES ASSUME Tail(a) = <<>> PROVE Last(a) = Head(a)
    OBVIOUS
  <2>2. \A t \in Seq(S) : t = <<>> => Len(t) = 0
    OBVIOUS
  <2>3. Len(Tail(a)) = 0
    BY <1>2, <2>1, <2>2
  <2>4. \A i \in Nat : 0 = i - 1 => i = 1
    OBVIOUS
  <2>5. Len(a) = 1
    BY <1>1, <1>2, <2>3, <2>4, Zenon
  <2>. QED  BY <1>1, <2>5 DEF Last
<1>6. Tail(a) # <<>> => Last(Tail(a)) = Last(a)
  <2>1. SUFFICES ASSUME Tail(a) # <<>> PROVE Last(Tail(a)) = Last(a)
    OBVIOUS
  <2>2. Len(a) - 1 \in 1 .. (Len(a) - 1) /\ (Len(a) - 1) + 1 = Len(a)
    BY <1>1, <1>2, <2>1
  <2>3. Tail(a)[Len(a) - 1] = a[Len(a)]
    BY <1>4, <2>2
  <2>. QED  BY <1>2, <2>3 DEF Last
<1>. QED  BY <1>1, <1>2, <1>3, <1>4, <1>5, <1>6

LEMMA NoTasks == Plain(<<>>)
  BY DEF Plain, AgendaOK

LEMMA Prefixed ==
  ASSUME NEW b, AgendaOK(b), NEW x \in Task, TaskOK(x), x.proc \notin FinalProcs,
         b # <<>> => b[1].proc \notin CloseToProcs,
         b # <<>> /\ b[1].proc \in AtRootProcs => ClosesAll(x)
  PROVE  /\ AgendaOK(<<x>> \o b) /\ <<x>> \o b # <<>> /\ (<<x>> \o b)[1] = x
         /\ x.proc \notin CloseToProcs => Plain(<<x>> \o b)
<1>. DEFINE a == <<x>> \o b
<1>1. /\ b \in Seq(Task) /\ Len(b) \in Nat /\ DOMAIN b = 1 .. Len(b)
      /\ b # <<>> => 1 \in DOMAIN b
  BY DEF AgendaOK
<1>2. /\ a \in Seq(Task) /\ a # <<>> /\ Len(a) = Len(b) + 1 /\ a[1] = x
      /\ \A k \in DOMAIN a : k = 1 \/ (k > 1 /\ k - 1 \in DOMAIN b /\ a[k] = b[k - 1])
      /\ DOMAIN a = 1 .. (Len(b) + 1)
  BY <1>1, Cons
<1>. HIDE DEF a
<1>3. \A k \in DOMAIN a : TaskOK(a[k])
  BY <1>2 DEF AgendaOK
<1>4. \A k \in DOMAIN a : k < Len(a) => a[k].proc \notin FinalProcs
  <2>1. TAKE k \in DOMAIN a
  <2>2. HAVE k < Len(a)
  <2>3. CASE k = 1
    BY <1>2, <2>3
  <2>4. CASE k > 1 /\ k - 1 \in DOMAIN b /\ a[k] = b[k - 1]
    <3>1. k - 1 < Len(b)
      BY <1>1, <1>2, <2>2
    <3>. QED  BY <2>4, <3>1 DEF AgendaOK
  <2>. QED  BY <1>2, <2>3, <2>4
<1>5. \A k \in DOMAIN a : k > 1 => a[k].proc \notin CloseToProcs
  <2>1. TAKE k \in DOMAIN a
  <2>2. HAVE k > 1
  <2>3. k - 1 \in DOMAIN b /\ a[k] = b[k - 1]
    BY <1>2, <2>2
  <2>4. CASE k - 1 = 1
    <3>1. b # <<>> /\ b[k - 1] = b[1]
      BY <2>3, <2>4
    <3>. QED  BY <2>3, <3>1
  <2>5. CASE k - 1 # 1
    <3>1. k - 1 > 1
      <4>1. \A j \in 1 .. Len(b) : j # 1 => j > 1
        BY <1>1
      <4>2. k - 1 \in 1 .. Len(b)
        BY <1>1, <2>3
      <4>. QED  BY <2>5, <4>1, <4>2
    <3>. QED  BY <2>3, <3>1 DEF AgendaOK
  <2>. QED  BY <2>4, <2>5
<1>6. \A k \in DOMAIN a : k > 1 /\ a[k].proc \in AtRootProcs => ClosesAll(a[k - 1])
  <2>1. TAKE k \in DOMAIN a
  <2>2. HAVE k > 1 /\ a[k].proc \in AtRootProcs
  <2>3. k - 1 \in DOMAIN b /\ a[k] = b[k - 1]
    BY <1>2, <2>2
  <2>4. CASE k - 1 = 1
    <3>1. b # <<>> /\ b[k - 1] = b[1] /\ a[k - 1] = x
      BY <1>2, <2>3, <2>4
    <3>. QED  BY <2>2, <2>3, <3>1
  <2>5. CASE k - 1 # 1
    <3>1. k - 1 > 1 /\ k - 1 \in DOMAIN a
      BY <1>1, <1>2, <2>3, <2>5
    <3>2. a[k - 1] = b[(k - 1) - 1]
      BY <1>2, <3>1
    <3>3. ClosesAll(b[(k - 1) - 1])
      BY <2>2, <2>3, <3>1 DEF AgendaOK
    <3>. QED  BY <3>2, <3>3
  <2>. QED  BY <2>4, <2>5
<1>7. AgendaOK(a)
  BY <1>2, <1>3, <1>4, <1>5, <1>6 DEF AgendaOK
<1>8. x.proc \notin CloseToProcs => Plain(a)
  <2>1. x.proc \notin AtRootProcs
    BY DEF AtRootProcs, FinalProcs
  <2>. QED  BY <1>2, <1>7, <2>1 DEF Plain
<1>. QED  BY <1>2, <1>7, <1>8 DEF a

LEMMA FreeFirst ==
  ASSUME NEW b, Plain(b), NEW x \in Task, TaskOK(x), x.proc \in FreeProcs
  PROVE  Plain(<<x>> \o b)
<1>1. AgendaOK(b) /\ (b # <<>> => b[1].proc \notin AtRootProcs \cup CloseToProcs)
  BY DEF Plain
<1>2. x.proc \notin FinalProcs /\ x.proc \notin CloseToProcs
  BY DEF FreeProcs, FinalProcs, CloseToProcs
<1>3. b # <<>> => b[1].proc \notin CloseToProcs /\ b[1].proc \notin AtRootProcs
  BY <1>1
<1>. QED  BY <1>1, <1>2, <1>3, Prefixed

(* A task that ends what a token began, on its own. *)
LEMMA Alone ==
  ASSUME NEW x \in Task, TaskOK(x)
  PROVE  /\ AgendaOK(<<x>>)
         /\ x.proc \notin AtRootProcs \cup CloseToProcs => Plain(<<x>>)
<1>1. <<x>> \in Seq(Task) /\ DOMAIN <<x>> = {1} /\ Len(<<x>>) = 1 /\ <<x>>[1] = x
  OBVIOUS
<1>2. AgendaOK(<<x>>)
  BY <1>1 DEF AgendaOK
<1>. QED  BY <1>1, <1>2 DEF Plain

LEMMA NextTask ==
  ASSUME NEW a, AgendaOK(a), a # <<>>
  PROVE  /\ AgendaOK(Tail(a)) /\ Head(a) \in Task /\ TaskOK(Head(a)) /\ Head(a) = a[1]
         /\ ~ClosesAll(Head(a)) => Plain(Tail(a))
         /\ Tail(a) # <<>> => Tail(a)[1].proc \notin CloseToProcs
         /\ Head(a).proc \in FinalProcs => Tail(a) = <<>>
         /\ Tail(a) # <<>> /\ Tail(a)[1].proc \in AtRootProcs => ClosesAll(Head(a))
<1>. DEFINE b == Tail(a)
<1>1. /\ a \in Seq(Task) /\ Head(a) = a[1] /\ 1 \in DOMAIN a /\ a[1] \in Task
      /\ b \in Seq(Task) /\ Len(b) = Len(a) - 1 /\ Len(a) \in Nat
      /\ DOMAIN b = 1 .. (Len(a) - 1) /\ DOMAIN a = 1 .. Len(a)
      /\ \A k \in DOMAIN b : k + 1 \in DOMAIN a /\ b[k] = a[k + 1]
  BY Uncons DEF AgendaOK
<1>. HIDE DEF b
<1>2. \A k \in DOMAIN b : TaskOK(b[k])
  BY <1>1 DEF AgendaOK
<1>3. \A k \in DOMAIN b : k < Len(b) => b[k].proc \notin FinalProcs
  <2>1. TAKE k \in DOMAIN b
  <2>2. HAVE k < Len(b)
  <2>3. k + 1 < Len(a) /\ k + 1 \in DOMAIN a
    BY <1>1, <2>2
  <2>. QED  BY <1>1, <2>3 DEF AgendaOK
<1>4. \A k \in DOMAIN b : b[k].proc \notin CloseToProcs
  <2>1. TAKE k \in DOMAIN b
  <2>2. k + 1 > 1 /\ k + 1 \in DOMAIN a
    BY <1>1
  <2>. QED  BY <1>1, <2>2 DEF AgendaOK
<1>5. \A k \in DOMAIN b : b[k].proc \in AtRootProcs => ClosesAll(a[k])
  <2>1. TAKE k \in DOMAIN b
  <2>2. k + 1 > 1 /\ k + 1 \in DOMAIN a /\ (k + 1) - 1 = k
    BY <1>1
  <2>. QED  BY <1>1, <2>2 DEF AgendaOK
<1>6. \A k \in DOMAIN b : k > 1 /\ b[k].proc \in AtRootProcs => ClosesAll(b[k - 1])
  <2>1. TAKE k \in DOMAIN b
  <2>2. HAVE k > 1 /\ b[k].proc \in AtRootProcs
  <2>3. k - 1 \in DOMAIN b /\ (k - 1) + 1 = k
    BY <1>1, <2>2
  <2>4. b[k - 1] = a[k]
    BY <1>1, <2>3
  <2>. QED  BY <1>5, <2>2, <2>4
<1>7. AgendaOK(b)
  BY <1>1, <1>2, <1>3, <1>4, <1>6 DEF AgendaOK
<1>8. b # <<>> => 1 \in DOMAIN b
  BY <1>1
<1>9. TaskOK(Head(a))
  BY <1>1 DEF AgendaOK
<1>10. Head(a).proc \in FinalProcs => b = <<>>
  <2>1. SUFFICES ASSUME b # <<>> PROVE Head(a).proc \notin FinalProcs
    OBVIOUS
  <2>2. 1 < Len(a)
    BY <1>1, <1>8, <2>1
  <2>. QED  BY <1>1, <2>2 DEF AgendaOK
<1>11. /\ b # <<>> => b[1].proc \notin CloseToProcs
       /\ b # <<>> /\ b[1].proc \in AtRootProcs => ClosesAll(Head(a))
  BY <1>1, <1>4, <1>5, <1>8
<1>12. ~ClosesAll(Head(a)) => Plain(b)
  BY <1>7, <1>11 DEF Plain
<1>. QED  BY <1>1, <1>7, <1>9, <1>10, <1>11, <1>12 DEF b

LEMMA CarriesTail ==
  ASSUME NEW a, NEW p, Carries(a, p), AgendaOK(a), a # <<>>, ~EndsParse(Head(a))
  PROVE  Carries(Tail(a), p)
<1>1. /\ a \in Seq(Task)
      /\ \A k \in DOMAIN Tail(a) : k + 1 \in DOMAIN a /\ Tail(a)[k] = a[k + 1]
      /\ Tail(a) = <<>> => Last(a) = Head(a)
      /\ Tail(a) # <<>> => Last(Tail(a)) = Last(a)
  BY Uncons DEF AgendaOK
<1>. QED  BY <1>1 DEF Carries

LEMMA CarriesMore ==
  ASSUME NEW b, NEW p, Carries(b, p), AgendaOK(b), NEW x \in Task,
         Last(p).type = "unbraced" => x.proc \in UnbracedProcs,
         Len(p) = 1 => x.proc \in ByeProcs
  PROVE  Carries(<<x>> \o b, p)
<1>. DEFINE a == <<x>> \o b
<1>1. /\ a # <<>> /\ a[1] = x
      /\ \A k \in DOMAIN a : k = 1 \/ (k > 1 /\ k - 1 \in DOMAIN b /\ a[k] = b[k - 1])
      /\ b # <<>> => Last(a) = Last(b)
  BY Cons DEF AgendaOK
<1>. HIDE DEF a
<1>2. Last(p).type = "unbraced" => \A k \in DOMAIN a : a[k].proc \in UnbracedProcs
  BY <1>1 DEF Carries
<1>3. Len(p) = 1 => \A k \in DOMAIN a : a[k].proc \in ByeProcs
  BY <1>1 DEF Carries
<1>4. Len(p) = 1 => EndsParse(Last(a))
  BY <1>1 DEF Carries
<1>. QED  BY <1>1, <1>2, <1>3, <1>4 DEF Carries, a

LEMMA OpenCarries ==
  ASSUME NEW p, Open(p), NEW a
  PROVE  Carries(a, p) /\ Last(p).type # "ET_brace_command" /\ Last(p).type # "unbraced"
<1>1. Len(p) # 1 /\ Last(p).type # "unbraced" /\ Last(p).type # "ET_brace_command"
  BY DEF Open, Holds
<1>. QED  BY <1>1 DEF Carries

(* In an element that other elements may be added to. *)
LEMMA Settled ==
  ASSUME NEW p, NEW cs, NEW n, NEW cra, NEW ci, NEW a,
         Tree(p, cs, n, cra, ci), Open(p), Plain(a)
  PROVE  Parse(p, cs, n, cra, ci, a)
<1>1. Carries(a, p) /\ Last(p).type # "ET_brace_command" /\ Last(p).type # "unbraced"
  BY OpenCarries
<1>2. AgendaOK(a) /\ (a # <<>> => a[1].proc \notin AtRootProcs \cup CloseToProcs)
  BY DEF Plain
<1>3. HeadFits(a, p, top_(cs))
  BY <1>2 DEF HeadFits, AtRootProcs, CloseToProcs
<1>4. Holds(Last(p))
  BY DEF Open
<1>. QED  BY <1>1, <1>2, <1>3, <1>4 DEF Parse, AgendaFits

-----------------------------------------------------------------------------
(* What the functions that close an element do to the tree. *)

(* The tree, with the stacks as they are. *)
Stacked == Tree(path, context_stack, nesting_context, count_remaining_args, count_items)

LEMMA BraceContexts ==
  ASSUME NEW c \in Commands, Has(c, "CF_brace")
  PROVE  BraceContext(c) = PoppedBraceContext(c)
  BY CommandTable DEF BraceContext, PoppedBraceContext

LEMMA CloseBraceCommand ==
  ASSUME NEW p, Tree(p, context_stack, nesting_context, count_remaining_args, count_items),
         Last(p).type = "ET_brace_command", close_brace_command(p),
         UNCHANGED count_items
  PROVE  /\ Stacked' /\ Open(path') /\ UNCHANGED status
         /\ ContextOf(Last(p)) = None => UNCHANGED context_stack
<1>. DEFINE c == Last(p).cmd
<1>1. /\ path' = Front(p) /\ PopContext(PoppedBraceContext(c))
      /\ count_remaining_args' = Front(count_remaining_args)
      /\ nesting_context' = NestingClosed(c)
      /\ Unless(/\ count_remaining_args # <<>>
                /\ Expects(PoppedBraceContext(c))
                /\ Has(c, "CF_contain_basic_inline")
                     => nesting_context.basic_inline_stack # <<>>)
  BY DEF close_brace_command
<1>2. nesting_context' = BraceClosed(nesting_context, c)
  BY <1>1 DEF NestingClosed, BraceClosed
<1>3. context_stack' = IF PoppedBraceContext(c) = None THEN context_stack
                       ELSE Front(context_stack)
  BY <1>1 DEF PopContext
<1>4. /\ Tree(Front(p), context_stack', nesting_context', count_remaining_args', count_items)
      /\ Open(Front(p))
      /\ PoppedBraceContext(c) # None => top_(context_stack) = PoppedBraceContext(c)
      /\ count_remaining_args # <<>>
      /\ Has(c, "CF_contain_basic_inline") => nesting_context.basic_inline_stack # <<>>
  BY <1>1, <1>2, <1>3, BraceCommandClosed
<1>5. UNCHANGED status
  BY <1>1, <1>4 DEF Unless, Expects, current_context
<1>6. ContextOf(Last(p)) = None => UNCHANGED context_stack
  <2>1. Last(p) \in Element /\ Kind(Last(p)) /\ Last(p).type = "ET_brace_command"
    BY PathLast DEF Tree
  <2>2. c \in Commands /\ Has(c, "CF_brace")
    BY <2>1, CommandOf
  <2>3. ContextOf(Last(p)) = BraceContext(c)
    BY <2>1 DEF ContextOf
  <2>4. BraceContext(c) = PoppedBraceContext(c)
    BY <2>2, BraceContexts
  <2>. QED  BY <1>3, <2>3, <2>4
<1>. QED  BY <1>1, <1>4, <1>5, <1>6 DEF Stacked

LEMMA CloseContainer ==
  ASSUME Stacked, close_container, UNCHANGED count_items,
         Len(path) > 1, ~IsRoot(current), Holds(current),
         current.type \notin {"ET_block_command", "ET_line_arg", "ET_block_line_arg"}
  PROVE  /\ Stacked' /\ UNCHANGED status /\ path' = Front(path)
         /\ \/ Open(path')
            \/ Len(path') > 1 /\ Last(path').type = "ET_brace_command"
         /\ current.type \notin BraceArguments => Open(path')
         /\ ContextOf(current) = None => UNCHANGED context_stack
<1>1. /\ path' = Front(path)
      /\ current.type = "ET_paragraph" =>
           PopContext("ct_paragraph") /\ Unless(Expects("ct_paragraph"))
      /\ current.type # "ET_paragraph" => UNCHANGED <<context_stack, status>>
      /\ UNCHANGED <<nesting_context, count_remaining_args>>
  BY DEF close_container
<1>2. current = Last(path) /\ Last(path) \in Element /\ Kind(Last(path))
      /\ Last(path).type \in Types /\ Last(path).type # "ET_document_root"
  <2>1. PathOK(path) /\ current = Last(path)
    BY DEF Stacked, Tree, current
  <2>2. Last(path).type # "ET_document_root"
    <3>1. Fits(Last(Front(path)), Last(path))
      BY <2>1, PathFront
    <3>. QED  BY <3>1 DEF Fits
  <2>. QED  BY <2>1, <2>2, PathLast
<1>3. CASE current.type = "ET_paragraph"
  <2>1. /\ Tree(Front(path), Front(context_stack), nesting_context, count_remaining_args,
                count_items)
        /\ Open(Front(path)) /\ top_(context_stack) = "ct_paragraph"
    BY <1>2, <1>3, ParagraphClosed DEF Stacked
  <2>2. context_stack' = Front(context_stack)
    BY <1>1, <1>3 DEF PopContext, None
  <2>3. UNCHANGED status
    BY <1>1, <1>3, <2>1 DEF Unless, Expects, current_context
  <2>4. ContextOf(current) # None
    BY <1>3 DEF ContextOf, None
  <2>. QED  BY <1>1, <2>1, <2>2, <2>3, <2>4 DEF Stacked
<1>4. CASE current.type \in BraceArguments
  <2>1. /\ Tree(Front(path), context_stack, nesting_context, count_remaining_args,
                count_items)
        /\ Len(Front(path)) > 1 /\ Last(Front(path)).type = "ET_brace_command"
    BY <1>2, <1>4, BraceArgumentClosed DEF Stacked
  <2>2. current.type # "ET_paragraph"
    BY <1>4 DEF BraceArguments
  <2>. QED  BY <1>1, <1>4, <2>1, <2>2 DEF Stacked
<1>5. CASE current.type \notin BraceArguments /\ current.type # "ET_paragraph"
  <2>1. ~(current.type = "ET_line_command")
    <3>1. SUFFICES ASSUME current.type = "ET_line_command" PROVE FALSE
      OBVIOUS
    <3>2. Has(current.cmd, "CF_root")
      BY <3>1 DEF Holds
    <3>. QED  BY <3>1, <3>2 DEF IsRoot, Cmd, CommandTypes
  <2>2. current.type \notin {"ET_arguments_line", "ET_def_line", "ET_brace_command", "unbraced"}
    BY DEF Holds
  <2>3. Last(path).type \in ContentTypes /\ Last(path).type \in PlainTypes
    BY <1>2, <1>5, <2>1, <2>2 DEF ContentTypes, PlainTypes, LineTypes, Types, CommandTypes,
                                 BraceArguments
  <2>4. /\ Tree(Front(path), context_stack, nesting_context, count_remaining_args,
                count_items)
        /\ Open(Front(path))
    BY <1>2, <2>3, ContentClosed DEF Stacked
  <2>. QED  BY <1>1, <1>5, <2>4 DEF Stacked
<1>. QED  BY <1>3, <1>4, <1>5

LEMMA CloseBlockCommand ==
  ASSUME Stacked, current.type = "ET_block_command", NEW p, NEW cleanup \in BOOLEAN,
         CloseBlock(current.cmd, p, cleanup)
  PROVE  /\ Tree(Front(path), context_stack', nesting_context', count_remaining_args',
                 count_items')
         /\ Open(Front(path)) /\ path' = p /\ UNCHANGED status /\ Len(path) > 2
         /\ ContextOf(current) = None => UNCHANGED context_stack
<1>. DEFINE c == current.cmd
            items == count_items
<1>1. current = Last(path) /\ Last(path).type = "ET_block_command" /\ c = Last(path).cmd
  BY DEF current
<1>2. /\ path' = p
      /\ count_items' = IF c \notin ListCommands THEN count_items
                        ELSE LeftBehind(IF cleanup THEN Front(count_items) ELSE count_items,
                                        Len(path))
      /\ PopContext(PoppedBlockContext(c))
      /\ nesting_context' =
           [nesting_context EXCEPT !.regions_stack =
              IF data[c] = "BLOCK_region" THEN Front(@) ELSE @]
      /\ Unless(/\ Expects(PoppedBlockContext(c))
                /\ data[c] = "BLOCK_region" => nesting_context.regions_stack # <<>>
                /\ c \in ListCommands /\ cleanup => count_items # <<>>)
      /\ UNCHANGED count_remaining_args
  BY DEF CloseBlock
<1>3. count_items' \in ItemsClosed(count_items, Len(path), c)
  <2>1. CASE cleanup
    BY <1>2, <2>1 DEF ItemsClosed
  <2>2. CASE ~cleanup
    BY <1>2, <2>2 DEF ItemsClosed
  <2>. QED  BY <2>1, <2>2
<1>4. nesting_context' = RegionClosed(nesting_context, c)
  BY <1>2 DEF RegionClosed
<1>5. context_stack' = IF PoppedBlockContext(c) = None THEN context_stack
                       ELSE Front(context_stack)
  BY <1>2 DEF PopContext
<1>. HIDE DEF c
<1>6. /\ Tree(Front(path), context_stack', nesting_context', count_remaining_args, count_items')
      /\ Open(Front(path)) /\ Len(path) > 2
      /\ PoppedBlockContext(c) # None => top_(context_stack) = PoppedBlockContext(c)
      /\ data[c] = "BLOCK_region" => nesting_context.regions_stack # <<>>
      /\ c \in ListCommands => count_items # <<>>
  BY <1>1, <1>3, <1>4, <1>5, BlockClosed DEF Stacked
<1>7. UNCHANGED status
  BY <1>2, <1>6 DEF Unless, Expects, current_context
<1>8. ContextOf(current) = None => UNCHANGED context_stack
  <2>1. c \in Commands /\ Last(path) \in Element /\ Last(path).type = "ET_block_command"
        /\ Last(path).cmd = c
    BY <1>1, PathLast, CommandOf DEF Stacked, Tree
  <2>2. ContextOf(Last(path)) = PoppedBlockContext(c)
    BY <2>1, CommandData DEF ContextOf
  <2>. QED  BY <1>1, <1>5, <2>2
<1>. QED  BY <1>2, <1>6, <1>7, <1>8

(* The tasks that are put in front of the others. *)
LEMMA SimpleTask ==
  ASSUME NEW f \in FreeProcs
  PROVE  /\ T(f, CM_NONE) \in Task /\ TaskOK(T(f, CM_NONE))
         /\ T(f, CM_NONE).proc = f /\ T(f, CM_NONE).cmd = CM_NONE
<1>1. f \in Procs /\ CM_NONE \in AllCommands
  BY DEF FreeProcs, Procs, AllCommands
<1>2. T(f, CM_NONE) \in Task /\ T(f, CM_NONE).proc = f /\ T(f, CM_NONE).cmd = CM_NONE
  BY <1>1 DEF T, Task
<1>. QED  BY <1>2 DEF TaskOK, FreeProcs

LEMMA PlainSeq ==
  ASSUME NEW b, Plain(b)
  PROVE  b \in Seq(Task) /\ AgendaOK(b)
  BY DEF Plain, AgendaOK

LEMMA FreeTask ==
  ASSUME NEW b, Plain(b), NEW f \in FreeProcs
  PROVE  Plain(<<T(f, CM_NONE)>> \o b)
  BY SimpleTask, FreeFirst

LEMMA BeginTask ==
  ASSUME NEW s \in {<<>>, <<T("begin_preformatted", CM_NONE)>>}
  PROVE  s \in Seq(Task)
<1>1. "begin_preformatted" \in FreeProcs
  BY DEF FreeProcs
<1>2. T("begin_preformatted", CM_NONE) \in Task
  BY <1>1, SimpleTask
<1>3. <<>> \in Seq(Task) /\ <<T("begin_preformatted", CM_NONE)>> \in Seq(Task)
  BY <1>2
<1>. QED  BY <1>3, Zenon

LEMMA MaybeBegin ==
  ASSUME NEW b, Plain(b),
         NEW s \in {<<>>, <<T("begin_preformatted", CM_NONE)>>}
  PROVE  Plain(s \o b)
<1>1. CASE s = <<>>
  <2>1. <<>> \o b = b
    BY PlainSeq, ConcatEmptySeq
  <2>. QED  BY <1>1, <2>1
<1>2. CASE s = <<T("begin_preformatted", CM_NONE)>>
  BY <1>2, FreeTask DEF FreeProcs
<1>. QED  BY <1>1, <1>2

(* The end of a line. *)
LEMMA EndMiscLine ==
  ASSUME Stacked, current.type = "ET_line_arg", NEW a, Plain(a),
         conditional_stack \in Seq(Commands), end_line_misc_line(a), UNCHANGED count_items
  PROVE  /\ Stacked' /\ Open(path') /\ Plain(agenda') /\ UNCHANGED status
         /\ conditional_stack' \in Seq(Commands)
<1>. DEFINE c == current.cmd
            q == Front(Front(path))
<1>1. current = Last(path) /\ Last(path).type = "ET_line_arg" /\ c = Last(path).cmd
      /\ PathOK(path)
  BY DEF current, Stacked, Tree
<1>2. LET b == Last(Front(path))
      IN /\ c \in Commands /\ Has(c, "CF_line")
         /\ Len(path) > 1 /\ Len(Front(path)) > 1 /\ Drop(path, 2) = q
         /\ Has(c, "CF_root") => b.type = "ET_arguments_line"
         /\ ~Has(c, "CF_root") => b.type = "ET_line_command" /\ b.cmd = c
  BY <1>1, EndedLine DEF Stacked
<1>3. parent = Last(Front(path)) /\ Last(path) = E("ET_line_arg", c)
  <2>1. Last(path) \in Element
    BY <1>1, PathLast
  <2>. QED  BY <1>1, <1>2, <2>1, PathFront, ElementIs DEF parent
<1>4. /\ EF_def_line(parent) => Has(c, "CF_def")
      /\ Has(c, "CF_def") => EF_def_line(parent)
  <2>1. Has(c, "CF_def") => ~Has(c, "CF_root")
    BY <1>2, CommandTable
  <2>. QED  BY <1>2, <1>3, <2>1 DEF EF_def_line
<1>. HIDE DEF c
<1>5. /\ Tree(q, Front(context_stack), LineClosed(nesting_context, c),
              IF CountsArgs(c) THEN Front(count_remaining_args) ELSE count_remaining_args,
              count_items)
      /\ Open(q)
      /\ top_(context_stack) = LineContext(c)
      /\ CountsArgs(c) => count_remaining_args # <<>>
      /\ Has(c, "CF_contain_basic_inline")
           => nesting_context.basic_inline_stack_on_line # <<>>
  BY <1>2, <1>3, LineArgClosed DEF Stacked
<1>6. /\ nesting_context' = LineClosed(nesting_context, c)
      /\ count_remaining_args' = IF CountsArgs(c) THEN Front(count_remaining_args)
                                 ELSE count_remaining_args
  BY DEF end_line_misc_line, LineClosed, c
<1>7. UNCHANGED status
  <2>1. Unless(/\ Expects(IF EF_def_line(parent) THEN "ct_def" ELSE "ct_line")
               /\ CountsArgs(c) => count_remaining_args # <<>>
               /\ Has(c, "CF_contain_basic_inline")
                    => nesting_context.basic_inline_stack_on_line # <<>>)
    BY DEF end_line_misc_line, c
  <2>2. Expects(IF EF_def_line(parent) THEN "ct_def" ELSE "ct_line")
    BY <1>4, <1>5 DEF Expects, LineContext, current_context
  <2>. QED  BY <1>5, <2>1, <2>2 DEF Unless
<1>8. CASE EF_def_line(parent)
  <2>1. EndDefLine(a)
    BY <1>8 DEF end_line_misc_line
  <2>2. /\ path' = q /\ context_stack' = Front(context_stack)
        /\ agenda' = <<T("begin_preformatted", CM_NONE)>> \o a
        /\ UNCHANGED conditional_stack
    BY <1>2, <2>1 DEF EndDefLine, PopContext, None
  <2>3. Plain(agenda')
    BY <2>2, FreeTask DEF FreeProcs
  <2>. QED  BY <1>5, <1>6, <1>7, <2>2, <2>3 DEF Stacked
<1>9. CASE ~EF_def_line(parent)
  <2>. DEFINE p == IF parent.type = "ET_arguments_line" THEN Drop(path, 2) ELSE Front(path)
  <2>1. /\ PopContext("ct_line")
        /\ c = "end" => /\ path' = Front(p)
                        /\ \E end_id \in EndArgument(Front(p)) :
                             EndCommand(Front(p), end_id, a)
        /\ c # "end" => /\ path' = IF Has(c, "CF_root") THEN p ELSE Front(p)
                        /\ agenda' = (IF close_preformatted_command(c)
                                      THEN <<T("begin_preformatted", CM_NONE)>>
                                      ELSE <<>>) \o a
                        /\ UNCHANGED conditional_stack
    BY <1>9 DEF end_line_misc_line, c
  <2>2. context_stack' = Front(context_stack)
    BY <2>1 DEF PopContext, None
  <2>3. /\ Has(c, "CF_root") => p = q
        /\ ~Has(c, "CF_root") => Front(p) = q
    BY <1>2, <1>3
  <2>. HIDE DEF p
  <2>4. CASE c # "end"
    <3>1. path' = q
      BY <2>1, <2>3, <2>4
    <3>2. Plain(agenda')
      BY <2>1, <2>4, MaybeBegin
    <3>. QED  BY <1>5, <1>6, <1>7, <2>1, <2>2, <2>4, <3>1, <3>2 DEF Stacked
  <2>5. CASE c = "end"
    <3>1. Front(p) = q /\ path' = q
      <4>1. ~Has(c, "CF_root")
        BY <1>2, <2>5, CommandTable
      <4>. QED  BY <2>1, <2>3, <2>5, <4>1
    <3>2. PICK end_id \in EndArgument(q) : EndCommand(q, end_id, a)
      BY <2>1, <2>5, <3>1
    <3>3. end_id = CM_NONE \/ (end_id \in Commands /\ Has(end_id, "CF_block"))
      <4>1. CASE IsRawBlock(Last(q))
        <5>1. Last(q).type = "ET_block_command" /\ end_id = Last(q).cmd
          BY <3>2, <4>1 DEF IsRawBlock, EndArgument
        <5>2. Last(q) \in Element /\ Kind(Last(q))
          BY <1>5, PathLast DEF Tree
        <5>. QED  BY <5>1, <5>2, CommandOf
      <4>2. CASE ~IsRawBlock(Last(q))
        BY <3>2, <4>2 DEF EndArgument
      <4>. QED  BY <4>1, <4>2
    <3>4. Plain(agenda') /\ conditional_stack' \in Seq(Commands)
      <4>. DEFINE x == T("close_commands", end_id)
                  s == IF close_preformatted_command(end_id)
                       THEN <<T("begin_preformatted", CM_NONE)>> ELSE <<>>
      <4>1. \/ agenda' = a /\ UNCHANGED conditional_stack
            \/ agenda' = <<x>> \o s \o a /\ UNCHANGED conditional_stack
            \/ agenda' = a /\ conditional_stack' = Front(conditional_stack)
        BY <3>2 DEF EndCommand
      <4>2. x \in Task /\ TaskOK(x) /\ x.proc \in FreeProcs
        BY <3>3 DEF T, Task, TaskOK, Procs, AllCommands, FreeProcs
      <4>3. s \in {<<>>, <<T("begin_preformatted", CM_NONE)>>}
        OBVIOUS
      <4>. HIDE DEF x, s
      <4>4. Plain(s \o a)
        BY <4>3, MaybeBegin
      <4>5. Plain(<<x>> \o (s \o a))
        BY <4>2, <4>4, FreeFirst
      <4>6. <<x>> \o s \o a = <<x>> \o (s \o a)
        <5>1. <<x>> \in Seq(Task) /\ a \in Seq(Task)
          BY <4>2, PlainSeq
        <5>2. s \in Seq(Task)
          BY <4>3, BeginTask
        <5>. QED  BY <5>1, <5>2, ConcatAssociative
      <4>. QED  BY <4>1, <4>5, <4>6, FrontType
    <3>. QED  BY <1>5, <1>6, <1>7, <2>2, <3>1, <3>4 DEF Stacked
  <2>. QED  BY <2>4, <2>5
<1>. QED  BY <1>8, <1>9

LEMMA EndBlockLine ==
  ASSUME Stacked, current.type = "ET_block_line_arg", NEW a, Plain(a),
         conditional_stack \in Seq(Commands), end_line_starting_block(a),
         UNCHANGED count_items
  PROVE  /\ Stacked' /\ Open(path') /\ Plain(agenda') /\ UNCHANGED status
         /\ conditional_stack' \in Seq(Commands)
<1>. DEFINE c == current.cmd
            q == Front(Front(path))
            k == IF ~Has(c, "CF_def") /\ counter_value(count_remaining_args, Len(q)) # -1
                 THEN Front(count_remaining_args) ELSE count_remaining_args
            m == BlockLineClosed(nesting_context, c)
<1>1. current = Last(path) /\ Last(path).type = "ET_block_line_arg" /\ c = Last(path).cmd
      /\ PathOK(path)
  BY DEF current, Stacked, Tree
<1>2. LET b == Last(Front(path))
      IN /\ c \in Commands /\ Has(c, "CF_block")
         /\ Len(path) > 1 /\ Len(Front(path)) > 1 /\ Drop(path, 2) = q
         /\ Has(c, "CF_def") => b.type = "ET_def_line" /\ b.cmd = c
         /\ ~Has(c, "CF_def") => b.type = "ET_arguments_line" /\ b.cmd = c
         /\ Last(q) = E("ET_block_command", c) /\ PathOK(q) /\ Open(q)
         /\ Len(q) > 2
  BY <1>1, EndedBlockLine DEF Stacked
<1>3. parent = Last(Front(path)) /\ Last(path) = E("ET_block_line_arg", c)
  <2>1. Last(path) \in Element
    BY <1>1, PathLast
  <2>. QED  BY <1>1, <1>2, <2>1, PathFront, ElementIs DEF parent
<1>4. /\ EF_def_line(parent) => Has(c, "CF_def")
      /\ Has(c, "CF_def") => EF_def_line(parent)
  BY <1>2, <1>3 DEF EF_def_line
<1>. HIDE DEF c
<1>5. /\ Tree(q, Front(context_stack), m, k, count_items)
      /\ top_(context_stack) = LineContext(c)
      /\ Has(c, "CF_contain_basic_inline")
           => nesting_context.basic_inline_stack_block # <<>>
  BY <1>2, <1>3, BlockLineArgClosed DEF Stacked
<1>6. nesting_context' = m
  BY DEF end_line_starting_block, BlockLineClosed, c
<1>7. UNCHANGED status
  <2>1. Unless(/\ Expects(IF EF_def_line(parent) THEN "ct_def" ELSE "ct_line")
               /\ Has(c, "CF_contain_basic_inline")
                    => nesting_context.basic_inline_stack_block # <<>>)
    BY DEF end_line_starting_block, c
  <2>2. Expects(IF EF_def_line(parent) THEN "ct_def" ELSE "ct_line")
    BY <1>4, <1>5 DEF Expects, LineContext, current_context
  <2>. QED  BY <1>5, <2>1, <2>2 DEF Unless
<1>. HIDE DEF m
<1>8. CASE EF_def_line(parent)
  <2>1. EndDefLine(a) /\ UNCHANGED count_remaining_args
    BY <1>8 DEF end_line_starting_block
  <2>2. /\ path' = q /\ context_stack' = Front(context_stack)
        /\ agenda' = <<T("begin_preformatted", CM_NONE)>> \o a
        /\ UNCHANGED conditional_stack
    BY <1>2, <2>1 DEF EndDefLine, PopContext, None
  <2>3. Plain(agenda')
    BY <2>2, FreeTask DEF FreeProcs
  <2>4. count_remaining_args' = k
    BY <1>4, <1>8, <2>1
  <2>. QED  BY <1>2, <1>5, <1>6, <1>7, <2>2, <2>3, <2>4 DEF Stacked
<1>9. CASE ~EF_def_line(parent)
  <2>. DEFINE s == IF data[c] = "BLOCK_raw" THEN <<>>
                   ELSE <<T("begin_preformatted", CM_NONE)>>
  <2>1. /\ PopContext("ct_line")
        /\ count_remaining_args' =
             IF counter_value(count_remaining_args, Len(Drop(path, 2))) # -1
             THEN Front(count_remaining_args) ELSE count_remaining_args
        /\ data[c] = "BLOCK_conditional" =>
             /\ agenda' = a
             /\ \/ path' = Drop(path, 2) /\ UNCHANGED conditional_stack
                \/ /\ path' = Front(Drop(path, 2))
                   /\ conditional_stack' = Append(conditional_stack, c)
        /\ data[c] # "BLOCK_conditional" =>
             /\ path' = Drop(path, 2) \o BlockContent(c)
             /\ agenda' = s \o a
             /\ UNCHANGED conditional_stack
    BY <1>9 DEF end_line_starting_block, c
  <2>2. context_stack' = Front(context_stack) /\ count_remaining_args' = k
    BY <1>2, <1>4, <1>9, <2>1 DEF PopContext, None
  <2>3. Plain(s \o a)
    BY MaybeBegin
  <2>. HIDE DEF s, k
  <2>4. CASE data[c] # "BLOCK_conditional"
    <3>1. path' = q \o BlockContent(c) /\ Plain(agenda') /\ UNCHANGED conditional_stack
      BY <1>2, <2>1, <2>3, <2>4
    <3>2. Tree(path', context_stack', nesting_context', count_remaining_args', count_items)
          /\ Open(path')
      BY <1>2, <1>5, <1>6, <2>2, <3>1, BlockContentOpened
    <3>. QED  BY <1>7, <3>1, <3>2 DEF Stacked
  <2>5. CASE data[c] = "BLOCK_conditional" /\ path' = Drop(path, 2)
             /\ UNCHANGED conditional_stack
    BY <1>2, <1>5, <1>6, <1>7, <2>1, <2>2, <2>5 DEF Stacked
  <2>6. CASE data[c] = "BLOCK_conditional" /\ path' = Front(Drop(path, 2))
             /\ conditional_stack' = Append(conditional_stack, c)
    <3>. DEFINE i == IF c \in ListCommands THEN LeftBehind(count_items, Len(q))
                     ELSE count_items
    <3>1. i \in ItemsClosed(count_items, Len(q), c)
      BY DEF ItemsClosed
    <3>2. PoppedBlockContext(c) = None /\ RegionClosed(m, c) = m
      <4>1. /\ data[c] = "BLOCK_conditional" /\ ~Has(c, "CF_preformatted")
            /\ c # "displaymath"
        BY <1>2, <2>6, CommandTable
      <4>2. m \in NestingContext
        BY <1>5, StacksParts DEF Tree
      <4>. QED  BY <4>1, <4>2 DEF PoppedBlockContext, RegionClosed, NestingContext
    <3>3. Last(q).type = "ET_block_command" /\ Last(q).cmd = c
      BY <1>2 DEF E
    <3>4. Tree(Front(q), Front(context_stack), m, k, i) /\ Open(Front(q))
      <4>. DEFINE ds == Front(context_stack)
      <4>1. Tree(q, ds, m, k, count_items) /\ m = RegionClosed(m, c)
            /\ PoppedBlockContext(c) = None
        BY <1>5, <3>2
      <4>. HIDE DEF ds, i
      <4>2. /\ Tree(Front(q), IF PoppedBlockContext(c) = None THEN ds ELSE Front(ds), m, k, i)
            /\ Open(Front(q))
        BY <3>1, <3>3, <4>1, BlockClosed, Zenon
      <4>. QED  BY <4>1, <4>2 DEF ds
    <3>5. Tree(Front(q), Front(context_stack), m, k, count_items)
      <4>1. count_items \in Seq(Counter)
        BY <1>5, StacksParts DEF Tree
      <4>2. Len(i) = Len(count_items)
        BY <4>1, LeftBehindType
      <4>. QED  BY <3>4, <4>1, <4>2 DEF Tree, StacksOK, StacksTypes, ItemsOK
    <3>6. path' = Front(q) /\ agenda' = a
          /\ conditional_stack' \in Seq(Commands)
      BY <1>2, <2>1, <2>6
    <3>. QED  BY <1>6, <1>7, <2>2, <3>4, <3>5, <3>6 DEF Stacked
  <2>. QED  BY <2>1, <2>4, <2>5, <2>6
<1>. QED  BY <1>8, <1>9

-----------------------------------------------------------------------------
(* The steps of the parser.  Parsing holds of the parser until it ends.    *)

Parsing ==
  /\ Parse(path, context_stack, nesting_context, count_remaining_args, count_items, agenda)
  /\ conditional_stack \in Seq(Commands)
  /\ line_empty \in BOOLEAN

LEMMA Arrived ==
  ASSUME Stacked', Open(path'), Plain(agenda'),
         conditional_stack' \in Seq(Commands), line_empty' \in BOOLEAN
  PROVE  Parsing'
  BY Settled DEF Stacked, Parsing

LEMMA InPath ==
  ASSUME Stacked
  PROVE  /\ current = Last(path) /\ current \in Element /\ Kind(current)
         /\ PathOK(path) /\ Len(path) \in Nat /\ Len(path) > 0 /\ path \in Seq(Element)
         /\ current.type \in Types /\ current.cmd \in AllCommands
         /\ Len(path) > 1 => parent = Last(Front(path)) /\ Fits(parent, current)
  BY PathLast, PathFront DEF Stacked, Tree, current, parent

LEMMA AtTask ==
  ASSUME Parsing, NEW P, Running(P)
  PROVE  /\ status = "parsing" /\ agenda # <<>> /\ task = agenda[1] /\ task.proc \in P
         /\ task \in Task /\ TaskOK(task) /\ AgendaOK(agenda) /\ AgendaOK(rest)
         /\ conditional_stack \in Seq(Commands) /\ line_empty \in BOOLEAN
         /\ Stacked
         /\ ~ClosesAll(task) => Plain(rest)
         /\ task.proc \in FinalProcs => rest = <<>>
         /\ task.proc \notin AtRootProcs \cup CloseToProcs => Plain(agenda)
         /\ rest # <<>> => rest[1].proc \notin CloseToProcs
         /\ rest # <<>> /\ rest[1].proc \in AtRootProcs => ClosesAll(task)
         /\ HeadFits(agenda, path, current_context)
<1>1. /\ status = "parsing" /\ agenda # <<>> /\ task.proc \in P
      /\ task = Head(agenda) /\ rest = Tail(agenda)
  BY DEF Running, task, rest
<1>2. /\ conditional_stack \in Seq(Commands) /\ line_empty \in BOOLEAN /\ Stacked
      /\ AgendaOK(agenda) /\ AgendaFits(agenda, path, current_context)
  BY DEF Parsing, Parse, Stacked, current_context
<1>3. /\ AgendaOK(rest) /\ task \in Task /\ TaskOK(task) /\ task = agenda[1]
      /\ ~ClosesAll(task) => Plain(rest)
      /\ rest # <<>> => rest[1].proc \notin CloseToProcs
      /\ task.proc \in FinalProcs => rest = <<>>
      /\ rest # <<>> /\ rest[1].proc \in AtRootProcs => ClosesAll(task)
  BY <1>1, <1>2, NextTask
<1>4. task.proc \notin AtRootProcs \cup CloseToProcs => Plain(agenda)
  BY <1>2, <1>3 DEF Plain
<1>. QED  BY <1>1, <1>2, <1>3, <1>4 DEF AgendaFits

(* Where the parser may be with that task. *)
LEMMA Where ==
  ASSUME Parsing, NEW P, Running(P)
  PROVE  /\ task.proc \notin ByeProcs => Len(path) > 1
         /\ task.proc \notin UnbracedProcs => current.type # "unbraced"
         /\ task.proc \notin {"closing"} \cup CloseToProcs => current.type # "ET_brace_command"
         /\ current.type # "ET_brace_command" /\ current.type # "unbraced" => Holds(current)
         /\ Carries(agenda, path)
         /\ ~EndsParse(task) => Carries(rest, path)
         /\ task.proc \notin ByeProcs \cup UnbracedProcs \cup {"closing"} \cup CloseToProcs
              => Open(path)
<1>1. /\ agenda # <<>> /\ task = agenda[1] /\ AgendaOK(agenda) /\ Stacked
  BY AtTask
<1>2. AgendaFits(agenda, path, current_context) /\ task = Head(agenda) /\ rest = Tail(agenda)
  BY DEF Parsing, Parse, current_context, task, rest
<1>3. 1 \in DOMAIN agenda
  BY <1>1, Uncons DEF AgendaOK
<1>4. current = Last(path) /\ Len(path) \in Nat /\ Len(path) > 0
  BY <1>1, InPath
<1>5. Carries(agenda, path)
  BY <1>2 DEF AgendaFits
<1>6. task.proc \notin ByeProcs => Len(path) # 1
  BY <1>1, <1>3, <1>5 DEF Carries
<1>7. task.proc \notin UnbracedProcs => current.type # "unbraced"
  BY <1>1, <1>3, <1>4, <1>5 DEF Carries
<1>8. /\ task.proc \notin {"closing"} \cup CloseToProcs => current.type # "ET_brace_command"
      /\ current.type # "ET_brace_command" /\ current.type # "unbraced" => Holds(current)
  BY <1>1, <1>2, <1>4 DEF AgendaFits
<1>9. ~EndsParse(task) => Carries(rest, path)
  BY <1>1, <1>2, <1>5, CarriesTail
<1>10. task.proc \notin ByeProcs => Len(path) > 1
  BY <1>4, <1>6, \A n \in Nat : n > 0 /\ n # 1 => n > 1
<1>. QED  BY <1>4, <1>5, <1>7, <1>8, <1>9, <1>10 DEF Open

LEMMA ParsingCloseStyle ==
  ASSUME Parsing, CloseStyle
  PROVE  Parsing' /\ UNCHANGED status
<1>. DEFINE P == {"close_styles", "end_paragraph", "end_paragraph_preformatted"}
<1>1. /\ Running(P) /\ Len(path) > 1 /\ parent.type = "ET_brace_command"
      /\ close_brace_command(Front(path))
      /\ UNCHANGED <<count_items, conditional_stack, agenda, line_empty>>
  BY DEF CloseStyle, InStyleCommand
<1>2. task.proc \in P /\ Stacked /\ conditional_stack \in Seq(Commands)
      /\ line_empty \in BOOLEAN /\ (task.proc \notin AtRootProcs \cup CloseToProcs => Plain(agenda))
  BY <1>1, AtTask
<1>3. Plain(agenda)
  BY <1>2 DEF AtRootProcs, CloseToProcs
<1>4. current = Last(path) /\ parent = Last(Front(path)) /\ PathOK(path)
  BY <1>1, <1>2, InPath
<1>5. Last(path).type \in BraceArguments
  BY <1>1, <1>4, InBraceCommand
<1>6. /\ Tree(Front(path), context_stack, nesting_context, count_remaining_args, count_items)
      /\ Last(Front(path)).type = "ET_brace_command"
  BY <1>2, <1>5, BraceArgumentClosed DEF Stacked
<1>7. Stacked' /\ Open(path') /\ UNCHANGED status
  BY <1>1, <1>6, CloseBraceCommand
<1>8. Plain(agenda') /\ conditional_stack' \in Seq(Commands) /\ line_empty' \in BOOLEAN
  BY <1>1, <1>2, <1>3
<1>. QED  BY <1>7, <1>8, Arrived

(* The path and the stacks stay as they are and the agenda is right for them. *)
LEMMA Stays ==
  ASSUME Parsing, UNCHANGED <<path, stacks, count_items>>,
         conditional_stack' \in Seq(Commands), line_empty' \in BOOLEAN,
         current.type # "ET_brace_command", AgendaOK(agenda'),
         Carries(agenda', path), HeadFits(agenda', path, current_context)
  PROVE  Parsing'
<1>1. Stacked /\ AgendaFits(agenda, path, current_context)
  BY DEF Parsing, Parse, Stacked, current_context
<1>2. current = Last(path)
  BY <1>1, InPath
<1>3. current.type # "unbraced" => Holds(current)
  BY <1>1, <1>2 DEF AgendaFits
<1>4. AgendaFits(agenda', path, current_context)
  BY <1>2, <1>3 DEF AgendaFits
<1>. QED  BY <1>1, <1>4 DEF Parsing, Parse, Stacked, stacks, current_context

LEMMA Remains ==
  ASSUME Parsing, NEW P, Running(P), UNCHANGED <<path, stacks, count_items>>,
         UNCHANGED <<conditional_stack, line_empty>>,
         current.type # "ET_brace_command", AgendaOK(agenda'),
         Carries(agenda', path), HeadFits(agenda', path, current_context)
  PROVE  Parsing'
  BY AtTask, Stays

LEMMA PlainHead ==
  ASSUME NEW a, Plain(a), NEW p, NEW ct
  PROVE  HeadFits(a, p, ct) /\ AgendaOK(a)
  BY DEF Plain, HeadFits, AtRootProcs, CloseToProcs

LEMMA ParsingEndParagraph ==
  ASSUME Parsing, EndParagraph
  PROVE  Parsing' /\ UNCHANGED status
<1>. DEFINE P == {"close_styles", "end_paragraph", "end_paragraph_preformatted"}
<1>1. /\ Running(P) /\ agenda' = rest /\ UNCHANGED <<count_items, conditional_stack, line_empty>>
      /\ \/ /\ \/ task.proc # "close_styles" /\ current.type = "ET_paragraph"
               \/ task.proc = "end_paragraph_preformatted" /\ current.type = "ET_preformatted"
            /\ close_container
         \/ UNCHANGED <<path, stacks, status>>
  BY DEF EndParagraph
<1>2. task.proc \in P /\ Stacked /\ conditional_stack \in Seq(Commands)
      /\ line_empty \in BOOLEAN /\ (~ClosesAll(task) => Plain(rest))
  BY <1>1, AtTask
<1>3. ~ClosesAll(task) /\ ~EndsParse(task) /\ Plain(rest)
      /\ task.proc \notin {"closing"} \cup CloseToProcs
  <2>1. task # T("raw_line", "bye")
    BY <1>2 DEF T
  <2>. QED  BY <1>2, <2>1 DEF ClosesAll, EndsParse, CloseToProcs
<1>4. current.type # "ET_brace_command" /\ Carries(rest, path)
  BY <1>1, <1>3, Where
<1>5. CASE /\ current.type \in {"ET_paragraph", "ET_preformatted"}
           /\ close_container
  <2>1. /\ current = Last(path) /\ current \in Element /\ Kind(current) /\ PathOK(path)
        /\ Len(path) \in Nat /\ Len(path) > 0
    BY <1>2, InPath
  <2>2. ~IsRoot(current) /\ Holds(current)
    BY <1>5, <2>1, NotRoot DEF Holds
  <2>3. Len(path) > 1
    BY <1>5, <2>1, PathLast
  <2>4. Stacked' /\ UNCHANGED status /\ Open(path')
    BY <1>1, <1>2, <1>5, <2>2, <2>3, CloseContainer DEF BraceArguments
  <2>. QED  BY <1>1, <1>2, <1>3, <2>4, Arrived
<1>6. CASE UNCHANGED <<path, stacks, status>>
  <2>1. HeadFits(rest, path, current_context) /\ AgendaOK(rest)
    BY <1>3, PlainHead
  <2>. QED  BY <1>1, <1>4, <1>6, <2>1, Remains
<1>. QED  BY <1>1, <1>5, <1>6

LEMMA ParsingBeginPreformatted ==
  ASSUME Parsing, BeginPreformatted
  PROVE  Parsing' /\ UNCHANGED status
<1>1. /\ Running({"begin_preformatted"}) /\ agenda' = rest
      /\ \/ path' = Append(path, E("ET_preformatted", CM_NONE))
         \/ path' = path
      /\ UNCHANGED <<stacks, count_items, conditional_stack, line_empty, status>>
  BY DEF BeginPreformatted
<1>2. task.proc = "begin_preformatted" /\ Stacked /\ conditional_stack \in Seq(Commands)
      /\ line_empty \in BOOLEAN /\ (~ClosesAll(task) => Plain(rest))
  BY <1>1, AtTask
<1>3. Plain(agenda')
  BY <1>1, <1>2 DEF ClosesAll
<1>4. Open(path)
  <2>1. task.proc \notin ByeProcs \cup UnbracedProcs \cup {"closing"} \cup CloseToProcs
    BY <1>2 DEF ByeProcs, UnbracedProcs, CloseToProcs
  <2>. QED  BY <1>1, <2>1, Where
<1>. DEFINE e == E("ET_preformatted", CM_NONE)
<1>5. e \in Element /\ e.type = "ET_preformatted"
  BY DEF E, Element, Types, AllCommands
<1>6. Kind(e) /\ Holds(e)
  BY <1>5 DEF Kind, Holds
<1>7. ~IsRoot(e)
  BY <1>5, <1>6, NotRoot
<1>8. e.type \in ContentTypes /\ e.type \in PlainTypes
  BY <1>5 DEF ContentTypes, PlainTypes, LineTypes, Types, CommandTypes, BraceArguments
<1>. HIDE DEF e
<1>9. /\ Tree(Append(path, e), context_stack, nesting_context, count_remaining_args, count_items)
      /\ Open(Append(path, e))
  BY <1>2, <1>4, <1>5, <1>6, <1>7, <1>8, ContentOpened DEF Stacked, Open
<1>10. Stacked' /\ Open(path')
  BY <1>1, <1>2, <1>4, <1>9 DEF Stacked, stacks, e
<1>. QED  BY <1>1, <1>2, <1>3, <1>10, Arrived

LEMMA TwoTasks ==
  ASSUME NEW x \in Task, NEW y \in Task, NEW b \in Seq(Task)
  PROVE  <<x, y>> \o b = <<x>> \o (<<y>> \o b)
<1>1. <<x>> \in Seq(Task) /\ <<y>> \in Seq(Task)
  OBVIOUS
<1>2. (<<x>> \o <<y>>) \o b = <<x>> \o (<<y>> \o b)
  BY <1>1, ConcatAssociative
<1>3. <<x>> \o <<y>> = <<x, y>>
  <2>. DEFINE s == <<x>> \o <<y>>
              t == <<x, y>>
  <2>1. s \in Seq(Task) /\ Len(s) = 2 /\ s[1] = x /\ s[2] = y
    BY <1>1
  <2>2. t \in Seq(Task) /\ Len(t) = 2 /\ t[1] = x /\ t[2] = y
    OBVIOUS
  <2>. HIDE DEF s, t
  <2>3. \A i \in 1 .. 2 : s[i] = t[i]
    <3>1. \A i \in 1 .. 2 : i = 1 \/ i = 2
      OBVIOUS
    <3>. QED  BY <2>1, <2>2, <3>1
  <2>4. s = t
    BY <2>1, <2>2, <2>3, SeqEqual
  <2>. QED  BY <2>4 DEF s, t
<1>. QED  BY <1>2, <1>3

LEMMA ParsingCloseCommands ==
  ASSUME Parsing, CloseCommands
  PROVE  Parsing' /\ UNCHANGED status
<1>1. /\ Running({"close_commands"})
      /\ current.type = "unbraced" => path' = Front(path) /\ UNCHANGED agenda
      /\ current.type # "unbraced" =>
           /\ agenda' = <<T("end_paragraph_preformatted", CM_NONE),
                          T("closing", task.cmd)>> \o rest
           /\ UNCHANGED path
      /\ UNCHANGED <<stacks, count_items, conditional_stack, line_empty, status>>
  BY DEF CloseCommands
<1>2. task.proc = "close_commands" /\ task \in Task /\ TaskOK(task)
      /\ Stacked /\ conditional_stack \in Seq(Commands)
      /\ line_empty \in BOOLEAN /\ AgendaOK(rest)
      /\ (task.proc \notin AtRootProcs \cup CloseToProcs => Plain(agenda))
      /\ (rest # <<>> => rest[1].proc \notin CloseToProcs)
      /\ (rest # <<>> /\ rest[1].proc \in AtRootProcs => ClosesAll(task))
  BY <1>1, AtTask
<1>3. Plain(agenda) /\ ~EndsParse(task) /\ task.proc \notin {"closing"} \cup CloseToProcs
  <2>1. task # T("raw_line", "bye")
    BY <1>2 DEF T
  <2>. QED  BY <1>2, <2>1 DEF EndsParse, CloseToProcs, AtRootProcs
<1>4. current.type # "ET_brace_command" /\ Carries(rest, path)
  BY <1>1, <1>3, Where
<1>5. /\ current = Last(path) /\ current \in Element /\ Kind(current) /\ PathOK(path)
      /\ Len(path) \in Nat /\ Len(path) > 0
  BY <1>2, InPath
<1>6. CASE current.type = "unbraced"
  <2>1. ~IsRoot(current) /\ Len(path) > 1
    BY <1>5, <1>6, NotRoot, PathLast
  <2>2. current.type \in ContentTypes /\ current.type \in PlainTypes
    BY <1>6 DEF ContentTypes, PlainTypes, LineTypes, Types, CommandTypes, BraceArguments
  <2>3. /\ Tree(Front(path), context_stack, nesting_context, count_remaining_args, count_items)
        /\ Open(Front(path))
    BY <1>2, <1>5, <2>1, <2>2, ContentClosed DEF Stacked
  <2>4. Stacked' /\ Open(path') /\ Plain(agenda')
    BY <1>1, <1>3, <1>6, <2>3 DEF Stacked, stacks
  <2>. QED  BY <1>1, <1>2, <2>4, Arrived
<1>7. CASE current.type # "unbraced"
  <2>. DEFINE x == T("end_paragraph_preformatted", CM_NONE)
              y == T("closing", task.cmd)
  <2>1. /\ x \in Task /\ TaskOK(x) /\ x.proc \in FreeProcs
        /\ x.proc = "end_paragraph_preformatted"
        /\ y \in Task /\ y.proc = "closing" /\ y.cmd = task.cmd
    BY <1>2 DEF T, Task, TaskOK, FreeProcs, Procs, AllCommands
  <2>2. /\ TaskOK(y) /\ (ClosesAll(task) => ClosesAll(y))
        /\ y.proc \notin FinalProcs /\ y.proc \notin CloseToProcs
    BY <1>2, <2>1 DEF TaskOK, ClosesAll, FinalProcs, CloseToProcs
  <2>. HIDE DEF x, y
  <2>3. Plain(<<y>> \o rest)
    BY <1>2, <2>1, <2>2, Prefixed
  <2>4. Plain(<<x>> \o (<<y>> \o rest))
    BY <2>1, <2>3, FreeFirst
  <2>5. agenda' = <<x>> \o (<<y>> \o rest)
    <3>1. agenda' = <<x, y>> \o rest
      BY <1>1, <1>7, Zenon DEF x, y
    <3>2. <<x, y>> \o rest = <<x>> \o (<<y>> \o rest)
      BY <1>2, <2>1, TwoTasks DEF AgendaOK
    <3>. QED  BY <3>1, <3>2
  <2>6. Carries(agenda', path)
    <3>1. Carries(<<y>> \o rest, path)
      BY <1>2, <1>4, <1>5, <1>7, <2>1, CarriesMore DEF ByeProcs
    <3>2. AgendaOK(<<y>> \o rest)
      BY <2>3, PlainHead
    <3>. QED  BY <1>5, <1>7, <2>1, <2>5, <3>1, <3>2, CarriesMore DEF ByeProcs
  <2>7. UNCHANGED path
    BY <1>1, <1>7
  <2>8. HeadFits(agenda', path, current_context) /\ AgendaOK(agenda')
    BY <2>4, <2>5, PlainHead
  <2>. QED  BY <1>1, <1>4, <2>6, <2>7, <2>8, Remains
<1>. QED  BY <1>6, <1>7

(* An element that is not a line is closed while the agenda stays.  It is  *)
(* the argument of a brace command at most that is current afterwards.     *)
LEMMA CloseCurrent ==
  ASSUME Stacked, NEW cleanup \in BOOLEAN, close_current(cleanup),
         Len(path) > 1, ~IsRoot(current),
         current.type = "ET_brace_command" \/ Holds(current),
         current.type \notin {"ET_line_arg", "ET_block_line_arg"}
  PROVE  /\ Stacked' /\ UNCHANGED <<status, agenda, conditional_stack>>
         /\ \/ Open(path')
            \/ Len(path') > 1 /\ Last(path').type = "ET_brace_command"
         /\ ContextOf(current) = None => UNCHANGED context_stack
<1>1. current = Last(path)
  BY InPath
<1>2. CASE current.type = "ET_brace_command"
  <2>1. /\ close_brace_command(path)
        /\ UNCHANGED <<agenda, conditional_stack, count_items>>
    BY <1>2 DEF close_current
  <2>. QED  BY <1>1, <1>2, <2>1, CloseBraceCommand DEF Stacked
<1>3. CASE current.type = "ET_block_command"
  <2>1. /\ CloseBlock(current.cmd, Front(path), cleanup)
        /\ UNCHANGED <<agenda, conditional_stack>>
    BY <1>3 DEF close_current
  <2>2. /\ Tree(Front(path), context_stack', nesting_context', count_remaining_args',
                count_items')
        /\ Open(Front(path)) /\ path' = Front(path) /\ UNCHANGED status
        /\ ContextOf(current) = None => UNCHANGED context_stack
    BY <1>3, <2>1, CloseBlockCommand
  <2>. QED  BY <2>1, <2>2 DEF Stacked
<1>4. CASE current.type \notin {"ET_brace_command", "ET_block_command"}
  <2>1. Holds(current) /\ current.type # "unbraced"
    BY <1>4 DEF Holds
  <2>2. close_container /\ UNCHANGED <<agenda, conditional_stack, count_items>>
    BY <1>4, <2>1 DEF close_current
  <2>3. /\ Stacked' /\ UNCHANGED status /\ path' = Front(path)
        /\ \/ Open(path')
           \/ Len(path') > 1 /\ Last(path').type = "ET_brace_command"
        /\ ContextOf(current) = None => UNCHANGED context_stack
    BY <1>4, <2>1, <2>2, CloseContainer
  <2>. QED  BY <2>2, <2>3
<1>. QED  BY <1>2, <1>3, <1>4

(* The same with the next task to be done at the element that is reached. *)
LEMMA Reached ==
  ASSUME Stacked', AgendaOK(agenda'), agenda' # <<>>,
         agenda'[1].proc \in {"closing"} \cup CloseToProcs,
         Open(path') \/ (Len(path') > 1 /\ Last(path').type = "ET_brace_command"),
         agenda'[1].proc = "close_to_line" => current_context' = "ct_line",
         agenda'[1].proc = "close_to_def" => current_context' = "ct_def",
         conditional_stack' \in Seq(Commands), line_empty' \in BOOLEAN
  PROVE  Parsing'
<1>1. Len(path') > 1 /\ Len(path') # 1 /\ Last(path').type # "unbraced"
  <2>1. Len(path') > 1
    BY DEF Open
  <2>2. Len(path') \in Nat
    BY PathLast DEF Stacked, Tree
  <2>3. Len(path') # 1
    BY <2>1, <2>2, \A n \in Nat : n > 1 => n # 1
  <2>. QED  BY <2>1, <2>3 DEF Open, Holds
<1>2. Carries(agenda', path')
  BY <1>1 DEF Carries
<1>3. HeadFits(agenda', path', current_context')
  BY DEF HeadFits, AtRootProcs, CloseToProcs
<1>4. Last(path').type # "ET_brace_command" => Holds(Last(path'))
  BY DEF Open
<1>5. AgendaFits(agenda', path', current_context')
  BY <1>1, <1>2, <1>3, <1>4 DEF AgendaFits
<1>. QED  BY <1>5 DEF Parsing, Parse, Stacked, current_context

LEMMA ParsingClosing ==
  ASSUME Parsing, Closing
  PROVE  Parsing' /\ UNCHANGED status
<1>1. /\ Running({"closing"}) /\ KeepsClosing /\ close_current(TRUE) /\ UNCHANGED line_empty
  BY DEF Closing
<1>2. task.proc = "closing" /\ task = agenda[1] /\ agenda # <<>> /\ AgendaOK(agenda)
      /\ Stacked /\ conditional_stack \in Seq(Commands) /\ line_empty \in BOOLEAN
      /\ (task.proc \notin AtRootProcs \cup CloseToProcs => Plain(agenda))
  BY <1>1, AtTask
<1>3. Plain(agenda)
  BY <1>2 DEF AtRootProcs, CloseToProcs
<1>4. /\ Len(path) > 1 /\ ~IsRoot(current) /\ current.type # "unbraced"
      /\ current.type = "ET_brace_command" \/ Holds(current)
  <2>1. task.proc \notin UnbracedProcs
    BY <1>2 DEF UnbracedProcs
  <2>. QED  BY <1>1, <2>1, Where DEF KeepsClosing
<1>5. CASE current.type = "ET_line_arg"
  <2>1. end_line_misc_line(agenda) /\ UNCHANGED count_items
    BY <1>1, <1>5 DEF close_current
  <2>2. /\ Stacked' /\ Open(path') /\ Plain(agenda') /\ UNCHANGED status
        /\ conditional_stack' \in Seq(Commands)
    BY <1>2, <1>3, <1>5, <2>1, EndMiscLine
  <2>. QED  BY <1>1, <1>2, <2>2, Arrived
<1>6. CASE current.type = "ET_block_line_arg"
  <2>1. end_line_starting_block(agenda) /\ UNCHANGED count_items
    BY <1>1, <1>6 DEF close_current
  <2>2. /\ Stacked' /\ Open(path') /\ Plain(agenda') /\ UNCHANGED status
        /\ conditional_stack' \in Seq(Commands)
    BY <1>2, <1>3, <1>6, <2>1, EndBlockLine
  <2>. QED  BY <1>1, <1>2, <2>2, Arrived
<1>7. CASE current.type \notin {"ET_line_arg", "ET_block_line_arg"}
  <2>1. /\ Stacked' /\ UNCHANGED <<status, agenda, conditional_stack>>
        /\ \/ Open(path')
           \/ Len(path') > 1 /\ Last(path').type = "ET_brace_command"
    BY <1>1, <1>2, <1>4, <1>7, CloseCurrent
  <2>2. /\ AgendaOK(agenda') /\ agenda' # <<>> /\ agenda'[1].proc = "closing"
        /\ conditional_stack' \in Seq(Commands) /\ line_empty' \in BOOLEAN
    BY <1>1, <1>2, <2>1
  <2>. QED  BY <2>1, <2>2, Reached
<1>. QED  BY <1>5, <1>6, <1>7

LEMMA ParsingClosed ==
  ASSUME Parsing, Closed
  PROVE  Parsing' /\ UNCHANGED status
<1>. DEFINE c == task.cmd
            found == c # CM_NONE /\ Cmd(current) = c
            menu == data[c] = "BLOCK_menu" /\ InMenuContext(Front(context_stack))
<1>1. /\ Running({"closing"}) /\ ~KeepsClosing /\ agenda' = rest
      /\ found => CloseBlock(c, IF menu
                                THEN Append(Front(path), E("ET_menu_comment", CM_NONE))
                                ELSE Front(path), TRUE)
      /\ ~found => UNCHANGED <<path, stacks, count_items, status>>
      /\ UNCHANGED <<conditional_stack, line_empty>>
  BY DEF Closed
<1>2. /\ task.proc = "closing" /\ TaskOK(task) /\ AgendaOK(rest)
      /\ Stacked /\ conditional_stack \in Seq(Commands) /\ line_empty \in BOOLEAN
      /\ ~ClosesAll(task) => Plain(rest)
      /\ rest # <<>> => rest[1].proc \notin CloseToProcs
  BY <1>1, AtTask
<1>3. /\ c = CM_NONE \/ Has(c, "CF_block")
      /\ ~EndsParse(task) /\ task.proc \notin UnbracedProcs
  <2>1. task # T("raw_line", "bye")
    BY <1>2 DEF T
  <2>. QED  BY <1>2, <2>1 DEF TaskOK, EndsParse, UnbracedProcs
<1>4. /\ current.type # "unbraced" /\ Carries(rest, path)
      /\ current.type # "ET_brace_command" => Holds(current)
  BY <1>1, <1>3, Where
<1>5. /\ current = Last(path) /\ current \in Element /\ Kind(current) /\ PathOK(path)
      /\ Len(path) \in Nat /\ Len(path) > 0 /\ current.cmd \in AllCommands
  BY <1>2, InPath
<1>6. CASE found
  <2>1. Has(c, "CF_block")
    BY <1>3, <1>6
  <2>2. current.type \in CommandTypes /\ current.cmd = c
    BY <1>6 DEF Cmd
  <2>3. current.type = "ET_block_command"
    <3>1. ~Has(c, "CF_line") /\ ~Has(c, "CF_brace") /\ ~Has(c, "CF_nobrace")
      BY <1>5, <2>1, <2>2, Categorised DEF Categories
    <3>. QED  BY <1>5, <2>2, <3>1 DEF Kind, CommandTypes
  <2>. DEFINE p == IF menu THEN Append(Front(path), E("ET_menu_comment", CM_NONE))
                   ELSE Front(path)
  <2>4. CloseBlock(current.cmd, p, TRUE)
    BY <1>1, <1>6, <2>2
  <2>. HIDE DEF p
  <2>5. /\ Tree(Front(path), context_stack', nesting_context', count_remaining_args',
                count_items')
        /\ Open(Front(path)) /\ path' = p /\ UNCHANGED status
    BY <1>2, <2>3, <2>4, CloseBlockCommand
  <2>6. Stacked' /\ Open(path')
    <3>. DEFINE e == E("ET_menu_comment", CM_NONE)
    <3>1. e \in Element /\ e.type = "ET_menu_comment"
      BY DEF E, Element, Types, AllCommands
    <3>2. Kind(e) /\ Holds(e)
      BY <3>1 DEF Kind, Holds
    <3>3. ~IsRoot(e)
      BY <3>1, <3>2, NotRoot
    <3>4. e.type \in ContentTypes /\ e.type \in PlainTypes
      BY <3>1 DEF ContentTypes, PlainTypes, LineTypes, Types, CommandTypes, BraceArguments
    <3>. HIDE DEF e
    <3>5. /\ Tree(Append(Front(path), e), context_stack', nesting_context',
                  count_remaining_args', count_items')
          /\ Open(Append(Front(path), e))
      BY <2>5, <3>1, <3>2, <3>3, <3>4, ContentOpened DEF Open
    <3>6. path' = Append(Front(path), e) \/ path' = Front(path)
      BY <2>5 DEF p, e
    <3>. QED  BY <2>5, <3>5, <3>6 DEF Stacked
  <2>7. Plain(agenda')
    BY <1>1, <1>2, <1>6 DEF ClosesAll
  <2>. QED  BY <1>1, <1>2, <2>5, <2>6, <2>7, Arrived
<1>7. CASE ~found
  <2>1. ~(Len(path) > 1) \/ IsRoot(current)
    BY <1>1, <1>7 DEF KeepsClosing
  <2>2. Len(path) <= 2 /\ current.type # "ET_brace_command"
    <3>1. CASE ~(Len(path) > 1)
      <4>1. Len(path) = 1
        BY <1>5, <3>1
      <4>. QED  BY <1>5, <4>1, PathLast
    <3>2. CASE IsRoot(current)
      <4>1. ~(Len(path) > 2)
        BY <1>5, <3>2, PathLast
      <4>2. current.type # "ET_brace_command"
        BY <1>5, <3>2, RootTypes
      <4>. QED  BY <1>5, <4>1, <4>2
    <3>. QED  BY <2>1, <3>1, <3>2
  <2>3. HeadFits(rest, path, current_context)
    <3>1. rest # <<>> => rest[1].proc \notin CloseToProcs
      BY <1>2
    <3>2. rest # <<>> /\ rest[1].proc = "root_command" => Len(path) # 1
      <4>1. rest # <<>> => 1 \in DOMAIN rest
        BY <1>2 DEF AgendaOK
      <4>. QED  BY <1>4, <4>1 DEF Carries, ByeProcs
    <3>3. Len(path) = 1 \/ Len(path) = 2
      BY <1>5, <2>2, \A n \in Nat : n > 0 /\ n <= 2 => n = 1 \/ n = 2
    <3>. QED  BY <2>2, <3>1, <3>2, <3>3 DEF HeadFits, CloseToProcs
  <2>4. UNCHANGED <<path, stacks, count_items>> /\ UNCHANGED status
    BY <1>1, <1>7
  <2>. QED  BY <1>1, <1>2, <1>4, <2>2, <2>3, <2>4, Remains
<1>. QED  BY <1>6, <1>7

LEMMA RootNotDef ==
  ASSUME NEW c \in AllCommands, Has(c, "CF_def")
  PROVE  ~Has(c, "CF_root")
  BY Categorised, CommandTable

LEMMA ParsingEndLine ==
  ASSUME Parsing, EndLine
  PROVE  Parsing' /\ UNCHANGED status
<1>. DEFINE b == <<StillOpened>> \o rest
            x == CASE current_context = "ct_paragraph" -> <<T("end_paragraph", CM_NONE)>>
                   [] current_context = "ct_base" -> <<T("close_styles", CM_NONE)>>
                   [] OTHER -> <<>>
<1>1. /\ Running({"end_line", "end_empty_line"})
      /\ UNCHANGED count_items /\ UNCHANGED line_empty
  BY DEF EndLine
<1>2. task.proc \in {"end_line", "end_empty_line"} /\ Stacked
      /\ conditional_stack \in Seq(Commands) /\ line_empty \in BOOLEAN
      /\ (~ClosesAll(task) => Plain(rest)) /\ AgendaOK(rest)
  BY <1>1, AtTask
<1>3. ~ClosesAll(task) /\ ~EndsParse(task) /\ Plain(rest)
      /\ task.proc \notin {"closing"} \cup CloseToProcs
  <2>1. task # T("raw_line", "bye")
    BY <1>2 DEF T
  <2>. QED  BY <1>2, <2>1 DEF ClosesAll, EndsParse, CloseToProcs
<1>4. current.type # "ET_brace_command" /\ Carries(rest, path)
      /\ (task.proc \notin ByeProcs => Len(path) > 1)
  BY <1>1, <1>3, Where
<1>5. /\ current = Last(path) /\ current \in Element /\ Kind(current) /\ PathOK(path)
      /\ Len(path) \in Nat /\ Len(path) > 0
  BY <1>2, InPath
<1>6. StillOpened \in Task /\ TaskOK(StillOpened) /\ StillOpened.proc = "still_opened"
      /\ Plain(b)
  BY <1>3, SimpleTask, FreeTask DEF StillOpened, FreeProcs
<1>7. Carries(b, path)
  BY <1>2, <1>4, <1>6, CarriesMore DEF ByeProcs, UnbracedProcs
<1>8. \/ /\ task.proc = "end_empty_line"
         /\ current.type = "ET_paragraph"
         /\ close_container
         /\ agenda' = b
         /\ UNCHANGED conditional_stack
      \/ /\ task.proc = "end_empty_line"
         /\ agenda' = x \o b
         /\ UNCHANGED <<path, stacks, conditional_stack, status>>
      \/ /\ current.type = "ET_block_line_arg"
         /\ end_line_starting_block(b)
      \/ /\ current.type = "ET_line_arg"
         /\ end_line_misc_line(b)
      \/ /\ agenda' = b
         /\ UNCHANGED <<path, stacks, conditional_stack, status>>
  BY DEF EndLine
<1>9. x = <<T("end_paragraph", CM_NONE)>> \/ x = <<T("close_styles", CM_NONE)>> \/ x = <<>>
  OBVIOUS
<1>. HIDE DEF b, x
<1>10. CASE /\ current.type = "ET_paragraph"
            /\ close_container
            /\ agenda' = b
            /\ UNCHANGED conditional_stack
  <2>1. ~IsRoot(current) /\ Holds(current)
    BY <1>5, <1>10, NotRoot DEF Holds
  <2>2. Len(path) > 1
    BY <1>5, <1>10, PathLast
  <2>3. Stacked' /\ UNCHANGED status /\ Open(path')
    BY <1>1, <1>2, <1>10, <2>1, <2>2, CloseContainer DEF BraceArguments
  <2>. QED  BY <1>1, <1>2, <1>6, <1>10, <2>3, Arrived
<1>11. CASE /\ task.proc = "end_empty_line"
            /\ agenda' = x \o b
            /\ UNCHANGED <<path, stacks, conditional_stack, status>>
  <2>1. Len(path) # 1
    <3>1. Len(path) > 1
      BY <1>4, <1>11 DEF ByeProcs
    <3>. QED  BY <1>5, <3>1, \A n \in Nat : n > 1 => n # 1
  <2>2. ASSUME NEW f \in {"end_paragraph", "close_styles"}, x = <<T(f, CM_NONE)>>
        PROVE  Plain(x \o b) /\ Carries(x \o b, path)
    <3>1. f \in FreeProcs /\ f \in UnbracedProcs
      BY DEF FreeProcs, UnbracedProcs
    <3>2. Plain(x \o b)
      BY <1>6, <2>2, <3>1, FreeTask
    <3>3. T(f, CM_NONE) \in Task /\ T(f, CM_NONE).proc = f
      BY <3>1, SimpleTask
    <3>4. AgendaOK(b)
      BY <1>6, PlainSeq
    <3>5. Carries(x \o b, path)
      BY <1>7, <2>1, <2>2, <3>1, <3>3, <3>4, CarriesMore
    <3>. QED  BY <3>2, <3>5
  <2>3. ASSUME x = <<>> PROVE Plain(x \o b) /\ Carries(x \o b, path)
    <3>1. b \in Seq(Task)
      BY <1>6, PlainSeq
    <3>2. x \o b = b
      BY <2>3, <3>1
    <3>. QED  BY <1>6, <1>7, <3>2
  <2>4. Plain(agenda') /\ Carries(agenda', path)
    BY <1>9, <1>11, <2>2, <2>3
  <2>5. HeadFits(agenda', path, current_context) /\ AgendaOK(agenda')
    BY <2>4, PlainHead
  <2>. QED  BY <1>1, <1>4, <1>11, <2>4, <2>5, Remains
<1>12. CASE current.type = "ET_block_line_arg" /\ end_line_starting_block(b)
  <2>1. /\ Stacked' /\ Open(path') /\ Plain(agenda') /\ UNCHANGED status
        /\ conditional_stack' \in Seq(Commands)
    BY <1>1, <1>2, <1>6, <1>12, EndBlockLine
  <2>. QED  BY <1>1, <1>2, <2>1, Arrived
<1>13. CASE current.type = "ET_line_arg" /\ end_line_misc_line(b)
  <2>1. /\ Stacked' /\ Open(path') /\ Plain(agenda') /\ UNCHANGED status
        /\ conditional_stack' \in Seq(Commands)
    BY <1>1, <1>2, <1>6, <1>13, EndMiscLine
  <2>. QED  BY <1>1, <1>2, <2>1, Arrived
<1>14. CASE agenda' = b /\ UNCHANGED <<path, stacks, conditional_stack, status>>
  <2>1. HeadFits(agenda', path, current_context) /\ AgendaOK(agenda')
    BY <1>6, <1>14, PlainHead
  <2>. QED  BY <1>1, <1>4, <1>7, <1>14, <2>1, Remains
<1>. QED  BY <1>8, <1>10, <1>11, <1>12, <1>13, <1>14

LEMMA ParsingStillOpenedLine ==
  ASSUME Parsing, StillOpenedLine
  PROVE  Parsing' /\ UNCHANGED status
<1>. DEFINE f == IF current_context = "ct_def" THEN "close_to_def" ELSE "close_to_line"
            y == T(f, CM_NONE)
<1>1. /\ Running({"still_opened"})
      /\ UNCHANGED <<stacks, count_items, conditional_stack, line_empty, status>>
      /\ \/ Opened /\ current.type = "unbraced" /\ path' = Front(path) /\ UNCHANGED agenda
         \/ /\ Opened /\ current.type # "unbraced"
            /\ agenda' = <<y>> \o rest
            /\ UNCHANGED path
         \/ agenda' = rest /\ UNCHANGED path
  BY DEF StillOpenedLine
<1>2. task.proc = "still_opened" /\ Stacked
      /\ conditional_stack \in Seq(Commands) /\ line_empty \in BOOLEAN
      /\ (~ClosesAll(task) => Plain(rest)) /\ AgendaOK(rest)
      /\ (task.proc \notin AtRootProcs \cup CloseToProcs => Plain(agenda))
  BY <1>1, AtTask
<1>3. ~ClosesAll(task) /\ ~EndsParse(task) /\ Plain(rest) /\ Plain(agenda)
      /\ task.proc \notin {"closing"} \cup CloseToProcs
  <2>1. task # T("raw_line", "bye")
    BY <1>2 DEF T
  <2>. QED  BY <1>2, <2>1 DEF ClosesAll, EndsParse, CloseToProcs, AtRootProcs
<1>4. current.type # "ET_brace_command" /\ Carries(rest, path)
  BY <1>1, <1>3, Where
<1>5. /\ current = Last(path) /\ current \in Element /\ Kind(current) /\ PathOK(path)
      /\ Len(path) \in Nat /\ Len(path) > 0
  BY <1>2, InPath
<1>6. CASE current.type = "unbraced" /\ path' = Front(path) /\ UNCHANGED agenda
  <2>1. ~IsRoot(current) /\ Len(path) > 1
    BY <1>5, <1>6, NotRoot, PathLast
  <2>2. current.type \in ContentTypes /\ current.type \in PlainTypes
    BY <1>6 DEF ContentTypes, PlainTypes, LineTypes, Types, CommandTypes, BraceArguments
  <2>3. /\ Tree(Front(path), context_stack, nesting_context, count_remaining_args, count_items)
        /\ Open(Front(path))
    BY <1>2, <1>5, <2>1, <2>2, ContentClosed DEF Stacked
  <2>4. Stacked' /\ Open(path') /\ Plain(agenda')
    BY <1>1, <1>3, <1>6, <2>3 DEF Stacked, stacks
  <2>. QED  BY <1>1, <1>2, <2>4, Arrived
<1>7. CASE Opened /\ current.type # "unbraced" /\ agenda' = <<y>> \o rest /\ UNCHANGED path
  <2>1. /\ y \in Task /\ y.proc = f /\ TaskOK(y)
        /\ f \in CloseToProcs /\ f \notin FinalProcs /\ f \notin AtRootProcs
    BY DEF T, Task, TaskOK, CloseToProcs, FinalProcs, AtRootProcs, Procs, AllCommands
  <2>2. /\ f = "close_to_line" => current_context = "ct_line"
        /\ f = "close_to_def" => current_context = "ct_def"
    BY <1>7 DEF Opened
  <2>. HIDE DEF f, y
  <2>3. rest # <<>> => rest[1].proc \notin CloseToProcs /\ rest[1].proc \notin AtRootProcs
    BY <1>3 DEF Plain
  <2>4. AgendaOK(agenda') /\ agenda' # <<>> /\ agenda'[1] = y
    BY <1>2, <1>7, <2>1, <2>3, Prefixed
  <2>5. Len(path) # 1
    <3>1. current_context \in {"ct_line", "ct_def"}
      BY <1>7 DEF Opened
    <3>2. Len(path) <= 2 => current_context = "ct_base"
      BY <1>2, RootContext DEF Stacked, current_context
    <3>3. ~(Len(path) <= 2)
      BY <3>1, <3>2
    <3>. QED  BY <1>5, <3>3, \A n \in Nat : ~(n <= 2) => n # 1
  <2>6. Carries(agenda', path)
    BY <1>5, <1>7, <2>5 DEF Carries
  <2>7. HeadFits(agenda', path, current_context)
    BY <2>1, <2>2, <2>4 DEF HeadFits, CloseToProcs, AtRootProcs
  <2>. QED  BY <1>1, <1>4, <1>7, <2>4, <2>6, <2>7, Remains
<1>8. CASE agenda' = rest /\ UNCHANGED path
  <2>1. HeadFits(agenda', path, current_context) /\ AgendaOK(agenda')
    BY <1>3, <1>8, PlainHead
  <2>. QED  BY <1>1, <1>4, <1>8, <2>1, Remains
<1>. QED  BY <1>1, <1>6, <1>7, <1>8

LEMMA ParsingCloseToLine ==
  ASSUME Parsing, CloseToLine
  PROVE  Parsing' /\ UNCHANGED status
<1>1. /\ Running(CloseToProcs) /\ UNCHANGED line_empty
      /\ AtOpenedLine => /\ agenda' = <<T("end_line", CM_NONE)>> \o rest
                         /\ UNCHANGED <<path, stacks, count_items, conditional_stack, status>>
      /\ ~AtOpenedLine => close_current(FALSE)
  BY DEF CloseToLine, CloseToProcs
<1>2. task.proc \in CloseToProcs /\ task = agenda[1] /\ agenda # <<>> /\ AgendaOK(agenda)
      /\ Stacked /\ conditional_stack \in Seq(Commands) /\ line_empty \in BOOLEAN
      /\ (~ClosesAll(task) => Plain(rest)) /\ HeadFits(agenda, path, current_context)
  BY <1>1, AtTask
<1>3. Plain(rest) /\ task.proc \notin UnbracedProcs
  BY <1>2 DEF CloseToProcs, ClosesAll, UnbracedProcs
<1>4. /\ current.type # "unbraced"
      /\ current.type # "ET_brace_command" => Holds(current)
  BY <1>1, <1>3, Where
<1>5. /\ current = Last(path) /\ current \in Element /\ Kind(current) /\ PathOK(path)
      /\ Len(path) \in Nat /\ Len(path) > 0 /\ current.type \in Types
      /\ Len(path) > 1 => parent = Last(Front(path)) /\ Fits(parent, current)
      /\ current.cmd \in AllCommands
  BY <1>2, InPath
<1>6. /\ task.proc = "close_to_line" => current_context = "ct_line"
      /\ task.proc = "close_to_def" => current_context = "ct_def"
  BY <1>2 DEF HeadFits
<1>7. current_context # "ct_base"
  BY <1>2, <1>6 DEF CloseToProcs
<1>8. Len(path) > 2
  <2>1. Len(path) <= 2 => current_context = "ct_base"
    BY <1>2, RootContext DEF Stacked, current_context
  <2>2. ~(Len(path) <= 2)
    BY <1>7, <2>1
  <2>. QED  BY <1>5, <2>2, \A n \in Nat : ~(n <= 2) => n > 2
<1>9. Len(path) > 1 /\ Len(path) # 1
  BY <1>5, <1>8, \A n \in Nat : n > 2 => n > 1 /\ n # 1
<1>10. /\ task.proc = "close_to_def" => (AtOpenedLine <=> EF_def_line(parent))
       /\ task.proc = "close_to_line" =>
            (AtOpenedLine <=> current.type \in {"ET_line_arg", "ET_block_line_arg"})
  BY <1>9 DEF AtOpenedLine
<1>11. CASE AtOpenedLine
  <2>1. current.type # "ET_brace_command"
    <3>1. CASE task.proc = "close_to_line"
      BY <1>10, <1>11, <3>1
    <3>2. CASE task.proc = "close_to_def"
      <4>1. EF_def_line(parent)
        BY <1>10, <1>11, <3>2
      <4>2. parent.type = "ET_def_line" \/ (parent.type = "ET_line_command" /\ Has(parent.cmd, "CF_def"))
        BY <4>1 DEF EF_def_line
      <4>3. ~Holds(parent)
        <5>1. parent.type = "ET_line_command" => Has(parent.cmd, "CF_line")
          <6>1. PathOK(Front(path))
            BY <1>5, <1>9, PathFront
          <6>. QED  BY <1>5, <1>9, <6>1, PathLast DEF Kind
        <5>2. parent.cmd \in AllCommands
          BY <1>5, <1>9, PathFront, PathLast
        <5>3. parent.type = "ET_line_command" => ~Has(parent.cmd, "CF_root")
          BY <4>2, <5>2, RootNotDef
        <5>. QED  BY <4>2, <5>3 DEF Holds
      <4>. QED  BY <1>5, <1>9, <4>3 DEF Fits, ContentTypes, BraceArguments, LineTypes
    <3>. QED  BY <1>2, <3>1, <3>2 DEF CloseToProcs
  <2>2. Open(path)
    BY <1>4, <1>5, <1>9, <2>1 DEF Open
  <2>3. Plain(agenda')
    BY <1>1, <1>3, <1>11, FreeTask DEF FreeProcs
  <2>4. Stacked' /\ Open(path')
    BY <1>1, <1>2, <1>11, <2>2 DEF Stacked, stacks
  <2>. QED  BY <1>1, <1>2, <1>11, <2>3, <2>4, Arrived
<1>12. CASE ~AtOpenedLine
  <2>1. close_current(FALSE)
    BY <1>1, <1>12
  <2>2. ~IsRoot(current)
    BY <1>5, <1>8, PathLast
  <2>3. ContextOf(current) # None => current_context = ContextOf(current)
    BY <1>2, <1>5, InnermostContext DEF Stacked, current_context
  <2>4. current.type \notin {"ET_line_arg", "ET_block_line_arg"}
    <3>1. SUFFICES ASSUME current.type \in {"ET_line_arg", "ET_block_line_arg"} PROVE FALSE
      OBVIOUS
    <3>2. task.proc = "close_to_def" /\ current_context = "ct_def" /\ ~EF_def_line(parent)
      BY <1>2, <1>6, <1>10, <1>12, <3>1 DEF CloseToProcs
    <3>3. ContextOf(current) = LineContext(current.cmd)
      BY <3>1 DEF ContextOf, LineContext
    <3>4. Has(current.cmd, "CF_def")
      BY <2>3, <3>2, <3>3 DEF LineContext, None
    <3>5. ~Has(current.cmd, "CF_root")
      BY <1>5, <3>4, RootNotDef
    <3>6. /\ current.type = "ET_line_arg" => parent = E("ET_line_command", current.cmd)
          /\ current.type = "ET_block_line_arg" => parent = E("ET_def_line", current.cmd)
      BY <1>5, <1>9, <3>4, <3>5 DEF Fits
    <3>7. EF_def_line(parent)
      BY <3>1, <3>4, <3>6 DEF EF_def_line, E
    <3>. QED  BY <3>2, <3>7
  <2>5. ContextOf(current) = None
    <3>1. ContextOf(current) \notin {"ct_line", "ct_def"}
      BY <2>4, <1>4 DEF ContextOf, BraceContext, BlockContext, None
    <3>. QED  BY <1>2, <1>6, <2>3, <3>1 DEF CloseToProcs
  <2>6. /\ Stacked' /\ UNCHANGED <<status, agenda, conditional_stack>>
        /\ \/ Open(path')
           \/ Len(path') > 1 /\ Last(path').type = "ET_brace_command"
        /\ UNCHANGED context_stack
    BY <1>2, <1>4, <1>9, <2>1, <2>2, <2>4, <2>5, CloseCurrent
  <2>7. /\ AgendaOK(agenda') /\ agenda' # <<>> /\ agenda'[1] = task
        /\ conditional_stack' \in Seq(Commands) /\ line_empty' \in BOOLEAN
        /\ current_context' = current_context
    BY <1>1, <1>2, <2>6 DEF current_context
  <2>8. Parsing'
    BY <1>2, <1>6, <2>6, <2>7, Reached
  <2>. QED  BY <2>6, <2>8
<1>. QED  BY <1>11, <1>12

(* A brace command waits for its {. *)
LEMMA Waits ==
  ASSUME Stacked', Last(path').type = "unbraced", agenda' = <<>>,
         conditional_stack' \in Seq(Commands), line_empty' \in BOOLEAN
  PROVE  Parsing'
<1>1. Len(path') # 1
  <2>1. PathOK(path')
    BY DEF Stacked, Tree
  <2>. QED  BY <2>1, PathLast
<1>2. AgendaOK(<<>>)
  BY NoTasks DEF Plain
<1>3. \A k \in DOMAIN <<>> : FALSE
  OBVIOUS
<1>4. Carries(<<>>, path')
  BY <1>1, <1>3 DEF Carries
<1>5. HeadFits(<<>>, path', current_context')
  BY DEF HeadFits
<1>6. AgendaFits(<<>>, path', current_context')
  BY <1>4, <1>5 DEF AgendaFits
<1>. QED  BY <1>2, <1>6 DEF Parsing, Parse, Stacked, current_context

(* A task and the last one after it. *)
LEMMA PairTasks ==
  ASSUME NEW x \in Task, TaskOK(x), x.proc \in FreeProcs,
         NEW y \in Task, TaskOK(y), y.proc \notin CloseToProcs,
         y.proc \in AtRootProcs => ClosesAll(x)
  PROVE  /\ Plain(<<x, y>>) /\ <<x, y>> # <<>> /\ Last(<<x, y>>) = y
         /\ \A k \in DOMAIN <<x, y>> : <<x, y>>[k].proc \in {x.proc, y.proc}
<1>. DEFINE a == <<x, y>>
<1>1. /\ a \in Seq(Task) /\ a # <<>> /\ Len(a) = 2 /\ a[1] = x /\ a[2] = y
      /\ DOMAIN a = 1 .. 2
  OBVIOUS
<1>2. Last(a) = y
  BY <1>1 DEF Last
<1>. HIDE DEF a
<1>3. \A k \in DOMAIN a : k = 1 \/ k = 2
  BY <1>1
<1>4. \A k \in DOMAIN a : TaskOK(a[k])
  BY <1>1, <1>3
<1>5. x.proc \notin FinalProcs /\ x.proc \notin CloseToProcs /\ x.proc \notin AtRootProcs
  BY DEF FreeProcs, FinalProcs, CloseToProcs, AtRootProcs
<1>6. \A k \in DOMAIN a : k < Len(a) => a[k].proc \notin FinalProcs
  BY <1>1, <1>3, <1>5
<1>7. \A k \in DOMAIN a : k > 1 => k = 2
  BY <1>3
<1>8. \A k \in DOMAIN a : k > 1 => a[k].proc \notin CloseToProcs
  BY <1>1, <1>7
<1>9. \A k \in DOMAIN a : k > 1 /\ a[k].proc \in AtRootProcs => ClosesAll(a[k - 1])
  <2>1. TAKE k \in DOMAIN a
  <2>2. HAVE k > 1 /\ a[k].proc \in AtRootProcs
  <2>3. k = 2 /\ k - 1 = 1
    BY <1>7, <2>2
  <2>. QED  BY <1>1, <2>2, <2>3
<1>10. Plain(a)
  BY <1>1, <1>4, <1>5, <1>6, <1>8, <1>9 DEF AgendaOK, Plain
<1>11. \A k \in DOMAIN a : a[k].proc \in {x.proc, y.proc}
  BY <1>1, <1>3
<1>. QED  BY <1>1, <1>2, <1>10, <1>11 DEF a

LEMMA ParsingHandleCloseBrace ==
  ASSUME Parsing, HandleCloseBrace
  PROVE  Parsing' /\ UNCHANGED status
<1>. DEFINE s == IF close_preformatted_command(parent.cmd)
                 THEN <<T("begin_preformatted", CM_NONE)>> ELSE <<>>
<1>1. /\ Running({"close_brace"})
      /\ UNCHANGED <<count_items, conditional_stack, line_empty>>
      /\ \/ /\ current.type \in {"ET_balanced_braces", "ET_bracketed_arg"}
            /\ path' = Front(path) /\ agenda' = rest /\ UNCHANGED <<stacks, status>>
         \/ /\ parent.type = "ET_brace_command"
            /\ close_brace_command(Front(path))
            /\ agenda' = s \o rest
         \/ agenda' = rest /\ UNCHANGED <<path, stacks, status>>
  BY DEF HandleCloseBrace
<1>2. task.proc = "close_brace" /\ Stacked
      /\ conditional_stack \in Seq(Commands) /\ line_empty \in BOOLEAN
      /\ (~ClosesAll(task) => Plain(rest))
  BY <1>1, AtTask
<1>3. Plain(rest) /\ task.proc \notin ByeProcs \cup UnbracedProcs \cup {"closing"} \cup CloseToProcs
  BY <1>2 DEF ClosesAll, ByeProcs, UnbracedProcs, CloseToProcs
<1>4. Open(path)
  BY <1>1, <1>3, Where
<1>5. /\ current = Last(path) /\ current \in Element /\ Kind(current) /\ PathOK(path)
      /\ Len(path) > 1 /\ parent = Last(Front(path))
  BY <1>2, <1>4, InPath DEF Open
<1>6. CASE /\ current.type \in {"ET_balanced_braces", "ET_bracketed_arg"}
           /\ path' = Front(path) /\ agenda' = rest /\ UNCHANGED <<stacks, status>>
  <2>1. ~IsRoot(current)
    BY <1>5, <1>6, NotRoot
  <2>2. current.type \in ContentTypes /\ current.type \in PlainTypes
    BY <1>6 DEF ContentTypes, PlainTypes, LineTypes, Types, CommandTypes, BraceArguments
  <2>3. /\ Tree(Front(path), context_stack, nesting_context, count_remaining_args, count_items)
        /\ Open(Front(path))
    BY <1>2, <1>5, <2>1, <2>2, ContentClosed DEF Stacked
  <2>4. Stacked' /\ Open(path') /\ Plain(agenda')
    BY <1>1, <1>3, <1>6, <2>3 DEF Stacked, stacks
  <2>. QED  BY <1>1, <1>2, <1>6, <2>4, Arrived
<1>7. CASE /\ parent.type = "ET_brace_command"
           /\ close_brace_command(Front(path))
           /\ agenda' = s \o rest
  <2>1. Last(path).type \in BraceArguments
    BY <1>5, <1>7, InBraceCommand
  <2>2. /\ Tree(Front(path), context_stack, nesting_context, count_remaining_args, count_items)
        /\ Last(Front(path)).type = "ET_brace_command"
    BY <1>2, <2>1, BraceArgumentClosed DEF Stacked
  <2>3. Stacked' /\ Open(path') /\ UNCHANGED status
    BY <1>1, <1>7, <2>2, CloseBraceCommand
  <2>4. s \in {<<>>, <<T("begin_preformatted", CM_NONE)>>}
    OBVIOUS
  <2>. HIDE DEF s
  <2>5. Plain(agenda')
    BY <1>3, <1>7, <2>4, MaybeBegin
  <2>. QED  BY <1>1, <1>2, <2>3, <2>5, Arrived
<1>8. CASE agenda' = rest /\ UNCHANGED <<path, stacks, status>>
  <2>1. Stacked' /\ Open(path') /\ Plain(agenda')
    BY <1>1, <1>2, <1>3, <1>4, <1>8 DEF Stacked, stacks
  <2>. QED  BY <1>1, <1>2, <1>8, <2>1, Arrived
<1>. QED  BY <1>1, <1>6, <1>7, <1>8

(* Two tasks that may be done at the root and after a brace command. *)
LEMMA PairCarries ==
  ASSUME NEW x \in Task, TaskOK(x), x.proc \in FreeProcs,
         NEW y \in Task, TaskOK(y), y.proc \notin CloseToProcs,
         y.proc \in AtRootProcs => ClosesAll(x), EndsParse(y), NEW p,
         Last(p).type = "unbraced" =>
           x.proc \in UnbracedProcs /\ y.proc \in UnbracedProcs,
         Len(p) = 1 => x.proc \in ByeProcs /\ y.proc \in ByeProcs
  PROVE  Carries(<<x, y>>, p)
<1>. DEFINE a == <<x, y>>
<1>1. a # <<>> /\ Last(a) = y /\ \A k \in DOMAIN a : a[k].proc \in {x.proc, y.proc}
  BY PairTasks
<1>. HIDE DEF a
<1>2. Carries(a, p)
  BY <1>1 DEF Carries
<1>. QED  BY <1>2 DEF a

LEMMA ParsingFinish ==
  ASSUME Parsing, Finish
  PROVE  Parsing' /\ UNCHANGED status
<1>. DEFINE x == T("close_commands", CM_NONE)
            y == T("end_of_parse", CM_NONE)
<1>1. /\ Running({"finish"}) /\ conditional_stack' = <<>> /\ agenda' = <<x, y>>
      /\ UNCHANGED <<path, stacks, count_items, line_empty, status>>
  BY DEF Finish
<1>2. task.proc = "finish" /\ line_empty \in BOOLEAN
  BY <1>1, AtTask
<1>3. current.type # "ET_brace_command"
  BY <1>1, <1>2, Where DEF CloseToProcs
<1>4. /\ x \in Task /\ x.proc = "close_commands" /\ x.cmd = CM_NONE
      /\ y \in Task /\ y.proc = "end_of_parse"
  BY DEF T, Task, Procs, AllCommands
<1>. HIDE DEF x, y
<1>5. /\ TaskOK(x) /\ TaskOK(y) /\ x.proc \in FreeProcs /\ y.proc \notin CloseToProcs
      /\ ClosesAll(x) /\ EndsParse(y)
      /\ x.proc \in UnbracedProcs /\ y.proc \in UnbracedProcs
      /\ x.proc \in ByeProcs /\ y.proc \in ByeProcs
  BY <1>4 DEF TaskOK, FreeProcs, CloseToProcs, ClosesAll, EndsParse, UnbracedProcs, ByeProcs
<1>6. Plain(<<x, y>>) /\ Carries(<<x, y>>, path)
  BY <1>4, <1>5, PairTasks, PairCarries
<1>7. HeadFits(agenda', path, current_context) /\ AgendaOK(agenda')
  BY <1>1, <1>6, PlainHead
<1>8. conditional_stack' \in Seq(Commands)
  BY <1>1
<1>. QED  BY <1>1, <1>2, <1>3, <1>6, <1>7, <1>8, Stays

LEMMA ParsingTypes ==
  ASSUME Parsing, status = "parsing"
  PROVE  TypeOK
<1>1. /\ Stacked /\ AgendaOK(agenda) /\ conditional_stack \in Seq(Commands)
      /\ line_empty \in BOOLEAN
  BY DEF Parsing, Parse, Stacked
<1>2. /\ context_stack \in Seq(ContextEntry) /\ nesting_context \in NestingContext
      /\ count_remaining_args \in Seq(Counter) /\ count_items \in Seq(Counter)
  BY <1>1, StacksParts DEF Stacked, Tree
<1>3. path \in Seq(Element) /\ path # <<>> /\ agenda \in Seq(Task)
  BY <1>1 DEF Stacked, Tree, PathOK, AgendaOK
<1>. QED  BY <1>1, <1>2, <1>3 DEF TypeOK

LEMMA ParsingEnds ==
  ASSUME Parsing, EndOfParse
  PROVE  TypeOK' /\ status' = "finished"
<1>1. /\ Running({"end_of_parse"}) /\ agenda' = <<>> /\ path' = <<path[1]>>
      /\ context_stack' = Front(context_stack)
      /\ status' = IF /\ current_context \in {"ct_base", "ct_line"}
                      /\ Front(context_stack) = <<>>
                   THEN "finished" ELSE "fatal"
      /\ UNCHANGED <<nesting_context, count_remaining_args, count_items,
                     conditional_stack, line_empty>>
  BY DEF EndOfParse
<1>2. /\ task.proc = "end_of_parse" /\ task = agenda[1] /\ agenda # <<>> /\ Stacked
      /\ HeadFits(agenda, path, current_context) /\ status = "parsing"
  BY <1>1, AtTask
<1>3. Len(path) <= 2
  BY <1>2 DEF HeadFits, AtRootProcs
<1>4. current_context = "ct_base" /\ Front(context_stack) = <<>>
  BY <1>2, <1>3, RootContext DEF Stacked, current_context
<1>5. TypeOK
  BY <1>2, ParsingTypes
<1>6. path[1] \in Element
  BY <1>5 DEF TypeOK
<1>7. <<path[1]>> \in Seq(Element) /\ <<path[1]>> # <<>>
  BY <1>6
<1>8. context_stack' = <<>> /\ status' = "finished"
  BY <1>1, <1>4
<1>. QED  BY <1>1, <1>5, <1>7, <1>8 DEF TypeOK

(* The line of a command is added below the element at the end of p. *)
LEMMA OpenLineCommand ==
  ASSUME NEW p, Tree(p, context_stack, nesting_context, count_remaining_args, count_items),
         Open(p), NEW c \in Commands, Has(c, "CF_line"), ~Has(c, "CF_root"),
         OpenLine(c, p), UNCHANGED count_items
  PROVE  Stacked' /\ Open(path')
<1>. DEFINE r == Append(p, E("ET_line_command", c))
            k == IF CountsArgs(c)
                 THEN PushedCounter(count_remaining_args, Len(p) + 1, RemainingArgs(c))
                 ELSE count_remaining_args
            q == Append(r, E("ET_line_arg", c))
<1>1. /\ Tree(q, PushedContext(context_stack, Len(r) + 1, LineContext(c), c),
              LineOpened(nesting_context, Len(r) + 1, c), k, count_items)
      /\ Open(q)
  BY LineCommandOpened
<1>2. /\ path' = q
      /\ context_stack' = PushedContext(context_stack, Len(r) + 1, LineContext(c), c)
      /\ nesting_context' = LineOpened(nesting_context, Len(r) + 1, c)
      /\ count_remaining_args' = k
  BY DEF OpenLine, LineContext, LineOpened
<1>. QED  BY <1>1, <1>2 DEF Stacked

LEMMA OpenLineRoot ==
  ASSUME NEW p, Tree(p, context_stack, nesting_context, count_remaining_args, count_items),
         Len(p) = 1, NEW c \in Commands, Has(c, "CF_root"),
         OpenLine(c, p), UNCHANGED count_items
  PROVE  Stacked' /\ Open(path')
<1>. DEFINE r == Append(Append(p, E("ET_line_command", c)), E("ET_arguments_line", c))
            k == IF CountsArgs(c)
                 THEN PushedCounter(count_remaining_args, Len(p) + 1, RemainingArgs(c))
                 ELSE count_remaining_args
            q == Append(r, E("ET_line_arg", c))
<1>1. /\ Tree(q, PushedContext(context_stack, Len(r) + 1, LineContext(c), c),
              LineOpened(nesting_context, Len(r) + 1, c), k, count_items)
      /\ Open(q)
  BY RootCommandOpened
<1>2. /\ path' = q
      /\ context_stack' = PushedContext(context_stack, Len(r) + 1, LineContext(c), c)
      /\ nesting_context' = LineOpened(nesting_context, Len(r) + 1, c)
      /\ count_remaining_args' = k
  BY DEF OpenLine, LineContext, LineOpened
<1>. QED  BY <1>1, <1>2 DEF Stacked

(* @bye: the line is taken as it is at the root, and then parsing ends. *)
LEMMA ByeTasks ==
  ASSUME NEW p, Last(p).type # "unbraced"
  PROVE  LET a == <<T("end_line", CM_NONE), T("raw_line", "bye")>>
         IN "bye" \in Commands => Plain(a) /\ Carries(a, p)
<1>. DEFINE x == T("end_line", CM_NONE)
            y == T("raw_line", "bye")
<1>1. SUFFICES ASSUME "bye" \in Commands PROVE Plain(<<x, y>>) /\ Carries(<<x, y>>, p)
  OBVIOUS
<1>2. /\ x \in Task /\ x.proc = "end_line" /\ x.cmd = CM_NONE
      /\ y \in Task /\ y.proc = "raw_line" /\ EndsParse(y)
  BY <1>1 DEF T, Task, Procs, AllCommands, EndsParse
<1>. HIDE DEF x, y
<1>3. /\ TaskOK(x) /\ TaskOK(y) /\ x.proc \in FreeProcs /\ y.proc \notin CloseToProcs
      /\ y.proc \notin AtRootProcs /\ x.proc \in ByeProcs /\ y.proc \in ByeProcs
  BY <1>2 DEF TaskOK, FreeProcs, CloseToProcs, AtRootProcs, ByeProcs
<1>. QED  BY <1>2, <1>3, PairTasks, PairCarries

LEMMA ParsingRootCommand ==
  ASSUME Parsing, RootCommand
  PROVE  Parsing' /\ UNCHANGED status
<1>. DEFINE c == task.cmd
            p == Front(path)
            a == <<T("end_line", CM_NONE), T("raw_line", "bye")>>
<1>1. /\ Running({"root_command"})
      /\ status' = IF Len(path) = 1 THEN "fatal" ELSE status
      /\ UNCHANGED <<count_items, conditional_stack, line_empty>>
      /\ c = "bye" => path' = p /\ agenda' = a \o rest /\ UNCHANGED stacks
      /\ c # "bye" => agenda' = rest /\ OpenLine(c, p)
  BY DEF RootCommand
<1>2. /\ task.proc = "root_command" /\ task = agenda[1] /\ agenda # <<>> /\ Stacked
      /\ conditional_stack \in Seq(Commands) /\ line_empty \in BOOLEAN
      /\ TaskOK(task) /\ (task.proc \in FinalProcs => rest = <<>>)
      /\ HeadFits(agenda, path, current_context)
  BY <1>1, AtTask
<1>3. /\ Len(path) = 2 /\ rest = <<>>
      /\ c \in Commands /\ (Has(c, "CF_root") \/ c = "bye")
      /\ task.proc \notin UnbracedProcs
  BY <1>2 DEF HeadFits, FinalProcs, TaskOK, UnbracedProcs
<1>4. UNCHANGED status
  BY <1>1, <1>3
<1>5. /\ current = Last(path) /\ current \in Element /\ Kind(current) /\ PathOK(path)
      /\ IsRoot(current) /\ Len(path) > 1 /\ path \in Seq(Element)
  BY <1>2, <1>3, InPath, PathLast
<1>6. current.type \in PlainTypes
  BY <1>5, RootTypes DEF PlainTypes, Types, CommandTypes
<1>7. /\ PathOK(p) /\ Len(p) = 1
      /\ StacksOK(p, context_stack, nesting_context, count_remaining_args, count_items)
  <2>1. StacksOK(path, context_stack, nesting_context, count_remaining_args, count_items)
    BY <1>2 DEF Stacked, Tree
  <2>2. PathOK(p) /\ Len(p) = Len(path) - 1
    BY <1>5, PathFront
  <2>3. Len(p) = 1
    BY <1>3, <2>2
  <2>4. StacksOK(p, context_stack, nesting_context, count_remaining_args, count_items)
    BY <1>5, <1>6, <2>1, PlainFront
  <2>. QED  BY <2>2, <2>3, <2>4
<1>8. Tree(p, context_stack, nesting_context, count_remaining_args, count_items)
  BY <1>7 DEF Tree
<1>9. CASE c = "bye"
  <2>1. Last(p).type = "ET_document_root"
    BY <1>7, PathLast
  <2>2. Last(p).type # "unbraced" /\ Last(p).type # "ET_brace_command" /\ Holds(Last(p))
    BY <2>1 DEF Holds
  <2>3. Plain(a) /\ Carries(a, p)
    BY <1>3, <1>9, <2>2, ByeTasks
  <2>4. agenda' = a
    <3>1. a \in Seq(Task)
      BY <2>3, PlainSeq
    <3>. HIDE DEF a
    <3>2. a \o <<>> = a
      BY <3>1
    <3>. QED  BY <1>1, <1>3, <1>9, <3>2
  <2>. HIDE DEF a
  <2>5. path' = p /\ UNCHANGED <<stacks, count_items>>
    BY <1>1, <1>9
  <2>6. AgendaOK(a) /\ HeadFits(a, p, current_context)
    BY <2>3, PlainHead
  <2>7. AgendaFits(a, p, current_context)
    BY <2>2, <2>3, <2>6 DEF AgendaFits
  <2>8. Parsing'
    BY <1>1, <1>2, <1>8, <2>4, <2>5, <2>6, <2>7 DEF Parsing, Parse, stacks, current_context
  <2>. QED  BY <1>4, <2>8
<1>10. CASE c # "bye"
  <2>1. agenda' = <<>> /\ OpenLine(c, p) /\ Has(c, "CF_root")
    BY <1>1, <1>3, <1>10
  <2>2. Stacked' /\ Open(path')
    BY <1>1, <1>3, <1>7, <1>8, <2>1, OpenLineRoot
  <2>3. Plain(agenda')
    BY <2>1, NoTasks
  <2>. QED  BY <1>1, <1>2, <1>4, <2>2, <2>3, Arrived
<1>. QED  BY <1>9, <1>10

LEMMA ParsingRawLine ==
  ASSUME Parsing, RawLine
  PROVE  Parsing' /\ UNCHANGED status
<1>. DEFINE s == IF close_preformatted_command(task.cmd)
                 THEN <<T("begin_preformatted", CM_NONE)>> ELSE <<>>
            y == T("finish", CM_NONE)
<1>1. /\ Running({"raw_line"}) /\ line_empty' = TRUE
      /\ UNCHANGED <<path, stacks, count_items, conditional_stack, status>>
      /\ task.cmd = "bye" => agenda' = <<y>>
      /\ task.cmd # "bye" => agenda' = s \o rest \/ agenda' = rest
  BY DEF RawLine
<1>2. /\ task.proc = "raw_line" /\ task = agenda[1] /\ agenda # <<>> /\ Stacked
      /\ conditional_stack \in Seq(Commands) /\ AgendaOK(agenda)
      /\ (task.proc \in FinalProcs => rest = <<>>) /\ (~ClosesAll(task) => Plain(rest))
  BY <1>1, AtTask
<1>3. rest = <<>> /\ Plain(rest) /\ task.proc \notin UnbracedProcs
      /\ task.proc \notin {"closing"} \cup CloseToProcs
  BY <1>2 DEF FinalProcs, ClosesAll, UnbracedProcs, CloseToProcs
<1>4. /\ current.type # "ET_brace_command" /\ current.type # "unbraced"
      /\ Carries(agenda, path) /\ Holds(current)
  BY <1>1, <1>3, Where
<1>5. current = Last(path) /\ Len(path) \in Nat /\ Len(path) > 0
  BY <1>2, InPath
<1>6. CASE task.cmd = "bye"
  <2>1. /\ y \in Task /\ y.proc = "finish" /\ TaskOK(y) /\ EndsParse(y)
        /\ y.proc \notin AtRootProcs \cup CloseToProcs /\ y.proc \in ByeProcs
    BY DEF T, Task, Procs, AllCommands, TaskOK, EndsParse, AtRootProcs, CloseToProcs, ByeProcs
  <2>. HIDE DEF y
  <2>2. Plain(<<y>>)
    BY <2>1, Alone
  <2>3. <<y>> # <<>> /\ Last(<<y>>) = y /\ \A k \in DOMAIN <<y>> : <<y>>[k] = y
    BY DEF Last
  <2>4. Carries(<<y>>, path)
    BY <1>4, <1>5, <2>1, <2>3 DEF Carries
  <2>5. AgendaOK(agenda') /\ Carries(agenda', path) /\ HeadFits(agenda', path, current_context)
    BY <1>1, <1>6, <2>2, <2>4, PlainHead
  <2>. QED  BY <1>1, <1>2, <1>4, <2>5, Stays
<1>7. CASE task.cmd # "bye"
  <2>1. Last(agenda) = task
    BY <1>2, <1>3, Uncons DEF AgendaOK, task, rest
  <2>2. ~EndsParse(task)
    BY <1>2, <1>7 DEF EndsParse, T
  <2>3. Len(path) # 1
    BY <1>4, <2>1, <2>2 DEF Carries
  <2>4. Open(path)
    BY <1>4, <1>5, <2>3, \A n \in Nat : n > 0 /\ n # 1 => n > 1 DEF Open
  <2>5. s \in {<<>>, <<T("begin_preformatted", CM_NONE)>>}
    OBVIOUS
  <2>. HIDE DEF s
  <2>6. Plain(agenda')
    BY <1>1, <1>3, <1>7, <2>5, MaybeBegin
  <2>7. Stacked' /\ Open(path')
    BY <1>1, <1>2, <2>4 DEF Stacked, stacks
  <2>. QED  BY <1>1, <1>2, <2>6, <2>7, Arrived
<1>. QED  BY <1>6, <1>7

LEMMA ParsingCommandBeginsParagraph ==
  ASSUME Parsing, CommandBeginsParagraph
  PROVE  Parsing' /\ UNCHANGED status
<1>1. /\ Running({"command"})
      /\ path' = Append(path, E("ET_paragraph", CM_NONE))
      /\ context_stack' = PushedContext(context_stack, Len(path) + 1, "ct_paragraph", CM_NONE)
      /\ UNCHANGED <<nesting_context, count_remaining_args, count_items,
                     conditional_stack, agenda, line_empty, status>>
  BY DEF CommandBeginsParagraph
<1>2. /\ task.proc = "command" /\ Stacked /\ conditional_stack \in Seq(Commands)
      /\ line_empty \in BOOLEAN
      /\ (task.proc \notin AtRootProcs \cup CloseToProcs => Plain(agenda))
  BY <1>1, AtTask
<1>3. Plain(agenda) /\ task.proc \notin ByeProcs \cup UnbracedProcs \cup {"closing"} \cup CloseToProcs
  BY <1>2 DEF AtRootProcs, ByeProcs, UnbracedProcs, CloseToProcs
<1>4. Open(path)
  BY <1>1, <1>3, Where
<1>5. /\ Tree(path', context_stack', nesting_context, count_remaining_args, count_items)
      /\ Open(path')
  BY <1>1, <1>2, <1>4, ParagraphOpened DEF Stacked
<1>6. Stacked' /\ Plain(agenda')
  BY <1>1, <1>3, <1>5 DEF Stacked
<1>. QED  BY <1>1, <1>2, <1>5, <1>6, Arrived

LEMMA AtCommand ==
  ASSUME Parsing, Running({"command"})
  PROVE  /\ task.cmd \in Commands /\ rest = <<>> /\ Stacked /\ Open(path)
         /\ conditional_stack \in Seq(Commands) /\ line_empty \in BOOLEAN
         /\ current = Last(path) /\ current \in Element /\ Kind(current) /\ PathOK(path)
         /\ Len(path) > 1 /\ parent = Last(Front(path))
<1>1. /\ task.proc = "command" /\ Stacked /\ conditional_stack \in Seq(Commands)
      /\ line_empty \in BOOLEAN /\ TaskOK(task)
      /\ (task.proc \in FinalProcs => rest = <<>>)
  BY AtTask
<1>2. /\ task.proc \notin ByeProcs \cup UnbracedProcs \cup {"closing"} \cup CloseToProcs
      /\ task.cmd \in Commands /\ rest = <<>>
  BY <1>1 DEF TaskOK, FinalProcs, ByeProcs, UnbracedProcs, CloseToProcs
<1>3. Open(path) /\ Len(path) > 1
  BY <1>2, Where DEF Open
<1>. QED  BY <1>1, <1>2, <1>3, InPath

(* The number of the last item is changed. *)
LEMMA Numbered ==
  ASSUME NEW p, NEW cs, NEW n, NEW cra, NEW ci, Tree(p, cs, n, cra, ci),
         NEW k, k = [ci EXCEPT ![Len(ci)].value = IF @ < MaxItems THEN @ + 1 ELSE @]
  PROVE  Tree(p, cs, n, cra, k)
<1>1. StacksOK(p, cs, n, cra, ci) /\ ci \in Seq(Counter) /\ ItemsOK(p, ci)
  BY StacksParts DEF Tree
<1>2. \A x \in Counter : [x EXCEPT !.value = IF @ < MaxItems THEN @ + 1 ELSE @] \in Counter
  <2>1. \A v \in Int : (IF v < MaxItems THEN v + 1 ELSE v) \in Int
    OBVIOUS
  <2>. QED  BY <2>1 DEF Counter
<1>3. /\ k \in Seq(Counter) /\ Len(k) = Len(ci)
  <2>1. DOMAIN k = 1 .. Len(ci) /\ Len(ci) \in Nat /\ \A j \in DOMAIN ci : ci[j] \in Counter
    BY <1>1
  <2>2. \A j \in 1 .. Len(ci) : k[j] \in Counter
    BY <1>1, <1>2, <2>1
  <2>3. k = [j \in 1 .. Len(ci) |-> k[j]]
    BY <2>1
  <2>4. k \in [1 .. Len(ci) -> Counter]
    BY <2>2, <2>3, <2>1
  <2>5. k \in Seq(Counter)
    BY <2>1, <2>4, SeqDef
  <2>. QED  BY <2>1, <2>5
<1>4. ItemsOK(p, k)
  BY <1>1, <1>3 DEF ItemsOK
<1>5. StacksOK(p, cs, n, cra, k)
  BY <1>1, <1>3, <1>4 DEF StacksOK, StacksTypes
<1>. QED  BY <1>5 DEF Tree

LEMMA ParsingNobraceCommand ==
  ASSUME Parsing, Running({"command"}), NobraceCommand(task.cmd),
         UNCHANGED <<conditional_stack, line_empty, status>>
  PROVE  Parsing'
<1>. DEFINE c == task.cmd
            s == IF \/ c \in {"item", "headitem", "tab"}
                    \/ /\ data[c] = "NOBRACE_other"
                       /\ close_preformatted_command(c)
                 THEN <<T("begin_preformatted", CM_NONE)>> ELSE <<>>
            e == E("ET_nobrace_command", c)
            k == [count_items EXCEPT ![Len(count_items)].value =
                    IF @ < MaxItems THEN @ + 1 ELSE @]
<1>1. /\ Has(c, "CF_nobrace") /\ agenda' = s \o rest /\ UNCHANGED stacks
      /\ \/ c = "item" /\ item_container_parent /\ path' = Append(Front(path), e)
            /\ count_items' = k
         \/ UNCHANGED <<path, count_items>>
  BY DEF NobraceCommand
<1>2. /\ c \in Commands /\ rest = <<>> /\ Stacked /\ Open(path)
      /\ conditional_stack \in Seq(Commands) /\ line_empty \in BOOLEAN
      /\ current = Last(path) /\ current \in Element /\ Kind(current) /\ PathOK(path)
      /\ Len(path) > 1
  BY AtCommand
<1>3. Plain(agenda')
  <2>1. s \in {<<>>, <<T("begin_preformatted", CM_NONE)>>}
    OBVIOUS
  <2>. HIDE DEF s
  <2>. QED  BY <1>1, <1>2, <2>1, NoTasks, MaybeBegin
<1>. HIDE DEF s
<1>4. CASE /\ c = "item" /\ item_container_parent /\ path' = Append(Front(path), e)
           /\ count_items' = k
  <2>1. current.type = "ET_before_item" \/ current.type = "ET_nobrace_command"
    <3>1. SUFFICES ASSUME Cmd(current) = "item" PROVE current.type = "ET_nobrace_command"
      BY <1>4 DEF item_container_parent
    <3>2. current.type \in CommandTypes /\ current.cmd = c
      BY <1>2, <1>4, <3>1, CommandData DEF Cmd
    <3>3. ~Has(c, "CF_line") /\ ~Has(c, "CF_brace") /\ ~Has(c, "CF_block")
      BY <1>1, <1>2, Categorised, CommandData DEF Categories
    <3>. QED  BY <1>2, <3>2, <3>3 DEF Kind, CommandTypes
  <2>2. current.type \in ContentTypes /\ current.type \in PlainTypes /\ ~IsRoot(current)
    BY <1>2, <2>1, NotRoot
       DEF ContentTypes, PlainTypes, LineTypes, Types, CommandTypes, BraceArguments
  <2>3. /\ Tree(Front(path), context_stack, nesting_context, count_remaining_args, count_items)
        /\ Open(Front(path))
    BY <1>2, <2>2, ContentClosed DEF Stacked
  <2>4. e \in Element /\ e.type = "ET_nobrace_command" /\ e.cmd = c
    BY <1>2, ElementType DEF Types, CommandTypes
  <2>5. Kind(e) /\ Holds(e)
    BY <1>1, <2>4 DEF Kind, Holds
  <2>6. ~IsRoot(e) /\ e.type \in ContentTypes /\ e.type \in PlainTypes
    BY <2>4, <2>5, NotRoot
       DEF ContentTypes, PlainTypes, LineTypes, Types, CommandTypes, BraceArguments
  <2>. HIDE DEF e, k
  <2>7. /\ Tree(Append(Front(path), e), context_stack, nesting_context,
                count_remaining_args, count_items)
        /\ Open(Append(Front(path), e))
    BY <2>3, <2>4, <2>5, <2>6, ContentOpened DEF Open
  <2>8. Tree(Append(Front(path), e), context_stack, nesting_context, count_remaining_args, k)
    BY <2>7, Numbered DEF k
  <2>9. Stacked' /\ Open(path')
    BY <1>1, <1>4, <2>7, <2>8 DEF Stacked, stacks
  <2>. QED  BY <1>2, <1>3, <2>9, Arrived
<1>5. CASE UNCHANGED <<path, count_items>>
  <2>1. Stacked' /\ Open(path')
    BY <1>1, <1>2, <1>5 DEF Stacked, stacks
  <2>. QED  BY <1>2, <1>3, <2>1, Arrived
<1>. QED  BY <1>1, <1>4, <1>5

LEMMA ParsingItemLine ==
  ASSUME Parsing, Running({"command"}), ItemLine(task.cmd),
         UNCHANGED <<conditional_stack, line_empty>>
  PROVE  Parsing' /\ UNCHANGED status
<1>. DEFINE p == ItemLinePath
<1>1. /\ task.cmd = "item" /\ agenda' = rest /\ OpenLine("item_LINE", p)
      /\ UNCHANGED <<count_items, status>>
  BY DEF ItemLine
<1>2. /\ task.cmd \in Commands /\ rest = <<>> /\ Stacked /\ Open(path)
      /\ conditional_stack \in Seq(Commands) /\ line_empty \in BOOLEAN
      /\ current = Last(path) /\ current \in Element /\ Kind(current) /\ PathOK(path)
      /\ Len(path) > 1
  BY AtCommand
<1>3. "item_LINE" \in Commands /\ Has("item_LINE", "CF_line") /\ ~Has("item_LINE", "CF_root")
  BY <1>1, <1>2, CommandTable
<1>4. /\ Tree(p, context_stack, nesting_context, count_remaining_args, count_items)
      /\ Open(p)
  <2>1. CASE current.type = "ET_before_item"
    <3>1. current.type \in ContentTypes /\ current.type \in PlainTypes /\ ~IsRoot(current)
      BY <1>2, <2>1, NotRoot
         DEF ContentTypes, PlainTypes, LineTypes, Types, CommandTypes, BraceArguments
    <3>. QED  BY <1>2, <2>1, <3>1, ContentClosed DEF Stacked, ItemLinePath
  <2>2. CASE current.type # "ET_before_item"
    BY <1>2, <2>2 DEF Stacked, ItemLinePath
  <2>. QED  BY <2>1, <2>2
<1>. HIDE DEF p
<1>5. Stacked' /\ Open(path')
  BY <1>1, <1>3, <1>4, OpenLineCommand
<1>6. Plain(agenda')
  BY <1>1, <1>2, NoTasks
<1>. QED  BY <1>1, <1>2, <1>5, <1>6, Arrived

LEMMA ParsingLineCommand ==
  ASSUME Parsing, Running({"command"}), LineCommand(task.cmd),
         UNCHANGED <<conditional_stack, line_empty>>
  PROVE  Parsing' /\ UNCHANGED status
<1>. DEFINE c == task.cmd
<1>1. /\ Has(c, "CF_line") /\ UNCHANGED <<count_items, status>>
      /\ \/ /\ Has(c, "CF_root") \/ c = "bye"
            /\ agenda' = <<T("close_commands", CM_NONE), T("root_command", c)>> \o rest
            /\ UNCHANGED <<path, stacks>>
         \/ /\ agenda' = <<T("end_line", CM_NONE), T("raw_line", c)>> \o rest
            /\ UNCHANGED <<path, stacks>>
         \/ ~Has(c, "CF_root") /\ agenda' = rest /\ OpenLine(c, path)
  BY DEF LineCommand
<1>2. /\ c \in Commands /\ rest = <<>> /\ Stacked /\ Open(path)
      /\ conditional_stack \in Seq(Commands) /\ line_empty \in BOOLEAN
  BY AtCommand
<1>3. ASSUME NEW x \in Task, TaskOK(x), x.proc \in FreeProcs,
             NEW y \in Task, TaskOK(y), y.proc \notin CloseToProcs,
             y.proc \in AtRootProcs => ClosesAll(x),
             agenda' = <<x, y>> \o rest, UNCHANGED <<path, stacks>>
      PROVE  Parsing'
  <2>1. <<x, y>> \o <<>> = <<x, y>>
    <3>1. <<x, y>> \in Seq(Task)
      OBVIOUS
    <3>. QED  BY <3>1, ConcatEmptySeq
  <2>2. Plain(<<x, y>>)
    BY <1>3, PairTasks
  <2>3. Plain(agenda')
    BY <1>2, <1>3, <2>1, <2>2
  <2>4. Stacked' /\ Open(path')
    BY <1>1, <1>2, <1>3 DEF Stacked, stacks
  <2>. QED  BY <1>2, <2>3, <2>4, Arrived
<1>4. CASE /\ Has(c, "CF_root") \/ c = "bye"
           /\ agenda' = <<T("close_commands", CM_NONE), T("root_command", c)>> \o rest
           /\ UNCHANGED <<path, stacks>>
  <2>. DEFINE x == T("close_commands", CM_NONE)
              y == T("root_command", c)
  <2>1. /\ x \in Task /\ x.proc = "close_commands" /\ x.cmd = CM_NONE
        /\ y \in Task /\ y.proc = "root_command" /\ y.cmd = c
    BY <1>2 DEF T, Task, Procs, AllCommands
  <2>2. agenda' = <<x, y>> \o rest
    BY <1>4
  <2>. HIDE DEF x, y
  <2>3. /\ TaskOK(x) /\ TaskOK(y) /\ x.proc \in FreeProcs /\ y.proc \notin CloseToProcs
        /\ ClosesAll(x)
    BY <1>2, <1>4, <2>1 DEF TaskOK, FreeProcs, CloseToProcs, ClosesAll
  <2>. QED  BY <1>1, <1>3, <1>4, <2>1, <2>2, <2>3
<1>5. CASE /\ agenda' = <<T("end_line", CM_NONE), T("raw_line", c)>> \o rest
           /\ UNCHANGED <<path, stacks>>
  <2>. DEFINE x == T("end_line", CM_NONE)
              y == T("raw_line", c)
  <2>1. /\ x \in Task /\ x.proc = "end_line" /\ x.cmd = CM_NONE
        /\ y \in Task /\ y.proc = "raw_line" /\ y.cmd = c
    BY <1>2 DEF T, Task, Procs, AllCommands
  <2>2. agenda' = <<x, y>> \o rest
    BY <1>5
  <2>. HIDE DEF x, y
  <2>3. /\ TaskOK(x) /\ TaskOK(y) /\ x.proc \in FreeProcs /\ y.proc \notin CloseToProcs
        /\ y.proc \notin AtRootProcs
    BY <2>1 DEF TaskOK, FreeProcs, CloseToProcs, AtRootProcs
  <2>. QED  BY <1>1, <1>3, <1>5, <2>1, <2>2, <2>3
<1>6. CASE ~Has(c, "CF_root") /\ agenda' = rest /\ OpenLine(c, path)
  <2>1. Stacked' /\ Open(path')
    BY <1>1, <1>2, <1>6, OpenLineCommand DEF Stacked
  <2>2. Plain(agenda')
    BY <1>2, <1>6, NoTasks
  <2>. QED  BY <1>1, <1>2, <2>1, <2>2, Arrived
<1>. QED  BY <1>1, <1>4, <1>5, <1>6

LEMMA ParsingBlockCommand ==
  ASSUME Parsing, Running({"command"}), BlockCommand(task.cmd),
         UNCHANGED <<conditional_stack, line_empty>>
  PROVE  Parsing' /\ UNCHANGED status
<1>. DEFINE c == task.cmd
            p == IF data[c] = "BLOCK_menu" /\ current.type = "ET_menu_comment"
                 THEN Front(path) ELSE path
            r == Append(p, E("ET_block_command", c))
            l == E(IF Has(c, "CF_def") THEN "ET_def_line" ELSE "ET_arguments_line", c)
            own == IF Has(c, "CF_def") \/ BlockContext(c) = None THEN context_stack
                   ELSE PushedContext(context_stack, Len(p) + 1, BlockContext(c), c)
            k == IF Has(c, "CF_def") THEN count_remaining_args
                 ELSE IF args_number[c] > 1
                 THEN PushedCounter(count_remaining_args, Len(p) + 1, args_number[c] - 1)
                 ELSE IF Has(c, "CF_variadic")
                 THEN PushedCounter(count_remaining_args, Len(p) + 1, COUNTER_VARIADIC)
                 ELSE count_remaining_args
            q == Append(Append(r, l), E("ET_block_line_arg", c))
<1>1. /\ c \in Commands /\ rest = <<>> /\ Stacked /\ Open(path)
      /\ conditional_stack \in Seq(Commands) /\ line_empty \in BOOLEAN
      /\ current = Last(path) /\ current \in Element /\ Kind(current) /\ PathOK(path)
      /\ Len(path) > 1
  BY AtCommand
<1>2. /\ Tree(p, context_stack, nesting_context, count_remaining_args, count_items)
      /\ Open(p)
  <2>1. CASE current.type = "ET_menu_comment"
    <3>1. current.type \in ContentTypes /\ current.type \in PlainTypes /\ ~IsRoot(current)
      BY <1>1, <2>1, NotRoot
         DEF ContentTypes, PlainTypes, LineTypes, Types, CommandTypes, BraceArguments
    <3>2. /\ Tree(Front(path), context_stack, nesting_context, count_remaining_args, count_items)
          /\ Open(Front(path))
      BY <1>1, <2>1, <3>1, ContentClosed DEF Stacked
    <3>. QED  BY <1>1, <3>2 DEF Stacked
  <2>2. CASE current.type # "ET_menu_comment"
    BY <1>1, <2>2 DEF Stacked
  <2>. QED  BY <2>1, <2>2
<1>3. /\ Has(c, "CF_block") /\ agenda' = rest /\ UNCHANGED status
      /\ path' = q
      /\ context_stack' = PushedContext(own, (Len(p) + 1) + 2,
           IF Has(c, "CF_def") THEN "ct_def" ELSE "ct_line", c)
      /\ nesting_context' = [nesting_context EXCEPT
           !.regions_stack = IF ~Has(c, "CF_def") /\ data[c] = "BLOCK_region"
                             THEN Pushed(@, Len(p) + 1, c) ELSE @,
           !.basic_inline_stack_block = IF Has(c, "CF_contain_basic_inline")
                                        THEN Pushed(@, (Len(p) + 1) + 2, c) ELSE @]
      /\ count_items' = ItemsOpened(count_items, Len(p) + 1, c)
      /\ count_remaining_args' = k
  BY DEF BlockCommand, ItemsOpened
<1>. HIDE DEF p
<1>4. Len(p) \in Nat /\ (Len(p) + 1) + 2 = Len(p) + 3
  <2>1. Len(p) \in Nat
    BY <1>2, PathLast DEF Tree
  <2>. QED  BY <2>1
<1>5. nesting_context' =
        BlockLineOpened(RegionOpened(nesting_context, Len(p) + 1, c), Len(p) + 3, c)
  <2>. DEFINE d == Len(p) + 3
              m == RegionOpened(nesting_context, Len(p) + 1, c)
  <2>1. nesting_context \in NestingContext
    BY <1>2, StacksParts DEF Tree
  <2>. QED  BY <1>3, <1>4, <2>1 DEF BlockLineOpened, RegionOpened, NestingContext
<1>6. /\ Tree(q, PushedContext(own, Len(p) + 3, LineContext(c), c),
              BlockLineOpened(RegionOpened(nesting_context, Len(p) + 1, c), Len(p) + 3, c), k,
              ItemsOpened(count_items, Len(p) + 1, c))
      /\ Open(q)
  BY <1>1, <1>2, <1>3, BlockOpened
<1>. HIDE DEF q, k, own
<1>7. context_stack' = PushedContext(own, Len(p) + 3, LineContext(c), c)
  BY <1>3, <1>4 DEF LineContext
<1>8. Stacked' /\ Open(path')
  BY <1>3, <1>5, <1>6, <1>7 DEF Stacked
<1>9. Plain(agenda')
  BY <1>1, <1>3, NoTasks
<1>. QED  BY <1>1, <1>3, <1>8, <1>9, Arrived

LEMMA ParsingBraceCommand ==
  ASSUME Parsing, Running({"command"}), BraceCommand(task.cmd),
         UNCHANGED <<conditional_stack, line_empty>>
  PROVE  Parsing' /\ UNCHANGED status
<1>. DEFINE c == task.cmd
            e == E("unbraced", c)
<1>1. /\ Has(c, "CF_brace") /\ path' = Append(path, e) /\ agenda' = rest
      /\ UNCHANGED <<stacks, count_items, status>>
  BY DEF BraceCommand
<1>2. /\ c \in Commands /\ rest = <<>> /\ Stacked /\ Open(path)
      /\ conditional_stack \in Seq(Commands) /\ line_empty \in BOOLEAN
  BY AtCommand
<1>3. e \in Element /\ e.type = "unbraced" /\ e.cmd = c
  BY <1>2, ElementType DEF Types, CommandTypes
<1>4. Kind(e)
  BY <1>1, <1>3 DEF Kind
<1>5. ~IsRoot(e) /\ e.type \in ContentTypes /\ e.type \in PlainTypes
  BY <1>3, <1>4, NotRoot
     DEF ContentTypes, PlainTypes, LineTypes, Types, CommandTypes, BraceArguments
<1>. HIDE DEF e
<1>6. /\ Tree(Append(path, e), context_stack, nesting_context, count_remaining_args, count_items)
      /\ Last(Append(path, e)) = e
  BY <1>2, <1>3, <1>4, <1>5, ContentOpened DEF Stacked
<1>7. Stacked' /\ Last(path').type = "unbraced" /\ agenda' = <<>>
  BY <1>1, <1>2, <1>3, <1>6 DEF Stacked, stacks
<1>. QED  BY <1>1, <1>2, <1>7, Waits

LEMMA ParsingCommand ==
  ASSUME Parsing, Command
  PROVE  Parsing' /\ UNCHANGED status
<1>1. /\ Running({"command"}) /\ UNCHANGED <<conditional_stack, line_empty>>
      /\ \/ NobraceCommand(task.cmd) /\ UNCHANGED status
         \/ ItemLine(task.cmd)
         \/ LineCommand(task.cmd)
         \/ BlockCommand(task.cmd)
         \/ BraceCommand(task.cmd)
  BY DEF Command
<1>2. CASE NobraceCommand(task.cmd) /\ UNCHANGED status
  BY <1>1, <1>2, ParsingNobraceCommand
<1>3. CASE ItemLine(task.cmd)
  BY <1>1, <1>3, ParsingItemLine
<1>4. CASE LineCommand(task.cmd)
  BY <1>1, <1>4, ParsingLineCommand
<1>5. CASE BlockCommand(task.cmd)
  BY <1>1, <1>5, ParsingBlockCommand
<1>6. CASE BraceCommand(task.cmd)
  BY <1>1, <1>6, ParsingBraceCommand
<1>. QED  BY <1>1, <1>2, <1>3, <1>4, <1>5, <1>6

-----------------------------------------------------------------------------
(* The tokens, read when nothing is left to do. *)

LEMMA AtToken ==
  ASSUME Parsing, Reading
  PROVE  /\ status = "parsing" /\ agenda = <<>> /\ Plain(agenda) /\ Stacked
         /\ conditional_stack \in Seq(Commands) /\ line_empty \in BOOLEAN
         /\ current = Last(path) /\ current \in Element /\ Kind(current) /\ PathOK(path)
         /\ Len(path) > 1 /\ Len(path) # 1 /\ parent = Last(Front(path))
         /\ current.type # "ET_brace_command"
         /\ current.type # "unbraced" => Open(path)
<1>1. /\ status = "parsing" /\ agenda = <<>> /\ Stacked
      /\ conditional_stack \in Seq(Commands) /\ line_empty \in BOOLEAN
      /\ AgendaFits(agenda, path, current_context)
  BY DEF Reading, Parsing, Parse, Stacked, current_context
<1>2. Len(path) # 1 /\ Len(path) \in Nat /\ Len(path) > 0 /\ current = Last(path)
  BY <1>1, InPath DEF AgendaFits, Carries
<1>3. Len(path) > 1
  BY <1>2, \A n \in Nat : n > 0 /\ n # 1 => n > 1
<1>4. /\ current.type # "ET_brace_command"
      /\ current.type # "unbraced" => Holds(current)
  BY <1>1, <1>2 DEF AgendaFits
<1>5. current.type # "unbraced" => Open(path)
  BY <1>2, <1>3, <1>4 DEF Open
<1>6. Plain(agenda)
  BY <1>1, NoTasks
<1>. QED  BY <1>1, <1>2, <1>3, <1>4, <1>5, <1>6, InPath

LEMMA ParsingText ==
  ASSUME Parsing, Text
  PROVE  Parsing' /\ UNCHANGED status
<1>1. /\ Reading /\ current.type # "unbraced"
      /\ \/ /\ path' = Append(path, E("ET_paragraph", CM_NONE))
            /\ context_stack' =
                 PushedContext(context_stack, Len(path) + 1, "ct_paragraph", CM_NONE)
         \/ UNCHANGED <<path, context_stack>>
      /\ line_empty' = FALSE
      /\ UNCHANGED <<nesting_context, count_remaining_args, count_items,
                     conditional_stack, agenda, status>>
  BY DEF Text, InText
<1>2. /\ Plain(agenda) /\ Stacked /\ conditional_stack \in Seq(Commands) /\ Open(path)
  BY <1>1, AtToken
<1>3. Stacked' /\ Open(path')
  <2>1. CASE /\ path' = Append(path, E("ET_paragraph", CM_NONE))
             /\ context_stack' =
                  PushedContext(context_stack, Len(path) + 1, "ct_paragraph", CM_NONE)
    <3>1. /\ Tree(path', context_stack', nesting_context, count_remaining_args, count_items)
          /\ Open(path')
      BY <1>2, <2>1, ParagraphOpened DEF Stacked
    <3>. QED  BY <1>1, <3>1 DEF Stacked
  <2>2. CASE UNCHANGED <<path, context_stack>>
    BY <1>1, <1>2, <2>2 DEF Stacked
  <2>. QED  BY <1>1, <2>1, <2>2
<1>4. Plain(agenda') /\ conditional_stack' \in Seq(Commands) /\ line_empty' \in BOOLEAN
  BY <1>1, <1>2
<1>. QED  BY <1>1, <1>3, <1>4, Arrived

LEMMA ParsingEndOfLine ==
  ASSUME Parsing, EndOfLine
  PROVE  Parsing' /\ UNCHANGED status
<1>. DEFINE f == IF line_empty THEN "end_empty_line" ELSE "end_line"
<1>1. /\ Reading /\ current.type # "unbraced" /\ agenda' = <<T(f, CM_NONE)>>
      /\ line_empty' = TRUE
      /\ UNCHANGED <<path, stacks, count_items, conditional_stack, status>>
  BY DEF EndOfLine, InText
<1>2. /\ Stacked /\ conditional_stack \in Seq(Commands) /\ Open(path)
  BY <1>1, AtToken
<1>3. f \in FreeProcs /\ f \notin AtRootProcs \cup CloseToProcs
  BY DEF FreeProcs, AtRootProcs, CloseToProcs
<1>. HIDE DEF f
<1>4. Plain(agenda')
  BY <1>1, <1>3, SimpleTask, Alone
<1>5. Stacked' /\ Open(path') /\ conditional_stack' \in Seq(Commands) /\ line_empty' \in BOOLEAN
  BY <1>1, <1>2 DEF Stacked, stacks
<1>. QED  BY <1>1, <1>4, <1>5, Arrived

(* A paragraph that is current is closed. *)
LEMMA CloseParagraph ==
  ASSUME Stacked, current.type = "ET_paragraph", close_container, UNCHANGED count_items
  PROVE  Stacked' /\ Open(path') /\ UNCHANGED status
<1>1. /\ current = Last(path) /\ current \in Element /\ Kind(current) /\ PathOK(path)
  BY InPath
<1>2. ~IsRoot(current) /\ Holds(current) /\ Len(path) > 1
  BY <1>1, NotRoot, PathLast DEF Holds
<1>. QED  BY <1>2, CloseContainer DEF BraceArguments

LEMMA ParsingFormFeed ==
  ASSUME Parsing, FormFeed
  PROVE  Parsing' /\ UNCHANGED status
<1>1. /\ Reading /\ current.type = "ET_paragraph" /\ close_container
      /\ line_empty' = TRUE /\ UNCHANGED <<count_items, conditional_stack, agenda>>
  BY DEF FormFeed, InText
<1>2. /\ Plain(agenda) /\ Stacked /\ conditional_stack \in Seq(Commands)
  BY <1>1, AtToken
<1>3. Stacked' /\ Open(path') /\ UNCHANGED status
  BY <1>1, <1>2, CloseParagraph
<1>4. Plain(agenda') /\ conditional_stack' \in Seq(Commands) /\ line_empty' \in BOOLEAN
  BY <1>1, <1>2
<1>. QED  BY <1>3, <1>4, Arrived

LEMMA ParsingAt ==
  ASSUME Parsing, NEW c \in Commands, At(c)
  PROVE  Parsing' /\ UNCHANGED status
<1>. DEFINE s == IF c = "sp" THEN <<T("end_paragraph", CM_NONE)>>
                 ELSE IF Has(c, "CF_close_paragraph")
                 THEN <<T("end_paragraph_preformatted", CM_NONE)>>
                 ELSE <<>>
            y == T("command", c)
<1>1. /\ Reading /\ current.type # "unbraced" /\ agenda' = s \o <<y>>
      /\ line_empty' = FALSE
      /\ UNCHANGED <<path, stacks, count_items, conditional_stack, status>>
  BY DEF At
<1>2. /\ Stacked /\ conditional_stack \in Seq(Commands) /\ Open(path)
  BY <1>1, AtToken
<1>3. /\ s = <<T("end_paragraph", CM_NONE)>> \/ s = <<T("end_paragraph_preformatted", CM_NONE)>>
         \/ s = <<>>
  OBVIOUS
<1>4. y \in Task /\ y.proc = "command" /\ y.cmd = c
  BY DEF T, Task, Procs, AllCommands
<1>. HIDE DEF s, y
<1>5. TaskOK(y) /\ y.proc \notin AtRootProcs \cup CloseToProcs
  BY <1>4 DEF TaskOK, AtRootProcs, CloseToProcs
<1>6. Plain(<<y>>)
  BY <1>4, <1>5, Alone
<1>7. Plain(s \o <<y>>)
  <2>1. CASE s = <<>>
    <3>1. <<>> \o <<y>> = <<y>>
      BY <1>4
    <3>. QED  BY <1>6, <2>1, <3>1
  <2>2. CASE s = <<T("end_paragraph", CM_NONE)>>
    BY <1>6, <2>2, FreeTask DEF FreeProcs
  <2>3. CASE s = <<T("end_paragraph_preformatted", CM_NONE)>>
    BY <1>6, <2>3, FreeTask DEF FreeProcs
  <2>. QED  BY <1>3, <2>1, <2>2, <2>3
<1>8. /\ Stacked' /\ Open(path') /\ Plain(agenda')
      /\ conditional_stack' \in Seq(Commands) /\ line_empty' \in BOOLEAN
  BY <1>1, <1>2, <1>7 DEF Stacked, stacks
<1>. QED  BY <1>1, <1>8, Arrived

LEMMA ParsingExpectedBraces ==
  ASSUME Parsing, ExpectedBraces
  PROVE  Parsing' /\ UNCHANGED status
<1>1. /\ Reading /\ current.type = "unbraced" /\ path' = Front(path)
      /\ UNCHANGED <<stacks, count_items, conditional_stack, agenda, line_empty, status>>
  BY DEF ExpectedBraces
<1>2. /\ Plain(agenda) /\ Stacked /\ conditional_stack \in Seq(Commands)
      /\ line_empty \in BOOLEAN /\ Len(path) > 1
      /\ current = Last(path) /\ current \in Element /\ Kind(current)
  BY <1>1, AtToken
<1>3. current.type \in ContentTypes /\ current.type \in PlainTypes /\ ~IsRoot(current)
  BY <1>1, <1>2, NotRoot
     DEF ContentTypes, PlainTypes, LineTypes, Types, CommandTypes, BraceArguments
<1>4. /\ Tree(Front(path), context_stack, nesting_context, count_remaining_args, count_items)
      /\ Open(Front(path))
  BY <1>2, <1>3, ContentClosed DEF Stacked
<1>5. Stacked' /\ Open(path')
  BY <1>1, <1>4 DEF Stacked, stacks
<1>. QED  BY <1>1, <1>2, <1>5, Arrived

LEMMA ParsingOpenBraceOfCommand ==
  ASSUME Parsing, OpenBraceOfCommand
  PROVE  Parsing' /\ UNCHANGED status
<1>. DEFINE c == current.cmd
            t == IF data[c] = "BRACE_context" THEN "ET_brace_command_context"
                 ELSE IF data[c] \in {"BRACE_arguments", "BRACE_inline"} THEN "ET_brace_arg"
                 ELSE "ET_brace_container"
            q == Append(Append(Front(path), E("ET_brace_command", c)), E(t, c))
            ds == IF BraceContext(c) = None THEN context_stack
                  ELSE PushedContext(context_stack, Len(path), BraceContext(c), c)
<1>1. /\ Reading /\ current.type = "unbraced" /\ path' = q /\ context_stack' = ds
      /\ count_remaining_args' =
           PushedCounter(count_remaining_args, Len(path), args_number[c] - 1)
      /\ nesting_context' = BraceOpened(nesting_context, Len(path), c)
      /\ line_empty' = FALSE
      /\ UNCHANGED <<count_items, conditional_stack, agenda, status>>
  BY DEF OpenBraceOfCommand, BraceOpened
<1>2. /\ Plain(agenda) /\ Stacked /\ conditional_stack \in Seq(Commands)
      /\ current = Last(path)
  BY <1>1, AtToken
<1>3. t \in BraceArguments
  BY DEF BraceArguments
<1>4. c = Last(path).cmd
  BY <1>2
<1>. HIDE DEF t
<1>5. /\ Tree(q, ds, BraceOpened(nesting_context, Len(path), c),
              PushedCounter(count_remaining_args, Len(path), args_number[c] - 1), count_items)
      /\ Open(q)
  <2>1. Tree(path, context_stack, nesting_context, count_remaining_args, count_items)
    BY <1>2 DEF Stacked
  <2>2. Last(path) = E("unbraced", c) /\ c \in Commands
    <3>1. Last(path) \in Element /\ Kind(Last(path)) /\ Last(path).type = "unbraced"
      BY <1>1, <1>2, InPath
    <3>. QED  BY <1>4, <3>1, ElementIs, CommandOf
  <2>. HIDE DEF c
  <2>. QED  BY <1>3, <2>1, <2>2, BraceCommandOpened
<1>6. Stacked' /\ Open(path') /\ Plain(agenda') /\ conditional_stack' \in Seq(Commands)
      /\ line_empty' \in BOOLEAN
  BY <1>1, <1>2, <1>5 DEF Stacked
<1>. QED  BY <1>1, <1>6, Arrived

LEMMA ParsingOpenBrace ==
  ASSUME Parsing, OpenBrace
  PROVE  Parsing' /\ UNCHANGED status
<1>1. /\ Reading /\ current.type # "unbraced" /\ line_empty' = FALSE
      /\ \E t \in {"ET_bracketed_arg", "ET_balanced_braces"} : path' = Append(path, E(t, CM_NONE))
      /\ UNCHANGED <<stacks, count_items, conditional_stack, agenda, status>>
  BY DEF OpenBrace, InText
<1>2. PICK t \in {"ET_bracketed_arg", "ET_balanced_braces"} : path' = Append(path, E(t, CM_NONE))
  BY <1>1
<1>3. /\ Plain(agenda) /\ Stacked /\ conditional_stack \in Seq(Commands) /\ Open(path)
  BY <1>1, AtToken
<1>. DEFINE e == E(t, CM_NONE)
<1>4. e \in Element /\ e.type = t
  BY DEF E, Element, Types, AllCommands
<1>. HIDE DEF e
<1>5. Kind(e) /\ Holds(e)
  BY <1>4 DEF Kind, Holds
<1>6. ~IsRoot(e) /\ e.type \in ContentTypes /\ e.type \in PlainTypes
  BY <1>4, <1>5, NotRoot
     DEF ContentTypes, PlainTypes, LineTypes, Types, CommandTypes, BraceArguments
<1>7. /\ Tree(Append(path, e), context_stack, nesting_context, count_remaining_args, count_items)
      /\ Open(Append(path, e))
  BY <1>3, <1>4, <1>5, <1>6, ContentOpened DEF Stacked, Open
<1>8. Stacked' /\ Open(path') /\ Plain(agenda') /\ conditional_stack' \in Seq(Commands)
      /\ line_empty' \in BOOLEAN
  BY <1>1, <1>2, <1>3, <1>7 DEF Stacked, stacks, e
<1>. QED  BY <1>1, <1>8, Arrived

LEMMA ParsingCloseBrace ==
  ASSUME Parsing, CloseBrace
  PROVE  Parsing' /\ UNCHANGED status
<1>. DEFINE y == T("close_brace", CM_NONE)
<1>1. /\ Reading /\ current.type # "unbraced" /\ line_empty' = FALSE
      /\ (current.type = "ET_paragraph" /\ close_container) \/ UNCHANGED <<path, stacks, status>>
      /\ agenda' = <<y>> /\ UNCHANGED <<count_items, conditional_stack>>
  BY DEF CloseBrace, InText
<1>2. /\ Stacked /\ conditional_stack \in Seq(Commands) /\ Open(path)
  BY <1>1, AtToken
<1>3. y \in Task /\ TaskOK(y) /\ y.proc \notin AtRootProcs \cup CloseToProcs
  BY DEF T, Task, Procs, AllCommands, TaskOK, AtRootProcs, CloseToProcs
<1>. HIDE DEF y
<1>4. Plain(agenda')
  BY <1>1, <1>3, Alone
<1>5. Stacked' /\ Open(path') /\ UNCHANGED status
  <2>1. CASE current.type = "ET_paragraph" /\ close_container
    BY <1>1, <1>2, <2>1, CloseParagraph
  <2>2. CASE UNCHANGED <<path, stacks, status>>
    BY <1>1, <1>2, <2>2 DEF Stacked, stacks
  <2>. QED  BY <1>1, <2>1, <2>2
<1>6. conditional_stack' \in Seq(Commands) /\ line_empty' \in BOOLEAN
  BY <1>1, <1>2
<1>. QED  BY <1>4, <1>5, <1>6, Arrived

(* One argument less remains of the innermost command. *)
LEMMA OneLess ==
  ASSUME NEW p, NEW cs, NEW n, NEW cra, NEW ci, Tree(p, cs, n, cra, ci),
         cra # <<>>, Last(cra).value > 0,
         NEW k, k = [cra EXCEPT ![Len(cra)].value = @ - 1]
  PROVE  Tree(p, cs, n, k, ci)
<1>1. /\ PathOK(p) /\ StacksOK(p, cs, n, cra, ci) /\ cra \in Seq(Counter) /\ ArgsOK(p, cra)
      /\ Len(cra) \in Nat
  BY StacksParts DEF Tree
<1>2. \A x \in Counter : /\ [x EXCEPT !.value = @ - 1] \in Counter
                         /\ [x EXCEPT !.value = @ - 1].elt = x.elt
                         /\ [x EXCEPT !.value = @ - 1].value = x.value - 1
  BY DEF Counter
<1>3. DOMAIN k = 1 .. Len(cra) /\ DOMAIN cra = 1 .. Len(cra)
      /\ \A j \in DOMAIN cra : cra[j] \in Counter
  BY <1>1
<1>4. \A j \in DOMAIN cra : /\ j # Len(cra) => k[j] = cra[j]
                            /\ j = Len(cra) => k[j] = [cra[j] EXCEPT !.value = @ - 1]
  BY <1>1
<1>5. \A j \in DOMAIN cra : k[j] \in Counter /\ k[j].elt = cra[j].elt
  BY <1>2, <1>3, <1>4
<1>6. k \in Seq(Counter)
  <2>1. k = [j \in 1 .. Len(cra) |-> k[j]]
    BY <1>3
  <2>2. k \in [1 .. Len(cra) -> Counter]
    BY <1>3, <1>5, <2>1
  <2>. QED  BY <1>1, <2>2, SeqDef
<1>7. \A j \in DOMAIN cra : k[j].value = cra[j].value \/ k[j].value >= 0
  <2>1. TAKE j \in DOMAIN cra
  <2>2. CASE j = Len(cra)
    <3>1. k[j].value = cra[j].value - 1 /\ cra[j].value > 0 /\ cra[j].value \in Int
      BY <1>2, <1>3, <1>4, <2>2 DEF Last, Counter
    <3>. QED  BY <3>1
  <2>3. CASE j # Len(cra)
    BY <1>4, <2>3
  <2>. QED  BY <2>2, <2>3
<1>8. ArgsOK(p, k)
  BY <1>1, <1>3, <1>5, <1>7 DEF ArgsOK, Follows
<1>9. StacksOK(p, cs, n, k, ci)
  BY <1>1, <1>6, <1>8 DEF StacksOK, StacksTypes
<1>. QED  BY <1>1, <1>9 DEF Tree

LEMMA ParsingComma ==
  ASSUME Parsing, Comma
  PROVE  Parsing' /\ UNCHANGED status
<1>. DEFINE cra == count_remaining_args
            k == [cra EXCEPT ![Len(cra)].value = @ - 1]
<1>1. /\ Reading /\ current.type # "unbraced" /\ CountedArgument /\ line_empty' = FALSE
      /\ count_remaining_args' = cra \/ count_remaining_args' = k
      /\ UNCHANGED <<path, context_stack, nesting_context, count_items,
                     conditional_stack, agenda, status>>
  BY DEF Comma, InText
<1>2. /\ Plain(agenda) /\ Stacked /\ conditional_stack \in Seq(Commands) /\ Open(path)
  BY <1>1, AtToken
<1>3. cra # <<>> /\ Last(cra).value > 0
  BY <1>1 DEF CountedArgument, counter_value
<1>. HIDE DEF k
<1>4. Tree(path, context_stack, nesting_context, k, count_items)
  BY <1>2, <1>3, OneLess DEF Stacked, k
<1>5. Stacked' /\ Open(path') /\ Plain(agenda') /\ conditional_stack' \in Seq(Commands)
      /\ line_empty' \in BOOLEAN
  BY <1>1, <1>2, <1>4 DEF Stacked
<1>. QED  BY <1>1, <1>5, Arrived

LEMMA ParsingEndOfInput ==
  ASSUME Parsing, EndOfInput
  PROVE  Parsing' /\ UNCHANGED status
<1>. DEFINE f == IF line_empty /\ ~IsRawBlock(current) THEN "end_empty_line" ELSE "end_line"
            x == T(f, CM_NONE)
            y == T("finish", CM_NONE)
<1>1. /\ Reading
      /\ agenda' = <<y>> \/ agenda' = <<x, y>>
      /\ UNCHANGED <<path, stacks, count_items, conditional_stack, line_empty, status>>
  BY DEF EndOfInput
<1>2. /\ conditional_stack \in Seq(Commands) /\ line_empty \in BOOLEAN
      /\ current = Last(path) /\ Len(path) # 1 /\ current.type # "ET_brace_command"
  BY <1>1, AtToken DEF Reading
<1>3. f \in {"end_empty_line", "end_line"}
  OBVIOUS
<1>. HIDE DEF f
<1>4. f \in FreeProcs /\ f \in UnbracedProcs
  BY <1>3 DEF FreeProcs, UnbracedProcs
<1>5. x \in Task /\ TaskOK(x) /\ x.proc = f
  BY <1>4, SimpleTask
<1>6. /\ y \in Task /\ y.proc = "finish" /\ TaskOK(y) /\ EndsParse(y)
      /\ y.proc \notin AtRootProcs \cup CloseToProcs /\ y.proc \in UnbracedProcs
  BY DEF T, Task, Procs, AllCommands, TaskOK, EndsParse, AtRootProcs, CloseToProcs,
         UnbracedProcs
<1>. HIDE DEF x, y
<1>7. Plain(<<y>>) /\ Carries(<<y>>, path)
  <2>1. \A j \in DOMAIN <<y>> : <<y>>[j] = y
    OBVIOUS
  <2>. QED  BY <1>2, <1>6, <2>1, Alone DEF Carries
<1>8. Plain(<<x, y>>) /\ Carries(<<x, y>>, path)
  BY <1>2, <1>4, <1>5, <1>6, PairTasks, PairCarries
<1>9. AgendaOK(agenda') /\ Carries(agenda', path) /\ HeadFits(agenda', path, current_context)
  BY <1>1, <1>7, <1>8, PlainHead
<1>. QED  BY <1>1, <1>2, <1>9, Stays

-----------------------------------------------------------------------------
(* The inductive invariant, and the theorems. *)

(* The agenda is as the parser left it and the stacks follow the path, or  *)
(* the parse has ended and not in a fatal error.                           *)
IInv ==
  \/ status = "parsing" /\ Parsing
  \/ status = "finished" /\ TypeOK

(* Nothing is done once the parse has ended. *)
LEMMA NextRuns == Next => status = "parsing"
<1>1. Step => status = "parsing"
  BY DEF Step, Running, CloseStyle, EndParagraph, BeginPreformatted, HandleCloseBrace,
         CloseCommands, Closing, Closed, EndLine, StillOpenedLine, CloseToLine,
         RootCommand, RawLine, CommandBeginsParagraph, Command, Finish, EndOfParse
<1>2. (\E c \in Commands : At(c)) => status = "parsing"
  BY DEF At, InText, Reading
<1>3. Token => status = "parsing"
  BY <1>2 DEF Token, InText, Reading, Text, EndOfLine, FormFeed, ExpectedBraces,
              OpenBraceOfCommand, OpenBrace, CloseBrace, Comma, EndOfInput
<1>. QED  BY <1>1, <1>3 DEF Next

LEMMA ParsingStep ==
  ASSUME Parsing, Step
  PROVE  (Parsing' /\ UNCHANGED status) \/ (TypeOK' /\ status' = "finished")
<1>1. CASE CloseStyle  BY <1>1, ParsingCloseStyle
<1>2. CASE EndParagraph  BY <1>2, ParsingEndParagraph
<1>3. CASE BeginPreformatted  BY <1>3, ParsingBeginPreformatted
<1>4. CASE HandleCloseBrace  BY <1>4, ParsingHandleCloseBrace
<1>5. CASE CloseCommands  BY <1>5, ParsingCloseCommands
<1>6. CASE Closing  BY <1>6, ParsingClosing
<1>7. CASE Closed  BY <1>7, ParsingClosed
<1>8. CASE EndLine  BY <1>8, ParsingEndLine
<1>9. CASE StillOpenedLine  BY <1>9, ParsingStillOpenedLine
<1>10. CASE CloseToLine  BY <1>10, ParsingCloseToLine
<1>11. CASE RootCommand  BY <1>11, ParsingRootCommand
<1>12. CASE RawLine  BY <1>12, ParsingRawLine
<1>13. CASE CommandBeginsParagraph  BY <1>13, ParsingCommandBeginsParagraph
<1>14. CASE Command  BY <1>14, ParsingCommand
<1>15. CASE Finish  BY <1>15, ParsingFinish
<1>16. CASE EndOfParse  BY <1>16, ParsingEnds
<1>. QED  BY <1>1, <1>2, <1>3, <1>4, <1>5, <1>6, <1>7, <1>8, <1>9, <1>10, <1>11,
             <1>12, <1>13, <1>14, <1>15, <1>16 DEF Step

LEMMA ParsingToken ==
  ASSUME Parsing, Token
  PROVE  Parsing' /\ UNCHANGED status
<1>1. CASE Text  BY <1>1, ParsingText
<1>2. CASE EndOfLine  BY <1>2, ParsingEndOfLine
<1>3. CASE FormFeed  BY <1>3, ParsingFormFeed
<1>4. CASE ExpectedBraces  BY <1>4, ParsingExpectedBraces
<1>5. CASE OpenBraceOfCommand  BY <1>5, ParsingOpenBraceOfCommand
<1>6. CASE OpenBrace  BY <1>6, ParsingOpenBrace
<1>7. CASE CloseBrace  BY <1>7, ParsingCloseBrace
<1>8. CASE Comma  BY <1>8, ParsingComma
<1>9. CASE EndOfInput  BY <1>9, ParsingEndOfInput
<1>10. CASE \E c \in Commands : At(c)  BY <1>10, ParsingAt
<1>. QED  BY <1>1, <1>2, <1>3, <1>4, <1>5, <1>6, <1>7, <1>8, <1>9, <1>10 DEF Token

LEMMA ParsingStutters ==
  ASSUME Parsing, UNCHANGED vars
  PROVE  Parsing'
  BY DEF Parsing, vars

LEMMA NextIInv == IInv /\ [Next]_vars => IInv'
<1>1. SUFFICES ASSUME IInv, [Next]_vars PROVE IInv'
  OBVIOUS
<1>2. CASE Next
  <2>1. status = "parsing"
    BY <1>2, NextRuns
  <2>2. Parsing
    BY <1>1, <2>1 DEF IInv
  <2>3. (Parsing' /\ UNCHANGED status) \/ (TypeOK' /\ status' = "finished")
    BY <1>2, <2>2, ParsingStep, ParsingToken DEF Next
  <2>. QED  BY <2>1, <2>3 DEF IInv
<1>3. CASE UNCHANGED vars
  <2>1. UNCHANGED status
    BY <1>3 DEF vars
  <2>2. CASE status = "parsing" /\ Parsing
    BY <1>3, <2>1, <2>2, ParsingStutters DEF IInv
  <2>3. CASE status = "finished" /\ TypeOK
    <3>1. TypeOK'
      BY <1>3, <2>3 DEF TypeOK, vars
    <3>. QED  BY <2>1, <2>3, <3>1 DEF IInv
  <2>. QED  BY <1>1, <2>2, <2>3 DEF IInv
<1>. QED  BY <1>1, <1>2, <1>3

(* Before any input: the root alone, and the context it was pushed with. *)
LEMMA RootAlone ==
  LET root == E("ET_document_root", CM_NONE)
  IN Init => Tree(<<root>>, context_stack, nesting_context, count_remaining_args, count_items)
<1>. DEFINE root == E("ET_document_root", CM_NONE)
            p == <<root>>
            x == [elt |-> 1, context |-> "ct_base", command |-> CM_NONE]
<1>1. SUFFICES ASSUME Init
               PROVE  Tree(p, context_stack, nesting_context, count_remaining_args, count_items)
  OBVIOUS
<1>2. root \in Element /\ root.type = "ET_document_root"
  BY DEF E, Element, Types, AllCommands
<1>3. x \in ContextEntry /\ x.elt = 1 /\ x.context = "ct_base"
  BY DEF ContextEntry, Contexts, AllCommands
<1>4. context_stack = <<x>> /\ count_remaining_args = <<>> /\ count_items = <<>>
  BY <1>1 DEF Init
<1>5. /\ nesting_context \in NestingContext
      /\ nesting_context.footnote = 0 /\ nesting_context.caption = 0
      /\ nesting_context.basic_inline_stack = <<>>
      /\ nesting_context.basic_inline_stack_on_line = <<>>
      /\ nesting_context.basic_inline_stack_block = <<>>
      /\ nesting_context.regions_stack = <<>>
  BY <1>1 DEF Init, NestingContext
<1>. HIDE DEF root, x
<1>6. p \in Seq(Element) /\ p # <<>> /\ DOMAIN p = {1} /\ p[1] = root /\ Len(p) = 1
  BY <1>2
<1>. HIDE DEF p
<1>7. PathOK(p)
  BY <1>2, <1>6 DEF PathOK, Kind
<1>8. StacksTypes(context_stack, nesting_context, count_remaining_args, count_items)
  BY <1>3, <1>4, <1>5 DEF StacksTypes
<1>9. CtxOK(p, context_stack)
  <2>1. ContextOf(root) = "ct_base" /\ root \in HasContext
    BY <1>2 DEF ContextOf, HasContext, None
  <2>2. Depths(p, HasContext) = {1}
    BY <1>6, <2>1 DEF Depths
  <2>3. DOMAIN context_stack = {1} /\ context_stack[1] = x
    BY <1>4
  <2>. QED  BY <1>3, <1>6, <2>1, <2>2, <2>3 DEF CtxOK, Follows
<1>10. ArgsOK(p, count_remaining_args)
  <2>1. ReadsArguments(p) = {}
    BY <1>2, <1>6 DEF ReadsArguments
  <2>2. DOMAIN count_remaining_args = {}
    BY <1>4
  <2>. QED  BY <2>1, <2>2 DEF ArgsOK, Follows
<1>11. NestOK(p, nesting_context) /\ ItemsOK(p, count_items)
  <2>1. /\ \A t \in Types \ {"ET_document_root"} : Depths(p, BasicInline(t)) = {}
        /\ Depths(p, Region) = {} /\ Depths(p, List) = {}
        /\ \A S : Depths(p, Brace(S)) = {}
    BY <1>2, <1>6 DEF Depths, BasicInline, Region, List, Brace
  <2>2. {"ET_brace_command", "ET_line_arg", "ET_block_line_arg"}
          \subseteq Types \ {"ET_document_root"}
    BY DEF Types, CommandTypes
  <2>3. Follows(<<>>, {})
    BY DEF Follows
  <2>4. Cardinality({}) = 0 /\ Len(count_items) = 0
    BY <1>4, FS_EmptySet
  <2>5. \A t \in {"ET_brace_command", "ET_line_arg", "ET_block_line_arg"} :
          Depths(p, BasicInline(t)) = {}
    BY <2>1, <2>2
  <2>6. NestOK(p, nesting_context)
    <3>. DEFINE n == nesting_context
    <3>1. /\ Depths(p, BasicInline("ET_brace_command")) = {}
          /\ Depths(p, BasicInline("ET_line_arg")) = {}
          /\ Depths(p, BasicInline("ET_block_line_arg")) = {}
      BY <2>5
    <3>2. /\ Depths(p, Brace({"footnote"})) = {} /\ Depths(p, Brace(CaptionCommands)) = {}
      BY <2>1
    <3>3. /\ Follows(n.basic_inline_stack, Depths(p, BasicInline("ET_brace_command")))
          /\ Follows(n.basic_inline_stack_on_line, Depths(p, BasicInline("ET_line_arg")))
          /\ Follows(n.basic_inline_stack_block, Depths(p, BasicInline("ET_block_line_arg")))
          /\ Follows(n.regions_stack, Depths(p, Region))
      BY <1>5, <2>1, <2>3, <3>1
    <3>4. /\ n.footnote = Cardinality(Depths(p, Brace({"footnote"})))
          /\ n.caption = Cardinality(Depths(p, Brace(CaptionCommands)))
      BY <1>5, <2>4, <3>2
    <3>. QED  BY <3>3, <3>4 DEF NestOK
  <2>7. ItemsOK(p, count_items)
    BY <2>1, <2>4 DEF ItemsOK
  <2>. QED  BY <2>6, <2>7
<1>. QED  BY <1>7, <1>8, <1>9, <1>10, <1>11 DEF Tree, StacksOK

LEMMA InitIInv == Init => IInv
<1>. DEFINE root == E("ET_document_root", CM_NONE)
            e == E("ET_before_node_section", CM_NONE)
<1>1. SUFFICES ASSUME Init PROVE IInv
  OBVIOUS
<1>2. /\ e \in Element /\ e.type = "ET_before_node_section" /\ e.cmd = CM_NONE
      /\ root \in Element /\ root.type = "ET_document_root"
  BY DEF E, Element, Types, AllCommands
<1>3. Tree(<<root>>, context_stack, nesting_context, count_remaining_args, count_items)
  BY <1>1, RootAlone
<1>4. path = <<root, e>> /\ agenda = <<>> /\ conditional_stack = <<>> /\ line_empty = TRUE
      /\ status = "parsing"
  BY <1>1 DEF Init
<1>. HIDE DEF root, e
<1>5. /\ <<root>> \in Seq(Element) /\ Len(<<root>>) = 1 /\ Last(<<root>>) = root
      /\ path = Append(<<root>>, e) /\ <<root>> # <<>>
  BY <1>2, <1>4 DEF Last
<1>6. Kind(e) /\ IsRoot(e) /\ Holds(e)
  BY <1>2 DEF Kind, IsRoot, Holds
<1>7. Fits(root, e)
  BY <1>2 DEF Fits, Holds, ContentTypes, BraceArguments, LineTypes
<1>8. PathOK(path) /\ Last(path) = e /\ Len(path) > 1
  BY <1>2, <1>3, <1>5, <1>6, <1>7, PathAppend DEF Tree
<1>9. e.type \in PlainTypes
  BY <1>2 DEF PlainTypes, Types
<1>10. StacksOK(path, context_stack, nesting_context, count_remaining_args, count_items)
  BY <1>2, <1>3, <1>5, <1>9, PlainAppend DEF Tree
<1>11. Tree(path, context_stack, nesting_context, count_remaining_args, count_items) /\ Open(path)
  BY <1>6, <1>8, <1>10 DEF Tree, Open
<1>12. Parse(path, context_stack, nesting_context, count_remaining_args, count_items, agenda)
  BY <1>4, <1>11, NoTasks, Settled
<1>. QED  BY <1>4, <1>12 DEF IInv, Parsing

LEMMA IInvAlways == Spec => []IInv
  BY InitIInv, NextIInv, PTL DEF Spec

LEMMA IInvStacks ==
  IInv /\ status = "parsing" =>
    StacksOK(path, context_stack, nesting_context, count_remaining_args, count_items)
  BY DEF IInv, Parsing, Parse, Tree

(* The parser's state has its types: no function that closes an element is *)
(* called with an element or a stack it is not made for (parser.c).        *)
THEOREM TypeCorrect == Spec => []TypeOK
<1>1. IInv => TypeOK
  BY ParsingTypes DEF IInv
<1> QED  BY <1>1, IInvAlways, PTL

(* The stack of contexts is that of the elements that are open, for every  *)
(* table of commands, however deep the input is and however it is broken   *)
(* (context_stack.c, close_commands).                                      *)
THEOREM ContextsFollowPathCorrect == Spec => []ContextsFollowPath
<1>1. IInv => ContextsFollowPath
  BY IInvStacks DEF StacksOK, CtxOK, ContextsFollowPath
<1> QED  BY <1>1, IInvAlways, PTL

(* There is a counter of arguments for each command that still reads them  *)
(* and for no other, so that a comma never separates the arguments of a    *)
(* command that is complete (handle_comma, counter.c).                     *)
THEOREM RemainingArgsFollowPathCorrect == Spec => []RemainingArgsFollowPath
<1>1. IInv => RemainingArgsFollowPath
  BY IInvStacks DEF StacksOK, ArgsOK, RemainingArgsFollowPath
<1> QED  BY <1>1, IInvAlways, PTL

(* What check_valid_nesting_context looks at is what the parser is in: the *)
(* stacks and counters of nesting_context are those of the path.           *)
THEOREM NestingFollowsPathCorrect == Spec => []NestingFollowsPath
<1>1. IInv => NestingFollowsPath
  BY IInvStacks DEF StacksOK, NestOK, NestingFollowsPath
<1> QED  BY <1>1, IInvAlways, PTL

(* No sequence of tokens ends the program: every pop finds the context it  *)
(* expects and a stack that is not empty (pop_context, counter_pop,        *)
(* parse_texi).                                                            *)
THEOREM NeverFatalCorrect == Spec => []NeverFatal
<1>1. IInv => NeverFatal
  BY DEF IInv, NeverFatal
<1> QED  BY <1>1, IInvAlways, PTL

=============================================================================
