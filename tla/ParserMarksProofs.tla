-------------------------- MODULE ParserMarksProofs --------------------------
(***************************************************************************)
(* The source marks of the parser, for every document: each expansion or   *)
(* inclusion that starts in the tree ends in the tree, and the pairs of    *)
(* marks are properly nested.                                              *)
(***************************************************************************)
EXTENDS ParserInputProofs

-----------------------------------------------------------------------------
(***************************************************************************)
(* A stack s of frames agrees with the marks m of the tree.                *)
(***************************************************************************)

(* The marks that a counter has counted. *)
Counted(m, t) == {n \in DOMAIN m : m[n].type = t /\ m[n].status # "end"}

StartsOf(m) == {n \in DOMAIN m : m[n].status = "start"}

(* Mark j ends what mark i starts. *)
Ends(m, i, j) ==
  /\ i < j
  /\ m[j].status = "end"
  /\ m[j].type = m[i].type /\ m[j].counter = m[i].counter

(* The frames that hold what mark i has started. *)
OpenAt(s, m, i) == {f \in DOMAIN s : s[f].mark = m[i]}
EndsOf(m, i) == {j \in DOMAIN m : Ends(m, i, j)}

(* A frame whose mark will not be paired. *)
Unpaired(mark) == mark = None \/ mark.status = "none"

CountersGrow(m) ==
  /\ \A i \in DOMAIN m : m[i].status # "end" => m[i].counter <= Cardinality(Counted(m, m[i].type))
  /\ \A i, j \in DOMAIN m :
       i # j /\ m[i].status # "end" /\ m[j].status # "end" /\ m[i].type = m[j].type
         => m[i].counter # m[j].counter

FramesStarted(s, m) ==
  \A f \in DOMAIN s :
    /\ Unpaired(s[f].mark) \/ \E i \in StartsOf(m) : m[i] = s[f].mark
    /\ s[f].mark # None => (s[f].mark.status = "none" <=> s[f].mark.type = "delcomment")

(* What has started is open in one frame, or has ended once. *)
OpenOrEnded(s, m) ==
  \A i \in StartsOf(m) :
    \/ EndsOf(m, i) = {} /\ \E f \in DOMAIN s : OpenAt(s, m, i) = {f}
    \/ OpenAt(s, m, i) = {} /\ \E j \in DOMAIN m : EndsOf(m, i) = {j}

(* What started later is open further up the stack. *)
OpenInOrder(s, m) ==
  \A i, j \in StartsOf(m) : i < j =>
    \A f, g \in DOMAIN s : s[f].mark = m[i] /\ s[g].mark = m[j] => f < g

(* What starts between the marks of a pair ends there. *)
EndedNested(m) ==
  \A i \in StartsOf(m) : \A j \in EndsOf(m, i) :
    \A inner \in StartsOf(m) : i < inner /\ inner < j =>
      \E e \in EndsOf(m, inner) : e < j

Paired(s, m) ==
  /\ CountersGrow(m) /\ FramesStarted(s, m) /\ OpenOrEnded(s, m)
  /\ OpenInOrder(s, m) /\ EndedNested(m)

(* r has the frames of s, and others whose marks will not be paired. *)
OnTop(r, s) ==
  /\ Len(s) <= Len(r)
  /\ \A f \in 1 .. Len(s) : r[f].mark = s[f].mark
  /\ \A f \in Len(s) + 1 .. Len(r) :
       /\ Unpaired(r[f].mark)
       /\ r[f].mark # None => r[f].mark.type = "delcomment"

Marks == Seq(SourceMark)

LEMMA CountedFinite ==
  ASSUME NEW m \in Marks, NEW t
  PROVE  /\ IsFiniteSet(Counted(m, t)) /\ Cardinality(Counted(m, t)) \in Nat
         /\ DOMAIN m = 1 .. Len(m) /\ Len(m) \in Nat
         /\ \A i \in DOMAIN m : m[i] \in SourceMark /\ m[i] # None
<1>1. DOMAIN m = 1 .. Len(m) /\ Len(m) \in Nat /\ \A i \in DOMAIN m : m[i] \in SourceMark
  BY DEF Marks
<1>2. IsFiniteSet(1 .. Len(m)) /\ Counted(m, t) \in SUBSET (1 .. Len(m))
  BY <1>1, FS_Interval DEF Counted
<1>3. IsFiniteSet(Counted(m, t)) /\ Cardinality(Counted(m, t)) \in Nat
  BY <1>2, FS_Subset, FS_CardinalityType
<1>. QED  BY <1>1, <1>3, NoMarkAssumption

LEMMA MarkAppended ==
  ASSUME NEW m \in Marks, NEW k \in SourceMark
  PROVE  /\ Append(m, k) \in Marks
         /\ DOMAIN Append(m, k) = DOMAIN m \cup {Len(m) + 1}
         /\ Len(m) + 1 \notin DOMAIN m
         /\ Append(m, k)[Len(m) + 1] = k
         /\ \A i \in DOMAIN m : Append(m, k)[i] = m[i] /\ i < Len(m) + 1 /\ ~(Len(m) + 1 < i)
  BY DEF Marks

LEMMA CountedAppended ==
  ASSUME NEW m \in Marks, NEW k \in SourceMark, NEW t
  PROVE  /\ k.type = t /\ k.status # "end"
              => Counted(Append(m, k), t) = Counted(m, t) \cup {Len(m) + 1}
         /\ k.type # t \/ k.status = "end" => Counted(Append(m, k), t) = Counted(m, t)
<1>. DEFINE n == Append(m, k)
            last == Len(m) + 1
<1>1. /\ DOMAIN n = DOMAIN m \cup {last}
      /\ last \notin DOMAIN m /\ n[last] = k
      /\ \A i \in DOMAIN m : n[i] = m[i]
  BY MarkAppended
<1>. HIDE DEF n, last
<1>2. ASSUME k.type = t, k.status # "end"
      PROVE  Counted(n, t) = Counted(m, t) \cup {last}
  BY <1>1, <1>2 DEF Counted
<1>3. ASSUME k.type # t \/ k.status = "end"
      PROVE  Counted(n, t) = Counted(m, t)
  BY <1>1, <1>3 DEF Counted
<1>. QED  BY <1>2, <1>3 DEF n, last

(* A counted mark has a number of its own. *)
LEMMA CountMark ==
  ASSUME NEW m \in Marks, CountersGrow(m), NEW k \in SourceMark, k.status # "end",
         k.counter = Cardinality(Counted(m, k.type)) + 1
  PROVE  /\ CountersGrow(Append(m, k))
         /\ \A i \in DOMAIN m : m[i].status # "end" /\ m[i].type = k.type
              => m[i].counter # k.counter
<1>. DEFINE n == Append(m, k)
            last == Len(m) + 1
            Count(t) == Cardinality(Counted(m, t))
            CountAfter(t) == Cardinality(Counted(n, t))
<1>1. /\ DOMAIN n = DOMAIN m \cup {last}
      /\ last \notin DOMAIN m /\ n[last] = k
      /\ \A i \in DOMAIN m : n[i] = m[i]
  BY MarkAppended
<1>2. ASSUME NEW t
      PROVE  /\ Count(t) \in Nat
             /\ k.type = t => CountAfter(t) = Count(t) + 1
             /\ k.type # t => CountAfter(t) = Count(t)
  <2>1. /\ k.type = t => Counted(n, t) = Counted(m, t) \cup {last}
        /\ k.type # t => Counted(n, t) = Counted(m, t)
    BY CountedAppended
  <2>2. last \notin Counted(m, t)
    BY <1>1 DEF Counted
  <2>3. IsFiniteSet(Counted(m, t)) /\ Count(t) \in Nat
    BY CountedFinite
  <2>. HIDE DEF n, last
  <2>4. Cardinality(Counted(m, t) \cup {last}) = Count(t) + 1
    BY <2>2, <2>3, FS_AddElement
  <2>. QED  BY <2>1, <2>3, <2>4
<1>. HIDE DEF n, last
<1>3. \A i \in DOMAIN m : m[i].counter \in Nat
  BY CountedFinite DEF SourceMark
<1>4. ASSUME NEW i \in DOMAIN m, m[i].status # "end"
      PROVE  m[i].counter <= Count(m[i].type) /\ m[i].counter <= CountAfter(m[i].type)
  <2>1. /\ Count(m[i].type) \in Nat
        /\ \/ CountAfter(m[i].type) = Count(m[i].type) + 1
           \/ CountAfter(m[i].type) = Count(m[i].type)
    BY <1>2
  <2>2. m[i].counter <= Count(m[i].type) /\ m[i].counter \in Nat
    BY <1>3, <1>4 DEF CountersGrow
  <2>. HIDE DEF Count, CountAfter
  <2>. QED  BY <2>1, <2>2
<1>5. \A i \in DOMAIN m : m[i].status # "end" /\ m[i].type = k.type => m[i].counter # k.counter
  <2>1. Count(k.type) \in Nat /\ k.counter = Count(k.type) + 1
    BY <1>2
  <2>. SUFFICES ASSUME NEW i \in DOMAIN m, m[i].status # "end", m[i].type = k.type
                PROVE  m[i].counter # k.counter
    OBVIOUS
  <2>2. m[i].counter <= Count(k.type) /\ m[i].counter \in Nat
    BY <1>3, <1>4
  <2>. HIDE DEF Count
  <2>. QED  BY <2>1, <2>2
<1>6. \A i \in DOMAIN n : n[i].status # "end" => n[i].counter <= CountAfter(n[i].type)
  <2>1. k.counter <= CountAfter(k.type)
    <3>1. /\ k.counter = Count(k.type) + 1
          /\ CountAfter(k.type) = Count(k.type) + 1
          /\ Count(k.type) \in Nat
      BY <1>2
    <3>. HIDE DEF Count, CountAfter
    <3>. QED  BY <3>1
  <2>. HIDE DEF CountAfter
  <2>. QED  BY <1>1, <1>4, <2>1
<1>7. CountersGrow(n)
  BY <1>1, <1>5, <1>6 DEF CountersGrow
<1>. QED  BY <1>5, <1>7 DEF n

(* Another unpaired frame, or none, on top. *)
LEMMA PairedOnTop ==
  ASSUME NEW s \in Seq(Frame), NEW r \in Seq(Frame), NEW m \in Marks,
         Paired(s, m), OnTop(r, s)
  PROVE  Paired(r, m)
<1>1. /\ DOMAIN s = 1 .. Len(s) /\ DOMAIN r = 1 .. Len(r)
      /\ Len(s) \in Nat /\ Len(r) \in Nat /\ Len(s) <= Len(r)
      /\ \A f \in 1 .. Len(s) : f \in 1 .. Len(r) /\ r[f].mark = s[f].mark
      /\ \A f \in 1 .. Len(r) : f \notin 1 .. Len(s) =>
           Unpaired(r[f].mark) /\ (r[f].mark # None => r[f].mark.type = "delcomment")
  <2>1. \A f \in 1 .. Len(r) : f \notin 1 .. Len(s) => f \in Len(s) + 1 .. Len(r)
    OBVIOUS
  <2>. QED  BY <2>1 DEF OnTop
<1>2. \A i \in StartsOf(m) : m[i] # None /\ m[i].status = "start" /\ i \in DOMAIN m
  BY CountedFinite DEF StartsOf
<1>3. \A i \in StartsOf(m) : OpenAt(r, m, i) = OpenAt(s, m, i)
  BY <1>1, <1>2 DEF OpenAt, Unpaired
<1>4. FramesStarted(r, m)
  BY <1>1 DEF FramesStarted, Paired, Unpaired
<1>5. OpenOrEnded(r, m)
  BY <1>1, <1>3 DEF OpenOrEnded, Paired
<1>6. OpenInOrder(r, m)
  <2>1. \A i \in StartsOf(m), f \in DOMAIN r : r[f].mark = m[i] => f \in DOMAIN s /\ s[f].mark = m[i]
    BY <1>1, <1>2 DEF Unpaired
  <2>. QED  BY <2>1 DEF OpenInOrder, Paired
<1>. QED  BY <1>4, <1>5, <1>6 DEF Paired

(* A counted mark that starts nothing. *)
LEMMA PairedMark ==
  ASSUME NEW s \in Seq(Frame), NEW m \in Marks, Paired(s, m),
         NEW k \in SourceMark, k.status = "none",
         k.counter = Cardinality(Counted(m, k.type)) + 1
  PROVE  Paired(s, Append(m, k))
<1>. DEFINE n == Append(m, k)
            last == Len(m) + 1
<1>1. /\ DOMAIN n = DOMAIN m \cup {last}
      /\ last \notin DOMAIN m /\ n[last] = k
      /\ \A i \in DOMAIN m : n[i] = m[i] /\ i < last
  BY MarkAppended
<1>2. CountersGrow(n)
  BY CountMark DEF Paired
<1>. HIDE DEF n, last
<1>3. /\ StartsOf(n) = StartsOf(m)
      /\ \A i \in StartsOf(m) : /\ i \in DOMAIN m /\ n[i] = m[i]
                                /\ EndsOf(n, i) = EndsOf(m, i)
                                /\ OpenAt(s, n, i) = OpenAt(s, m, i)
  BY <1>1 DEF StartsOf, EndsOf, OpenAt, Ends
<1>4. FramesStarted(s, n)
  BY <1>3 DEF FramesStarted, Paired
<1>5. OpenOrEnded(s, n)
  BY <1>1, <1>3 DEF OpenOrEnded, Paired
<1>6. OpenInOrder(s, n)
  BY <1>3 DEF OpenInOrder, Paired
<1>7. EndedNested(n)
  BY <1>3 DEF EndedNested, Paired
<1>. QED  BY <1>2, <1>4, <1>5, <1>6, <1>7 DEF Paired, n

(* A mark that starts what the new frame on top holds. *)
LEMMA PairedStart ==
  ASSUME NEW s \in Seq(Frame), NEW m \in Marks, Paired(s, m),
         NEW k \in SourceMark, k.status = "start", k.type # "delcomment",
         k.counter = Cardinality(Counted(m, k.type)) + 1,
         NEW f \in Frame, f.mark = k
  PROVE  Paired(Append(s, f), Append(m, k))
<1>. DEFINE n == Append(m, k)
            last == Len(m) + 1
            r == Append(s, f)
            top == Len(s) + 1
<1>1. /\ DOMAIN n = DOMAIN m \cup {last}
      /\ last \notin DOMAIN m /\ n[last] = k
      /\ \A i \in DOMAIN m : n[i] = m[i] /\ i < last /\ ~(last < i)
  BY MarkAppended
<1>2. /\ CountersGrow(n)
      /\ \A i \in DOMAIN m : m[i].status # "end" /\ m[i].type = k.type
           => m[i].counter # k.counter
  BY CountMark DEF Paired
<1>3. /\ DOMAIN r = DOMAIN s \cup {top} /\ top \notin DOMAIN s
      /\ r[top].mark = k /\ k # None
      /\ \A g \in DOMAIN s : r[g] = s[g] /\ g < top
  BY NoMarkAssumption
<1>4. ~(last < last)
  BY CountedFinite DEF last
<1>. HIDE DEF n, last, r, top
<1>5. /\ StartsOf(n) = StartsOf(m) \cup {last} /\ last \notin StartsOf(m)
      /\ \A i \in StartsOf(m) : i \in DOMAIN m /\ n[i] = m[i] /\ m[i] # k
                                /\ m[i].status = "start"
  BY <1>1, <1>2 DEF StartsOf
<1>6. \A g \in DOMAIN s : s[g].mark # k
  <2>. SUFFICES ASSUME NEW g \in DOMAIN s, s[g].mark = k  PROVE FALSE
    OBVIOUS
  <2>1. PICK i \in StartsOf(m) : m[i] = k
    BY <1>3 DEF Paired, FramesStarted, Unpaired
  <2>. QED  BY <1>5, <2>1
<1>7. \A i \in StartsOf(m) : EndsOf(n, i) = EndsOf(m, i) /\ OpenAt(r, n, i) = OpenAt(s, m, i)
  BY <1>1, <1>3, <1>5 DEF EndsOf, OpenAt, Ends
<1>8. EndsOf(n, last) = {} /\ OpenAt(r, n, last) = {top}
  BY <1>1, <1>3, <1>4, <1>6 DEF EndsOf, OpenAt, Ends
<1>9. FramesStarted(r, n)
  BY <1>1, <1>3, <1>5 DEF FramesStarted, Paired
<1>10. OpenOrEnded(r, n)
  BY <1>1, <1>3, <1>5, <1>7, <1>8 DEF OpenOrEnded, Paired
<1>11. OpenInOrder(r, n)
  <2>. SUFFICES ASSUME NEW i \in StartsOf(n), NEW j \in StartsOf(n), i < j,
                       NEW g \in DOMAIN r, NEW h \in DOMAIN r,
                       r[g].mark = n[i], r[h].mark = n[j]
                PROVE  g < h
    BY DEF OpenInOrder
  <2>1. i \in StartsOf(m) /\ g \in DOMAIN s /\ s[g].mark = m[i]
    <3>1. i \in StartsOf(m)
      BY <1>1, <1>4, <1>5 DEF StartsOf
    <3>. QED  BY <1>3, <1>5, <3>1
  <2>2. CASE j = last
    BY <1>1, <1>3, <1>6, <2>1, <2>2
  <2>3. CASE j \in StartsOf(m)
    <3>1. h \in DOMAIN s /\ s[h].mark = m[j]
      BY <1>3, <1>5, <2>3
    <3>. QED  BY <2>1, <2>3, <3>1 DEF Paired, OpenInOrder
  <2>. QED  BY <1>5, <2>2, <2>3
<1>12. EndedNested(n)
  <2>. SUFFICES ASSUME NEW i \in StartsOf(n), NEW j \in EndsOf(n, i),
                       NEW inner \in StartsOf(n), i < inner, inner < j
                PROVE  \E e \in EndsOf(n, inner) : e < j
    BY DEF EndedNested
  <2>1. i \in StartsOf(m) /\ j \in EndsOf(m, i)
    BY <1>5, <1>7, <1>8
  <2>2. inner \in StartsOf(m)
    BY <1>1, <1>5, <2>1 DEF EndsOf
  <2>. QED  BY <1>7, <2>1, <2>2 DEF Paired, EndedNested
<1>. QED  BY <1>2, <1>9, <1>10, <1>11, <1>12 DEF Paired, n, r

(* The stack without its top. *)
LEMMA Popped ==
  ASSUME NEW s \in Seq(Frame), s # <<>>
  PROVE  LET r == SubSeq(s, 1, Len(s) - 1)
         IN  /\ r \in Seq(Frame)
             /\ DOMAIN s = DOMAIN r \cup {Len(s)} /\ Len(s) \notin DOMAIN r
             /\ \A g \in DOMAIN r : r[g] = s[g] /\ g < Len(s) /\ ~(Len(s) < g)
<1>. DEFINE r == SubSeq(s, 1, Len(s) - 1)
<1>1. Len(s) \in Nat /\ Len(s) > 0 /\ DOMAIN s = 1 .. Len(s)
  OBVIOUS
<1>2. /\ r \in Seq(Frame) /\ Len(r) = Len(s) - 1 /\ DOMAIN r = 1 .. Len(s) - 1
      /\ \A g \in 1 .. Len(s) - 1 : r[g] = s[g]
  BY <1>1
<1>. HIDE DEF r
<1>. QED  BY <1>1, <1>2 DEF r

LEMMA PairedPop ==
  ASSUME NEW s \in Seq(Frame), NEW m \in Marks, Paired(s, m), s # <<>>,
         Unpaired(s[Len(s)].mark)
  PROVE  Paired(SubSeq(s, 1, Len(s) - 1), m)
<1>. DEFINE r == SubSeq(s, 1, Len(s) - 1)
            top == Len(s)
<1>1. /\ DOMAIN s = DOMAIN r \cup {top} /\ top \notin DOMAIN r
      /\ \A g \in DOMAIN r : r[g] = s[g]
      /\ Unpaired(s[top].mark)
  BY Popped
<1>. HIDE DEF r, top
<1>2. \A i \in StartsOf(m) : m[i] # None /\ m[i].status = "start" /\ i \in DOMAIN m
  BY CountedFinite DEF StartsOf
<1>3. \A i \in StartsOf(m) : OpenAt(r, m, i) = OpenAt(s, m, i)
  BY <1>1, <1>2 DEF OpenAt, Unpaired
<1>4. FramesStarted(r, m)
  BY <1>1 DEF FramesStarted, Paired
<1>5. OpenOrEnded(r, m)
  <2>. SUFFICES ASSUME NEW i \in StartsOf(m)
                PROVE  \/ EndsOf(m, i) = {} /\ \E f \in DOMAIN r : OpenAt(r, m, i) = {f}
                       \/ OpenAt(r, m, i) = {} /\ \E j \in DOMAIN m : EndsOf(m, i) = {j}
    BY DEF OpenOrEnded
  <2>1. \A f : OpenAt(r, m, i) = {f} => f \in DOMAIN r
    BY DEF OpenAt
  <2>. QED  BY <1>3, <2>1 DEF Paired, OpenOrEnded
<1>6. OpenInOrder(r, m)
  BY <1>1 DEF OpenInOrder, Paired
<1>. QED  BY <1>4, <1>5, <1>6 DEF Paired, r

LEMMA PairedEnd ==
  ASSUME NEW s \in Seq(Frame), NEW m \in Marks, Paired(s, m), s # <<>>,
         NEW k \in SourceMark, s[Len(s)].mark = k, k.status # "none"
  PROVE  Paired(SubSeq(s, 1, Len(s) - 1), Append(m, [k EXCEPT !.status = "end"]))
<1>. DEFINE e == [k EXCEPT !.status = "end"]
            n == Append(m, e)
            last == Len(m) + 1
            r == SubSeq(s, 1, Len(s) - 1)
            top == Len(s)
<1>1. e \in SourceMark /\ e.type = k.type /\ e.counter = k.counter /\ e.status = "end"
  BY DEF SourceMark, MarkStatus
<1>. HIDE DEF e
<1>2. /\ DOMAIN n = DOMAIN m \cup {last}
      /\ last \notin DOMAIN m /\ n[last] = e
      /\ \A i \in DOMAIN m : n[i] = m[i] /\ i < last /\ ~(last < i)
      /\ \A t : Counted(n, t) = Counted(m, t)
  <2>1. /\ DOMAIN n = DOMAIN m \cup {last}
        /\ last \notin DOMAIN m /\ n[last] = e
        /\ \A i \in DOMAIN m : n[i] = m[i] /\ i < last /\ ~(last < i)
    BY <1>1, MarkAppended
  <2>2. \A t : Counted(n, t) = Counted(m, t)
    BY <1>1, CountedAppended
  <2>. HIDE DEF n, last
  <2>. QED  BY <2>1, <2>2
<1>3. /\ DOMAIN s = DOMAIN r \cup {top} /\ top \notin DOMAIN r /\ top \in DOMAIN s
      /\ \A g \in DOMAIN r : r[g] = s[g] /\ ~(top < g)
      /\ s[top].mark = k
  <2>1. LET q == SubSeq(s, 1, Len(s) - 1)
        IN  /\ q \in Seq(Frame)
            /\ DOMAIN s = DOMAIN q \cup {Len(s)} /\ Len(s) \notin DOMAIN q
            /\ \A g \in DOMAIN q : q[g] = s[g] /\ g < Len(s) /\ ~(Len(s) < g)
    BY Popped
  <2>. QED  BY <2>1
<1>. HIDE DEF n, last, r, top
<1>4. k # None
  BY NoMarkAssumption
<1>5. PICK i0 \in StartsOf(m) : m[i0] = k
  BY <1>3, <1>4 DEF Paired, FramesStarted, Unpaired
<1>6. /\ StartsOf(n) = StartsOf(m)
      /\ \A i \in StartsOf(m) : i \in DOMAIN m /\ n[i] = m[i] /\ m[i].status = "start"
  BY <1>1, <1>2 DEF StartsOf
<1>7. \A i \in StartsOf(m) : i # i0 => m[i].type # k.type \/ m[i].counter # k.counter
  BY <1>5, <1>6 DEF Paired, CountersGrow
<1>8. \A i \in StartsOf(m) : i # i0 =>
        EndsOf(n, i) = EndsOf(m, i) /\ OpenAt(r, n, i) = OpenAt(s, m, i)
  BY <1>1, <1>2, <1>3, <1>6, <1>7 DEF EndsOf, OpenAt, Ends
<1>9. OpenAt(s, m, i0) = {top} /\ EndsOf(m, i0) = {}
  <2>1. top \in OpenAt(s, m, i0)
    BY <1>3, <1>5 DEF OpenAt
  <2>. QED  BY <2>1 DEF Paired, OpenOrEnded
<1>10. OpenAt(r, n, i0) = {} /\ EndsOf(n, i0) = {last}
  <2>1. OpenAt(r, n, i0) = {}
    BY <1>3, <1>6, <1>9 DEF OpenAt
  <2>2. EndsOf(n, i0) = {last}
    <3>1. Ends(n, i0, last)
      BY <1>1, <1>2, <1>5, <1>6 DEF Ends
    <3>2. \A j \in DOMAIN m : ~Ends(n, i0, j)
      BY <1>2, <1>6, <1>9 DEF EndsOf, Ends
    <3>. QED  BY <1>2, <3>1, <3>2 DEF EndsOf
  <2>. QED  BY <2>1, <2>2
<1>11. CountersGrow(n)
  BY <1>1, <1>2 DEF CountersGrow, Paired
<1>12. FramesStarted(r, n)
  BY <1>3, <1>6 DEF FramesStarted, Paired
<1>13. OpenOrEnded(r, n)
  <2>. SUFFICES ASSUME NEW i \in StartsOf(m)
                PROVE  \/ EndsOf(n, i) = {} /\ \E f \in DOMAIN r : OpenAt(r, n, i) = {f}
                       \/ OpenAt(r, n, i) = {} /\ \E j \in DOMAIN n : EndsOf(n, i) = {j}
    BY <1>6 DEF OpenOrEnded
  <2>1. CASE i = i0
    BY <1>2, <1>10, <2>1
  <2>2. CASE i # i0
    <3>1. \A f : OpenAt(r, n, i) = {f} => f \in DOMAIN r
      BY DEF OpenAt
    <3>. QED  BY <1>2, <1>8, <2>2, <3>1 DEF Paired, OpenOrEnded
  <2>. QED  BY <2>1, <2>2
<1>14. OpenInOrder(r, n)
  BY <1>3, <1>6 DEF OpenInOrder, Paired
<1>15. EndedNested(n)
  <2>. SUFFICES ASSUME NEW i \in StartsOf(m), NEW j \in EndsOf(n, i),
                       NEW inner \in StartsOf(m), i < inner, inner < j
                PROVE  \E x \in EndsOf(n, inner) : x < j
    BY <1>6 DEF EndedNested
  <2>1. CASE i = i0
    <3>1. j = last
      BY <1>10, <2>1
    <3>2. inner # i0
      BY <1>6, <2>1, CountedFinite
    <3>3. OpenAt(s, m, inner) = {}
      <4>. SUFFICES ASSUME NEW f \in DOMAIN s, s[f].mark = m[inner]  PROVE FALSE
        BY DEF OpenAt
      <4>1. f # top
        BY <1>3, <1>5, <1>7, <3>2
      <4>2. top < f
        BY <1>3, <1>5, <2>1 DEF Paired, OpenInOrder
      <4>. QED  BY <1>3, <4>1, <4>2
    <3>4. PICK x \in DOMAIN m : EndsOf(m, inner) = {x}
      BY <3>3 DEF Paired, OpenOrEnded
    <3>. QED  BY <1>2, <1>8, <3>1, <3>2, <3>4
  <2>2. CASE i # i0
    <3>1. j \in EndsOf(m, i) /\ j \in DOMAIN m
      BY <1>8, <2>2 DEF EndsOf
    <3>2. PICK x \in EndsOf(m, inner) : x < j
      BY <3>1 DEF Paired, EndedNested
    <3>3. inner # i0
      BY <1>9, <3>2
    <3>. QED  BY <1>8, <3>2, <3>3
  <2>. QED  BY <2>1, <2>2
<1>. QED  BY <1>11, <1>12, <1>13, <1>14, <1>15 DEF Paired, n, r, e

-----------------------------------------------------------------------------
(***************************************************************************)
(* The steps.  While the preamble is read, next_text is given no element   *)
(* and loses the marks of what it pops, so nothing may be open then.       *)
(***************************************************************************)
PreambleUnmarked ==
  /\ pc = "preamble" => ret = "preamble"
  /\ ret = "preamble" => /\ pc \in {"preamble", "next_text"}
                         /\ \A f \in DOMAIN input_stack : Unpaired(input_stack[f].mark)

MarksInv == Paired(input_stack, marks) /\ PreambleUnmarked

LEMMA NewMarkCounts ==
  ASSUME TypeOK, NEW t \in MarkTypes, NEW status \in MarkStatus
  PROVE  LET k == NewMark(t, status)
         IN  /\ k \in SourceMark /\ k.type = t /\ k.status = status
             /\ k.counter = Cardinality(Counted(marks, k.type)) + 1
<1>1. NewMark(t, status) \in SourceMark
  BY NewMarkType
<1>. QED  BY <1>1 DEF NewMark, Counted

LEMMA SetTopOnTop ==
  ASSUME NEW s \in Seq(Frame), s # <<>>, NEW g, g.mark = s[Len(s)].mark
  PROVE  OnTop([s EXCEPT ![Len(s)] = g], s)
<1>. DEFINE r == [s EXCEPT ![Len(s)] = g]
<1>1. DOMAIN s = 1 .. Len(s) /\ Len(s) \in Nat /\ DOMAIN r = 1 .. Len(s)
  OBVIOUS
<1>2. Len(r) = Len(s)
  BY <1>1
<1>3. \A f \in 1 .. Len(s) : r[f].mark = s[f].mark
  BY <1>1
<1>. HIDE DEF r
<1>4. Len(s) + 1 .. Len(r) = {}
  BY <1>1, <1>2
<1>5. OnTop(r, s)
  BY <1>1, <1>2, <1>3, <1>4 DEF OnTop
<1>. QED  BY <1>5 DEF r

LEMMA PushOnTop ==
  ASSUME NEW s \in Seq(Frame), NEW r \in Seq(Frame), OnTop(r, s),
         NEW f \in Frame, Unpaired(f.mark), f.mark # None => f.mark.type = "delcomment"
  PROVE  OnTop(Append(r, f), s) /\ Append(r, f) \in Seq(Frame)
<1>. DEFINE q == Append(r, f)
<1>1. /\ Len(s) \in Nat /\ Len(r) \in Nat /\ Len(s) <= Len(r)
      /\ Len(q) = Len(r) + 1 /\ q \in Seq(Frame)
      /\ \A i \in 1 .. Len(r) : q[i] = r[i]
      /\ q[Len(r) + 1] = f
  BY DEF OnTop
<1>. HIDE DEF q
<1>2. \A i \in Len(s) + 1 .. Len(q) : i \in Len(s) + 1 .. Len(r) \/ i = Len(r) + 1
  BY <1>1
<1>3. \A i \in 1 .. Len(s) : i \in 1 .. Len(r)
  BY <1>1
<1>4. \A i \in Len(s) + 1 .. Len(r) : i \in 1 .. Len(r)
  BY <1>1
<1>. QED  BY <1>1, <1>2, <1>3, <1>4 DEF OnTop, q

LEMMA SameOnTop ==
  ASSUME NEW s \in Seq(Frame)
  PROVE  OnTop(s, s)
<1>1. Len(s) \in Nat /\ Len(s) + 1 .. Len(s) = {}
  OBVIOUS
<1>. QED  BY <1>1 DEF OnTop

(* The frame of text carries the mark it is given. *)
LEMMA StackTypes ==
  ASSUME IInv
  PROVE  input_stack \in Seq(Frame) /\ marks \in Marks /\ TypeOK
BY DEF IInv, TypeOK, Marks

LEMMA InitMarks == Init => MarksInv
<1>. SUFFICES ASSUME Init  PROVE MarksInv
  OBVIOUS
<1>1. \/ \E text : input_stack = PushFile(<<>>, text, MainFile, None)
      \/ \E text : input_stack = PushText(<<>>, text, 1, None, None, None)
  BY DEF Init, ParseFile, ParseText, ParsePiece, Start
<1>2. /\ marks = <<>> /\ pc = "next_text"
  BY DEF Init, ParseFile, ParseText, ParsePiece, Start
<1>3. PICK f : input_stack = <<f>> /\ f.mark = None
  BY <1>1 DEF PushFile, PushText, TextFrame
<1>4. \A g \in DOMAIN input_stack : input_stack[g].mark = None
  BY <1>3
<1>5. StartsOf(marks) = {} /\ DOMAIN marks = {}
  BY <1>2 DEF StartsOf
<1>6. Paired(input_stack, marks)
  BY <1>4, <1>5 DEF Paired, CountersGrow, FramesStarted, OpenOrEnded, OpenInOrder,
                    EndedNested, Unpaired
<1>7. PreambleUnmarked
  BY <1>2, <1>4 DEF PreambleUnmarked, Unpaired
<1>. QED  BY <1>6, <1>7 DEF MarksInv

(* Neither the stack nor the marks change. *)
LEMMA QuietMarks ==
  ASSUME IInv, MarksInv,
         \/ NextTextPushback \/ NextTextEnd \/ Preamble \/ OutOfInput \/ NewLine
         \/ EmptyText \/ Word \/ Include \/ Setfilename \/ LineMacroCall
         \/ NoMoreLine \/ EndOfLine \/ Bye \/ LineEnded
         \/ LineArgMore \/ ByeLine \/ GatherAfterBye \/ AfterByeEnd \/ UNCHANGED vars
  PROVE  MarksInv'
<1>1. UNCHANGED <<input_stack, marks>>
  BY DEF NextTextPushback, NextTextEnd, Preamble, OutOfInput, NewLine, EmptyText, Word, Include,
         Setfilename, LineMacroCall, NoMoreLine, EndOfLine, Bye, LineEnded, LineArgMore, ByeLine,
         GatherAfterBye, AfterByeEnd, vars, input_vars
<1>2. PreambleUnmarked'
  <2>1. CASE NextTextPushback \/ NextTextEnd
    BY <1>1, <2>1 DEF MarksInv, PreambleUnmarked, NextTextPushback, NextTextEnd, Return
  <2>2. CASE Preamble
    BY <1>1, <2>2 DEF MarksInv, PreambleUnmarked, Preamble, CallNextText
  <2>3. CASE OutOfInput \/ NewLine \/ EmptyText \/ Word \/ Include \/ Setfilename
             \/ LineMacroCall
    BY <1>1, <2>3 DEF MarksInv, PreambleUnmarked, OutOfInput, NewLine, EmptyText, Word,
                      Include, Setfilename, LineMacroCall, At, CallNextText
  <2>4. CASE NoMoreLine \/ EndOfLine \/ Bye \/ LineEnded
    BY <1>1, <2>4 DEF PreambleUnmarked, NoMoreLine, EndOfLine, Bye, LineEnded, EndLine,
                      CallNextText, IInv, CallControl
  <2>5. CASE LineArgMore \/ ByeLine \/ GatherAfterBye \/ AfterByeEnd
    BY <1>1, <2>5 DEF MarksInv, PreambleUnmarked, LineArgMore, ByeLine, GatherAfterBye,
                      AfterByeEnd, CallNextText
  <2>6. CASE UNCHANGED vars
    BY <1>1, <2>6 DEF MarksInv, PreambleUnmarked, vars
  <2>. QED  BY <2>1, <2>2, <2>3, <2>4, <2>5, <2>6
<1>. QED  BY <1>1, <1>2 DEF MarksInv

LEMMA NoFlag ==
  /\ None \in Macros \cup {None} /\ None \in Values \cup {None}
  /\ None \in SourceMark \cup {None}
OBVIOUS

(* What reading a line does to the stack. *)
LEMMA ReadTopMark ==
  ASSUME NEW s \in Seq(Frame), s # <<>>, NEW g, g.mark = s[Len(s)].mark,
         [s EXCEPT ![Len(s)] = g] \in Seq(Frame)
  PROVE  LET r == [s EXCEPT ![Len(s)] = g]
         IN  /\ OnTop(r, s)
             /\ \A text \in Text, nr \in Int :
                  LET q == PushText(r, text, nr, None, None,
                             [type |-> "delcomment", counter |-> 0, status |-> "none"])
                  IN  OnTop(q, s) /\ q \in Seq(Frame)
<1>. DEFINE r == [s EXCEPT ![Len(s)] = g]
            mark == [type |-> "delcomment", counter |-> 0, status |-> "none"]
<1>1. OnTop(r, s) /\ r \in Seq(Frame)
  BY SetTopOnTop
<1>2. mark \in SourceMark \cup {None} /\ mark.status = "none" /\ mark.type = "delcomment"
  BY DEF SourceMark, MarkTypes, MarkStatus
<1>. HIDE DEF r, mark
<1>3. ASSUME NEW text \in Text, NEW nr \in Int
      PROVE  OnTop(PushText(r, text, nr, None, None, mark), s)
             /\ PushText(r, text, nr, None, None, mark) \in Seq(Frame)
  <2>. DEFINE f == TextFrame(r, text, nr, None, None, mark)
  <2>1. f \in Frame /\ f.mark = mark
    <3>1. /\ r \in Seq(Frame) /\ text \in Text /\ nr \in Int
          /\ None \in Macros \cup {None} /\ None \in Values \cup {None}
          /\ mark \in SourceMark \cup {None}
      BY <1>1, <1>2, <1>3
    <3>2. IsTextFrame(r, None, None, f)
      BY <3>1, TextFrameType
    <3>3. f.mark = mark
      BY DEF TextFrame
    <3>. QED  BY <3>2, <3>3 DEF IsTextFrame
  <2>2. PushText(r, text, nr, None, None, mark) = Append(r, f)
    BY DEF PushText
  <2>. HIDE DEF f
  <2>. QED  BY <1>1, <1>2, <2>1, <2>2, PushOnTop DEF Unpaired
<1>. QED  BY <1>1, <1>3 DEF r, mark

(* Frames that will not be paired are added, or none. *)
LEMMA OnTopMarks ==
  ASSUME IInv, MarksInv, IInv', OnTop(input_stack', input_stack),
         marks' = marks, ret' = ret, pc' = ret, pc = "next_text"
  PROVE  MarksInv'
<1>1. /\ input_stack \in Seq(Frame) /\ input_stack' \in Seq(Frame) /\ marks \in Marks
  BY StackTypes DEF IInv, TypeOK
<1>2. Paired(input_stack', marks)
  BY <1>1, PairedOnTop DEF MarksInv
<1>3. (\A f \in DOMAIN input_stack : Unpaired(input_stack[f].mark))
        => \A f \in DOMAIN input_stack' : Unpaired(input_stack'[f].mark)
  <2>1. /\ DOMAIN input_stack = 1 .. Len(input_stack)
        /\ DOMAIN input_stack' = 1 .. Len(input_stack')
        /\ \A f \in DOMAIN input_stack' :
             f \in 1 .. Len(input_stack) \/ f \in Len(input_stack) + 1 .. Len(input_stack')
    BY <1>1
  <2>. QED  BY <2>1 DEF OnTop
<1>. QED  BY <1>2, <1>3 DEF MarksInv, PreambleUnmarked

(* next_text reads from the top, and pushes what a comment leaves. *)
LEMMA ReadMarks ==
  ASSUME IInv, MarksInv, IInv', NextTextLine \/ NextTextFileLine
  PROVE  MarksInv'
<1>1. /\ input_stack \in Seq(Frame) /\ input_stack # <<>>
      /\ Top \in Frame /\ Top = input_stack[Len(input_stack)]
      /\ Top.source_info.line_nr \in Int
  BY StackTypes, TopType DEF NextTextLine, NextTextFileLine, Top, SourceInfo
<1>2. PICK g : /\ g.mark = Top.mark /\ SetTop(g) \in Seq(Frame)
               /\ \/ input_stack' = SetTop(g)
                  \/ input_stack' = PushText(SetTop(g), <<>>, Top.source_info.line_nr, None, None,
                       [type |-> "delcomment", counter |-> 0, status |-> "none"])
  <2>1. \A t, i : [Top EXCEPT !.text = t, !.source_info = i].mark = Top.mark
    BY <1>1 DEF Frame
  <2>2. \A t \in Text, i \in SourceInfo : [Top EXCEPT !.text = t, !.source_info = i] \in Frame
    BY <1>1 DEF Frame
  <2>3. \A f \in Frame : SetTop(f) \in Seq(Frame)
    BY <1>1 DEF SetTop
  <2>4. /\ AfterLine(Top.text) \in Text
        /\ \A nr \in Int : [Top.source_info EXCEPT !.line_nr = nr] \in SourceInfo
    BY <1>1, TopType, TextOps DEF SourceInfo
  <2>5. CASE NextTextLine
    <3>. DEFINE counted == Top.source_info.macro = None /\ Top.value_flag = None
                nr == IF counted THEN Top.source_info.line_nr + 1 ELSE Top.source_info.line_nr
                info == [Top.source_info EXCEPT !.line_nr = nr]
                f == [Top EXCEPT !.text = AfterLine(Top.text), !.source_info = info]
    <3>1. input_stack' = SetTop(f)
      BY <2>5 DEF NextTextLine
    <3>2. nr \in Int
      BY <1>1
    <3>. HIDE DEF nr
    <3>. QED  BY <2>1, <2>2, <2>3, <2>4, <3>1, <3>2
  <2>6. CASE NextTextFileLine
    <3>. DEFINE nr == Top.source_info.line_nr + 1
                info == [Top.source_info EXCEPT !.line_nr = nr]
                f == [Top EXCEPT !.text = AfterLine(Top.text), !.source_info = info]
    <3>1. \/ input_stack' = SetTop(f)
          \/ input_stack' = PushText(SetTop(f), <<>>, Top.source_info.line_nr, None, None,
                       [type |-> "delcomment", counter |-> 0, status |-> "none"])
      BY <2>6 DEF NextTextFileLine
    <3>2. nr \in Int
      BY <1>1
    <3>. HIDE DEF nr
    <3>. QED  BY <2>1, <2>2, <2>3, <2>4, <3>1, <3>2
  <2>. QED  BY <2>5, <2>6
<1>3. OnTop(input_stack', input_stack)
  <2>1. <<>> \in Text
    BY DEF Text
  <2>. QED  BY <1>1, <1>2, <2>1, ReadTopMark DEF SetTop
<1>4. marks' = marks /\ ret' = ret /\ pc' = ret /\ pc = "next_text"
  BY DEF NextTextLine, NextTextFileLine, Return
<1>. QED  BY <1>3, <1>4, OnTopMarks

(* An exhausted frame goes, and its mark enters the tree. *)
LEMMA PopMarks ==
  ASSUME IInv, MarksInv, IInv', NextTextPop
  PROVE  MarksInv'
<1>. DEFINE s == input_stack
            r == SubSeq(s, 1, Len(s) - 1)
            k == Top.mark
<1>1. /\ s \in Seq(Frame) /\ s # <<>> /\ marks \in Marks /\ TypeOK
      /\ k = s[Len(s)].mark /\ k \in SourceMark \cup {None}
      /\ input_stack' = r
  BY StackTypes, TopType DEF NextTextPop, Top
<1>2. /\ r \in Seq(Frame) /\ Len(s) \in DOMAIN s
      /\ \A g \in DOMAIN r : r[g] = s[g] /\ g \in DOMAIN s
  BY <1>1, Popped
<1>3. k # None => (k.status = "none" <=> k.type = "delcomment")
  BY <1>1, <1>2 DEF MarksInv, Paired, FramesStarted
<1>4. PreambleUnmarked'
  BY <1>1, <1>2 DEF MarksInv, PreambleUnmarked, NextTextPop
<1>5. LosesMarks => Unpaired(k)
  BY <1>1, <1>2 DEF MarksInv, PreambleUnmarked, LosesMarks
<1>. HIDE DEF r, k
<1>6. CASE Unpaired(k)
  <2>1. Paired(r, marks)
    BY <1>1, <1>6, PairedPop DEF MarksInv, r
  <2>2. CASE k = None \/ LosesMarks
    <3>1. marks' = marks
      BY <2>2 DEF NextTextPop, k
    <3>. QED  BY <1>1, <1>4, <2>1, <3>1 DEF MarksInv
  <2>3. CASE ~(k = None \/ LosesMarks)
    <3>. DEFINE new == NewMark("delcomment", "none")
    <3>1. marks' = Append(marks, new)
      BY <1>3, <1>6, <2>3 DEF NextTextPop, Unpaired, k
    <3>2. /\ new \in SourceMark /\ new.status = "none"
          /\ new.counter = Cardinality(Counted(marks, new.type)) + 1
      BY <1>1, NewMarkCounts DEF MarkTypes, MarkStatus
    <3>. HIDE DEF new
    <3>3. Paired(r, Append(marks, new))
      BY <1>1, <1>2, <2>1, <3>2, PairedMark
    <3>. QED  BY <1>1, <1>4, <3>1, <3>3 DEF MarksInv
  <2>. QED  BY <2>2, <2>3
<1>7. CASE ~Unpaired(k)
  <2>1. k \in SourceMark /\ k.status # "none" /\ k # None /\ ~LosesMarks
    BY <1>1, <1>5, <1>7 DEF Unpaired
  <2>2. marks' = Append(marks, [k EXCEPT !.status = "end"])
    BY <1>3, <2>1 DEF NextTextPop, k
  <2>3. Paired(r, Append(marks, [k EXCEPT !.status = "end"]))
    BY <1>1, <2>1, PairedEnd DEF MarksInv, r
  <2>. QED  BY <1>1, <1>4, <2>2, <2>3 DEF MarksInv
<1>. QED  BY <1>6, <1>7

(* A directive that sets the line number leaves the frames' marks alone. *)
LEMMA LineDirectiveMarks ==
  ASSUME IInv, MarksInv, IInv', LineDirective
  PROVE  MarksInv'
<1>. DEFINE g == [Top EXCEPT !.source_info.line_nr = HashLine]
            new == NewMark("line_directive", "none")
<1>1. /\ input_stack \in Seq(Frame) /\ input_stack # <<>> /\ marks \in Marks /\ TypeOK
      /\ Top \in Frame /\ Top = input_stack[Len(input_stack)]
      /\ input_stack' \in Seq(Frame)
  BY StackTypes, TopType DEF LineDirective, IInv, LineHasFrame, Top, TypeOK
<1>2. g.mark = Top.mark
  BY <1>1 DEF Frame
<1>3. input_stack' = SetTop(g) /\ marks' = Append(marks, new) /\ ret' = "newline"
      /\ pc' = "next_text"
  BY DEF LineDirective, CallNextText
<1>. HIDE DEF g
<1>4. OnTop(input_stack', input_stack)
  BY <1>1, <1>2, <1>3, SetTopOnTop DEF SetTop
<1>5. Paired(input_stack', marks)
  BY <1>1, <1>4, PairedOnTop DEF MarksInv
<1>6. /\ new \in SourceMark /\ new.status = "none"
      /\ new.counter = Cardinality(Counted(marks, new.type)) + 1
  BY <1>1, NewMarkCounts DEF MarkTypes, MarkStatus
<1>. HIDE DEF new
<1>7. Paired(input_stack', marks')
  BY <1>1, <1>3, <1>5, <1>6, PairedMark
<1>. QED  BY <1>3, <1>7 DEF MarksInv, PreambleUnmarked

(* What starts goes on the stack, over the rest of the line or not. *)
LEMMA StartMarks ==
  ASSUME TypeOK, NEW t \in MarkTypes, t # "delcomment",
         NEW s \in Seq(Frame), Paired(s, marks), NEW f \in Frame, f.mark = NewMark(t, "start")
  PROVE  Paired(Append(s, f), Append(marks, NewMark(t, "start")))
<1>. DEFINE new == NewMark(t, "start")
<1>1. /\ new \in SourceMark /\ new.status = "start" /\ new.type = t
      /\ new.counter = Cardinality(Counted(marks, new.type)) + 1
  BY NewMarkCounts DEF MarkStatus
<1>2. marks \in Marks
  BY DEF TypeOK, Marks
<1>. HIDE DEF new
<1>3. f.mark = new
  BY DEF new
<1>4. Paired(Append(s, f), Append(marks, new))
  BY <1>1, <1>2, <1>3, PairedStart
<1>. QED  BY <1>4 DEF new

LEMMA EndCommandMarks ==
  ASSUME IInv, MarksInv, EndCommand
  PROVE  MarksInv'
<1>1. input_stack \in Seq(Frame) /\ marks \in Marks /\ TypeOK
  BY StackTypes
<1>2. PreambleUnmarked'
  <2>1. pc' = "end_line" /\ ret' = ret /\ ret \in {"newline", "bye_line"}
    BY CommandEnded DEF IInv, CallControl
  <2>. QED  BY <2>1 DEF PreambleUnmarked
<1>3. CASE Included(Innermost)
  <2>. DEFINE f == FileFrame(Innermost)
              mark == NewMark("include", "start")
  <2>1. /\ f \in Frame /\ f.mark = mark
        /\ input_stack' = Append(input_stack, f) /\ marks' = Append(marks, mark)
    BY <1>3, CommandEnded DEF FileFrame
  <2>. HIDE DEF f
  <2>2. Paired(input_stack', marks')
    BY <1>1, <2>1, StartMarks DEF MarksInv, MarkTypes
  <2>. QED  BY <1>2, <2>2 DEF MarksInv
<1>4. CASE ~Included(Innermost)
  <2>. DEFINE new == NewMark("setfilename", "none")
  <2>1. /\ input_stack' = input_stack
        /\ marks' = Append(marks, new) \/ marks' = marks
    BY <1>4, CommandEnded
  <2>2. /\ new \in SourceMark /\ new.status = "none"
        /\ new.counter = Cardinality(Counted(marks, new.type)) + 1
    BY <1>1, NewMarkCounts DEF MarkTypes, MarkStatus
  <2>. HIDE DEF new
  <2>3. Paired(input_stack', marks')
    BY <1>1, <2>1, <2>2, PairedMark DEF MarksInv
  <2>. QED  BY <1>2, <2>3 DEF MarksInv
<1>. QED  BY <1>3, <1>4

(* The rest of the line, then the text of an expansion. *)
LEMMA ExpandMarks ==
  ASSUME IInv, MarksInv, NEW rest \in Text, NEW text \in Text,
         NEW m \in Macros \cup {None}, NEW v \in Values \cup {None},
         NEW t \in MarkTypes, t # "delcomment"
  PROVE  LET mark == NewMark(t, "start")
         IN  Paired(Expand(rest, text, m, v, mark), Append(marks, mark))
<1>. DEFINE mark == NewMark(t, "start")
            nr == current_source_info.line_nr
            r == PushText(input_stack, rest, nr, None, None, None)
            g == TextFrame(input_stack, rest, nr, None, None, None)
            f == TextFrame(r, text, nr, m, v, mark)
<1>1. input_stack \in Seq(Frame) /\ TypeOK /\ nr \in Int /\ marks \in Marks
  BY StackTypes, StackFacts
<1>2. mark \in SourceMark \cup {None}
  BY <1>1, NewMarkType DEF MarkStatus
<1>. HIDE DEF nr, mark
<1>3. g \in Frame /\ g.mark = None /\ r = Append(input_stack, g)
  <2>1. g \in Frame /\ g.mark = None
    <3>1. /\ input_stack \in Seq(Frame) /\ rest \in Text /\ nr \in Int
          /\ None \in Macros \cup {None} /\ None \in Values \cup {None}
          /\ None \in SourceMark \cup {None}
      BY <1>1
    <3>2. IsTextFrame(input_stack, None, None, g)
      BY <3>1, TextFrameType
    <3>3. g.mark = None
      BY DEF TextFrame
    <3>. QED  BY <3>2, <3>3 DEF IsTextFrame
  <2>. QED  BY <2>1 DEF PushText
<1>. HIDE DEF g, r
<1>4. r \in Seq(Frame)
  BY <1>1, <1>3
<1>5. OnTop(input_stack, input_stack)
  BY <1>1, SameOnTop
<1>6. OnTop(r, input_stack)
  BY <1>1, <1>3, <1>5, PushOnTop DEF Unpaired
<1>7. Paired(r, marks)
  BY <1>1, <1>4, <1>6, PairedOnTop DEF MarksInv
<1>8. f \in Frame /\ f.mark = mark /\ PushText(r, text, nr, m, v, mark) = Append(r, f)
  <2>1. f \in Frame /\ f.mark = mark
    <3>1. /\ r \in Seq(Frame) /\ text \in Text /\ nr \in Int
          /\ m \in Macros \cup {None} /\ v \in Values \cup {None}
          /\ mark \in SourceMark \cup {None}
      BY <1>1, <1>2, <1>4
    <3>2. IsTextFrame(r, m, v, f)
      <4>. HIDE DEF r, mark
      <4>. QED  BY <3>1, TextFrameType
    <3>3. f.mark = mark
      BY DEF TextFrame
    <3>. QED  BY <3>2, <3>3 DEF IsTextFrame
  <2>. QED  BY <2>1 DEF PushText
<1>. HIDE DEF f
<1>9. Paired(Append(r, f), Append(marks, mark))
  BY <1>1, <1>4, <1>7, <1>8, StartMarks DEF mark
<1>10. Expand(rest, text, m, v, mark) = Append(r, f)
  BY <1>8 DEF Expand, r, nr
<1>. QED  BY <1>9, <1>10 DEF mark

LEMMA ValueMarks ==
  ASSUME IInv, MarksInv, Value
  PROVE  MarksInv'
<1>. DEFINE mark == NewMark("value_expansion", "start")
            flag == line[1].n
            text == ValueText[flag]
<1>1. line \in Text /\ line # <<>> /\ pc = "process"
  BY DEF Value, At, IInv, TypeOK
<1>2. flag \in Values /\ Tail(line) \in Text
  <2>1. line[1] \in Token /\ Tail(line) \in Text
    BY <1>1 DEF Text
  <2>. QED  BY <2>1, TokenNames DEF Value, At
<1>3. text \in Text
  BY <1>2, ParserInputAssumption
<1>4. \/ UNCHANGED <<input_stack, marks>>
      \/ /\ input_stack' = Expand(Tail(line), text, None, flag, mark)
         /\ marks' = Append(marks, mark)
  BY DEF Value
<1>5. pc' = pc /\ ret' = ret
  BY DEF Value
<1>. HIDE DEF flag, text
<1>6. Paired(Expand(Tail(line), text, None, flag, mark), Append(marks, mark))
  BY <1>2, <1>3, ExpandMarks DEF MarkTypes
<1>. HIDE DEF mark
<1>7. Paired(input_stack', marks')
  BY <1>4, <1>6 DEF MarksInv
<1>. QED  BY <1>1, <1>5, <1>7 DEF MarksInv, PreambleUnmarked

LEMMA FinishMacroMarks ==
  ASSUME IInv, MarksInv, NEW m \in Macros, NEW error \in BOOLEAN, NEW args \in Text,
         NEW rest \in Text, NEW entered, FinishMacro(m, error, args, rest, entered),
         pc \in {"process", "line_arg"}
  PROVE  MarksInv'
<1>. DEFINE mark == NewMark("macro_expansion", "start")
            failed == NewMark("macro_expansion", "none")
            text == ExpandedBody(m, args)
<1>1. \/ /\ marks' = Append(marks, failed) /\ pc' = "process" /\ UNCHANGED <<input_stack, ret>>
      \/ /\ marks' = Append(marks, mark) /\ pc' = "next_text" /\ ret' = "process"
         /\ input_stack' = Expand(rest, text, m, None, mark)
  BY DEF FinishMacro, CallNextText
<1>2. input_stack \in Seq(Frame) /\ marks \in Marks /\ TypeOK
  BY StackTypes
<1>3. /\ failed \in SourceMark /\ failed.status = "none"
      /\ failed.counter = Cardinality(Counted(marks, failed.type)) + 1
  BY <1>2, NewMarkCounts DEF MarkTypes, MarkStatus
<1>4. text \in Text
  BY ExpandedBodyType
<1>. HIDE DEF text, failed
<1>5. Paired(Expand(rest, text, m, None, mark), Append(marks, mark))
  BY <1>4, ExpandMarks DEF MarkTypes
<1>6. Paired(input_stack, Append(marks, failed))
  BY <1>2, <1>3, PairedMark DEF MarksInv
<1>. HIDE DEF mark
<1>7. Paired(input_stack', marks')
  BY <1>1, <1>5, <1>6
<1>. QED  BY <1>1, <1>7 DEF MarksInv, PreambleUnmarked

LEMMA CallMarks ==
  ASSUME IInv, MarksInv, MacroCall \/ LineArgEnd
  PROVE  MarksInv'
<1>1. line \in Text /\ <<>> \in Text
  BY DEF IInv, TypeOK, Text
<1>2. CASE MacroCall
  <2>1. line # <<>> /\ pc = "process"
    BY <1>2 DEF MacroCall, At
  <2>2. Tail(line) \in Text /\ line[1].n \in Macros
    <3>1. line[1] \in Token /\ Tail(line) \in Text
      BY <1>1, <2>1 DEF Text
    <3>. QED  BY <1>2, <3>1, TokenNames DEF MacroCall, At
  <2>3. MacroError(line[1].n, macro_expansion_nr + 1) \in BOOLEAN
    BY DEF MacroError
  <2>4. FinishMacro(line[1].n, MacroError(line[1].n, macro_expansion_nr + 1), <<>>,
                 Tail(line), macro_expansion_nr + 1)
    BY <1>2 DEF MacroCall
  <2>. QED  BY <1>1, <2>1, <2>2, <2>3, <2>4, FinishMacroMarks
<1>3. CASE LineArgEnd
  <2>1. /\ pc = "line_arg" /\ call.name \in Macros /\ call.error \in BOOLEAN
    BY <1>3 DEF LineArgEnd, IInv, CallControl, ReadingArgument, TypeOK
  <2>2. BeforeKind(line, "nl") \in Text /\ (IF eof THEN <<>> ELSE <<Nl>>) \in Text
    <3>1. Nl \in Token
      BY DEF Nl, Token
    <3>2. <<Nl>> \in Text
      BY <3>1 DEF Text
    <3>. QED  BY <1>1, <3>2, TextOps
  <2>3. FinishMacro(call.name, call.error, BeforeKind(line, "nl"),
                    IF eof THEN <<>> ELSE <<Nl>>, macro_expansion_nr)
    BY <1>3 DEF LineArgEnd
  <2>. QED  BY <2>1, <2>2, <2>3, FinishMacroMarks
<1>. QED  BY <1>2, <1>3

LEMMA NextMarks == IInv /\ MarksInv /\ [Next]_vars => MarksInv'
<1>. SUFFICES ASSUME IInv, MarksInv, [Next]_vars
              PROVE  MarksInv'
  OBVIOUS
<1>0. IInv'
  BY NextIInv
<1>1. CASE NextText
  BY <1>0, <1>1, QuietMarks, ReadMarks, PopMarks DEF NextText
<1>2. CASE ProcessLine
  BY <1>2, EndCommandMarks, QuietMarks, ValueMarks, CallMarks DEF ProcessLine
<1>3. CASE Preamble \/ OutOfInput \/ NewLine \/ LineDirective
  BY <1>0, <1>3, QuietMarks, LineDirectiveMarks
<1>4. CASE LineArgMore \/ LineArgEnd \/ ByeLine \/ GatherAfterBye \/ AfterByeEnd
  BY <1>4, QuietMarks, CallMarks
<1>5. CASE UNCHANGED vars
  BY <1>5, QuietMarks
<1>. QED  BY <1>1, <1>2, <1>3, <1>4, <1>5 DEF Next

LEMMA MarksInvHolds == Spec => []MarksInv
<1>1. Init => MarksInv
  BY InitMarks
<1>2. IInv /\ MarksInv /\ [Next]_vars => MarksInv'
  BY NextMarks
<1>. QED  BY <1>1, <1>2, IInvHolds, PTL DEF Spec

(* Each expansion or inclusion that starts in the tree ends in the tree:   *)
(* it is open exactly as long as its frame is on the stack, and the pairs  *)
(* of marks are properly nested (register_source_mark, next_text).         *)
THEOREM MarksWellNestedCorrect == Spec => []MarksWellNested
<1>1. IInv /\ MarksInv => MarksWellNested
  <2>. SUFFICES ASSUME IInv, MarksInv
                PROVE  MarksWellNested
    OBVIOUS
  <2>0. DOMAIN marks = 1 .. Len(marks) /\ Len(marks) \in Nat
    BY StackTypes DEF Marks
  <2>1. \A i, j : EndOf(i, j) <=> Ends(marks, i, j)
    BY DEF EndOf, Ends
  <2>2. ASSUME NEW i \in StartsOf(marks)
        PROVE  Cardinality({j \in DOMAIN marks : EndOf(i, j)})
               + Cardinality({f \in DOMAIN input_stack : input_stack[f].mark = marks[i]}) = 1
    <3>1. /\ {j \in DOMAIN marks : EndOf(i, j)} = EndsOf(marks, i)
          /\ {f \in DOMAIN input_stack : input_stack[f].mark = marks[i]}
               = OpenAt(input_stack, marks, i)
      BY <2>1 DEF EndsOf, OpenAt
    <3>2. \/ /\ EndsOf(marks, i) = {} /\ \E f : OpenAt(input_stack, marks, i) = {f}
          \/ /\ OpenAt(input_stack, marks, i) = {} /\ \E j : EndsOf(marks, i) = {j}
      BY DEF MarksInv, Paired, OpenOrEnded
    <3>3. Cardinality({}) = 0 /\ \A x : Cardinality({x}) = 1
      BY FS_EmptySet, FS_Singleton
    <3>4. \/ /\ Cardinality(EndsOf(marks, i)) = 0
             /\ Cardinality(OpenAt(input_stack, marks, i)) = 1
          \/ /\ Cardinality(EndsOf(marks, i)) = 1
             /\ Cardinality(OpenAt(input_stack, marks, i)) = 0
      BY <3>2, <3>3
    <3>. DEFINE ends == Cardinality(EndsOf(marks, i))
                open == Cardinality(OpenAt(input_stack, marks, i))
    <3>5. (ends = 0 /\ open = 1) \/ (ends = 1 /\ open = 0)
      BY <3>4
    <3>. HIDE DEF ends, open
    <3>6. ends + open = 1
      BY <3>5
    <3>7. /\ ends = Cardinality({j \in DOMAIN marks : EndOf(i, j)})
          /\ open = Cardinality({f \in DOMAIN input_stack : input_stack[f].mark = marks[i]})
      BY <3>1, Zenon DEF ends, open
    <3>. QED  BY <3>6, <3>7
  <2>3. ASSUME NEW i \in StartsOf(marks), NEW j \in DOMAIN marks, EndOf(i, j),
               NEW inner \in i + 1 .. j - 1, marks[inner].status = "start"
        PROVE  \E e \in inner .. j - 1 : EndOf(inner, e)
    <3>1. /\ i \in 1 .. Len(marks) /\ j \in 1 .. Len(marks)
      BY <2>0 DEF StartsOf
    <3>2. inner \in DOMAIN marks /\ i < inner /\ inner < j
      BY <2>0, <3>1
    <3>3. inner \in StartsOf(marks) /\ j \in EndsOf(marks, i)
      BY <2>1, <2>3, <3>2 DEF StartsOf, EndsOf
    <3>4. PICK e \in EndsOf(marks, inner) : e < j
      BY <3>2, <3>3 DEF MarksInv, Paired, EndedNested
    <3>5. e \in DOMAIN marks /\ EndOf(inner, e) /\ inner < e
      BY <2>1, <3>4 DEF EndsOf, Ends
    <3>6. e \in inner .. j - 1
      BY <2>0, <3>1, <3>2, <3>4, <3>5
    <3>. QED  BY <3>5, <3>6
  <2>. QED  BY <2>2, <2>3 DEF MarksWellNested, StartsOf
<1>. QED  BY <1>1, IInvHolds, MarksInvHolds, PTL
=============================================================================
