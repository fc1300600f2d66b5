------------------------- MODULE InfoKeyInputProofs -------------------------
(***************************************************************************)
(* Proofs about InfoKeyInput, for every size of the ring and every set of  *)
(* byte sequences.  The invariant says where the bytes of the sequence     *)
(* being decoded and those that wait lie in the ring; with it every step   *)
(* of the program is a step of the queue of InputQueue.                    *)
(***************************************************************************)
EXTENDS InfoKeyInput, SequenceTheorems, TLAPS

Indices == 0..Size - 1

-----------------------------------------------------------------------------
(* The arithmetic of the indices. *)

(* The step to the next slot, and how far an index is from another after it. *)
LEMMA Steps ==
  ASSUME NEW i \in Indices, NEW j \in Indices
  PROVE  /\ NextSlot(i) \in Indices
         /\ Distance(i, j) \in 0..Size - 1
         /\ Distance(i, i) = 0
         /\ Distance(i, j) = 0 => i = j
         /\ i # j => Distance(NextSlot(i), j) = Distance(i, j) - 1
         /\ Distance(i, j) < Size - 1 => Distance(i, NextSlot(j)) = Distance(i, j) + 1
  BY SizeAssumption DEF Indices, NextSlot, Distance

(* The slots that follow an index. *)
LEMMA Slots ==
  ASSUME NEW i \in Indices, NEW j \in Indices, NEW k \in 0..Size - 1
  PROVE  /\ Slot(i, k) \in Indices
         /\ Slot(i, 0) = i
         /\ Slot(i, Distance(i, j)) = j
         /\ k + 1 < Size => Slot(NextSlot(i), k) = Slot(i, k + 1)
         /\ Slot(i, k) = j => k = Distance(i, j)
         /\ Distance(i, j) + k < Size => Slot(i, Distance(i, j) + k) = Slot(j, k)
  BY SizeAssumption DEF Indices, NextSlot, Distance, Slot

(* A part of the ring, as a sequence. *)
LEMMA RingSeq ==
  ASSUME NEW S, NEW f \in [Indices -> S], NEW i \in Indices, NEW j \in Indices
  PROVE  /\ Ring(f, i, j) \in Seq(S)
         /\ Len(Ring(f, i, j)) = Distance(i, j)
         /\ \A k \in 1..Distance(i, j): Ring(f, i, j)[k] = f[Slot(i, k - 1)]
<1> DEFINE n == Distance(i, j)
<1>1. n \in 0..Size - 1
  BY Steps
<1>2. \A k \in 1..n: f[Slot(i, k - 1)] \in S
  <2> TAKE k \in 1..n
  <2>1. k - 1 \in 0..Size - 1
    BY <1>1, SizeAssumption
  <2>2. Slot(i, k - 1) \in Indices
    BY <2>1, Slots
  <2> QED
    BY <2>2
<1>3. Ring(f, i, j) = [k \in 1..n |-> f[Slot(i, k - 1)]]
  BY DEF Ring
<1> HIDE DEF n
<1>4. Ring(f, i, j) \in Seq(S)
  BY <1>1, <1>2, <1>3, SizeAssumption
<1>5. Len(Ring(f, i, j)) = n
  BY <1>1, <1>3, <1>4, SizeAssumption
<1> QED
  BY <1>3, <1>4, <1>5 DEF n

(* What RingSeq says of a part, by name. *)
IsPart(s, S, f, i, j) ==
  /\ s \in Seq(S) /\ Len(s) = Distance(i, j)
  /\ \A k \in 1..Distance(i, j): s[k] = f[Slot(i, k - 1)]

LEMMA RingIsPart ==
  ASSUME NEW S, NEW f \in [Indices -> S], NEW i \in Indices, NEW j \in Indices
  PROVE  IsPart(Ring(f, i, j), S, f, i, j)
  BY RingSeq DEF IsPart

(* Taking the first byte. *)
LEMMA RingTake ==
  ASSUME NEW S, NEW f \in [Indices -> S], NEW i \in Indices, NEW j \in Indices, i # j
  PROVE  /\ Ring(f, i, j) # <<>>
         /\ Head(Ring(f, i, j)) = f[i]
         /\ Ring(f, NextSlot(i), j) = Tail(Ring(f, i, j))
<1> DEFINE n == Distance(i, j)
<1> DEFINE s == Ring(f, i, j)
<1> DEFINE t == Ring(f, NextSlot(i), j)
<1>1. n \in 1..Size - 1 /\ NextSlot(i) \in Indices /\ Distance(NextSlot(i), j) = n - 1
  BY Steps, SizeAssumption
<1>2. s \in Seq(S) /\ Len(s) = n /\ \A k \in 1..n: s[k] = f[Slot(i, k - 1)]
  BY RingSeq
<1>3. t \in Seq(S) /\ Len(t) = n - 1 /\ \A k \in 1..n - 1: t[k] = f[Slot(NextSlot(i), k - 1)]
  <2>1. IsPart(t, S, f, NextSlot(i), j)
    BY <1>1, RingIsPart, Zenon
  <2> QED
    BY <2>1, <1>1 DEF IsPart
<1>4. \A k \in 1..n - 1: Slot(NextSlot(i), k - 1) = Slot(i, k)
  <2> TAKE k \in 1..n - 1
  <2>1. k - 1 \in 0..Size - 1 /\ (k - 1) + 1 < Size /\ (k - 1) + 1 = k
    BY <1>1, SizeAssumption
  <2> QED
    BY <2>1, Slots
<1>5. Slot(i, 0) = i
  BY Slots, SizeAssumption
<1> HIDE DEF n, s, t
<1>6. s # <<>> /\ Head(s) = f[i]
  BY <1>1, <1>2, <1>5
<1>7. Tail(s) \in Seq(S) /\ Len(Tail(s)) = n - 1 /\ \A k \in 1..n - 1: Tail(s)[k] = s[k + 1]
  BY <1>1, <1>2, <1>6
<1>8. \A k \in 1..n - 1: s[k + 1] = f[Slot(i, k)]
  BY <1>1, <1>2
<1>9. \A k \in 1..n - 1: t[k] = Tail(s)[k]
  BY <1>3, <1>4, <1>7, <1>8
<1>10. t = Tail(s)
  BY <1>3, <1>7, <1>9, SeqEqual
<1> QED
  BY <1>6, <1>10 DEF s, t

PutAt(f, to, b) == [f EXCEPT ![to] = b]

(* Writing a byte outside a part of the ring leaves that part alone. *)
LEMMA RingKeep ==
  ASSUME NEW S, NEW f \in [Indices -> S], NEW i \in Indices, NEW j \in Indices,
         NEW to \in Indices, NEW b \in S, Distance(i, j) <= Distance(i, to)
  PROVE  Ring(PutAt(f, to, b), i, j) = Ring(f, i, j)
<1> DEFINE g == PutAt(f, to, b)
<1> DEFINE n == Distance(i, j)
<1>1. \A l \in Indices: l # to => g[l] = f[l]
  BY DEF PutAt
<1>2. n \in 0..Size - 1 /\ Distance(i, to) \in 0..Size - 1
  BY Steps
<1>3. \A k \in 1..n: g[Slot(i, k - 1)] = f[Slot(i, k - 1)]
  <2> TAKE k \in 1..n
  <2>1. k - 1 \in 0..Size - 1 /\ k - 1 # Distance(i, to)
    BY <1>2, SizeAssumption
  <2>2. Slot(i, k - 1) \in Indices /\ Slot(i, k - 1) # to
    BY <2>1, Slots
  <2> QED
    BY <1>1, <2>2
<1> QED
  BY <1>3 DEF Ring

(* Adding a byte at the end. *)
LEMMA RingPut ==
  ASSUME NEW S, NEW f \in [Indices -> S], NEW i \in Indices, NEW j \in Indices, NEW b \in S,
         Distance(i, j) < Size - 1
  PROVE  Ring(PutAt(f, j, b), i, NextSlot(j)) = Append(Ring(f, i, j), b)
<1> DEFINE g == PutAt(f, j, b)
<1> DEFINE n == Distance(i, j)
<1> DEFINE s == Ring(f, i, j)
<1> DEFINE t == Ring(g, i, NextSlot(j))
<1>1. /\ g \in [Indices -> S] /\ g[j] = b
      /\ \A l \in Indices: l # j => g[l] = f[l]
  BY DEF PutAt
<1>2. n \in 0..Size - 2 /\ NextSlot(j) \in Indices /\ Distance(i, NextSlot(j)) = n + 1
  BY Steps, SizeAssumption
<1>3. s \in Seq(S) /\ Len(s) = n /\ \A k \in 1..n: s[k] = f[Slot(i, k - 1)]
  BY RingSeq
<1>4. t \in Seq(S) /\ Len(t) = n + 1 /\ \A k \in 1..n + 1: t[k] = g[Slot(i, k - 1)]
  <2>1. IsPart(t, S, g, i, NextSlot(j))
    BY <1>1, <1>2, RingIsPart, Zenon
  <2> QED
    BY <2>1, <1>2 DEF IsPart
<1>5. \A k \in 1..n: g[Slot(i, k - 1)] = f[Slot(i, k - 1)]
  <2> TAKE k \in 1..n
  <2>1. k - 1 \in 0..Size - 1 /\ k - 1 # n
    BY <1>2, SizeAssumption
  <2>2. Slot(i, k - 1) \in Indices /\ Slot(i, k - 1) # j
    BY <2>1, Slots
  <2> QED
    BY <1>1, <2>2
<1>6. Slot(i, n) = j
  BY <1>2, Slots, SizeAssumption
<1>7. t[n + 1] = b
  <2>1. n + 1 \in 1..n + 1 /\ (n + 1) - 1 = n
    BY <1>2, SizeAssumption
  <2> QED
    BY <2>1, <1>1, <1>4, <1>6
<1> HIDE DEF g, n, s, t
<1>8. /\ Append(s, b) \in Seq(S) /\ Len(Append(s, b)) = n + 1 /\ Append(s, b)[n + 1] = b
      /\ \A k \in 1..n: Append(s, b)[k] = s[k]
  BY <1>2, <1>3
<1>9. \A k \in 1..n: t[k] = s[k]
  BY <1>2, <1>3, <1>4, <1>5
<1>10. \A k \in 1..n + 1: t[k] = Append(s, b)[k]
  BY <1>2, <1>7, <1>8, <1>9
<1>11. t = Append(s, b)
  BY <1>4, <1>8, <1>10, SeqEqual
<1> QED
  BY <1>11 DEF g, s, t

(* Two parts that follow each other. *)
LEMMA RingJoin ==
  ASSUME NEW S, NEW f \in [Indices -> S], NEW i \in Indices, NEW j \in Indices, NEW k \in Indices,
         Distance(i, j) + Distance(j, k) = Distance(i, k)
  PROVE  Ring(f, i, k) = Ring(f, i, j) \o Ring(f, j, k)
<1> DEFINE m == Distance(i, j)
<1> DEFINE n == Distance(j, k)
<1> DEFINE s == Ring(f, i, j)
<1> DEFINE t == Ring(f, j, k)
<1> DEFINE u == Ring(f, i, k)
<1>1. m \in Nat /\ n \in Nat /\ m < Size /\ n < Size /\ m + n < Size
  <2>1. Distance(i, j) \in 0..Size - 1 /\ Distance(j, k) \in 0..Size - 1 /\ Distance(i, k) \in 0..Size - 1
    BY Steps, Zenon
  <2> QED
    BY <2>1, SizeAssumption
<1>2. s \in Seq(S) /\ Len(s) = m /\ \A l \in 1..m: s[l] = f[Slot(i, l - 1)]
  <2>1. IsPart(s, S, f, i, j)
    BY RingIsPart, Zenon
  <2> QED
    BY <2>1 DEF IsPart
<1>3. t \in Seq(S) /\ Len(t) = n /\ \A l \in 1..n: t[l] = f[Slot(j, l - 1)]
  <2>1. IsPart(t, S, f, j, k)
    BY RingIsPart, Zenon
  <2> QED
    BY <2>1 DEF IsPart
<1>4. u \in Seq(S) /\ Len(u) = m + n /\ \A l \in 1..m + n: u[l] = f[Slot(i, l - 1)]
  <2>1. IsPart(u, S, f, i, k)
    BY RingIsPart, Zenon
  <2> QED
    BY <2>1 DEF IsPart
<1>5. \A l \in 1..n: Slot(i, (l + m) - 1) = Slot(j, l - 1)
  <2> TAKE l \in 1..n
  <2>1. l - 1 \in 0..Size - 1 /\ m + (l - 1) < Size /\ m + (l - 1) = (l + m) - 1
    BY <1>1, SizeAssumption
  <2> QED
    BY <2>1, Slots
<1> DEFINE v == s \o t
<1> HIDE DEF m, n, s, t, u
<1>6. /\ v \in Seq(S) /\ Len(v) = m + n
      /\ \A l \in 1..m + n: v[l] = IF l <= m THEN s[l] ELSE t[l - m]
  BY <1>2, <1>3, ConcatProperties
<1> HIDE DEF v
<1>7. \A l \in 1..m + n: u[l] = v[l]
  <2> TAKE l \in 1..m + n
  <2>1. CASE l <= m
    <3>1. l \in 1..m
      BY <2>1, <1>1
    <3>2. v[l] = f[Slot(i, l - 1)]
      BY <2>1, <3>1, <1>2, <1>6
    <3> QED
      BY <3>2, <1>4
  <2>2. CASE l > m
    <3>1. l - m \in 1..n /\ (l - m) + m = l /\ ~(l <= m)
      BY <2>2, <1>1
    <3>2. v[l] = f[Slot(j, (l - m) - 1)]
      BY <3>1, <1>3, <1>6
    <3>3. u[l] = f[Slot(i, ((l - m) + m) - 1)]
      BY <3>1, <1>4
    <3> QED
      BY <3>1, <3>2, <3>3, <1>5
  <2> QED
    BY <2>1, <2>2, <1>1
<1>8. u = v
  BY <1>4, <1>6, <1>7, SeqEqual
<1> QED
  BY <1>8 DEF s, t, u, v

-----------------------------------------------------------------------------
(* Types. *)

Cells == Bytes \cup {NoByte}

(* Cutting a sequence in two. *)
LEMMA Cut ==
  ASSUME NEW S, NEW s \in Seq(S), NEW n \in 0..Len(s)
  PROVE  /\ SubSeq(s, 1, n) \in Seq(S) /\ SubSeq(s, n + 1, Len(s)) \in Seq(S)
         /\ Len(SubSeq(s, 1, n)) = n /\ Len(SubSeq(s, n + 1, Len(s))) = Len(s) - n
         /\ SubSeq(s, 1, n) \o SubSeq(s, n + 1, Len(s)) = s
<1>1. Len(s) \in Nat /\ n \in Nat /\ n <= Len(s)
  BY LenProperties
<1>2. SubSeq(s, 1, n) \o SubSeq(s, n + 1, Len(s)) = SubSeq(s, 1, Len(s))
  <2>1. 1 \in 1..Len(s) + 1 /\ n \in 1 - 1..Len(s) /\ Len(s) \in n..Len(s)
    BY <1>1
  <2> QED
    BY <2>1, ConcatAdjacentSubSeq
<1>3. SubSeq(s, 1, Len(s)) = s
  BY SubSeqFull
<1>4. SubSeq(s, 1, n) \in Seq(S) /\ Len(SubSeq(s, 1, n)) = n
  BY <1>1
<1>5. SubSeq(s, n + 1, Len(s)) \in Seq(S) /\ Len(SubSeq(s, n + 1, Len(s))) = Len(s) - n
  BY <1>1
<1> QED
  BY <1>2, <1>3, <1>4, <1>5

(* Storing a byte keeps the ring a ring. *)
LEMMA PutTypes ==
  ASSUME TypeOK, NEW b \in Bytes, PutByte(b)
  PROVE  buf' \in [Indices -> Cells] /\ push_index' \in Indices
  BY SizeAssumption DEF TypeOK, PutByte, NextSlot, Indices, Cells

(* Taking one moves the index to a slot of the ring. *)
LEMMA GetTypes ==
  ASSUME TypeOK, GetByte
  PROVE  pop_index' \in Indices /\ NextByte \in Cells
  BY SizeAssumption DEF TypeOK, GetByte, NextByte, NextSlot, Indices, Cells

(* What ReadAvailable cuts off the stream. *)
LEMMA AvailTypes ==
  ASSUME TypeOK
  PROVE  CharsAvail \in 0..Len(tty)
<1>1. Len(tty) \in Nat
  BY LenProperties DEF TypeOK
<1>2. SpaceAvail \in Nat
  BY SizeAssumption DEF TypeOK, SpaceAvail
<1> QED
  BY <1>1, <1>2 DEF CharsAvail

LEMMA TypeInit ==
  ASSUME Init
  PROVE  TypeOK
<1>1. tty \in Seq(Bytes)
  <2>1. CASE tty = <<>>
    BY <2>1
  <2>2. CASE tty \in InitialTty
    <3>1. PICK n \in 0..MaxBacklog: tty \in [1..n -> Bytes]
      BY <2>2 DEF InitialTty
    <3>2. n \in Nat
      BY BoundsAssumption
    <3> QED
      BY <3>1, <3>2
  <2> QED
    BY <2>1, <2>2 DEF Init
<1>2. typed \in Nat
  BY <1>1, LenProperties DEF Init
<1>3. 0 \in Indices
  BY SizeAssumption DEF Indices
<1> QED
  BY <1>1, <1>2, <1>3
     DEF Init, TypeOK, Waits, Decoding, HandlesKey, Returns, Indices

(* The steps that store bytes. *)
LEMMA TypeRead ==
  ASSUME TypeOK, Read
  PROVE  TypeOK'
<1> USE DEF TypeOK, ttyVars, keyVars, Waits, Decoding, HandlesKey, Returns
<1>1. CASE AnyBufferedInput
  BY <1>1 DEF AnyBufferedInput
<1>2. CASE ControlGWaiting
  BY <1>2 DEF ControlGWaiting
<1>3. CASE GetInputKey
  BY <1>3 DEF GetInputKey
<1>4. CASE UpdateAfterSignal
  BY <1>4 DEF UpdateAfterSignal
<1>5. CASE WaitForByte
  <2>1. CASE HasByte
    BY <1>5, <2>1 DEF WaitForByte
  <2>2. CASE ~HasByte
    <3>1. tty # <<>> /\ PutByte(Head(tty)) /\ tty' = Tail(tty)
      BY <1>5, <2>2 DEF WaitForByte
    <3>2. Head(tty) \in Bytes /\ tty' \in Seq(Bytes)
      BY <3>1, HeadTailProperties
    <3>3. buf' \in [Indices -> Cells] /\ push_index' \in Indices
      BY <3>1, <3>2, PutTypes
    <3> QED
      BY <1>5, <3>2, <3>3 DEF WaitForByte, Indices, Cells
  <2> QED
    BY <2>1, <2>2
<1>6. CASE Interrupted
  BY <1>6 DEF Interrupted
<1>7. CASE RestoreEnds
  BY <1>7 DEF RestoreEnds
<1>8. CASE TerminalEnds
  BY <1>8 DEF TerminalEnds
<1>9. CASE ReadAvailable
  <2>1. input' \in Seq(Bytes) /\ tty' \in Seq(Bytes)
    BY <1>9, AvailTypes, Cut DEF ReadAvailable
  <2> QED
    BY <1>9, <2>1 DEF ReadAvailable
<1>10. CASE StoreByte
  <2>1. Head(input) \in Bytes /\ input' \in Seq(Bytes)
    BY <1>10, HeadTailProperties DEF StoreByte
  <2>2. buf' \in [Indices -> Cells] /\ push_index' \in Indices
    <3>1. CASE Head(input) # CtrlG
      BY <1>10, <2>1, <3>1, PutTypes DEF StoreByte
    <3>2. CASE Head(input) = CtrlG
      BY <1>10, <3>2 DEF StoreByte, Indices, Cells
    <3> QED
      BY <3>1, <3>2
  <2> QED
    BY <1>10, <2>1, <2>2 DEF StoreByte, Indices, Cells
<1>11. CASE ReturnToCaller
  BY <1>11 DEF ReturnToCaller, Stored
<1>12. CASE ReturnToSearch
  BY <1>12 DEF ReturnToSearch
<1>13. CASE QuitSearch
  BY <1>13 DEF QuitSearch
<1> QED
  BY <1>1, <1>2, <1>3, <1>4, <1>5, <1>6, <1>7, <1>8, <1>9, <1>10, <1>11, <1>12, <1>13 DEF Read

(* The steps that take them. *)
LEMMA TypeDecode ==
  ASSUME TypeOK, Decode
  PROVE  TypeOK'
<1> USE DEF TypeOK, ttyVars, keyVars, Waits, Decoding, HandlesKey, Returns
<1>1. CASE StartDecoding
  BY <1>1 DEF StartDecoding
<1>2. CASE DecodeByte
  <2>1. pop_index' \in Indices /\ NextByte \in Cells
    BY <1>2, GetTypes DEF DecodeByte
  <2>2. path' \in Seq(Cells) /\ pop_start' \in Indices
    <3>1. Append(path, NextByte) \in Seq(Cells) /\ <<>> \in Seq(Cells)
      BY <2>1, AppendProperties DEF Cells
    <3>2. \/ path' = <<>> /\ pop_start' = 0
          \/ path' = Append(path, NextByte) /\ pop_start' = pop_start
      BY <1>2 DEF DecodeByte
    <3>3. 0 \in Indices /\ pop_start \in Indices
      BY SizeAssumption DEF Indices
    <3> QED
      BY <3>1, <3>2, <3>3
  <2>3. pc' \in {"mouse3", "idle", "giveup", "more", "decode"}
    BY <1>2 DEF DecodeByte, KeyFound
  <2> QED
    BY <1>2, <2>1, <2>2, <2>3 DEF DecodeByte, Indices, Cells
<1>3. CASE MoreBytes
  BY <1>3 DEF MoreBytes
<1>4. CASE IncompleteSequence
  BY <1>4 DEF IncompleteSequence
<1>5. CASE StartAgain
  BY <1>5, SizeAssumption DEF StartAgain
<1>6. CASE FirstByte
  BY <1>6, GetTypes DEF FirstByte, Indices
<1>7. CASE Escape
  BY <1>7, GetTypes DEF Escape, Indices
<1>8. CASE Meta
  BY <1>8, GetTypes DEF Meta, Indices
<1>9. CASE MetaO
  BY <1>9, GetTypes DEF MetaO, Indices
<1>10. CASE CsiByte
  BY <1>10, GetTypes DEF CsiByte, Indices
<1>11. CASE MouseByte
  BY <1>11, GetTypes DEF MouseByte, Indices
<1> QED
  BY <1>1, <1>2, <1>3, <1>4, <1>5, <1>6, <1>7, <1>8, <1>9, <1>10, <1>11 DEF Decode

LEMMA TypeStep ==
  ASSUME TypeOK, [Next]_vars
  PROVE  TypeOK'
<1>1. CASE Read
  BY <1>1, TypeRead
<1>2. CASE Decode
  BY <1>2, TypeDecode
<1>3. CASE \E b \in Bytes: Type(b)
  <2>1. PICK b \in Bytes: Type(b)
    BY <1>3
  <2>2. tty' \in Seq(Bytes) /\ typed' \in Nat
    BY <2>1, AppendProperties DEF Type, TypeOK
  <2> QED
    BY <2>1, <2>2 DEF Type, TypeOK, keyVars
<1>4. CASE UNCHANGED vars
  BY <1>4 DEF vars, TypeOK
<1> QED
  BY <1>1, <1>2, <1>3, <1>4 DEF Next

(* The indices stay in the ring, whatever its size and however fast the    *)
(* terminal sends.                                                         *)
THEOREM KeyInputTypeCorrect == Spec => []TypeOK
<1>1. Init => TypeOK
  BY TypeInit
<1>2. TypeOK /\ [Next]_vars => TypeOK'
  BY TypeStep
<1> QED
  BY <1>1, <1>2, PTL DEF Spec

-----------------------------------------------------------------------------
(* The ring as a queue. *)

Live == Contents(pop_index, push_index)

Waiting == Distance(pop_index, push_index)

(* Storing a byte appends it to the bytes that wait. *)
LEMMA PutAppends ==
  ASSUME TypeOK, NEW b \in Bytes, PutByte(b), pop_index' = pop_index, Waiting < Size - 1
  PROVE  Live' = Append(Live, b) /\ Waiting' = Waiting + 1
<1>1. /\ buf \in [Indices -> Cells] /\ pop_index \in Indices /\ push_index \in Indices
      /\ b \in Cells
  BY DEF TypeOK, Indices, Cells
<1>2. buf' = [buf EXCEPT ![push_index] = b] /\ push_index' = NextSlot(push_index)
  BY DEF PutByte
<1>3. Ring(PutAt(buf, push_index, b), pop_index, NextSlot(push_index))
        = Append(Ring(buf, pop_index, push_index), b)
  BY <1>1, RingPut DEF Waiting
<1>4. Live' = Append(Live, b)
  BY <1>2, <1>3 DEF Live, Contents, PutAt
<1>5. Distance(pop_index, NextSlot(push_index)) = Distance(pop_index, push_index) + 1
  BY <1>1, Steps DEF Waiting
<1> QED
  BY <1>2, <1>4, <1>5 DEF Waiting

(* Taking a byte removes the first of them. *)
LEMMA GetTakes ==
  ASSUME TypeOK, HasByte, GetByte, UNCHANGED <<buf, push_index>>
  PROVE  /\ Live # <<>> /\ Head(Live) = NextByte /\ Live' = Tail(Live)
         /\ Waiting' = Waiting - 1 /\ Waiting \in Nat \ {0}
<1>1. /\ buf \in [Indices -> Cells] /\ pop_index \in Indices /\ push_index \in Indices
      /\ pop_index # push_index
  BY DEF TypeOK, Indices, Cells, HasByte
<1>2. pop_index' = NextSlot(pop_index)
  BY DEF GetByte
<1>3. /\ Ring(buf, pop_index, push_index) # <<>>
      /\ Head(Ring(buf, pop_index, push_index)) = buf[pop_index]
      /\ Ring(buf, NextSlot(pop_index), push_index) = Tail(Ring(buf, pop_index, push_index))
  BY <1>1, RingTake
<1>4. Live # <<>> /\ Head(Live) = NextByte /\ Live' = Tail(Live)
  BY <1>2, <1>3 DEF Live, Contents, NextByte
<1>5. Distance(NextSlot(pop_index), push_index) = Distance(pop_index, push_index) - 1
  BY <1>1, Steps
<1>6. Distance(pop_index, push_index) \in Nat \ {0}
  <2>1. /\ Distance(pop_index, push_index) \in 0..Size - 1
        /\ Distance(pop_index, push_index) = 0 => pop_index = push_index
    BY <1>1, Steps
  <2> QED
    BY <1>1, <2>1, SizeAssumption
<1> QED
  BY <1>2, <1>4, <1>5, <1>6 DEF Waiting

(* Nothing waits when the indices are equal. *)
LEMMA NothingLive ==
  ASSUME TypeOK
  PROVE  /\ Waiting \in 0..Size - 1
         /\ ~HasByte => Live = <<>> /\ Waiting = 0
         /\ Contents(pop_index, pop_index) = <<>> /\ Distance(pop_index, pop_index) = 0
<1>1. /\ buf \in [Indices -> Cells] /\ pop_index \in Indices /\ push_index \in Indices
  BY DEF TypeOK, Indices, Cells
<1>2. Distance(pop_index, pop_index) = 0 /\ Waiting \in 0..Size - 1
  BY <1>1, Steps DEF Waiting
<1>3. Contents(pop_index, pop_index) = <<>>
  BY <1>2 DEF Contents, Ring
<1>4. ~HasByte => Live = <<>> /\ Waiting = 0
  BY <1>2, <1>3 DEF HasByte, Live, Waiting
<1> QED
  BY <1>2, <1>3, <1>4

-----------------------------------------------------------------------------
(* The invariant. *)

Resumes == pc \in {"read", "store"} /\ ret = "more"

(* Where the program may be while it holds bytes of a sequence, and where  *)
(* it may hold bytes read from the stream that are not in the ring.        *)
Control ==
  /\ path # <<>> => pc \in Decoding \/ Resumes
  /\ pc \in {"more", "giveup"} \/ Resumes => path # <<>>
  /\ pc = "decode" /\ path = <<>> => HasByte
  /\ pc # "store" => input = <<>>

(* HeldInRing, and where a walk begins that has no byte yet. *)
Held ==
  /\ Contents(pop_start, pop_index) = path
  /\ Distance(pop_start, pop_index) + Waiting = Distance(pop_start, push_index)

HeldWhileDecoding == path # <<>> \/ pc = "decode" => Held

Room == Backlog <= MaxBacklog

IInv == TypeOK /\ Control /\ HeldWhileDecoding /\ Room

LEMMA Lengths ==
  ASSUME TypeOK
  PROVE  /\ Len(tty) \in Nat /\ Len(input) \in Nat /\ Len(path) \in Nat /\ Waiting \in Nat
         /\ Backlog = Len(tty) + Len(input) + Waiting + Len(path)
         /\ Held => /\ Len(path) = Distance(pop_start, pop_index)
                    /\ Len(path) + Waiting = Distance(pop_start, push_index)
<1>1. Len(tty) \in Nat /\ Len(input) \in Nat /\ Len(path) \in Nat
  BY LenProperties DEF TypeOK
<1>2. Waiting \in Nat
  BY NothingLive, SizeAssumption
<1>3. Backlog = Len(tty) + Len(input) + Waiting + Len(path)
  BY DEF Backlog, Waiting
<1>4. Len(Contents(pop_start, pop_index)) = Distance(pop_start, pop_index)
  <2>1. buf \in [Indices -> Cells] /\ pop_index \in Indices /\ pop_start \in Indices
    BY DEF TypeOK, Indices, Cells
  <2> QED
    BY <2>1, RingSeq DEF Contents
<1> QED
  BY <1>1, <1>2, <1>3, <1>4 DEF Held

LEMMA BacklogNext ==
  Backlog' = Len(tty') + Len(input') + Waiting' + Len(path')
  BY DEF Backlog, Waiting

LEMMA InvInit ==
  ASSUME Init
  PROVE  IInv
<1>1. TypeOK
  BY TypeInit
<1>2. Control
  BY DEF Init, Control, Resumes, HasByte
<1>3. HeldWhileDecoding
  BY DEF Init, HeldWhileDecoding
<1>4. Room
  <2>1. Waiting = 0
    BY <1>1, NothingLive DEF Init, HasByte
  <2>2. Len(tty) <= MaxBacklog
    <3>1. CASE tty = <<>>
      BY <3>1, BoundsAssumption
    <3>2. CASE tty \in InitialTty
      <4>1. PICK n \in 0..MaxBacklog: tty \in [1..n -> Bytes]
        BY <3>2 DEF InitialTty
      <4>2. n \in Nat
        BY BoundsAssumption
      <4>3. Len(tty) = n
        BY <4>1, <4>2
      <4> QED
        BY <4>1, <4>3, BoundsAssumption
    <3> QED
      BY <3>1, <3>2 DEF Init
  <2>3. Len(input) = 0 /\ Len(path) = 0
    BY DEF Init
  <2> QED
    BY <1>1, <2>1, <2>2, <2>3, Lengths, BoundsAssumption DEF Room
<1> QED
  BY <1>1, <1>2, <1>3, <1>4 DEF IInv

-----------------------------------------------------------------------------
(* The steps that only change the control state, outside a sequence. *)
LEMMA ControlStep ==
  ASSUME IInv, TypeOK', UNCHANGED <<buf, pop_index, push_index, pop_start, path, tty, input>>,
         path # <<>> \/ pc' = "decode" => Held,
         Control'
  PROVE  IInv'
<1>1. Held' <=> Held
  BY DEF Held, Contents, Waiting, Ring
<1>2. HeldWhileDecoding'
  BY <1>1 DEF HeldWhileDecoding
<1>3. Room'
  BY DEF IInv, Room, Backlog
<1> QED
  BY <1>2, <1>3 DEF IInv

(* The steps that leave path, pop_start and the stream's bytes alone and   *)
(* take at most one byte, outside a sequence.                              *)
LEMMA GetStep ==
  ASSUME IInv, TypeOK', GetByte, UNCHANGED <<buf, push_index, pop_start, path, tty, input>>,
         path = <<>>, pc' # "decode", Control'
  PROVE  IInv'
<1>1. HeldWhileDecoding'
  BY DEF HeldWhileDecoding
<1>2. Waiting' <= Waiting
  <2>1. CASE HasByte
    BY <2>1, GetTakes DEF IInv
  <2>2. CASE ~HasByte
    BY <2>2, Lengths DEF IInv, GetByte, Waiting
  <2> QED
    BY <2>1, <2>2
<1>3. Room'
  <2>1. Backlog' <= Backlog /\ Backlog' \in Int /\ Backlog \in Int
    <3>1. Waiting' \in Nat
      <4>1. CASE HasByte
        BY <4>1, GetTakes DEF IInv
      <4>2. CASE ~HasByte
        BY <4>2, Lengths DEF IInv, GetByte, Waiting
      <4> QED
        BY <4>1, <4>2
    <3> QED
      BY <1>2, <3>1, Lengths, BacklogNext DEF IInv
  <2> QED
    BY <2>1, Lengths, BoundsAssumption DEF IInv, Room
<1> QED
  BY <1>1, <1>3 DEF IInv

LEMMA InvWaitForByte ==
  ASSUME IInv, TypeOK', WaitForByte
  PROVE  IInv'
<1> USE DEF IInv
<1>1. path = <<>> /\ input = <<>> /\ path' = <<>> /\ input' = <<>> /\ pc' = "read" /\ ret' = "decode"
  BY DEF WaitForByte, Control, Decoding, Resumes, keyVars, HasByte
<1>2. Control' /\ HeldWhileDecoding'
  BY <1>1 DEF Control, HeldWhileDecoding, Resumes, HasByte
<1>3. Room'
  <2>1. CASE HasByte
    BY <2>1 DEF WaitForByte, Room, Backlog, keyVars
  <2>2. CASE ~HasByte
    <3>1. tty # <<>> /\ PutByte(Head(tty)) /\ tty' = Tail(tty) /\ pop_index' = pop_index
      BY <2>2 DEF WaitForByte
    <3>2. Head(tty) \in Bytes /\ Len(tty') = Len(tty) - 1
      BY <3>1, HeadTailProperties DEF TypeOK
    <3>3. Waiting' = Waiting + 1
      BY <2>2, <3>1, <3>2, PutAppends, NothingLive, SizeAssumption
    <3> QED
      BY <1>1, <3>2, <3>3, Lengths, BacklogNext DEF Room
  <2> QED
    BY <2>1, <2>2
<1> QED
  BY <1>2, <1>3

LEMMA InvReadAvailable ==
  ASSUME IInv, TypeOK', ReadAvailable
  PROVE  IInv'
<1> USE DEF IInv
<1>1. UNCHANGED <<buf, pop_index, push_index, pop_start, path, ret>> /\ pc = "read" /\ pc' = "store"
  BY DEF ReadAvailable, keyVars
<1>2. Control'
  BY <1>1 DEF Control, Resumes, Decoding, HasByte
<1>3. HeldWhileDecoding'
  <2>1. Held' <=> Held
    BY <1>1 DEF Held, Contents, Waiting, Ring
  <2> QED
    BY <1>1, <2>1 DEF HeldWhileDecoding
<1>4. Room'
  <2>1. tty \in Seq(Bytes)
    BY DEF TypeOK
  <2>2. Len(input') = CharsAvail /\ Len(tty') = Len(tty) - CharsAvail
    BY <2>1, AvailTypes, Cut DEF ReadAvailable
  <2>3. input = <<>> /\ Len(input) = 0
    BY <1>1 DEF Control, HasByte
  <2>4. Waiting' = Waiting /\ Len(path') = Len(path)
    BY <1>1 DEF Waiting
  <2>5. CharsAvail \in Int
    BY AvailTypes, Lengths
  <2> QED
    BY <2>2, <2>3, <2>4, <2>5, Lengths, BacklogNext DEF Room
<1> QED
  BY <1>2, <1>3, <1>4

LEMMA InvStoreByte ==
  ASSUME IInv, TypeOK', StoreByte, MaxBacklog < Size
  PROVE  IInv'
<1> USE DEF IInv
<1>1. /\ UNCHANGED <<pop_index, pop_start, path, ret, tty, pc>>
      /\ pc = "store" /\ input # <<>> /\ input' = Tail(input)
  BY DEF StoreByte, keyVars, ttyVars
<1>2. Head(input) \in Bytes /\ Len(input') = Len(input) - 1 /\ Len(input) \in Nat \ {0}
  BY <1>1, HeadTailProperties, EmptySeq DEF TypeOK
<1>3. Control'
  BY <1>1 DEF Control, Resumes, Decoding, HasByte
<1>4. Waiting < Size - 1 /\ Len(path) + Waiting < Size - 1
  BY <1>2, Lengths, BoundsAssumption, SizeAssumption DEF Room
<1>5. CASE Head(input) # CtrlG
  <2>1. PutByte(Head(input))
    BY <1>5 DEF StoreByte
  <2>2. Waiting' = Waiting + 1
    BY <1>1, <1>2, <1>4, <2>1, PutAppends
  <2>3. Room'
    BY <1>1, <1>2, <2>2, Lengths, BacklogNext, BoundsAssumption DEF Room
  <2>4. path # <<>> => Held'
    <3> SUFFICES ASSUME path # <<>> PROVE Held'
      OBVIOUS
    <3>1. Held
      BY DEF HeldWhileDecoding
    <3>2. /\ buf \in [Indices -> Cells] /\ pop_index \in Indices /\ push_index \in Indices
          /\ pop_start \in Indices /\ Head(input) \in Cells
      BY <1>2 DEF TypeOK, Indices, Cells
    <3>3. /\ Distance(pop_start, pop_index) <= Distance(pop_start, push_index)
          /\ Distance(pop_start, push_index) < Size - 1
      BY <3>1, <1>4, Lengths
    <3>4. /\ buf' = [buf EXCEPT ![push_index] = Head(input)]
          /\ push_index' = NextSlot(push_index)
      BY <2>1 DEF PutByte
    <3>5. Contents(pop_start, pop_index)' = path'
      <4>1. Ring(PutAt(buf, push_index, Head(input)), pop_start, pop_index)
              = Ring(buf, pop_start, pop_index)
        BY <3>2, <3>3, RingKeep
      <4> QED
        BY <1>1, <3>1, <3>4, <4>1 DEF Held, Contents, PutAt
    <3>6. Distance(pop_start, push_index)' = Distance(pop_start, push_index) + 1
      BY <1>1, <3>2, <3>3, <3>4, Steps
    <3>7. Distance(pop_start, pop_index)' = Distance(pop_start, pop_index)
      BY <1>1
    <3>8. Distance(pop_start, pop_index) + (Waiting + 1) = (Distance(pop_start, pop_index) + Waiting) + 1
      BY <3>1, Lengths
    <3> QED
      BY <2>2, <3>1, <3>5, <3>6, <3>7, <3>8 DEF Held
  <2> QED
    BY <1>1, <1>3, <2>3, <2>4 DEF HeldWhileDecoding
<1>6. CASE Head(input) = CtrlG
  <2>1. push_index' = pop_index /\ buf' = buf
    BY <1>6 DEF StoreByte
  <2>2. Waiting' = 0
    BY <1>1, <2>1, NothingLive DEF Waiting
  <2>3. Room'
    BY <1>1, <1>2, <2>2, Lengths, BacklogNext, BoundsAssumption DEF Room
  <2>4. path # <<>> => Held'
    <3> SUFFICES ASSUME path # <<>> PROVE Held'
      OBVIOUS
    <3>1. Held
      BY DEF HeldWhileDecoding
    <3>2. Contents(pop_start, pop_index)' = path'
      BY <1>1, <2>1, <3>1 DEF Held, Contents, Ring
    <3>3. Distance(pop_start, push_index)' = Distance(pop_start, pop_index)
      BY <1>1, <2>1
    <3>4. Distance(pop_start, pop_index)' = Distance(pop_start, pop_index)
      BY <1>1
    <3>5. Distance(pop_start, pop_index) + 0 = Distance(pop_start, pop_index)
      BY <3>1, Lengths
    <3> QED
      BY <2>2, <3>2, <3>3, <3>4, <3>5 DEF Held
  <2> QED
    BY <1>1, <1>3, <2>3, <2>4 DEF HeldWhileDecoding
<1> QED
  BY <1>5, <1>6

(* A sequence starts where the next byte is. *)
LEMMA InvStartDecoding ==
  ASSUME IInv, TypeOK', StartDecoding
  PROVE  IInv'
<1> USE DEF IInv
<1>1. UNCHANGED <<buf, pop_index, push_index, path, tty, input>> /\ path = <<>> /\ input = <<>>
  BY DEF StartDecoding, Stored, Control, Resumes, Decoding, ttyVars, HasByte
<1>2. Control'
  BY <1>1 DEF StartDecoding, Control, Resumes, Decoding, HasByte
<1>3. HeldWhileDecoding'
  <2> SUFFICES ASSUME pc' = "decode" PROVE Held'
    BY <1>1 DEF HeldWhileDecoding
  <2>1. pop_start' = pop_index
    BY DEF StartDecoding
  <2>2. Contents(pop_start, pop_index)' = path'
    BY <1>1, <2>1, NothingLive DEF Contents, Ring
  <2>3. Distance(pop_start, pop_index)' = 0 /\ Waiting' = Waiting /\ Distance(pop_start, push_index)' = Waiting
    BY <1>1, <2>1, NothingLive DEF Waiting
  <2>4. 0 + Waiting = Waiting
    BY Lengths
  <2> QED
    BY <2>2, <2>3, <2>4 DEF Held
<1>4. Room'
  BY <1>1 DEF Room, Backlog
<1> QED
  BY <1>2, <1>3, <1>4

(* A part that is extended over the next slot grows by its byte. *)
LEMMA RingGrow ==
  ASSUME NEW S, NEW f \in [Indices -> S], NEW i \in Indices, NEW j \in Indices,
         Distance(i, j) < Size - 1
  PROVE  Ring(f, i, NextSlot(j)) = Append(Ring(f, i, j), f[j])
<1>1. PICK b \in S: b = f[j]
  OBVIOUS
<1>2. Ring(PutAt(f, j, b), i, NextSlot(j)) = Append(Ring(f, i, j), b)
  BY RingPut
<1>3. PutAt(f, j, b) = f
  BY <1>1 DEF PutAt
<1> QED
  BY <1>1, <1>2, <1>3

(* The bytes of the sequence grow by the one that is taken. *)
LEMMA HeldGrows ==
  ASSUME TypeOK, Held, HasByte, GetByte, UNCHANGED <<buf, push_index, pop_start>>,
         path' = Append(path, NextByte)
  PROVE  Held'
<1>1. /\ buf \in [Indices -> Cells] /\ pop_index \in Indices /\ push_index \in Indices
      /\ pop_start \in Indices /\ NextByte \in Cells
  BY GetTypes DEF TypeOK, Indices, Cells
<1>2. pop_index' = NextSlot(pop_index)
  BY DEF GetByte
<1>3. Waiting' = Waiting - 1 /\ Waiting \in Nat \ {0}
  BY GetTakes
<1>4. /\ Distance(pop_start, pop_index) \in 0..Size - 1
      /\ Distance(pop_start, push_index) \in 0..Size - 1
  BY <1>1, Steps
<1>5. Distance(pop_start, pop_index) < Size - 1
  BY <1>3, <1>4, SizeAssumption DEF Held
<1>6. Ring(buf, pop_start, NextSlot(pop_index)) = Append(Ring(buf, pop_start, pop_index), buf[pop_index])
  BY <1>1, <1>5, RingGrow
<1>7. Contents(pop_start, pop_index)' = path'
  BY <1>2, <1>6 DEF Held, Contents, NextByte
<1>8. Distance(pop_start, pop_index)' = Distance(pop_start, pop_index) + 1
  BY <1>1, <1>2, <1>5, Steps
<1>9. (Distance(pop_start, pop_index) + 1) + (Waiting - 1) = Distance(pop_start, pop_index) + Waiting
  BY <1>3, <1>4, SizeAssumption
<1> QED
  BY <1>3, <1>7, <1>8, <1>9 DEF Held

LEMMA InvDecodeByte ==
  ASSUME IInv, TypeOK', DecodeByte
  PROVE  IInv'
<1> USE DEF IInv
<1>1. /\ UNCHANGED <<buf, push_index, tty, input, ret>> /\ HasByte /\ GetByte
      /\ pc = "decode" /\ input = <<>>
  BY DEF DecodeByte, Control, ttyVars, HasByte
<1>2. Held
  BY <1>1 DEF HeldWhileDecoding
<1>3. Waiting' = Waiting - 1 /\ Waiting \in Nat \ {0}
  BY <1>1, GetTakes
<1>4. \/ path' = <<>> /\ pc' \in {"mouse3", "idle"}
      \/ /\ path' = Append(path, NextByte) /\ pop_start' = pop_start
         /\ pc' \in {"giveup", "more", "decode"}
  BY DEF DecodeByte, KeyFound
<1>5. CASE path' = <<>> /\ pc' \in {"mouse3", "idle"}
  <2>1. Control' /\ HeldWhileDecoding'
    BY <1>1, <1>5 DEF Control, HeldWhileDecoding, Resumes, Decoding, HasByte
  <2>2. Room'
    <3>1. Len(path') = 0
      BY <1>5
    <3> QED
      BY <1>1, <1>3, <3>1, Lengths, BacklogNext, BoundsAssumption DEF Room
  <2> QED
    BY <2>1, <2>2
<1>6. CASE /\ path' = Append(path, NextByte) /\ pop_start' = pop_start
           /\ pc' \in {"giveup", "more", "decode"}
  <2>1. path \in Seq(Cells) /\ NextByte \in Cells
    BY <1>1, GetTypes DEF TypeOK, Cells
  <2>2. path' # <<>> /\ Len(path') = Len(path) + 1
    BY <1>6, <2>1, AppendProperties
  <2>3. Control'
    BY <1>1, <1>6, <2>2 DEF Control, Resumes, Decoding, HasByte
  <2>4. Held'
    BY <1>1, <1>2, <1>6, HeldGrows
  <2>5. Room'
    BY <1>1, <1>3, <2>2, Lengths, BacklogNext, BoundsAssumption DEF Room
  <2> QED
    BY <2>3, <2>4, <2>5 DEF HeldWhileDecoding
<1> QED
  BY <1>4, <1>5, <1>6

(* Going back to the first byte makes all of them wait again. *)
LEMMA Rewind ==
  ASSUME IInv, StartAgain
  PROVE  Live' = path \o Live /\ Waiting' = Len(path) + Waiting
<1>1. path # <<>> /\ TypeOK
  BY DEF StartAgain, IInv, Control, HasByte
<1>2. Held
  BY <1>1 DEF IInv, HeldWhileDecoding
<1>3. /\ buf \in [Indices -> Cells] /\ pop_index \in Indices /\ push_index \in Indices
      /\ pop_start \in Indices
  BY <1>1 DEF TypeOK, Indices, Cells
<1>4. Distance(pop_start, pop_index) + Distance(pop_index, push_index) = Distance(pop_start, push_index)
  BY <1>2 DEF Held, Waiting
<1>5. Ring(buf, pop_start, push_index) = Ring(buf, pop_start, pop_index) \o Ring(buf, pop_index, push_index)
  BY <1>3, <1>4, RingJoin
<1>6. pop_index' = pop_start /\ UNCHANGED <<buf, push_index>>
  BY DEF StartAgain
<1>7. Live' = path \o Live
  BY <1>2, <1>5, <1>6 DEF Held, Contents, Live
<1>8. Waiting' = Distance(pop_start, push_index)
  BY <1>6 DEF Waiting
<1> QED
  BY <1>1, <1>2, <1>7, <1>8, Lengths

LEMMA InvStartAgain ==
  ASSUME IInv, TypeOK', StartAgain
  PROVE  IInv'
<1>1. /\ UNCHANGED <<tty, input, ret>> /\ path' = <<>> /\ pc = "giveup" /\ pc' \in {"first", "escape"}
      /\ input = <<>>
  BY DEF StartAgain, ttyVars, IInv, Control, HasByte
<1>2. Control' /\ HeldWhileDecoding'
  BY <1>1 DEF Control, HeldWhileDecoding, Resumes, Decoding, HasByte
<1>3. Len(path') = 0
  BY <1>1
<1>4. Waiting' = Len(path) + Waiting
  BY Rewind
<1>5. Room'
  BY <1>1, <1>3, <1>4, Lengths, BacklogNext, BoundsAssumption DEF IInv, Room
<1> QED
  BY <1>2, <1>5 DEF IInv

LEMMA InvRead ==
  ASSUME IInv, TypeOK', Read, MaxBacklog < Size
  PROVE  IInv'
<1> USE DEF IInv, Control, Resumes, Decoding, HeldWhileDecoding, ttyVars, keyVars, HasByte
<1>1. CASE AnyBufferedInput
  BY <1>1, ControlStep DEF AnyBufferedInput
<1>2. CASE ControlGWaiting
  BY <1>2, ControlStep DEF ControlGWaiting
<1>3. CASE GetInputKey
  BY <1>3, ControlStep DEF GetInputKey
<1>4. CASE UpdateAfterSignal
  BY <1>4, ControlStep DEF UpdateAfterSignal
<1>5. CASE WaitForByte
  BY <1>5, InvWaitForByte
<1>6. CASE Interrupted
  BY <1>6, ControlStep DEF Interrupted
<1>7. CASE RestoreEnds
  BY <1>7, ControlStep DEF RestoreEnds
<1>8. CASE TerminalEnds
  BY <1>8, ControlStep DEF TerminalEnds
<1>9. CASE ReadAvailable
  BY <1>9, InvReadAvailable
<1>10. CASE StoreByte
  BY <1>10, InvStoreByte
<1>11. CASE ReturnToCaller
  BY <1>11, ControlStep DEF ReturnToCaller, Stored
<1>12. CASE ReturnToSearch
  BY <1>12, ControlStep DEF ReturnToSearch, Stored
<1>13. CASE QuitSearch
  BY <1>13, ControlStep DEF QuitSearch
<1> QED
  BY <1>1, <1>2, <1>3, <1>4, <1>5, <1>6, <1>7, <1>8, <1>9, <1>10, <1>11, <1>12, <1>13 DEF Read

LEMMA InvDecode ==
  ASSUME IInv, TypeOK', Decode
  PROVE  IInv'
<1> USE DEF IInv, Control, Resumes, Decoding, HeldWhileDecoding, ttyVars, keyVars, HasByte
<1>1. CASE StartDecoding
  BY <1>1, InvStartDecoding
<1>2. CASE DecodeByte
  BY <1>2, InvDecodeByte
<1>3. CASE MoreBytes
  BY <1>3, ControlStep DEF MoreBytes
<1>4. CASE IncompleteSequence
  <2>1. path # <<>>
    BY <1>4 DEF IncompleteSequence
  <2> QED
    BY <1>4, <2>1, ControlStep DEF IncompleteSequence
<1>5. CASE StartAgain
  BY <1>5, InvStartAgain
<1>6. CASE FirstByte
  BY <1>6, GetStep DEF FirstByte
<1>7. CASE Escape
  BY <1>7, GetStep DEF Escape
<1>8. CASE Meta
  BY <1>8, GetStep DEF Meta
<1>9. CASE MetaO
  BY <1>9, GetStep DEF MetaO, Stored
<1>10. CASE CsiByte
  BY <1>10, GetStep DEF CsiByte
<1>11. CASE MouseByte
  BY <1>11, GetStep DEF MouseByte
<1> QED
  BY <1>1, <1>2, <1>3, <1>4, <1>5, <1>6, <1>7, <1>8, <1>9, <1>10, <1>11 DEF Decode

LEMMA InvType ==
  ASSUME IInv, TypeOK', NEW b \in Bytes, Type(b)
  PROVE  IInv'
<1>1. /\ UNCHANGED <<buf, pop_index, push_index, pop_start, path, input, pc, ret>>
      /\ tty' = Append(tty, b) /\ Backlog < MaxBacklog
  BY DEF Type, keyVars
<1>2. Control' /\ HeldWhileDecoding'
  <2>1. Held' <=> Held
    BY <1>1 DEF Held, Contents, Waiting, Ring
  <2> QED
    BY <1>1, <2>1 DEF IInv, Control, HeldWhileDecoding, Resumes, HasByte
<1>3. Room'
  <2>1. Len(tty') = Len(tty) + 1
    BY <1>1, AppendProperties DEF IInv, TypeOK
  <2>2. Waiting' = Waiting /\ Len(path') = Len(path) /\ Len(input') = Len(input)
    BY <1>1 DEF Waiting
  <2> QED
    BY <1>1, <2>1, <2>2, Lengths, BacklogNext, BoundsAssumption DEF IInv, Room
<1> QED
  BY <1>2, <1>3 DEF IInv

LEMMA InvStep ==
  ASSUME IInv, [Next]_vars, MaxBacklog < Size
  PROVE  IInv'
<1>1. TypeOK'
  BY TypeStep DEF IInv
<1>2. CASE Read
  BY <1>1, <1>2, InvRead
<1>3. CASE Decode
  BY <1>1, <1>3, InvDecode
<1>4. CASE \E b \in Bytes: Type(b)
  BY <1>1, <1>4, InvType
<1>5. CASE UNCHANGED vars
  BY <1>1, <1>5
     DEF IInv, vars, Control, HeldWhileDecoding, Held, Room, Backlog, Waiting, Contents, Ring,
         Resumes, HasByte
<1> QED
  BY <1>2, <1>3, <1>4, <1>5 DEF Next

LEMMA InvHolds ==
  ASSUME MaxBacklog < Size
  PROVE  Spec => []IInv
<1>1. Init => IInv
  BY InvInit
<1>2. IInv /\ [Next]_vars => IInv'
  BY InvStep
<1> QED
  BY <1>1, <1>2, PTL DEF Spec

(* As long as the terminal is never Size bytes ahead, the bytes that a     *)
(* rewind puts back are where the decoder left them.                       *)
THEOREM HeldInRingCorrect ==
  ASSUME MaxBacklog < Size
  PROVE  Spec => []HeldInRing
<1>1. IInv => HeldInRing
  BY DEF IInv, HeldWhileDecoding, Held, HeldInRing, Waiting
<1> QED
  BY <1>1, InvHolds, PTL

-----------------------------------------------------------------------------
(* The walk of the tree of byte sequences. *)

(* What is walked, until it is given up, can become a known sequence, and  *)
(* no known sequence begins what is given up with what waits behind it.    *)
Begins(k, s) == Len(k) <= Len(s) /\ SubSeq(s, 1, Len(k)) = k

Walkable(s) == s \in {<<>>, <<Esc>>} \/ IsKeyPrefix(s)

Walk ==
  /\ pc # "giveup" => Walkable(path)
  /\ pc = "giveup" => \A k \in KeySeqs: ~Begins(k, path \o Live)

(* A prefix of a prefix. *)
LEMMA PrefixOf ==
  ASSUME NEW S, NEW s \in Seq(S), NEW m \in 0..Len(s), NEW n \in 0..m
  PROVE  /\ SubSeq(s, 1, m) \in Seq(S) /\ Len(SubSeq(s, 1, m)) = m
         /\ SubSeq(SubSeq(s, 1, m), 1, n) = SubSeq(s, 1, n)
<1>1. /\ SubSeq(s, 1, m) \in Seq(S) /\ Len(SubSeq(s, 1, m)) = m
      /\ \A i \in 1..m: SubSeq(s, 1, m)[i] = s[i]
  BY SubSeqProperties
<1>2. /\ SubSeq(s, 1, n) \in Seq(S) /\ Len(SubSeq(s, 1, n)) = n
      /\ \A i \in 1..n: SubSeq(s, 1, n)[i] = s[i]
  BY SubSeqProperties
<1>3. /\ SubSeq(SubSeq(s, 1, m), 1, n) \in Seq(S) /\ Len(SubSeq(SubSeq(s, 1, m), 1, n)) = n
      /\ \A i \in 1..n: SubSeq(SubSeq(s, 1, m), 1, n)[i] = SubSeq(s, 1, m)[i]
  BY <1>1, SubSeqProperties
<1>4. \A i \in 1..n: SubSeq(SubSeq(s, 1, m), 1, n)[i] = SubSeq(s, 1, n)[i]
  BY <1>1, <1>2, <1>3
<1> QED
  BY <1>1, <1>2, <1>3, <1>4, SeqEqual

(* The prefix of a sequence with more behind it. *)
LEMMA PrefixOfConcat ==
  ASSUME NEW S, NEW s \in Seq(S), NEW t \in Seq(S), NEW n \in 0..Len(s)
  PROVE  SubSeq(s \o t, 1, n) = SubSeq(s, 1, n)
<1>1. /\ s \o t \in Seq(S) /\ Len(s \o t) = Len(s) + Len(t)
      /\ \A i \in 1..Len(s): (s \o t)[i] = s[i]
      /\ Len(s) \in Nat /\ Len(t) \in Nat
  BY ConcatProperties, LenProperties
<1>2. /\ SubSeq(s, 1, n) \in Seq(S) /\ Len(SubSeq(s, 1, n)) = n
      /\ \A i \in 1..n: SubSeq(s, 1, n)[i] = s[i]
  BY SubSeqProperties
<1>3. /\ SubSeq(s \o t, 1, n) \in Seq(S) /\ Len(SubSeq(s \o t, 1, n)) = n
      /\ \A i \in 1..n: SubSeq(s \o t, 1, n)[i] = (s \o t)[i]
  BY <1>1, SubSeqProperties
<1>4. \A i \in 1..n: SubSeq(s \o t, 1, n)[i] = SubSeq(s, 1, n)[i]
  BY <1>1, <1>2, <1>3
<1> QED
  BY <1>2, <1>3, <1>4, SeqEqual

LEMMA KeySeqsTyped ==
  ASSUME NEW k \in KeySeqs
  PROVE  k \in Seq(Cells) /\ Len(k) \in Nat \ {0} /\ SubSeq(k, 1, Len(k)) = k
<1>1. k \in Seq(Bytes) /\ k # <<>>
  BY KeySeqsAssumption
<1>2. k \in Seq(Cells)
  BY <1>1 DEF Cells
<1>3. Len(k) \in Nat \ {0}
  BY <1>1, EmptySeq, LenProperties
<1>4. SubSeq(k, 1, Len(k)) = k
  BY <1>2, <1>3, SubSeqFull
<1> QED
  BY <1>2, <1>3, <1>4

(* No known sequence begins one that can be walked, whatever follows. *)
LEMMA NoneInWalkable ==
  ASSUME NEW s \in Seq(Cells), Walkable(s), NEW t \in Seq(Cells),
         NEW k \in KeySeqs, Len(k) <= Len(s)
  PROVE  ~Begins(k, s \o t)
<1> SUFFICES ASSUME Begins(k, s \o t) PROVE FALSE
  OBVIOUS
<1>1. k \in Seq(Cells) /\ Len(k) \in Nat \ {0} /\ SubSeq(k, 1, Len(k)) = k
  BY KeySeqsTyped
<1>2. Len(s) \in Nat
  BY LenProperties
<1>3. SubSeq(s, 1, Len(k)) = k
  <2>1. SubSeq(s \o t, 1, Len(k)) = SubSeq(s, 1, Len(k))
    BY <1>1, <1>2, PrefixOfConcat
  <2> QED
    BY <2>1 DEF Begins
<1>4. CASE s = <<>>
  BY <1>1, <1>4
<1>5. CASE s = <<Esc>>
  <2>1. Len(s) = 1 /\ SubSeq(s, 1, Len(s)) = s
    BY <1>5, SubSeqFull
  <2>2. Len(k) = Len(s)
    BY <1>1, <2>1
  <2> QED
    BY <1>3, <1>5, <2>1, <2>2, LeavesAssumption
<1>6. CASE IsKeyPrefix(s)
  <2>1. PICK j \in KeySeqs: Len(s) < Len(j) /\ SubSeq(j, 1, Len(s)) = s
    BY <1>6 DEF IsKeyPrefix
  <2>2. j \in Seq(Cells) /\ Len(j) \in Nat
    BY KeySeqsTyped
  <2>3. SubSeq(SubSeq(j, 1, Len(s)), 1, Len(k)) = SubSeq(j, 1, Len(k))
    BY <1>1, <1>2, <2>1, <2>2, PrefixOf
  <2>4. SubSeq(j, 1, Len(k)) = k /\ Len(k) < Len(j)
    BY <1>1, <1>2, <1>3, <2>1, <2>2, <2>3
  <2> QED
    BY <2>4, LeavesAssumption
<1> QED
  BY <1>4, <1>5, <1>6 DEF Walkable

(* A sequence that is neither known nor the start of a known one. *)
LEMMA NoneBegins ==
  ASSUME NEW s \in Seq(Cells), Walkable(s), NEW b \in Cells, NEW t \in Seq(Cells),
         Append(s, b) \notin KeySeqs, ~IsKeyPrefix(Append(s, b))
  PROVE  \A k \in KeySeqs: ~Begins(k, Append(s, b) \o t)
<1> DEFINE e == <<b>> \o t
           u == Append(s, b)
<1>0. TAKE k \in KeySeqs
<1>1. k \in Seq(Cells) /\ Len(k) \in Nat \ {0} /\ SubSeq(k, 1, Len(k)) = k
  BY KeySeqsTyped
<1>2. u \in Seq(Cells) /\ Len(u) = Len(s) + 1 /\ Len(s) \in Nat /\ u = s \o <<b>>
  BY AppendProperties, LenProperties, AppendIsConcat
<1>3. <<b>> \in Seq(Cells) /\ e \in Seq(Cells) /\ u \o t = s \o e
  BY <1>2, ConcatAssociative, ConcatProperties
<1> HIDE DEF u, e
<1>4. CASE Len(k) <= Len(s)
  BY <1>3, <1>4, NoneInWalkable DEF u
<1>5. CASE Len(k) > Len(s)
  <2> SUFFICES ASSUME Begins(k, u \o t) PROVE FALSE
    BY DEF u
  <2>1. CASE Len(k) = Len(u)
    <3>1. SubSeq(u \o t, 1, Len(u)) = u
      <4>1. SubSeq(u \o t, 1, Len(u)) = SubSeq(u, 1, Len(u))
        BY <1>2, PrefixOfConcat
      <4>2. SubSeq(u, 1, Len(u)) = u
        BY <1>2, SubSeqFull
      <4> QED
        BY <4>1, <4>2
    <3> QED
      BY <2>1, <3>1 DEF Begins, u
  <2>2. CASE Len(k) > Len(u)
    <3>1. u \o t \in Seq(Cells) /\ Len(k) \in 0..Len(u \o t) /\ Len(u) \in 0..Len(k)
      BY <1>1, <1>2, <2>2, ConcatProperties, LenProperties DEF Begins
    <3>2. SubSeq(SubSeq(u \o t, 1, Len(k)), 1, Len(u)) = SubSeq(u \o t, 1, Len(u))
      BY <3>1, PrefixOf
    <3>3. SubSeq(u \o t, 1, Len(u)) = u
      <4>1. SubSeq(u \o t, 1, Len(u)) = SubSeq(u, 1, Len(u))
        BY <1>2, PrefixOfConcat
      <4>2. SubSeq(u, 1, Len(u)) = u
        BY <1>2, SubSeqFull
      <4> QED
        BY <4>1, <4>2
    <3>4. SubSeq(k, 1, Len(u)) = u
      BY <3>2, <3>3 DEF Begins
    <3> QED
      BY <2>2, <3>4, <1>1 DEF IsKeyPrefix, u
  <2>3. Len(k) = Len(u) \/ Len(k) > Len(u)
    <3>1. \A m, n, l \in Int: m > n /\ l = n + 1 => m = l \/ m > l
      OBVIOUS
    <3>2. Len(k) \in Int /\ Len(s) \in Int /\ Len(u) \in Int /\ Len(u) = Len(s) + 1
      BY <1>1, <1>2
    <3> QED
      BY <1>5, <3>1, <3>2
  <2> QED
    BY <2>1, <2>2, <2>3
<1> QED
  BY <1>1, <1>2, <1>4, <1>5

(* One step of the walk. *)
LEMMA WalkDecodeByte ==
  ASSUME TypeOK, TypeOK', Walk, DecodeByte
  PROVE  Walk'
<1> DEFINE s == Append(path, NextByte)
<1>1. /\ Walkable(path) /\ path \in Seq(Cells) /\ NextByte \in Cells
  BY GetTypes DEF DecodeByte, Walk, TypeOK, Cells
<1>2. /\ HasByte /\ GetByte
      /\ IF Entry(s) = "key" THEN path' = <<>> ELSE path' = s
      /\ \/ Entry(s) = "key" /\ KeyFound(s)
         \/ Entry(s) = "none" /\ pc' = "giveup"
         \/ Entry(s) \in {"esc", "map"} /\ pc' \in {"more", "decode"}
  BY DEF DecodeByte
<1> HIDE DEF s
<1>3. Live' \in Seq(Cells)
  <2>1. /\ buf' \in [Indices -> Cells] /\ pop_index' \in Indices /\ push_index' \in Indices
    BY DEF TypeOK, Indices, Cells
  <2>2. Ring(buf', pop_index', push_index') \in Seq(Cells)
    BY <2>1, RingSeq
  <2> QED
    BY <2>2 DEF Live, Contents
<1>4. CASE Entry(s) = "key"
  BY <1>2, <1>4 DEF Walk, KeyFound, Walkable
<1>5. CASE Entry(s) = "none"
  <2>1. s \notin KeySeqs /\ ~IsKeyPrefix(s)
    BY <1>5, LeavesAssumption DEF Entry
  <2>2. \A k \in KeySeqs: ~Begins(k, s \o Live')
    BY <1>1, <1>3, <2>1, NoneBegins DEF s
  <2> QED
    BY <1>2, <1>5, <2>2 DEF Walk, Begins
<1>6. CASE Entry(s) \in {"esc", "map"}
  <2>1. s = <<Esc>> \/ IsKeyPrefix(s)
    BY <1>6 DEF Entry
  <2> QED
    BY <1>2, <1>6, <2>1 DEF Walk, Walkable
<1> QED
  BY <1>2, <1>4, <1>5, <1>6

LEMMA WalkStep ==
  ASSUME TypeOK, Walk, [Next]_vars
  PROVE  Walk'
<1>0. TypeOK'
  BY TypeStep
<1> USE DEF Walk, ttyVars, keyVars
<1>1. CASE Read
  <2>1. path' = path /\ pc # "giveup" /\ pc' # "giveup"
    BY <1>1 DEF Read, AnyBufferedInput, ControlGWaiting, GetInputKey, UpdateAfterSignal,
                WaitForByte, Interrupted, RestoreEnds, TerminalEnds, ReadAvailable, StoreByte,
                ReturnToCaller, ReturnToSearch, QuitSearch, Stored
  <2> QED
    BY <2>1
<1>2. CASE DecodeByte
  BY <1>0, <1>2, WalkDecodeByte
<1>3. CASE IncompleteSequence
  <2>1. UNCHANGED <<path, buf, pop_index, push_index>> /\ pc = "decode" /\ ~HasByte
    BY <1>3 DEF IncompleteSequence
  <2>2. Live' = <<>> /\ path \in Seq(Cells)
    BY <2>1, NothingLive DEF Live, Contents, Ring, TypeOK, Cells
  <2>3. path \o <<>> = path /\ Len(path) \in Nat
    BY <2>2, ConcatEmptySeq, LenProperties
  <2>4. \A k \in KeySeqs: ~Begins(k, path \o <<>>)
    <3>1. TAKE k \in KeySeqs
    <3>2. CASE Len(k) <= Len(path)
      BY <2>1, <2>2, <3>2, NoneInWalkable, EmptySeq
    <3>3. CASE ~(Len(k) <= Len(path))
      BY <2>3, <3>3 DEF Begins
    <3> QED
      BY <3>2, <3>3
  <2> QED
    BY <1>3, <2>1, <2>2, <2>4 DEF IncompleteSequence, Begins
<1>4. CASE StartDecoding \/ MoreBytes
  BY <1>4 DEF StartDecoding, MoreBytes, Stored
<1>5. CASE StartAgain
  BY <1>5 DEF StartAgain, Walkable
<1>6. CASE FirstByte \/ Escape \/ Meta \/ MetaO \/ CsiByte \/ MouseByte
  BY <1>6 DEF FirstByte, Escape, Meta, MetaO, CsiByte, MouseByte, Stored
<1>7. CASE \E b \in Bytes: Type(b)
  BY <1>7 DEF Type, Live, Contents, Ring
<1>8. CASE UNCHANGED vars
  BY <1>8 DEF vars, Live, Contents, Ring
<1> QED
  BY <1>1, <1>2, <1>3, <1>4, <1>5, <1>6, <1>7, <1>8 DEF Next, Decode

(* However the bytes of a key arrive, one at a time or with a flush, a     *)
(* signal or a time-out between them, and however small the ring, the      *)
(* decoder does not give up on bytes that start with a known key.          *)
THEOREM KnownKeyNotBrokenCorrect == Spec => []KnownKeyNotBroken
<1>1. Init => Walk
  BY DEF Init, Walk, Walkable
<1>2. TypeOK /\ Walk /\ [Next]_vars => Walk'
  BY WalkStep
<1>3. Walk => KnownKeyNotBroken
  BY DEF Walk, KnownKeyNotBroken, Begins, Live
<1> QED
  BY <1>1, <1>2, <1>3, KeyInputTypeCorrect, PTL DEF Spec

-----------------------------------------------------------------------------
(* The ring implements the queue. *)

Unread == input \o tty

LEMMA QueueSame ==
  ASSUME UNCHANGED <<input, tty, buf, pop_index, push_index, path>>
  PROVE  UNCHANGED <<Unread, Live, path>>
  BY DEF Unread, Live, Contents, Ring

(* A step that takes at most one byte, outside a sequence. *)
LEMMA QueueGet ==
  ASSUME IInv, GetByte, UNCHANGED <<input, tty, buf, push_index, path>>, path = <<>>
  PROVE  Queue!Take \/ UNCHANGED <<Unread, Live, path>>
<1>1. CASE HasByte
  <2>1. Live # <<>> /\ Live' = Tail(Live)
    BY <1>1, GetTakes DEF IInv
  <2>2. Unread' = Unread
    BY DEF Unread
  <2> QED
    BY <2>1, <2>2 DEF Queue!Take, Live, Unread
<1>2. CASE ~HasByte
  BY <1>2, QueueSame DEF GetByte
<1> QED
  BY <1>1, <1>2

LEMMA QueueDecodeByte ==
  ASSUME IInv, DecodeByte
  PROVE  Queue!Take
<1>1. /\ UNCHANGED <<buf, push_index, tty, input>> /\ HasByte /\ GetByte
      /\ path' \in {Append(path, NextByte), <<>>}
  BY DEF DecodeByte, ttyVars
<1>2. Live # <<>> /\ Live' = Tail(Live) /\ Head(Live) = NextByte
  BY <1>1, GetTakes DEF IInv
<1>3. Unread' = Unread
  BY <1>1 DEF Unread
<1> QED
  BY <1>1, <1>2, <1>3 DEF Queue!Take, Live, Unread

LEMMA QueueStartAgain ==
  ASSUME IInv, StartAgain
  PROVE  Queue!PutBack
<1>1. Live' = path \o Live
  BY Rewind
<1>2. path' = <<>> /\ Unread' = Unread
  BY DEF StartAgain, ttyVars, Unread
<1> QED
  BY <1>1, <1>2 DEF Queue!PutBack, Live, Unread

LEMMA QueueWaitForByte ==
  ASSUME IInv, WaitForByte
  PROVE  Queue!ReadWaitedFor \/ UNCHANGED <<Unread, Live, path>>
<1>1. path = <<>> /\ path' = <<>> /\ input = <<>> /\ input' = <<>> /\ pop_index' = pop_index
  BY DEF IInv, WaitForByte, Control, Decoding, Resumes, keyVars
<1>2. CASE HasByte
  BY <1>1, <1>2, QueueSame DEF WaitForByte
<1>3. CASE ~HasByte
  <2>1. tty # <<>> /\ PutByte(Head(tty)) /\ tty' = Tail(tty)
    BY <1>3 DEF WaitForByte
  <2>2. tty \in Seq(Bytes) /\ Head(tty) \in Bytes /\ Tail(tty) \in Seq(Bytes)
    BY <2>1, HeadTailProperties DEF IInv, TypeOK
  <2>3. Live = <<>> /\ Waiting < Size - 1
    BY <1>3, NothingLive, SizeAssumption DEF IInv
  <2>4. Live' = <<Head(tty)>>
    <3>1. Live' = Append(Live, Head(tty))
      BY <1>1, <2>1, <2>2, <2>3, PutAppends DEF IInv
    <3> QED
      BY <2>3, <3>1
  <2>5. Unread = tty /\ Unread' = Tail(tty)
    BY <1>1, <2>1, <2>2, ConcatEmptySeq DEF Unread
  <2> QED
    BY <1>1, <2>1, <2>3, <2>4, <2>5 DEF Queue!ReadWaitedFor, Live, Unread
<1> QED
  BY <1>2, <1>3

LEMMA QueueReadAvailable ==
  ASSUME IInv, ReadAvailable
  PROVE  UNCHANGED <<Unread, Live, path>>
<1>1. input = <<>> /\ tty \in Seq(Bytes)
  BY DEF IInv, Control, ReadAvailable, TypeOK
<1>2. input' \o tty' = tty
  BY <1>1, AvailTypes, Cut DEF ReadAvailable, IInv
<1>3. Unread = tty
  BY <1>1, ConcatEmptySeq DEF Unread
<1>4. Unread' = Unread
  BY <1>2, <1>3 DEF Unread
<1> QED
  BY <1>4 DEF ReadAvailable, Live, Contents, Ring, keyVars

LEMMA QueueStoreByte ==
  ASSUME IInv, StoreByte, MaxBacklog < Size
  PROVE  Queue!ReadAhead
<1>1. /\ UNCHANGED <<pop_index, path, tty>> /\ input # <<>> /\ input' = Tail(input)
  BY DEF StoreByte, keyVars, ttyVars
<1>2. /\ input \in Seq(Bytes) /\ tty \in Seq(Bytes) /\ Head(input) \in Bytes
      /\ Len(input) \in Nat \ {0}
  BY <1>1, HeadTailProperties, EmptySeq DEF IInv, TypeOK
<1>3. Unread # <<>> /\ Head(Unread) = Head(input) /\ Unread' = Tail(Unread)
  <2>1. (input \o tty) # <<>> /\ Head(input \o tty) = Head(input) /\ Tail(input \o tty) = Tail(input) \o tty
    BY <1>1, <1>2
  <2> QED
    BY <1>1, <2>1 DEF Unread
<1>4. CASE Head(input) # CtrlG
  <2>1. PutByte(Head(input))
    BY <1>4 DEF StoreByte
  <2>2. Waiting < Size - 1
    BY <1>2, Lengths, BoundsAssumption, SizeAssumption DEF IInv, Room
  <2>3. Live' = Append(Live, Head(input))
    BY <1>1, <1>2, <2>1, <2>2, PutAppends DEF IInv
  <2> QED
    BY <1>1, <1>3, <1>4, <2>3 DEF Queue!ReadAhead, Live, Unread
<1>5. CASE Head(input) = CtrlG
  <2>1. Live' = <<>>
    BY <1>1, <1>5, NothingLive DEF StoreByte, IInv, Live, Contents, Ring
  <2> QED
    BY <1>1, <1>3, <1>5, <2>1 DEF Queue!ReadAhead, Live, Unread
<1> QED
  BY <1>4, <1>5

LEMMA QueueType ==
  ASSUME IInv, NEW b \in Bytes, Type(b)
  PROVE  Queue!Typed(b)
<1>1. tty \in Seq(Bytes) /\ input \in Seq(Bytes)
  BY DEF IInv, TypeOK
<1>2. input \o Append(tty, b) = Append(input \o tty, b)
  BY <1>1
<1>3. Unread' = Append(Unread, b)
  BY <1>2 DEF Type, Unread
<1>4. Live' = Live /\ path' = path
  BY DEF Type, Live, Contents, Ring, keyVars
<1> QED
  BY <1>3, <1>4 DEF Queue!Typed, Live, Unread

QueueStepOrStutter == Queue!QueueNext \/ UNCHANGED <<Unread, Live, path>>

LEMMA QueueRead ==
  ASSUME IInv, Read, MaxBacklog < Size
  PROVE  QueueStepOrStutter
<1> USE DEF QueueStepOrStutter, Queue!QueueNext
<1>1. CASE WaitForByte
  BY <1>1, QueueWaitForByte
<1>2. CASE ReadAvailable
  BY <1>2, QueueReadAvailable
<1>3. CASE StoreByte
  BY <1>3, QueueStoreByte
<1>4. CASE ~WaitForByte /\ ~ReadAvailable /\ ~StoreByte
  <2>1. UNCHANGED <<input, tty, buf, pop_index, push_index, path>>
    BY <1>4
       DEF Read, AnyBufferedInput, ControlGWaiting, GetInputKey, UpdateAfterSignal, Interrupted,
           RestoreEnds, TerminalEnds, ReturnToCaller, ReturnToSearch, QuitSearch, ttyVars, keyVars
  <2> QED
    BY <2>1, QueueSame
<1> QED
  BY <1>1, <1>2, <1>3, <1>4

LEMMA QueueDecode ==
  ASSUME IInv, Decode
  PROVE  QueueStepOrStutter
<1> USE DEF QueueStepOrStutter, Queue!QueueNext, ttyVars, keyVars
<1>1. CASE DecodeByte
  BY <1>1, QueueDecodeByte
<1>2. CASE StartAgain
  BY <1>2, QueueStartAgain
<1>3. CASE StartDecoding \/ MoreBytes \/ IncompleteSequence
  BY <1>3, QueueSame DEF StartDecoding, MoreBytes, IncompleteSequence
<1>4. CASE FirstByte \/ Escape \/ Meta \/ MetaO \/ CsiByte \/ MouseByte
  <2>1. GetByte /\ UNCHANGED <<input, tty, buf, push_index, path>>
    BY <1>4 DEF FirstByte, Escape, Meta, MetaO, CsiByte, MouseByte
  <2>2. path = <<>>
    BY <1>4 DEF FirstByte, Escape, Meta, MetaO, CsiByte, MouseByte, IInv, Control, Decoding,
                Resumes, Stored
  <2> QED
    BY <2>1, <2>2, QueueGet
<1> QED
  BY <1>1, <1>2, <1>3, <1>4 DEF Decode

LEMMA QueueInitially ==
  ASSUME Init
  PROVE  Queue!QueueInit
<1>1. TypeOK
  BY TypeInit
<1>2. input = <<>> /\ tty \in Seq(Bytes) /\ path = <<>> /\ ~HasByte
  BY <1>1 DEF Init, TypeOK, HasByte
<1>3. Unread \in Seq(Bytes)
  BY <1>2, ConcatEmptySeq DEF Unread
<1>4. Live = <<>>
  BY <1>1, <1>2, NothingLive
<1> QED
  BY <1>2, <1>3, <1>4 DEF Queue!QueueInit, Live, Unread

(* As long as the terminal is never Size bytes ahead, no byte is lost,     *)
(* repeated or reordered on its way to the decoder, whatever the sequences *)
(* and wherever the rewinds and the flushes fall.                          *)
THEOREM RingImplementsQueue ==
  ASSUME MaxBacklog < Size
  PROVE  Spec => ImplementsQueue
<1>1. Init => Queue!QueueInit
  BY QueueInitially
<1>2. IInv /\ [Next]_vars => [Queue!QueueNext]_(Queue!queueVars)
  <2> SUFFICES ASSUME IInv, [Next]_vars
               PROVE  QueueStepOrStutter
    BY DEF QueueStepOrStutter, Queue!queueVars, Live, Unread
  <2>1. CASE Read
    BY <2>1, QueueRead
  <2>2. CASE Decode
    BY <2>2, QueueDecode
  <2>3. CASE \E b \in Bytes: Type(b)
    BY <2>3, QueueType DEF QueueStepOrStutter, Queue!QueueNext
  <2>4. CASE UNCHANGED vars
    BY <2>4, QueueSame DEF vars, QueueStepOrStutter
  <2> QED
    BY <2>1, <2>2, <2>3, <2>4 DEF Next
<1> QED
  BY <1>1, <1>2, InvHolds, PTL DEF Spec, ImplementsQueue, Queue!QueueSpec
=============================================================================
