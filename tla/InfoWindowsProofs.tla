------------------------- MODULE InfoWindowsProofs -------------------------
(***************************************************************************)
(* Theorems about InfoWindows, for screens of any height, any number of    *)
(* windows and every order of commands and resizes.                        *)
(*                                                                         *)
(* The operators of the model are loops over the windows, written as       *)
(* recursive functions.  What they compute is proved by induction on the   *)
(* number of turns: Induction and Iterated, which come first.              *)
(***************************************************************************)
EXTENDS InfoWindows, SequenceTheorems, FiniteSetTheorems, TLAPS

-----------------------------------------------------------------------------

(* Induction: a set of numbers that has 0, and the number after each of    *)
(* its own, has them all.                                                  *)
LEMMA Induction ==
  ASSUME NEW S, 0 \in S, \A n \in Nat : n \in S => n + 1 \in S
  PROVE  Nat \subseteq S
<1>. DEFINE R == OpToRel(<, Nat)
            T == Nat \ S
<1>1. \A x, y \in Nat : y < x => <<y, x>> \in R
  BY DEF OpToRel
<1>2. SUFFICES ASSUME T # {} PROVE FALSE
  OBVIOUS
<1>3. IsWellFoundedOn(R, Nat)
  BY NatLessThanWellFounded
<1>. HIDE DEF R
<1>4. PICK x \in T : \A y \in T : ~ (<<y, x>> \in R)
  <2>1. T \subseteq Nat
    OBVIOUS
  <2>. QED  BY <1>2, <1>3, <2>1, WFMin
<1>5. x \in Nat /\ x # 0
  BY <1>4
<1>6. x - 1 \in Nat /\ x - 1 < x /\ (x - 1) + 1 = x
  BY <1>5
<1>7. x - 1 \notin T
  BY <1>1, <1>4, <1>5, <1>6
<1>8. x - 1 \in S
  BY <1>6, <1>7
<1>9. x \in S
  BY <1>6, <1>8
<1>. QED  BY <1>4, <1>9

(* The same up to n. *)
LEMMA InductionTo ==
  ASSUME NEW S, NEW n \in Nat, 0 \in S, \A k \in 1 .. n : k - 1 \in S => k \in S
  PROVE  \A k \in 0 .. n : k \in S
<1>. DEFINE T == {k \in Nat : k <= n => k \in S}
<1>1. 0 \in T
  OBVIOUS
<1>2. ASSUME NEW k \in Nat, k \in T PROVE k + 1 \in T
  <2>1. SUFFICES ASSUME k + 1 <= n PROVE k + 1 \in S
    OBVIOUS
  <2>2. k \in S /\ k + 1 \in 1 .. n /\ (k + 1) - 1 = k
    BY <1>2, <2>1
  <2>. QED  BY <2>2
<1>. HIDE DEF T
<1>3. Nat \subseteq T
  BY <1>1, <1>2, Induction
<1>. QED  BY <1>3 DEF T

(* g is what comes of c by the steps of D. *)
Iteration(g, S, c, D, n) ==
  g \in [0 .. n -> S] /\ g[0] = c /\ \A k \in 1 .. n : g[k] = D[k][g[k - 1]]

(* There is one: what a recursive function needs to be as it is written. *)
LEMMA Iterated ==
  ASSUME NEW S, NEW c \in S, NEW D \in [Nat -> [S -> S]], NEW n \in Nat
  PROVE  \E g : Iteration(g, S, c, D, n)
<1>. DEFINE N == {m \in Nat : \E g : Iteration(g, S, c, D, m)}
<1>1. 0 \in N
  <2>. DEFINE g == [k \in 0 .. 0 |-> c]
  <2>1. g \in [0 .. 0 -> S] /\ g[0] = c
    OBVIOUS
  <2>2. \A k \in 1 .. 0 : FALSE
    OBVIOUS
  <2>. HIDE DEF g
  <2>3. Iteration(g, S, c, D, 0)
    BY <2>1, <2>2 DEF Iteration
  <2>. QED  BY <2>3
<1>2. ASSUME NEW m \in Nat, m \in N PROVE m + 1 \in N
  <2>1. PICK g : Iteration(g, S, c, D, m)
    BY <1>2
  <2>. DEFINE h == [k \in 0 .. m + 1 |-> IF k <= m THEN g[k] ELSE D[m + 1][g[m]]]
  <2>2. /\ g \in [0 .. m -> S] /\ g[0] = c
        /\ \A k \in 1 .. m : g[k] = D[k][g[k - 1]]
    BY <2>1 DEF Iteration
  <2>3. D[m + 1] \in [S -> S] /\ g[m] \in S
    BY <2>2
  <2>4. D[m + 1][g[m]] \in S
    BY <2>3
  <2>5. h \in [0 .. m + 1 -> S] /\ h[0] = c
    BY <2>2, <2>4
  <2>6. ASSUME NEW k \in 1 .. m + 1 PROVE h[k] = D[k][h[k - 1]]
    <3>1. CASE k <= m
      <4>1. /\ k \in 1 .. m /\ k - 1 \in 0 .. m /\ k \in 0 .. m + 1
            /\ k - 1 \in 0 .. m + 1 /\ k - 1 <= m
        BY <3>1
      <4>. QED  BY <2>2, <3>1, <4>1
    <3>2. CASE k = m + 1
      <4>1. k - 1 = m /\ ~(k <= m) /\ m \in 0 .. m + 1 /\ k \in 0 .. m + 1
        BY <3>2
      <4>. QED  BY <3>2, <4>1
    <3>. QED  BY <3>1, <3>2
  <2>. HIDE DEF h
  <2>7. Iteration(h, S, c, D, m + 1)
    BY <2>5, <2>6 DEF Iteration
  <2>. QED  BY <2>7
<1>. HIDE DEF N
<1>3. n \in N
  BY <1>1, <1>2, Induction
<1>. QED  BY <1>3 DEF N

LEMMA Mapped ==
  ASSUME NEW S, NEW n \in Nat, NEW f \in [1 .. n -> S]
  PROVE  f \in Seq(S) /\ Len(f) = n /\ DOMAIN f = 1 .. n
<1>1. f \in Seq(S)
  BY SeqDef
<1>. QED  BY <1>1, LenProperties

LEMMA RowsFacts ==
  ASSUME NEW ws \in Seq(Window), NEW n, n = Len(ws)
  PROVE  /\ Rows(ws) \in [0 .. n -> Int]
         /\ Rows(ws)[0] = 0
         /\ \A k \in 1 .. n : Rows(ws)[k] = Rows(ws)[k - 1] + ws[k].height + 1
<1>0. n \in Nat /\ \A k \in 1 .. n : ws[k] \in Window
  BY ElementOfSeq, LenProperties
<1>1. n \in Nat /\ 0 \in Int /\ \A k \in 1 .. n : ws[k].height \in Int
  BY <1>0 DEF Window
<1>. DEFINE D == [k \in Nat |-> [x \in Int |-> IF k \in 1 .. n THEN x + ws[k].height + 1 ELSE x]]
<1>2. D \in [Nat -> [Int -> Int]]
  BY <1>1
<1>3. \A k \in 1 .. n : \A x \in Int : D[k][x] = x + ws[k].height + 1
  BY <1>1
<1>. HIDE DEF D
<1>4. PICK g : Iteration(g, Int, 0, D, n)
  BY <1>1, <1>2, Iterated
<1>5. g \in [0 .. n -> Int] /\ g[0] = 0 /\ \A k \in 1 .. n : g[k] = D[k][g[k - 1]]
  BY <1>4 DEF Iteration
<1>. DEFINE F(h) == [k \in 0 .. n |-> IF k = 0 THEN 0 ELSE h[k - 1] + ws[k].height + 1]
<1>6. g = F(g)
  <2>1. ASSUME NEW k \in 1 .. n PROVE g[k] = g[k - 1] + ws[k].height + 1
    <3>1. k - 1 \in 0 .. n /\ g[k - 1] \in Int
      BY <1>1, <1>5
    <3>. QED  BY <1>3, <1>5, <3>1
  <2>2. \A k \in 0 .. n : g[k] = IF k = 0 THEN 0 ELSE g[k - 1] + ws[k].height + 1
    BY <1>1, <1>5, <2>1
  <2>. QED  BY <1>5, <2>2
<1>. DEFINE r == Rows(ws)
<1>7. r = CHOOSE h : h = F(h)
  BY DEF Rows
<1>. HIDE DEF r
<1>8. r = F(r)
  BY <1>6, <1>7
<1>9. /\ DOMAIN r = 0 .. n /\ r[0] = 0
      /\ \A k \in 1 .. n : r[k] = r[k - 1] + ws[k].height + 1
  <2>1. \A k \in 1 .. n : k \in 0 .. n /\ k # 0
    BY <1>1
  <2>2. 0 \in 0 .. n
    BY <1>1
  <2>3. \A k \in 0 .. n : r[k] = IF k = 0 THEN 0 ELSE r[k - 1] + ws[k].height + 1
    BY <1>8
  <2>. QED  BY <1>8, <2>1, <2>2, <2>3
<1>. DEFINE T == {k \in 0 .. n : r[k] \in Int}
<1>10. 0 \in T
  BY <1>1, <1>9
<1>11. ASSUME NEW k \in 1 .. n, k - 1 \in T PROVE k \in T
  BY <1>1, <1>9, <1>11
<1>. HIDE DEF T
<1>12. \A k \in 0 .. n : k \in T
  BY <1>1, <1>10, <1>11, InductionTo
<1>13. r \in [0 .. n -> Int]
  BY <1>8, <1>12 DEF T
<1>. QED  BY <1>9, <1>13 DEF r

(* The windows of t, seen as those of ws: with e below window k, and       *)
(* without window k.                                                       *)
LinkedAs(t, ws, k, e) ==
  /\ Len(t) = Len(ws) + 1
  /\ \A j \in 1 .. Len(ws) + 1 :
       t[j] = IF j <= k THEN ws[j] ELSE IF j = k + 1 THEN e ELSE ws[j - 1]
UnlinkedAs(t, ws, k) ==
  /\ Len(t) = Len(ws) - 1
  /\ \A j \in 1 .. Len(ws) - 1 : t[j] = IF j < k THEN ws[j] ELSE ws[j + 1]

LEMMA LinkedFacts ==
  ASSUME NEW S, NEW ws \in Seq(S), NEW k \in 1 .. Len(ws), NEW e \in S,
         NEW t, t = Linked(ws, k, e)
  PROVE  t \in Seq(S) /\ LinkedAs(t, ws, k, e)
<1>. DEFINE n == Len(ws)
            a == SubSeq(ws, 1, k)
            c == SubSeq(ws, k + 1, n)
<1>1. Linked(ws, k, e) = a \o <<e>> \o c
  BY DEF Linked
<1>2. /\ n \in Nat /\ k \in Nat /\ 1 <= k /\ k <= n
      /\ \A i \in 1 .. n : ws[i] \in S
  BY LenProperties, ElementOfSeq
<1>3. \A i \in 1 .. k : ws[i] \in S
  BY <1>2
<1>4. \A i \in k + 1 .. n : ws[i] \in S
  BY <1>2
<1>5. /\ a \in Seq(S) /\ Len(a) = k
      /\ \A i \in 1 .. k : a[i] = ws[i]
  BY <1>2, <1>3, SubSeqProperties
<1>6. /\ c \in Seq(S) /\ Len(c) = n - k
      /\ \A i \in 1 .. n - k : c[i] = ws[k + i]
  BY <1>2, <1>4, SubSeqProperties
<1>7. <<e>> \in Seq(S) /\ Len(<<e>>) = 1 /\ <<e>>[1] = e
  OBVIOUS
<1>. HIDE DEF a, c, n
<1>8. /\ a \o <<e>> \in Seq(S) /\ Len(a \o <<e>>) = k + 1
      /\ \A i \in 1 .. k + 1 : (a \o <<e>>)[i] = IF i <= k THEN a[i] ELSE e
  BY <1>2, <1>5, <1>7, ConcatProperties
<1>. DEFINE b == a \o <<e>>
<1>. HIDE DEF b
<1>9. /\ b \o c \in Seq(S) /\ Len(b \o c) = n + 1
      /\ \A i \in 1 .. n + 1 : (b \o c)[i] = IF i <= k + 1 THEN b[i] ELSE c[i - (k + 1)]
  <2>1. b \in Seq(S) /\ Len(b) = k + 1
    BY <1>8 DEF b
  <2>2. /\ b \o c \in Seq(S) /\ Len(b \o c) = Len(b) + Len(c)
        /\ \A i \in 1 .. Len(b) + Len(c) :
             (b \o c)[i] = IF i <= Len(b) THEN b[i] ELSE c[i - Len(b)]
    BY <1>6, <2>1, ConcatProperties, Zenon
  <2>3. Len(b) + Len(c) = n + 1
    BY <1>2, <1>6, <2>1
  <2>. QED  BY <2>1, <2>2, <2>3
<1>10. t = b \o c
  BY <1>1 DEF b
<1>11. ASSUME NEW j \in 1 .. n + 1
       PROVE  (b \o c)[j] = IF j <= k THEN ws[j] ELSE IF j = k + 1 THEN e ELSE ws[j - 1]
  <2>1. CASE j <= k + 1
    <3>1. j \in 1 .. k + 1 /\ (j <= k => j \in 1 .. k) /\ (~(j <= k) => j = k + 1)
      BY <1>2, <2>1
    <3>2. b[j] = IF j <= k THEN a[j] ELSE e
      BY <1>8, <3>1 DEF b
    <3>. QED  BY <1>5, <1>9, <2>1, <3>1, <3>2
  <2>2. CASE j > k + 1
    <3>1. j - (k + 1) \in 1 .. n - k /\ k + (j - (k + 1)) = j - 1 /\ ~ (j <= k + 1) /\ ~(j <= k) /\ j # k + 1
      BY <1>2, <2>2
    <3>. QED  BY <1>6, <1>9, <3>1
  <2>3. j <= k + 1 \/ j > k + 1
    BY <1>2
  <2>. QED  BY <2>1, <2>2, <2>3
<1>12. \A j \in 1 .. n + 1 : (b \o c)[j] = IF j <= k THEN ws[j] ELSE IF j = k + 1 THEN e ELSE ws[j - 1]
  BY <1>11
<1>13. t \in Seq(S) /\ Len(t) = n + 1
  BY <1>9, <1>10
<1>14. \A j \in 1 .. n + 1 : t[j] = IF j <= k THEN ws[j] ELSE IF j = k + 1 THEN e ELSE ws[j - 1]
  BY <1>10, <1>12
<1>. QED  BY <1>13, <1>14 DEF n, LinkedAs

LEMMA UnlinkedFacts ==
  ASSUME NEW S, NEW ws \in Seq(S), NEW k \in 1 .. Len(ws),
         NEW t, t = Unlinked(ws, k)
  PROVE  t \in Seq(S) /\ UnlinkedAs(t, ws, k)
<1>. DEFINE n == Len(ws)
            a == SubSeq(ws, 1, k - 1)
            c == SubSeq(ws, k + 1, n)
<1>1. Unlinked(ws, k) = a \o c
  BY DEF Unlinked
<1>2. /\ n \in Nat /\ k \in Nat /\ 1 <= k /\ k <= n
      /\ \A i \in 1 .. n : ws[i] \in S
  BY LenProperties, ElementOfSeq
<1>3. \A i \in 1 .. k - 1 : ws[i] \in S
  BY <1>2
<1>4. \A i \in k + 1 .. n : ws[i] \in S
  BY <1>2
<1>5. /\ a \in Seq(S) /\ Len(a) = k - 1
      /\ \A i \in 1 .. k - 1 : a[i] = ws[i]
  BY <1>2, <1>3, SubSeqProperties
<1>6. /\ c \in Seq(S) /\ Len(c) = n - k
      /\ \A i \in 1 .. n - k : c[i] = ws[k + i]
  BY <1>2, <1>4, SubSeqProperties
<1>. HIDE DEF a, c, n
<1>7. /\ a \o c \in Seq(S) /\ Len(a \o c) = n - 1
      /\ \A i \in 1 .. n - 1 : (a \o c)[i] = IF i <= k - 1 THEN a[i] ELSE c[i - (k - 1)]
  BY <1>2, <1>5, <1>6, ConcatProperties
<1>8. ASSUME NEW j \in 1 .. n - 1
      PROVE  (a \o c)[j] = IF j < k THEN ws[j] ELSE ws[j + 1]
  <2>1. CASE j < k
    BY <1>2, <1>5, <1>7, <2>1
  <2>2. CASE ~(j < k)
    <3>1. j - (k - 1) \in 1 .. n - k /\ k + (j - (k - 1)) = j + 1 /\ ~ (j <= k - 1)
      BY <1>2, <2>2
    <3>. QED  BY <1>6, <1>7, <2>2, <3>1
  <2>. QED  BY <2>1, <2>2
<1>. QED  BY <1>1, <1>7, <1>8 DEF n, UnlinkedAs

-----------------------------------------------------------------------------
(* Chains of windows.                                                      *)

Chained(ws) ==
  /\ ws[1].first_row = 0
  /\ \A k \in 2 .. Len(ws) : ws[k].first_row = ws[k - 1].first_row + ws[k - 1].height + 1
Lined(ws) == Len(ws) > 1 => \A k \in 1 .. Len(ws) : ws[k].height >= 1

(* The chains that the operations of window.c are given, and make. *)
Chains == {ws \in Seq(Window) : ws # << >> /\ Chained(ws) /\ Lined(ws)}

(* As many windows, with the same nodes, on the same lines of the screen. *)
Alike(t, ws) ==
  /\ Len(t) = Len(ws) /\ Bottom(t) = Bottom(ws)
  /\ \A j \in 1 .. Len(ws) : t[j].node = ws[j].node

LEMMA ChainFacts ==
  ASSUME NEW ws \in Chains, NEW n, n = Len(ws)
  PROVE  /\ ws \in Seq(Window) /\ n \in Nat /\ n >= 1 /\ DOMAIN ws = 1 .. n
         /\ \A k \in 1 .. n : /\ ws[k] \in Window
                              /\ ws[k].height \in Int /\ ws[k].first_row \in Int
                              /\ ws[k].temp \in BOOLEAN /\ ws[k].node \in Nodes
         /\ ws[1].first_row = 0
         /\ \A k \in 2 .. n : ws[k].first_row = ws[k - 1].first_row + ws[k - 1].height + 1
         /\ n > 1 => \A k \in 1 .. n : ws[k].height >= 1
         /\ Bottom(ws) = ws[n].first_row + ws[n].height + 1
<1>1. ws \in Seq(Window) /\ ws # << >> /\ Chained(ws) /\ Lined(ws)
  BY DEF Chains
<1>2. n \in Nat /\ n >= 1 /\ DOMAIN ws = 1 .. n
  BY <1>1, LenProperties, EmptySeq
<1>3. \A k \in 1 .. n : ws[k] \in Window
  BY <1>1, ElementOfSeq
<1>4. \A k \in 1 .. n : /\ ws[k].height \in Int /\ ws[k].first_row \in Int
                        /\ ws[k].temp \in BOOLEAN /\ ws[k].node \in Nodes
  BY <1>3 DEF Window
<1>. QED  BY <1>1, <1>2, <1>3, <1>4 DEF Chained, Lined, Bottom

LEMMA IsChain ==
  ASSUME NEW ws \in Seq(Window), NEW n, n = Len(ws), n >= 1,
         ws[1].first_row = 0,
         \A k \in 2 .. n : ws[k].first_row = ws[k - 1].first_row + ws[k - 1].height + 1,
         n > 1 => \A k \in 1 .. n : ws[k].height >= 1
  PROVE  ws \in Chains
<1>1. ws # << >>
  BY EmptySeq
<1>. QED  BY <1>1 DEF Chains, Chained, Lined

LEMMA WindowSized ==
  ASSUME NEW w \in Window, NEW a \in Int,
         NEW v, v = [w EXCEPT !.height = a]
  PROVE  /\ v \in Window /\ v.height = a /\ v.first_row = w.first_row
         /\ v.node = w.node /\ v.temp = w.temp
BY DEF Window

LEMMA MovingKeeps ==
  ASSUME NEW ws \in Chains, NEW n, n = Len(ws), n > 1,
         NEW k \in 1 .. n, NEW p \in Int, NEW q \in Int,
         p # 0 => k > 1, q # 0 => k < n,
         ws[k].height + p + q >= 1,
         k > 1 => ws[k - 1].height - p >= 1,
         k < n => ws[k + 1].height - q >= 1,
         NEW t, t = Moving(ws, k, p, q)
  PROVE  t \in Chains /\ Alike(t, ws)
<1>0. /\ n \in Nat /\ n >= 1 /\ DOMAIN ws = 1 .. n /\ k \in Int
      /\ \A j \in 1 .. n : /\ ws[j] \in Window
                           /\ ws[j].height \in Int /\ ws[j].first_row \in Int
      /\ ws[1].first_row = 0
      /\ \A j \in 2 .. n : ws[j].first_row = ws[j - 1].first_row + ws[j - 1].height + 1
      /\ \A j \in 1 .. n : ws[j].height >= 1
      /\ Bottom(ws) = ws[n].first_row + ws[n].height + 1
  <2>1. /\ n \in Nat /\ n >= 1 /\ DOMAIN ws = 1 .. n
        /\ \A j \in 1 .. n : /\ ws[j] \in Window
                             /\ ws[j].height \in Int /\ ws[j].first_row \in Int
        /\ ws[1].first_row = 0
        /\ \A j \in 2 .. n : ws[j].first_row = ws[j - 1].first_row + ws[j - 1].height + 1
        /\ \A j \in 1 .. n : ws[j].height >= 1
        /\ Bottom(ws) = ws[n].first_row + ws[n].height + 1
    BY ChainFacts
  <2>2. k \in Int
    BY <2>1
  <2>. QED  BY <2>1, <2>2
<1>1. ASSUME NEW j \in 1 .. n
      PROVE  t[j] = CASE j = k -> [ws[j] EXCEPT !.height = ws[j].height + p + q,
                                                !.first_row = ws[j].first_row - p]
                      [] j = k - 1 -> [ws[j] EXCEPT !.height = ws[j].height - p]
                      [] j = k + 1 -> [ws[j] EXCEPT !.height = ws[j].height - q,
                                                    !.first_row = ws[j].first_row + q]
                      [] OTHER -> ws[j]
  BY <1>0 DEF Moving
<1>2. /\ t[k] \in Window /\ t[k].node = ws[k].node
      /\ t[k].height = ws[k].height + p + q /\ t[k].first_row = ws[k].first_row - p
  <2>. DEFINE a == ws[k].height + p + q
              b == ws[k].first_row - p
  <2>1. a \in Int /\ b \in Int /\ ws[k] \in Window
    BY <1>0
  <2>2. t[k] = [ws[k] EXCEPT !.height = ws[k].height + p + q, !.first_row = ws[k].first_row - p]
    <3>1. k # k - 1 /\ k # k + 1
      BY <1>0
    <3>. QED  BY <1>1, <3>1
  <2>3. t[k] = [ws[k] EXCEPT !.height = a, !.first_row = b]
    BY <2>2, Zenon
  <2>. HIDE DEF a, b
  <2>4. t[k] \in Window /\ t[k].height = a /\ t[k].first_row = b /\ t[k].node = ws[k].node
    BY <2>1, <2>3 DEF Window
  <2>. QED  BY <2>4 DEF a, b
<1>3. ASSUME k > 1
      PROVE  /\ t[k - 1] \in Window /\ t[k - 1].node = ws[k - 1].node
             /\ t[k - 1].height = ws[k - 1].height - p
             /\ t[k - 1].first_row = ws[k - 1].first_row
  <2>. DEFINE i == k - 1
              a == ws[i].height - p
  <2>1. i \in 1 .. n /\ i # k /\ i # k + 1
    BY <1>0, <1>3
  <2>2. a \in Int /\ ws[i] \in Window
    BY <1>0, <2>1
  <2>3. t[i] = [ws[i] EXCEPT !.height = a]
    BY <1>1, <2>1
  <2>. HIDE DEF i, a
  <2>4. t[i] \in Window /\ t[i].height = a /\ t[i].first_row = ws[i].first_row /\ t[i].node = ws[i].node
    BY <2>2, <2>3, WindowSized
  <2>. QED  BY <2>4 DEF a, i
<1>4. ASSUME k < n
      PROVE  /\ t[k + 1] \in Window /\ t[k + 1].node = ws[k + 1].node
             /\ t[k + 1].height = ws[k + 1].height - q
             /\ t[k + 1].first_row = ws[k + 1].first_row + q
  <2>. DEFINE i == k + 1
              a == ws[i].height - q
              b == ws[i].first_row + q
  <2>1. i \in 1 .. n /\ i # k /\ i # k - 1
    BY <1>0, <1>4
  <2>2. ws[i] \in Window /\ ws[i].height \in Int /\ ws[i].first_row \in Int
    BY <1>0, <2>1
  <2>3. a \in Int /\ b \in Int
    BY <2>2
  <2>4. t[i] = [ws[i] EXCEPT !.height = a, !.first_row = b]
    BY <1>1, <2>1
  <2>. HIDE DEF i, a, b
  <2>5. t[i] \in Window /\ t[i].height = a /\ t[i].first_row = b /\ t[i].node = ws[i].node
    BY <2>2, <2>3, <2>4 DEF Window
  <2>. QED  BY <2>5 DEF a, b, i
<1>5. ASSUME NEW j \in 1 .. n, j # k, j # k - 1, j # k + 1
      PROVE  t[j] = ws[j]
  BY <1>1, <1>5
<1>6. ASSUME NEW j \in 1 .. n
      PROVE  t[j] \in Window /\ t[j].height >= 1 /\ t[j].node = ws[j].node
  <2>1. CASE j = k
    BY <1>0, <1>2, <2>1
  <2>2. CASE j = k - 1
    BY <1>0, <1>3, <2>2
  <2>3. CASE j = k + 1
    BY <1>0, <1>4, <2>3
  <2>4. CASE j # k /\ j # k - 1 /\ j # k + 1
    BY <1>0, <1>5, <2>4
  <2>. QED  BY <2>1, <2>2, <2>3, <2>4
<1>7. t \in Seq(Window) /\ Len(t) = n
  <2>1. t \in [1 .. n -> Window]
    BY <1>0, <1>6 DEF Moving
  <2>. QED  BY <1>0, <2>1, Mapped
<1>8. t[1].first_row = 0
  <2>1. CASE k = 1
    <3>1. p = 0
      BY <2>1
    <3>. QED  BY <1>0, <1>2, <2>1, <3>1
  <2>2. CASE k = 2
    <3>1. k > 1 /\ k - 1 = 1
      BY <2>2
    <3>. QED  BY <1>0, <1>3, <3>1
  <2>3. CASE k > 2
    <3>1. 1 \in 1 .. n /\ 1 # k /\ 1 # k - 1 /\ 1 # k + 1
      BY <1>0, <2>3
    <3>. QED  BY <1>0, <1>5, <3>1
  <2>. QED  BY <1>0, <2>1, <2>2, <2>3
<1>9. ASSUME NEW j \in 2 .. n
      PROVE  t[j].first_row = t[j - 1].first_row + t[j - 1].height + 1
  <2>1. /\ j \in 1 .. n /\ j - 1 \in 1 .. n /\ ws[j].first_row = ws[j - 1].first_row + ws[j - 1].height + 1
        /\ ws[j].height \in Int /\ ws[j].first_row \in Int
        /\ ws[j - 1].height \in Int /\ ws[j - 1].first_row \in Int
    BY <1>0
  <2>2. CASE j = k
    <3>1. k > 1 /\ j - 1 = k - 1
      BY <1>0, <2>2
    <3>2. t[j].first_row = ws[j].first_row - p
      BY <1>2, <2>2
    <3>3. t[j - 1].first_row = ws[j - 1].first_row /\ t[j - 1].height = ws[j - 1].height - p
      BY <1>3, <3>1
    <3>. QED  BY <2>1, <3>2, <3>3
  <2>3. CASE j = k + 1
    <3>1. k < n /\ j - 1 = k
      BY <1>0, <2>3
    <3>2. t[j].first_row = ws[j].first_row + q
      BY <1>4, <2>3, <3>1
    <3>3. t[j - 1].first_row = ws[j - 1].first_row - p /\ t[j - 1].height = ws[j - 1].height + p + q
      BY <1>2, <3>1
    <3>4. \A r, h \in Int : (r - p) + (h + p + q) + 1 = (r + h + 1) + q
      OBVIOUS
    <3>. QED  BY <2>1, <3>2, <3>3, <3>4
  <2>4. CASE j = k + 2
    <3>1. k < n /\ j - 1 = k + 1 /\ j # k /\ j # k - 1 /\ j # k + 1
      BY <1>0, <2>4
    <3>2. t[j] = ws[j]
      BY <1>5, <2>1, <3>1
    <3>3. t[j - 1].first_row = ws[j - 1].first_row + q /\ t[j - 1].height = ws[j - 1].height - q
      BY <1>4, <3>1
    <3>. QED  BY <2>1, <3>2, <3>3
  <2>5. CASE j = k - 1
    <3>1. k > 1 /\ j - 1 # k /\ j - 1 # k - 1 /\ j - 1 # k + 1
      BY <1>0, <2>5
    <3>2. t[j - 1] = ws[j - 1]
      BY <1>5, <2>1, <3>1
    <3>. QED  BY <1>3, <2>1, <2>5, <3>1, <3>2
  <2>6. CASE j # k /\ j # k + 1 /\ j # k + 2 /\ j # k - 1
    <3>1. j - 1 # k /\ j - 1 # k - 1 /\ j - 1 # k + 1
      BY <1>0, <2>6
    <3>2. t[j - 1] = ws[j - 1] /\ t[j] = ws[j]
      BY <1>5, <2>1, <2>6, <3>1
    <3>. QED  BY <2>1, <3>2
  <2>. QED  BY <2>2, <2>3, <2>4, <2>5, <2>6
<1>10. Bottom(t) = Bottom(ws)
  <2>1. Bottom(t) = t[n].first_row + t[n].height + 1
    BY <1>7 DEF Bottom
  <2>2. n \in 1 .. n
    BY <1>0
  <2>3. CASE k = n
    <3>1. q = 0
      BY <2>3
    <3>. QED  BY <1>0, <1>2, <2>1, <2>2, <2>3, <3>1
  <2>4. CASE k = n - 1
    <3>1. k < n /\ k + 1 = n
      BY <1>0, <2>4
    <3>. QED  BY <1>0, <1>4, <2>1, <2>2, <3>1
  <2>5. CASE k # n /\ k # n - 1
    <3>1. n # k /\ n # k - 1 /\ n # k + 1
      BY <1>0, <2>5
    <3>. QED  BY <1>0, <1>5, <2>1, <2>2, <3>1
  <2>. QED  BY <2>3, <2>4, <2>5
<1>11. t \in Chains
  BY <1>0, <1>6, <1>7, <1>8, <1>9, IsChain
<1>. QED  BY <1>6, <1>7, <1>10, <1>11 DEF Alike

LEMMA ChangeHeightKeeps ==
  ASSUME NEW ws \in Chains, NEW n, n = Len(ws), NEW k \in 1 .. n, NEW amount \in Int,
         NEW t, t = ChangeHeight(ws, k, amount)
  PROVE  t \in Chains /\ Alike(t, ws)
<1>0. n \in Nat /\ n >= 1 /\ \A j \in 1 .. n : ws[j].height \in Int /\ (n > 1 => ws[j].height >= 1)
  BY ChainFacts
<1>. DEFINE h == ws[k].height
            above == ws[k - 1].height
            below == ws[k + 1].height
            next_avail == IF k < n THEN below - WINDOW_MIN_SIZE ELSE 0
            prev_avail == IF k > 1 THEN above - WINDOW_MIN_SIZE ELSE 0
            more == prev_avail - next_avail
            rest == amount - (IF more > 0 THEN more ELSE -more)
<1>1. CASE t = ws
  BY <1>1 DEF Alike
<1>2. SUFFICES ASSUME n > 1, amount # 0, t # ws PROVE t \in Chains /\ Alike(t, ws)
  BY <1>0, <1>1 DEF ChangeHeight
<1>3. /\ k \in Int /\ 1 <= k /\ k <= n /\ h \in Int /\ h >= 1
      /\ k > 1 => above \in Int /\ above >= 1
      /\ k < n => below \in Int /\ below >= 1
  BY <1>0, <1>2
<1>4. ASSUME NEW p \in Int, NEW q \in Int, t = Moving(ws, k, p, q),
             p # 0 => k > 1, q # 0 => k < n, h + p + q >= 1,
             k > 1 => above - p >= 1, k < n => below - q >= 1
      PROVE  t \in Chains /\ Alike(t, ws)
  BY <1>0, <1>2, <1>4, MovingKeeps
<1>5. CASE amount < 0
  <2>1. h + amount >= 2
    <3>1. ~(n = 1 \/ amount = 0)
      BY <1>2
    <3>2. ~(h + amount < WINDOW_MIN_HEIGHT)
      BY <1>2, <1>5, <3>1 DEF ChangeHeight
    <3>. QED  BY <1>3, <3>2 DEF WINDOW_MIN_HEIGHT
  <2>2. \/ t = Moving(ws, k, amount, 0) /\ k > 1
        \/ t = Moving(ws, k, 0, amount) /\ k < n
    BY <1>0, <1>2, <1>3, <1>5 DEF ChangeHeight
  <2>3. CASE t = Moving(ws, k, amount, 0) /\ k > 1
    BY <1>3, <1>4, <1>5, <2>1, <2>3
  <2>4. CASE t = Moving(ws, k, 0, amount) /\ k < n
    BY <1>3, <1>4, <1>5, <2>1, <2>4
  <2>. QED  BY <2>2, <2>3, <2>4
<1>6. CASE amount > 0
  <2>1. /\ next_avail \in Int /\ prev_avail \in Int
        /\ (k < n /\ next_avail = below - 3 /\ next_avail >= -2) \/ (k = n /\ next_avail = 0)
        /\ (k > 1 /\ prev_avail = above - 3 /\ prev_avail >= -2) \/ (k = 1 /\ prev_avail = 0)
    BY <1>3 DEF WINDOW_MIN_SIZE, WINDOW_MIN_HEIGHT
  <2>2. /\ amount <= next_avail + prev_avail
        /\ t = IF next_avail - amount >= prev_avail THEN Moving(ws, k, 0, amount)
               ELSE IF prev_avail - amount >= next_avail THEN Moving(ws, k, amount, 0)
               ELSE IF more > 0 THEN Moving(ws, k, more + rest \div 2, (rest + 1) \div 2)
               ELSE Moving(ws, k, rest \div 2, (rest + 1) \div 2 - more)
    <3>1. ~(n = 1 \/ amount = 0) /\ ~(amount < 0)
      BY <1>0, <1>2, <1>6
    <3>2. ~(amount > next_avail + prev_avail)
      BY <1>2, <3>1 DEF ChangeHeight
    <3>. QED  BY <1>6, <2>1, <3>1, <3>2 DEF ChangeHeight
  <2>. HIDE DEF h, above, below, next_avail, prev_avail
  <2>3. CASE next_avail - amount >= prev_avail
    <3>1. t = Moving(ws, k, 0, amount)
      BY <2>2, <2>3
    <3>2. k < n /\ below - amount >= 1
      BY <1>3, <1>6, <2>1, <2>2, <2>3
    <3>. QED  BY <1>3, <1>4, <1>6, <3>1, <3>2
  <2>4. CASE ~(next_avail - amount >= prev_avail) /\ prev_avail - amount >= next_avail
    <3>1. t = Moving(ws, k, amount, 0)
      BY <2>2, <2>4
    <3>2. k > 1 /\ above - amount >= 1
      BY <1>3, <1>6, <2>1, <2>2, <2>4
    <3>. QED  BY <1>3, <1>4, <1>6, <3>1, <3>2
  <2>5. CASE /\ ~(next_avail - amount >= prev_avail)
             /\ ~(prev_avail - amount >= next_avail) /\ more > 0
    <3>. DEFINE p == more + rest \div 2
                q == (rest + 1) \div 2
    <3>1. t = Moving(ws, k, p, q)
      BY <2>2, <2>5
    <3>2. rest \in Int /\ rest >= 1 /\ rest <= 2 * next_avail /\ more \in Int
      BY <1>6, <2>1, <2>2, <2>5
    <3>3. rest \div 2 \in Int /\ rest \div 2 >= 0 /\ rest \div 2 <= next_avail
      BY <2>1, <3>2
    <3>4. q \in Int /\ q >= 0 /\ q <= next_avail
      BY <2>1, <3>2
    <3>5. k < n /\ k > 1
      BY <1>3, <2>1, <2>5, <3>2
    <3>6. p \in Int /\ p >= 0 /\ above - p >= 1 /\ below - q >= 1
      BY <1>3, <2>1, <2>5, <3>2, <3>3, <3>4, <3>5
    <3>. HIDE DEF p, q
    <3>7. h + p + q >= 1
      BY <1>3, <3>4, <3>6
    <3>. QED  BY <1>4, <3>1, <3>4, <3>5, <3>6, <3>7
  <2>6. CASE /\ ~(next_avail - amount >= prev_avail)
             /\ ~(prev_avail - amount >= next_avail) /\ ~(more > 0)
    <3>. DEFINE p == rest \div 2
                q == (rest + 1) \div 2 - more
    <3>1. t = Moving(ws, k, p, q)
      BY <2>2, <2>6
    <3>2. rest \in Int /\ rest >= 1 /\ rest <= 2 * prev_avail /\ more \in Int
      BY <1>6, <2>1, <2>2, <2>6
    <3>3. p \in Int /\ p >= 0 /\ p <= prev_avail
      BY <2>1, <3>2
    <3>4. (rest + 1) \div 2 \in Int /\ (rest + 1) \div 2 >= 0 /\ (rest + 1) \div 2 <= prev_avail
      BY <2>1, <3>2
    <3>5. k < n /\ k > 1
      BY <1>3, <2>1, <2>6, <3>2
    <3>6. q \in Int /\ q >= 0 /\ above - p >= 1 /\ below - q >= 1
      BY <1>3, <2>1, <2>6, <3>2, <3>3, <3>4, <3>5
    <3>. HIDE DEF p, q
    <3>7. h + p + q >= 1
      BY <1>3, <3>3, <3>6
    <3>. QED  BY <1>4, <3>1, <3>3, <3>5, <3>6, <3>7
  <2>. QED  BY <2>3, <2>4, <2>5, <2>6
<1>. QED  BY <1>2, <1>5, <1>6

-----------------------------------------------------------------------------
(* Layouts, and the operations that change how many windows there are.     *)

Layouts == [windows : Chains, active : Int, held : Int, screen : Int]
Good(s) == /\ s \in Layouts
           /\ s.active \in 1 .. Len(s.windows)
           /\ s.held \in 0 .. Len(s.windows)

(* ws with another height of window k. *)
Sized(ws, k, height) == [ws EXCEPT ![k].height = height]
SameBut(t, ws, k) == \A j \in 1 .. Len(ws) : j # k => t[j] = ws[j]

LEMMA HeightSet ==
  ASSUME NEW ws \in Seq(Window), NEW n, n = Len(ws), NEW k \in 1 .. n, NEW a \in Int,
         NEW u, u = Sized(ws, k, a)
  PROVE  /\ u \in Seq(Window) /\ Len(u) = n
         /\ u[k].height = a /\ u[k].first_row = ws[k].first_row
         /\ u[k].node = ws[k].node /\ u[k].temp = ws[k].temp
         /\ SameBut(u, ws, k)
<1>1. n \in Nat /\ DOMAIN ws = 1 .. n /\ ws \in [1 .. n -> Window]
  BY LenProperties
<1>. DEFINE v == [ws[k] EXCEPT !.height = a]
<1>2. ws[k] \in Window
  BY <1>1
<1>3. u = [ws EXCEPT ![k] = v]
  BY DEF Sized
<1>4. v \in Window /\ v.height = a /\ v.first_row = ws[k].first_row /\ v.node = ws[k].node /\ v.temp = ws[k].temp
  BY <1>2, WindowSized
<1>. HIDE DEF v
<1>5. u \in [1 .. n -> Window] /\ u[k] = v /\ \A j \in 1 .. n : j # k => u[j] = ws[j]
  BY <1>1, <1>3, <1>4
<1>6. u \in Seq(Window) /\ Len(u) = n
  BY <1>1, <1>5, Mapped
<1>. QED  BY <1>4, <1>5, <1>6 DEF SameBut

(* The nodes of the windows of ws, with one more below window k. *)
NodesWith(t, ws, k, node) ==
  \A j \in 1 .. Len(ws) + 1 :
     t[j].node = IF j <= k THEN ws[j].node ELSE IF j = k + 1 THEN node ELSE ws[j - 1].node

(* The active window and the one in hand are known by their new places. *)
MovedDown(t, s, k) ==
  /\ t.active = IF s.active > k THEN s.active + 1 ELSE s.active
  /\ t.held = IF s.held > k THEN s.held + 1 ELSE s.held
Without(j, k) == IF j > k THEN j - 1 ELSE j
MovedUp(t, s, k) ==
  /\ s.active # k => t.active = Without(s.active, k)
  /\ t.held = IF s.held = k THEN 0 ELSE Without(s.held, k)

LEMMA MakeWindowFacts ==
  ASSUME NEW s, Good(s), NEW n, n = Len(s.windows),
         NEW k \in 1 .. n, CanSplit(s, k), NEW node \in Nodes,
         NEW t, t = MakeWindow(s, k, node)
  PROVE  /\ Good(t) /\ Len(t.windows) = n + 1 /\ t.screen = s.screen
         /\ MovedDown(t, s, k)
         /\ Bottom(t.windows) = Bottom(s.windows)
         /\ NodesWith(t.windows, s.windows, k, node)
<1>. DEFINE ws == s.windows
            H == ws[k].height
            R == ws[k].first_row
            height == (H \div 2) - 1
            upper == H - (height + 1)
            new == [height |-> height, first_row |-> R + (H - height), temp |-> FALSE, node |-> node]
            u == [ws EXCEPT ![k].height = upper]
            v == Linked(u, k, new)
            Moved(j) == IF j > k THEN j + 1 ELSE j
            a == Moved(s.active)
            b == Moved(s.held)
<1>5. t = [s EXCEPT !.windows = v, !.active = a, !.held = b]
  BY DEF MakeWindow
<1>5a. n = Len(ws) /\ Good(s) /\ s.windows = ws
  OBVIOUS
<1>. HIDE DEF ws
<1>0. ws \in Chains /\ s \in Layouts /\ s.active \in 1 .. n /\ s.held \in 0 .. n /\ s.screen \in Int
  BY <1>5a DEF Good, Layouts
<1>1. /\ ws \in Seq(Window) /\ n \in Nat /\ n >= 1 /\ DOMAIN ws = 1 .. n
      /\ \A j \in 1 .. n : /\ ws[j] \in Window
                           /\ ws[j].height \in Int /\ ws[j].first_row \in Int
                           /\ ws[j].temp \in BOOLEAN /\ ws[j].node \in Nodes
      /\ ws[1].first_row = 0
      /\ \A j \in 2 .. n : ws[j].first_row = ws[j - 1].first_row + ws[j - 1].height + 1
      /\ n > 1 => \A j \in 1 .. n : ws[j].height >= 1
      /\ Bottom(ws) = ws[n].first_row + ws[n].height + 1
  BY <1>0, <1>5a, ChainFacts
<1>2. H \in Int /\ R \in Int /\ H \div 2 \in Int /\ H \div 2 >= 3 /\ H - H \div 2 >= 3
  <2>1. H \in Int /\ R \in Int
    BY <1>1
  <2>2. H \div 2 >= 3
    BY <1>5a DEF CanSplit, WINDOW_MIN_SIZE, WINDOW_MIN_HEIGHT
  <2>. HIDE DEF H
  <2>. QED  BY <2>1, <2>2
<1>3. height \in Int /\ height >= 1 /\ upper \in Int /\ upper >= 1 /\ upper + height + 1 = H
  <2>. DEFINE q == H \div 2
  <2>1. q \in Int /\ q >= 3 /\ H \in Int /\ H - q >= 3
    BY <1>2
  <2>. HIDE DEF q, H
  <2>2. q - 1 \in Int /\ q - 1 >= 1 /\ H - ((q - 1) + 1) \in Int /\ H - ((q - 1) + 1) >= 1 /\ (H - ((q - 1) + 1)) + (q - 1) + 1 = H
    BY <2>1
  <2>. QED  BY <2>2 DEF q
<1>. HIDE DEF height, upper
<1>4. new \in Window /\ new.height = height /\ new.first_row = R + (H - height) /\ new.node = node
  <2>1. \A r, h, g \in Int : r + (h - g) \in Int
    OBVIOUS
  <2>2. R + (H - height) \in Int
    BY <1>2, <1>3, <2>1
  <2>. QED  BY <1>3, <2>2 DEF Window
<1>. HIDE DEF new
<1>6a. u = Sized(ws, k, upper)
  BY DEF Sized
<1>7a. v = Linked(u, k, new)
  OBVIOUS
<1>. HIDE DEF u, v
<1>6. /\ u \in Seq(Window) /\ Len(u) = n
      /\ u[k].height = upper /\ u[k].first_row = R /\ u[k].node = ws[k].node
      /\ \A j \in 1 .. n : j # k => u[j] = ws[j]
  <2>1. ws \in Seq(Window) /\ n = Len(ws) /\ upper \in Int
    BY <1>1, <1>3, <1>5a
  <2>2. /\ u \in Seq(Window) /\ Len(u) = n
        /\ u[k].height = upper /\ u[k].first_row = R /\ u[k].node = ws[k].node
        /\ SameBut(u, ws, k)
    BY <1>6a, <2>1, HeightSet
  <2>. QED  BY <2>1, <2>2 DEF SameBut
<1>7. /\ v \in Seq(Window) /\ Len(v) = n + 1
      /\ \A j \in 1 .. n + 1 :
           v[j] = IF j <= k THEN u[j] ELSE IF j = k + 1 THEN new ELSE u[j - 1]
  <2>1. k \in 1 .. Len(u) /\ new \in Window /\ u \in Seq(Window)
    BY <1>4, <1>6
  <2>2. v \in Seq(Window) /\ LinkedAs(v, u, k, new)
    BY <1>7a, <2>1, LinkedFacts
  <2>. QED  BY <1>6, <2>2 DEF LinkedAs
<1>8. /\ \A j \in 1 .. n : j < k => v[j] = ws[j]
      /\ v[k] = u[k] /\ v[k + 1] = new
      /\ \A j \in 1 .. n + 1 : j > k + 1 => v[j] = ws[j - 1]
  <2>1. ASSUME NEW j \in 1 .. n, j < k PROVE v[j] = ws[j]
    <3>1. j <= k /\ j \in 1 .. n + 1 /\ j # k
      BY <1>1, <2>1
    <3>. QED  BY <1>6, <1>7, <3>1
  <2>2. v[k] = u[k] /\ v[k + 1] = new
    <3>1. k \in 1 .. n + 1 /\ k <= k /\ k + 1 \in 1 .. n + 1 /\ ~(k + 1 <= k)
      BY <1>1
    <3>. QED  BY <1>7, <3>1
  <2>3. ASSUME NEW j \in 1 .. n + 1, j > k + 1 PROVE v[j] = ws[j - 1]
    <3>1. ~(j <= k) /\ j # k + 1 /\ j - 1 \in 1 .. n /\ j - 1 # k
      BY <1>1, <2>3
    <3>. QED  BY <1>6, <1>7, <3>1
  <2>. QED  BY <2>1, <2>2, <2>3
<1>9. ASSUME NEW j \in 1 .. n + 1
      PROVE  /\ v[j].node = IF j <= k THEN ws[j].node ELSE IF j = k + 1 THEN node ELSE ws[j - 1].node
             /\ v[j].height >= 1
  <2>1. CASE j < k
    <3>1. j \in 1 .. n /\ j <= k /\ n > 1
      BY <1>1, <2>1
    <3>. QED  BY <1>1, <1>8, <2>1, <3>1
  <2>2. CASE j = k
    BY <1>1, <1>3, <1>6, <1>8, <2>2
  <2>3. CASE j = k + 1
    <3>1. ~(j <= k)
      BY <1>1, <2>3
    <3>. QED  BY <1>3, <1>4, <1>8, <2>3, <3>1
  <2>4. CASE j > k + 1
    <3>1. ~(j <= k) /\ j # k + 1 /\ j - 1 \in 1 .. n /\ n > 1
      BY <1>1, <2>4
    <3>. QED  BY <1>1, <1>8, <2>4, <3>1
  <2>. QED  BY <1>1, <2>1, <2>2, <2>3, <2>4
<1>10. v[1].first_row = 0
  BY <1>1, <1>6, <1>8
<1>11. ASSUME NEW j \in 2 .. n + 1
       PROVE  v[j].first_row = v[j - 1].first_row + v[j - 1].height + 1
  <2>1. CASE j < k
    <3>1. j \in 2 .. n /\ j \in 1 .. n /\ j - 1 \in 1 .. n /\ j - 1 < k
      BY <1>1, <2>1
    <3>. QED  BY <1>1, <1>8, <2>1, <3>1
  <2>2. CASE j = k
    <3>1. j \in 2 .. n /\ j - 1 \in 1 .. n /\ j - 1 < k
      BY <1>1, <2>2
    <3>2. v[j - 1] = ws[j - 1] /\ v[j].first_row = ws[j].first_row
      BY <1>6, <1>8, <2>2, <3>1
    <3>. QED  BY <1>1, <3>1, <3>2
  <2>3. CASE j = k + 1
    <3>1. v[j].first_row = R + (H - height) /\ j - 1 = k
      BY <1>1, <1>4, <1>8, <2>3
    <3>2. v[j - 1].first_row = R /\ v[j - 1].height = upper
      BY <1>6, <1>8, <3>1
    <3>3. R + (H - height) = R + upper + 1
      <4>. HIDE DEF H, R
      <4>. QED  BY <1>2, <1>3
    <3>. QED  BY <3>1, <3>2, <3>3
  <2>4. CASE j = k + 2
    <3>1. j - 1 = k + 1 /\ k + 1 \in 2 .. n /\ j > k + 1 /\ (k + 1) - 1 = k
      BY <1>1, <2>4
    <3>2. v[j] = ws[k + 1] /\ v[j - 1] = new
      BY <1>8, <3>1
    <3>3. ws[k + 1].first_row = R + H + 1
      BY <1>1, <3>1
    <3>4. (R + (H - height)) + height + 1 = R + H + 1
      <4>. HIDE DEF H, R
      <4>. QED  BY <1>2, <1>3
    <3>. QED  BY <1>4, <3>2, <3>3, <3>4
  <2>5. CASE j > k + 2
    <3>1. j - 1 > k + 1 /\ j > k + 1 /\ j - 1 \in 1 .. n + 1 /\ j - 1 \in 2 .. n
      BY <1>1, <2>5
    <3>2. v[j] = ws[j - 1] /\ v[j - 1] = ws[(j - 1) - 1]
      BY <1>8, <3>1
    <3>. QED  BY <1>1, <3>1, <3>2
  <2>. QED  BY <1>1, <2>1, <2>2, <2>3, <2>4, <2>5
<1>12. Bottom(v) = Bottom(ws)
  <2>1. Bottom(v) = v[n + 1].first_row + v[n + 1].height + 1
    BY <1>7 DEF Bottom
  <2>2. CASE k = n
    <3>1. Bottom(v) = (R + (H - height)) + height + 1
      BY <1>4, <1>8, <2>1, <2>2
    <3>2. (R + (H - height)) + height + 1 = R + H + 1
      <4>. HIDE DEF H, R
      <4>. QED  BY <1>2, <1>3
    <3>. QED  BY <1>1, <2>2, <3>1, <3>2
  <2>3. CASE k < n
    <3>1. n + 1 \in 1 .. n + 1 /\ n + 1 > k + 1 /\ (n + 1) - 1 = n
      BY <1>1, <2>3
    <3>2. v[n + 1] = ws[n]
      BY <1>8, <3>1
    <3>. QED  BY <1>1, <2>1, <3>2
  <2>. QED  BY <1>1, <2>2, <2>3
<1>13. v \in Chains
  <2>. DEFINE m == n + 1
  <2>1. m = Len(v) /\ m >= 1
    BY <1>1, <1>7
  <2>2. \A j \in 2 .. m : v[j].first_row = v[j - 1].first_row + v[j - 1].height + 1
    BY <1>11
  <2>3. \A j \in 1 .. m : v[j].height >= 1
    BY <1>9
  <2>. HIDE DEF m
  <2>. QED  BY <1>7, <1>10, <2>1, <2>2, <2>3, IsChain
<1>14. a \in 1 .. n + 1 /\ b \in 0 .. n + 1
  BY <1>0, <1>1
<1>. HIDE DEF a, b
<1>15. a \in Int /\ b \in Int
  BY <1>14
<1>16. /\ t.windows = v /\ t.active = a /\ t.held = b /\ t.screen = s.screen
       /\ t \in [windows : Chains, active : Int, held : Int, screen : Int]
  BY <1>0, <1>5, <1>13, <1>15 DEF Layouts
<1>17. Good(t)
  BY <1>7, <1>14, <1>16 DEF Good, Layouts
<1>18. MovedDown(t, s, k)
  BY <1>16 DEF a, b, MovedDown
<1>19. NodesWith(v, ws, k, node)
  BY <1>5a, <1>9 DEF NodesWith
<1>. QED  BY <1>5a, <1>7, <1>12, <1>16, <1>17, <1>18, <1>19

LEMMA LeastIn ==
  ASSUME NEW S, S \subseteq Nat, S # {}
  PROVE  Least(S) \in S /\ \A j \in S : Least(S) <= j
<1>. DEFINE T == {n \in Nat : \A j \in S : n <= j}
<1>1. 0 \in T
  OBVIOUS
<1>2. PICK m \in T : m + 1 \notin T
  <2>1. SUFFICES ASSUME \A m \in Nat : m \in T => m + 1 \in T PROVE FALSE
    OBVIOUS
  <2>. HIDE DEF T
  <2>2. Nat \subseteq T
    BY <1>1, <2>1, Induction
  <2>3. PICK x \in S : x \in Nat
    OBVIOUS
  <2>4. x + 1 \in T
    BY <2>2, <2>3
  <2>. QED  BY <2>3, <2>4 DEF T
<1>3. PICK x \in S : ~(m + 1 <= x)
  BY <1>2
<1>4. x \in Nat /\ m \in Nat /\ m <= x /\ x = m
  BY <1>2, <1>3
<1>5. \A j \in S : x <= j
  BY <1>2, <1>4
<1>. HIDE DEF T
<1>. QED  BY <1>5 DEF Least

LEMMA GreatestIn ==
  ASSUME NEW n \in Nat, NEW S, S \subseteq 1 .. n, S # {}
  PROVE  Greatest(S) \in S /\ \A j \in S : j <= Greatest(S)
<1>. DEFINE T == {n - j : j \in S}
<1>1. T \subseteq Nat /\ T # {}
  OBVIOUS
<1>2. PICK x \in S : Least(T) = n - x
  BY <1>1, LeastIn
<1>3. \A j \in S : n - x <= n - j
  BY <1>1, <1>2, LeastIn
<1>4. ASSUME NEW j \in S PROVE j <= x
  <2>1. n - x <= n - j /\ j \in 1 .. n /\ x \in 1 .. n
    BY <1>3
  <2>. QED  BY <2>1
<1>. HIDE DEF T
<1>. QED  BY <1>2, <1>4 DEF Greatest

LEMMA ActiveWithoutFacts ==
  ASSUME NEW s, Good(s), NEW n, n = Len(s.windows), n > 1, NEW k \in 1 .. n,
         NEW a, a = ActiveWithout(s, k)
  PROVE  a \in 1 .. n /\ a # k /\ (s.active # k => a = s.active)
<1>1. n \in Nat /\ s.active \in 1 .. n
  <2>1. s.windows \in Chains
    BY DEF Good, Layouts
  <2>. QED  BY <2>1, ChainFacts DEF Good
<1>. DEFINE after == {j \in k + 1 .. n : ~s.windows[j].temp}
            before == {j \in 1 .. k - 1 : ~s.windows[j].temp}
<1>2. a = IF s.active # k THEN s.active
          ELSE IF after # {} THEN Least(after)
          ELSE IF k = 1 THEN n
          ELSE IF before # {} THEN Greatest(before)
          ELSE 1
  BY DEF ActiveWithout
<1>3. after # {} => Least(after) \in 1 .. n /\ Least(after) # k
  <2>1. after \subseteq k + 1 .. n /\ after \subseteq Nat
    BY <1>1
  <2>. HIDE DEF after
  <2>2. after # {} => Least(after) \in k + 1 .. n
    BY <2>1, LeastIn
  <2>. QED  BY <1>1, <2>2
<1>4. before # {} => Greatest(before) \in 1 .. n /\ Greatest(before) # k
  <2>1. before \subseteq 1 .. k - 1 /\ before \subseteq 1 .. n
    BY <1>1
  <2>. HIDE DEF before
  <2>2. before # {} => Greatest(before) \in 1 .. k - 1
    BY <1>1, <2>1, GreatestIn
  <2>. QED  BY <1>1, <2>2
<1>. HIDE DEF after, before
<1>. QED  BY <1>1, <1>2, <1>3, <1>4

(* The nodes of the windows of ws but window k. *)
NodesWithout(t, ws, k) ==
  \A j \in 1 .. Len(ws) - 1 : t[j].node = IF j < k THEN ws[j].node ELSE ws[j + 1].node

LEMMA DeleteWindowFacts ==
  ASSUME NEW s, Good(s), NEW n, n = Len(s.windows), n > 1, NEW k \in 1 .. n,
         NEW t, t = DeleteWindow(s, k)
  PROVE  /\ Good(t) /\ Len(t.windows) = n - 1 /\ t.screen = s.screen
         /\ Bottom(t.windows) = Bottom(s.windows)
         /\ NodesWithout(t.windows, s.windows, k)
         /\ MovedUp(t, s, k)
<1>. DEFINE ws == s.windows
            x == ActiveWithout(s, k)
            fix == IF k < n /\ x = k + 1 THEN k + 1
                   ELSE IF k > 1 /\ x = k - 1 THEN k - 1
                   ELSE IF k < n THEN k + 1 ELSE k - 1
            Moved(j) == IF j > k THEN j - 1 ELSE IF j = k THEN 0 ELSE j
            w == ws[fix]
            H == ws[k].height
            R == ws[k].first_row
            a == w.height + H + 1
            b == IF w.first_row > R THEN R ELSE w.first_row
            grown == [w EXCEPT !.first_row = b, !.height = a]
            fixed == [ws EXCEPT ![fix] = grown]
            v == Unlinked(fixed, k)
            act == Moved(x)
            hel == Moved(s.held)
<1>1. t = [s EXCEPT !.windows = v, !.active = act, !.held = hel]
  <2>1. Len(s.windows) # 1
    <3>1. s.windows \in Chains
      BY DEF Good, Layouts
    <3>. QED  BY <3>1, ChainFacts
  <2>. QED  BY <2>1 DEF DeleteWindow
<1>2. /\ ws \in Chains /\ s \in Layouts /\ s.active \in 1 .. n /\ s.held \in 0 .. n /\ s.screen \in Int
      /\ n = Len(ws) /\ s.windows = ws
  BY DEF Good, Layouts
<1>3. x \in 1 .. n /\ x # k /\ (s.active # k => x = s.active)
  BY ActiveWithoutFacts
<1>. HIDE DEF ws, x
<1>4. /\ ws \in Seq(Window) /\ n \in Nat /\ n >= 1 /\ DOMAIN ws = 1 .. n
      /\ \A j \in 1 .. n : /\ ws[j] \in Window
                           /\ ws[j].height \in Int /\ ws[j].first_row \in Int
                           /\ ws[j].temp \in BOOLEAN /\ ws[j].node \in Nodes
      /\ ws[1].first_row = 0
      /\ \A j \in 2 .. n : ws[j].first_row = ws[j - 1].first_row + ws[j - 1].height + 1
      /\ \A j \in 1 .. n : ws[j].height >= 1
      /\ Bottom(ws) = ws[n].first_row + ws[n].height + 1
  BY <1>2, ChainFacts
<1>5. /\ fix \in 1 .. n /\ k \in Int
      /\ (fix = k + 1 /\ k < n) \/ (fix = k - 1 /\ k > 1)
  BY <1>3, <1>4
<1>. HIDE DEF fix
<1>6. /\ H \in Int /\ R \in Int /\ H >= 1 /\ w \in Window /\ w.height \in Int /\ w.height >= 1
      /\ w.first_row \in Int
  BY <1>4, <1>5
<1>7. /\ fix = k + 1 => w.first_row = R + H + 1
      /\ fix = k - 1 => R = w.first_row + w.height + 1
  <2>1. CASE fix = k + 1
    <3>1. fix \in 2 .. n /\ fix - 1 = k
      BY <1>4, <1>5, <2>1
    <3>2. fix # k - 1
      BY <1>5, <2>1
    <3>. QED  BY <1>4, <3>1, <3>2
  <2>2. CASE fix = k - 1
    <3>1. k \in 2 .. n /\ fix # k + 1
      BY <1>4, <1>5, <2>2
    <3>. QED  BY <1>4, <2>2, <3>1
  <2>. QED  BY <1>5, <2>1, <2>2
<1>8. w.node = ws[fix].node
  OBVIOUS
<1>. HIDE DEF w
<1>9. a \in Int /\ a >= 1 /\ b \in Int /\ b = IF fix = k + 1 THEN R ELSE w.first_row
  <2>. HIDE DEF H, R
  <2>1. a \in Int /\ a >= 1 /\ b \in Int
    BY <1>6
  <2>2. CASE fix = k + 1
    BY <1>6, <1>7, <2>2
  <2>3. CASE fix = k - 1
    <3>1. fix # k + 1
      BY <1>5, <2>3
    <3>. QED  BY <1>6, <1>7, <2>3, <3>1
  <2>. QED  BY <1>5, <2>1, <2>2, <2>3
<1>. HIDE DEF a, b
<1>10. /\ grown \in Window /\ grown.height = a /\ grown.first_row = b /\ grown.node = w.node
  BY <1>6, <1>9 DEF Window
<1>. HIDE DEF grown
<1>11. /\ fixed \in Seq(Window) /\ Len(fixed) = n /\ fixed[fix] = grown
       /\ \A j \in 1 .. n : j # fix => fixed[j] = ws[j]
  BY <1>2, <1>4, <1>5, <1>10, ExceptSeq
<1>12. v = Unlinked(fixed, k)
  OBVIOUS
<1>. HIDE DEF fixed, v
<1>13. /\ v \in Seq(Window) /\ Len(v) = n - 1
       /\ \A j \in 1 .. n - 1 : v[j] = IF j < k THEN fixed[j] ELSE fixed[j + 1]
  <2>1. k \in 1 .. Len(fixed)
    BY <1>11
  <2>2. v \in Seq(Window) /\ UnlinkedAs(v, fixed, k)
    BY <1>11, <1>12, <2>1, UnlinkedFacts
  <2>. QED  BY <1>11, <2>2 DEF UnlinkedAs
<1>14. ASSUME NEW j \in 1 .. n
       PROVE  /\ fixed[j].node = ws[j].node /\ fixed[j].height >= 1
              /\ fixed[j].height = IF j = fix THEN ws[j].height + H + 1 ELSE ws[j].height
              /\ fixed[j].first_row = IF j = k + 1 /\ fix = k + 1 THEN R ELSE ws[j].first_row
  <2>1. CASE j = fix
    BY <1>8, <1>9, <1>10, <1>11, <2>1 DEF a, w
  <2>2. CASE j # fix
    BY <1>4, <1>11, <2>2
  <2>. QED  BY <2>1, <2>2
<1>15. ASSUME NEW j \in 1 .. n - 1
       PROVE  /\ j < k => v[j] = fixed[j] /\ j \in 1 .. n
              /\ ~(j < k) => v[j] = fixed[j + 1] /\ j + 1 \in 1 .. n
  <2>1. j \in 1 .. n /\ j + 1 \in 1 .. n
    BY <1>4
  <2>2. v[j] = IF j < k THEN fixed[j] ELSE fixed[j + 1]
    BY <1>13
  <2>. QED  BY <2>1, <2>2
<1>16. v[1].first_row = 0
  <2>1. 1 \in 1 .. n - 1 /\ 1 \in 1 .. n
    BY <1>4
  <2>2. CASE k = 1
    <3>1. fix = 2 /\ ~(1 < k) /\ 1 + 1 = 2 /\ 2 \in 1 .. n
      BY <1>4, <1>5, <2>2
    <3>2. v[1] = fixed[2]
      BY <1>15, <2>1, <3>1
    <3>. QED  BY <1>4, <1>14, <2>2, <3>1, <3>2
  <2>3. CASE k > 1
    <3>1. v[1] = fixed[1] /\ 1 # k + 1
      BY <1>5, <1>15, <2>1, <2>3
    <3>. QED  BY <1>4, <1>14, <2>1, <3>1
  <2>. QED  BY <1>4, <1>5, <2>2, <2>3
<1>17. ASSUME NEW j \in 2 .. n - 1
       PROVE  v[j].first_row = v[j - 1].first_row + v[j - 1].height + 1
  <2>. HIDE DEF H, R
  <2>0. j \in 1 .. n - 1 /\ j - 1 \in 1 .. n - 1 /\ j \in 1 .. n /\ j - 1 \in 1 .. n /\ j + 1 \in 2 .. n /\ j + 1 \in 1 .. n
    BY <1>4
  <2>1. CASE j < k
    <3>1. j - 1 < k /\ j # k + 1 /\ j - 1 # k + 1 /\ j - 1 # k - 1
      BY <1>5, <2>0, <2>1
    <3>2. v[j] = fixed[j] /\ v[j - 1] = fixed[j - 1] /\ j - 1 # fix
      BY <1>5, <1>15, <2>0, <2>1, <3>1
    <3>3. v[j].first_row = ws[j].first_row
      BY <1>14, <2>0, <3>1, <3>2
    <3>4. v[j - 1].first_row = ws[j - 1].first_row /\ v[j - 1].height = ws[j - 1].height
      BY <1>14, <2>0, <3>1, <3>2
    <3>. QED  BY <1>4, <2>0, <3>3, <3>4
  <2>2. CASE j = k
    <3>1. j - 1 < k /\ ~(j < k) /\ j - 1 # k + 1 /\ k + 1 \in 2 .. n /\ k \in 2 .. n /\ (k + 1) - 1 = k
      BY <1>5, <2>0, <2>2
    <3>2. v[j] = fixed[k + 1] /\ v[j - 1] = fixed[k - 1]
      BY <1>15, <2>0, <2>2, <3>1
    <3>3. ws[k + 1].first_row = R + H + 1 /\ R = ws[k - 1].first_row + ws[k - 1].height + 1
      BY <1>4, <3>1 DEF H, R
    <3>4. ws[k - 1].first_row \in Int /\ ws[k - 1].height \in Int
      BY <1>4, <2>0, <2>2
    <3>5. v[j - 1].first_row = ws[k - 1].first_row
      BY <1>14, <2>0, <2>2, <3>1, <3>2
    <3>6. CASE fix = k + 1
      <4>1. v[j].first_row = R
        BY <1>14, <2>0, <2>2, <3>2, <3>6
      <4>2. k - 1 # fix
        BY <1>5, <3>6
      <4>3. v[j - 1].height = ws[k - 1].height
        BY <1>14, <2>0, <2>2, <3>2, <4>2
      <4>. QED  BY <3>3, <3>4, <3>5, <4>1, <4>3
    <3>7. CASE fix = k - 1
      <4>1. v[j - 1].height = ws[k - 1].height + H + 1
        BY <1>14, <2>0, <2>2, <3>2, <3>7
      <4>2. fix # k + 1
        BY <1>5, <3>7
      <4>3. v[j].first_row = R + H + 1
        BY <1>14, <2>0, <2>2, <3>2, <3>3, <4>2
      <4>. DEFINE r == ws[k - 1].first_row
                  h == ws[k - 1].height
      <4>4. r \in Int /\ h \in Int /\ R = r + h + 1
        BY <3>3, <3>4
      <4>. HIDE DEF r, h
      <4>5. R + H + 1 = r + (h + H + 1) + 1
        BY <1>6, <4>4
      <4>. QED  BY <3>5, <4>1, <4>3, <4>5 DEF r, h
    <3>. QED  BY <1>5, <3>6, <3>7
  <2>3. CASE j = k + 1
    <3>1. ~(j < k) /\ ~(j - 1 < k) /\ j + 1 = k + 2 /\ (j - 1) + 1 = k + 1 /\ (k + 2) - 1 = k + 1 /\ (k + 1) - 1 = k
          /\ k + 1 \in 2 .. n /\ k + 2 \in 2 .. n /\ k + 1 \in 1 .. n /\ k + 2 \in 1 .. n /\ k + 2 # k + 1 /\ k + 2 # k - 1
      BY <1>5, <2>0, <2>3
    <3>2. v[j] = fixed[k + 2] /\ v[j - 1] = fixed[k + 1]
      BY <1>15, <2>0, <2>3, <3>1
    <3>3. ws[k + 1].first_row = R + H + 1 /\ ws[k + 2].first_row = ws[k + 1].first_row + ws[k + 1].height + 1
      BY <1>4, <3>1 DEF H, R
    <3>4. ws[k + 1].height \in Int
      BY <1>4, <3>1
    <3>5. v[j].first_row = ws[k + 2].first_row
      BY <1>14, <3>1, <3>2
    <3>6. CASE fix = k + 1
      <4>1. v[j - 1].first_row = R /\ v[j - 1].height = ws[k + 1].height + H + 1
        BY <1>14, <3>1, <3>2, <3>6
      <4>. QED  BY <1>6, <3>3, <3>4, <3>5, <4>1
    <3>7. CASE fix # k + 1
      <4>1. v[j - 1].first_row = R + H + 1 /\ v[j - 1].height = ws[k + 1].height
        BY <1>14, <3>1, <3>2, <3>3, <3>7
      <4>. QED  BY <1>6, <3>3, <3>4, <3>5, <4>1
    <3>. QED  BY <3>6, <3>7
  <2>4. CASE j > k + 1
    <3>1. ~(j < k) /\ ~(j - 1 < k) /\ (j - 1) + 1 = j /\ (j + 1) - 1 = j /\ j # k + 1 /\ j + 1 # k + 1 /\ j # k - 1
      BY <1>5, <2>0, <2>4
    <3>2. v[j] = fixed[j + 1] /\ v[j - 1] = fixed[j] /\ j # fix
      BY <1>5, <1>15, <2>0, <3>1
    <3>3. v[j].first_row = ws[j + 1].first_row
      BY <1>14, <2>0, <3>1, <3>2
    <3>4. v[j - 1].first_row = ws[j].first_row /\ v[j - 1].height = ws[j].height
      BY <1>14, <2>0, <3>1, <3>2
    <3>. QED  BY <1>4, <2>0, <3>1, <3>3, <3>4
  <2>. QED  BY <1>5, <2>0, <2>1, <2>2, <2>3, <2>4
<1>18. ASSUME NEW j \in 1 .. n - 1
       PROVE  v[j].height >= 1 /\ v[j].node = IF j < k THEN ws[j].node ELSE ws[j + 1].node
  BY <1>14, <1>15
<1>19. Bottom(v) = Bottom(ws)
  <2>. HIDE DEF H, R
  <2>1. Bottom(v) = v[n - 1].first_row + v[n - 1].height + 1
    BY <1>13 DEF Bottom
  <2>2. n - 1 \in 1 .. n - 1 /\ n \in 1 .. n /\ n \in 2 .. n /\ n - 1 \in 1 .. n
    BY <1>4
  <2>3. CASE k = n
    <3>1. n - 1 < k /\ fix = n - 1 /\ fix = k - 1 /\ fix # k + 1
      BY <1>4, <1>5, <2>3
    <3>2. v[n - 1] = fixed[n - 1]
      BY <1>15, <2>2, <3>1
    <3>3. v[n - 1].first_row = ws[n - 1].first_row /\ v[n - 1].height = ws[n - 1].height + H + 1
      BY <1>14, <2>2, <3>1, <3>2
    <3>4. Bottom(ws) = R + H + 1 /\ R = ws[n - 1].first_row + ws[n - 1].height + 1
      BY <1>4, <2>2, <2>3 DEF H, R
    <3>5. ws[n - 1].first_row \in Int /\ ws[n - 1].height \in Int
      BY <1>4, <2>2
    <3>. DEFINE r == ws[n - 1].first_row
                h == ws[n - 1].height
    <3>6. r \in Int /\ h \in Int /\ R = r + h + 1
      BY <3>4, <3>5
    <3>. HIDE DEF r, h
    <3>7. R + H + 1 = r + (h + H + 1) + 1
      BY <1>6, <3>6
    <3>. QED  BY <2>1, <3>3, <3>4, <3>7 DEF r, h
  <2>4. CASE k < n
    <3>1. ~(n - 1 < k) /\ (n - 1) + 1 = n
      BY <1>4, <2>4
    <3>2. v[n - 1] = fixed[n]
      BY <1>15, <2>2, <3>1
    <3>3. CASE fix = n
      <4>1. n = k + 1 /\ fix = k + 1 /\ n - 1 = k
        BY <1>4, <1>5, <2>4, <3>3
      <4>2. v[n - 1].first_row = R /\ v[n - 1].height = ws[n].height + H + 1
        BY <1>14, <2>2, <3>2, <3>3, <4>1
      <4>3. ws[n].first_row = R + H + 1 /\ ws[n].height \in Int
        BY <1>4, <2>2, <4>1 DEF H, R
      <4>4. \A r, h, g \in Int : (r + h + 1) + g + 1 = r + (g + h + 1) + 1
        OBVIOUS
      <4>. QED  BY <1>4, <1>6, <2>1, <4>2, <4>3, <4>4
    <3>4. CASE fix # n
      <4>1. ~(n = k + 1 /\ fix = k + 1)
        BY <3>4
      <4>2. v[n - 1].first_row = ws[n].first_row /\ v[n - 1].height = ws[n].height
        BY <1>14, <2>2, <3>2, <3>4, <4>1
      <4>. QED  BY <1>4, <2>1, <4>2
    <3>. QED  BY <3>3, <3>4
  <2>. QED  BY <1>4, <2>3, <2>4
<1>20. v \in Chains
  <2>. DEFINE m == n - 1
  <2>1. m = Len(v) /\ m >= 1
    BY <1>4, <1>13
  <2>2. \A j \in 2 .. m : v[j].first_row = v[j - 1].first_row + v[j - 1].height + 1
    BY <1>17
  <2>3. \A j \in 1 .. m : v[j].height >= 1
    BY <1>18
  <2>. HIDE DEF m
  <2>. QED  BY <1>13, <1>16, <2>1, <2>2, <2>3, IsChain
<1>21. act \in 1 .. n - 1 /\ hel \in 0 .. n - 1
  BY <1>2, <1>3, <1>4
<1>22. /\ s.active # k => act = Without(s.active, k)
       /\ hel = IF s.held = k THEN 0 ELSE Without(s.held, k)
  BY <1>2, <1>3, <1>4 DEF Without
<1>. HIDE DEF act, hel
<1>23. act \in Int /\ hel \in Int
  BY <1>21
<1>24. /\ t.windows = v /\ t.active = act /\ t.held = hel /\ t.screen = s.screen
       /\ t \in [windows : Chains, active : Int, held : Int, screen : Int]
  BY <1>1, <1>2, <1>20, <1>23 DEF Layouts
<1>25. Good(t)
  BY <1>13, <1>21, <1>24 DEF Good, Layouts
<1>26. NodesWithout(v, ws, k)
  BY <1>2, <1>18 DEF NodesWithout
<1>27. MovedUp(t, s, k)
  BY <1>22, <1>24 DEF MovedUp
<1>. QED  BY <1>2, <1>13, <1>19, <1>24, <1>25, <1>26, <1>27

-----------------------------------------------------------------------------
(* What is laid out again.                                                 *)

(* The same windows, but for where they begin; but for their heights. *)
SameWindows(t, ws) ==
  \A j \in 1 .. Len(ws) :
     t[j].height = ws[j].height /\ t[j].node = ws[j].node /\ t[j].temp = ws[j].temp
SameNodes(t, ws) ==
  /\ Len(t) = Len(ws)
  /\ \A j \in 1 .. Len(ws) : t[j].node = ws[j].node /\ t[j].temp = ws[j].temp

LEMMA RestackedFacts ==
  ASSUME NEW ws \in Seq(Window), NEW n, n = Len(ws), n >= 1, ws[1].first_row = 0,
         n > 1 => \A k \in 1 .. n : ws[k].height >= 1,
         NEW t, t = Restacked(ws)
  PROVE  t \in Chains /\ Len(t) = n /\ Bottom(t) = Rows(ws)[n] /\ SameWindows(t, ws)
<1>. DEFINE r == Rows(ws)
<1>1. /\ n \in Nat /\ DOMAIN ws = 1 .. n
      /\ \A k \in 1 .. n : ws[k] \in Window /\ ws[k].height \in Int
  <2>1. n \in Nat /\ DOMAIN ws = 1 .. n /\ \A k \in 1 .. n : ws[k] \in Window
    BY ElementOfSeq, LenProperties
  <2>. QED  BY <2>1 DEF Window
<1>2. /\ r \in [0 .. n -> Int] /\ r[0] = 0
      /\ \A k \in 1 .. n : r[k] = r[k - 1] + ws[k].height + 1
  BY RowsFacts
<1>3. t = [k \in DOMAIN ws |-> [ws[k] EXCEPT !.first_row = ws[1].first_row + r[k - 1]]]
  BY DEF Restacked
<1>. HIDE DEF r
<1>4. ASSUME NEW k \in 1 .. n
      PROVE  /\ t[k] \in Window /\ t[k].height = ws[k].height /\ t[k].first_row = r[k - 1]
             /\ t[k].node = ws[k].node /\ t[k].temp = ws[k].temp /\ r[k - 1] \in Int
  <2>1. k - 1 \in 0 .. n /\ r[k - 1] \in Int /\ 0 + r[k - 1] = r[k - 1] /\ ws[k] \in Window
    BY <1>1, <1>2
  <2>2. t[k] = [ws[k] EXCEPT !.first_row = 0 + r[k - 1]]
    BY <1>1, <1>3
  <2>3. t[k] = [ws[k] EXCEPT !.first_row = r[k - 1]]
    BY <2>1, <2>2
  <2>. QED  BY <2>1, <2>3 DEF Window
<1>5. t \in Seq(Window) /\ Len(t) = n
  <2>1. t \in [1 .. n -> Window]
    BY <1>1, <1>3, <1>4
  <2>. QED  BY <1>1, <2>1, Mapped
<1>6. t[1].first_row = 0
  <2>1. 1 \in 1 .. n /\ 1 - 1 = 0
    BY <1>1
  <2>. QED  BY <1>2, <1>4, <2>1
<1>7. ASSUME NEW k \in 2 .. n
      PROVE  t[k].first_row = t[k - 1].first_row + t[k - 1].height + 1
  <2>1. k \in 1 .. n /\ k - 1 \in 1 .. n
    BY <1>1
  <2>2. t[k].first_row = r[k - 1] /\ r[k - 1] = r[(k - 1) - 1] + ws[k - 1].height + 1
    BY <1>2, <1>4, <2>1
  <2>3. t[k - 1].first_row = r[(k - 1) - 1] /\ t[k - 1].height = ws[k - 1].height
    BY <1>4, <2>1
  <2>. QED  BY <2>2, <2>3
<1>8. n > 1 => \A k \in 1 .. n : t[k].height >= 1
  BY <1>4
<1>9. t \in Chains
  BY <1>5, <1>6, <1>7, <1>8, IsChain
<1>10. Bottom(t) = r[n]
  <2>1. n \in 1 .. n
    BY <1>1
  <2>2. Bottom(t) = t[n].first_row + t[n].height + 1
    BY <1>5 DEF Bottom
  <2>. QED  BY <1>2, <1>4, <2>1, <2>2
<1>11. SameWindows(t, ws)
  BY <1>4 DEF SameWindows
<1>. QED  BY <1>5, <1>9, <1>10, <1>11 DEF r

(* In a chain that begins at the top, the rows above a window say where it *)
(* begins.                                                                 *)
LEMMA ChainRows ==
  ASSUME NEW ws \in Chains, NEW n, n = Len(ws)
  PROVE  /\ \A k \in 1 .. n : ws[k].first_row = Rows(ws)[k - 1]
         /\ Bottom(ws) = Rows(ws)[n]
<1>. DEFINE r == Rows(ws)
<1>1. /\ ws \in Seq(Window) /\ n \in Nat /\ n >= 1
      /\ \A k \in 1 .. n : ws[k].height \in Int
      /\ ws[1].first_row = 0
      /\ \A k \in 2 .. n : ws[k].first_row = ws[k - 1].first_row + ws[k - 1].height + 1
      /\ Bottom(ws) = ws[n].first_row + ws[n].height + 1
  BY ChainFacts
<1>2. /\ r \in [0 .. n -> Int] /\ r[0] = 0
      /\ \A k \in 1 .. n : r[k] = r[k - 1] + ws[k].height + 1
  BY <1>1, RowsFacts
<1>. HIDE DEF r
<1>. DEFINE T == {k \in 0 .. n : k >= 1 => ws[k].first_row = r[k - 1]}
<1>3. 0 \in T
  BY <1>1
<1>4. ASSUME NEW k \in 1 .. n, k - 1 \in T PROVE k \in T
  <2>1. CASE k = 1
    <3>1. k - 1 = 0 /\ k \in 0 .. n
      BY <2>1
    <3>. QED  BY <1>1, <1>2, <2>1, <3>1
  <2>2. CASE k # 1
    <3>1. k \in 2 .. n /\ k - 1 \in 1 .. n /\ k - 1 >= 1 /\ k \in 0 .. n
      BY <1>1, <2>2
    <3>2. ws[k - 1].first_row = r[(k - 1) - 1]
      BY <1>4, <3>1
    <3>3. r[k - 1] = r[(k - 1) - 1] + ws[k - 1].height + 1
      BY <1>2, <3>1
    <3>. QED  BY <1>1, <3>1, <3>2, <3>3
  <2>. QED  BY <2>1, <2>2
<1>. HIDE DEF T
<1>5. \A k \in 0 .. n : k \in T
  BY <1>1, <1>3, <1>4, InductionTo
<1>6. \A k \in 1 .. n : ws[k].first_row = r[k - 1]
  <2>1. \A k \in 1 .. n : k \in 0 .. n /\ k >= 1
    BY <1>1
  <2>. QED  BY <1>5, <2>1 DEF T
<1>7. Bottom(ws) = r[n]
  <2>1. n \in 1 .. n
    BY <1>1
  <2>. QED  BY <1>1, <1>2, <1>6, <2>1
<1>. QED  BY <1>6, <1>7 DEF r

LEMMA ChainIsStacked ==
  ASSUME NEW ws \in Chains
  PROVE  ws = Restacked([ws EXCEPT ![1].first_row = 0])
<1>. DEFINE n == Len(ws)
            r == Rows(ws)
<1>1. /\ ws \in Seq(Window) /\ n \in Nat /\ n >= 1 /\ DOMAIN ws = 1 .. n
      /\ \A k \in 1 .. n : ws[k] \in Window
      /\ ws[1].first_row = 0
  BY ChainFacts
<1>2. ws \in [1 .. n -> Window]
  BY <1>1, LenProperties
<1>3. /\ \A k \in 1 .. n : ws[k].first_row = r[k - 1]
      /\ r \in [0 .. n -> Int]
  BY <1>1, ChainRows, RowsFacts
<1>. HIDE DEF r
<1>4. \A w \in Window : [w EXCEPT !.first_row = w.first_row] = w
  BY DEF Window
<1>5. [ws EXCEPT ![1].first_row = 0] = ws
  <2>. DEFINE w == [ws[1] EXCEPT !.first_row = 0]
  <2>1. w = ws[1]
    BY <1>1, <1>4
  <2>2. [ws EXCEPT ![1].first_row = 0] = [ws EXCEPT ![1] = w]
    OBVIOUS
  <2>. HIDE DEF w
  <2>. QED  BY <1>2, <2>1, <2>2
<1>6. Restacked(ws) = [k \in DOMAIN ws |-> [ws[k] EXCEPT !.first_row = ws[1].first_row + r[k - 1]]]
  BY DEF Restacked, r
<1>7. ASSUME NEW k \in 1 .. n
      PROVE  [ws[k] EXCEPT !.first_row = ws[1].first_row + r[k - 1]] = ws[k]
  <2>1. k - 1 \in 0 .. n /\ r[k - 1] \in Int /\ 0 + r[k - 1] = r[k - 1] /\ ws[k] \in Window
    BY <1>1, <1>3
  <2>2. ws[1].first_row + r[k - 1] = ws[k].first_row
    BY <1>1, <1>3, <2>1
  <2>. QED  BY <1>4, <2>1, <2>2
<1>8. Restacked(ws) = [k \in 1 .. n |-> ws[k]]
  BY <1>1, <1>6, <1>7
<1>9. Restacked(ws) = ws
  BY <1>2, <1>8
<1>. QED  BY <1>5, <1>9

-----------------------------------------------------------------------------
(* The windows get the same height.                                        *)

LEMMA Division ==
  ASSUME NEW a \in Int, NEW b \in Int, b > 0
  PROVE  /\ a \div b \in Int /\ a % b \in 0 .. b - 1
         /\ a = b * (a \div b) + (a % b)
OBVIOUS

LEMMA Times ==
  ASSUME NEW a \in Int, NEW b \in Int
  PROVE  a * b \in Int /\ a * (b + 1) = a * b + a
OBVIOUS

(* With a line for each, each gets one, and what is left over is not owed. *)
LEMMA Fair ==
  ASSUME NEW a \in Int, NEW b \in Int, b > 0, a >= b
  PROVE  /\ Quotient(a, b) \in Int /\ Quotient(a, b) >= 1
         /\ Quotient(a, b) * b \in Int /\ a - Quotient(a, b) * b >= 0
<1>. DEFINE q == a \div b
            r == a % b
<1>1. q \in Int /\ r \in 0 .. b - 1 /\ a = b * q + r
  BY Division
<1>2. Quotient(a, b) = q
  BY DEF Quotient
<1>. HIDE DEF q, r
<1>3. q >= 1
  <2>1. SUFFICES ASSUME q <= 0 PROVE FALSE
    BY <1>1
  <2>2. b * q <= 0
    BY <1>1, <2>1
  <2>3. b * q \in Int
    BY <1>1
  <2>. HIDE DEF q
  <2>. QED  BY <1>1, <2>2, <2>3
<1>4. q * b = b * q /\ q * b \in Int
  BY <1>1
<1>. QED  BY <1>1, <1>2, <1>3, <1>4

(* How many of the first k are in S. *)
Counted(S, k) == Cardinality(S \cap 1 .. k)

LEMMA CountedFacts ==
  ASSUME NEW n \in Nat, NEW S, S \subseteq 1 .. n
  PROVE  /\ Counted(S, 0) = 0 /\ Counted(S, n) = Cardinality(S)
         /\ \A k \in 0 .. n : Counted(S, k) \in Nat
         /\ \A k \in 1 .. n :
              Counted(S, k) = IF k \in S THEN Counted(S, k - 1) + 1 ELSE Counted(S, k - 1)
<1>1. ASSUME NEW k \in Nat PROVE IsFiniteSet(S \cap 1 .. k)
  <2>1. IsFiniteSet(1 .. k) /\ S \cap 1 .. k \in SUBSET (1 .. k)
    BY FS_Interval
  <2>. QED  BY <2>1, FS_Subset
<1>2. Counted(S, 0) = 0
  <2>1. S \cap 1 .. 0 = {}
    OBVIOUS
  <2>. QED  BY <2>1, FS_EmptySet DEF Counted
<1>3. Counted(S, n) = Cardinality(S)
  <2>1. S \cap 1 .. n = S
    OBVIOUS
  <2>. QED  BY <2>1 DEF Counted
<1>4. ASSUME NEW k \in 0 .. n PROVE Counted(S, k) \in Nat
  BY <1>1, FS_CardinalityType DEF Counted
<1>5. ASSUME NEW k \in 1 .. n
      PROVE  Counted(S, k) = IF k \in S THEN Counted(S, k - 1) + 1 ELSE Counted(S, k - 1)
  <2>. DEFINE T == S \cap 1 .. k - 1
  <2>1. IsFiniteSet(T) /\ k \notin T
    <3>1. k - 1 \in Nat
      OBVIOUS
    <3>. QED  BY <1>1, <3>1
  <2>2. CASE k \in S
    <3>1. S \cap 1 .. k = T \cup {k}
      BY <2>2
    <3>2. Cardinality(T \cup {k}) = Cardinality(T) + 1
      BY <2>1, FS_AddElement
    <3>. QED  BY <2>2, <3>1, <3>2 DEF Counted
  <2>3. CASE k \notin S
    <3>1. S \cap 1 .. k = T
      BY <2>3
    <3>. QED  BY <2>3, <3>1 DEF Counted
  <2>. QED  BY <2>2, <2>3
<1>. QED  BY <1>2, <1>3, <1>4, <1>5

LEMMA LinesFacts ==
  ASSUME NEW ws \in Seq(Window), NEW n, n = Len(ws), NEW S
  PROVE  /\ Lines(ws, S) \in [0 .. n -> Int]
         /\ Lines(ws, S)[0] = 0
         /\ \A k \in 1 .. n :
              Lines(ws, S)[k] = IF k \in S THEN Lines(ws, S)[k - 1] + ws[k].height
                                ELSE Lines(ws, S)[k - 1]
<1>0. n \in Nat /\ \A k \in 1 .. n : ws[k] \in Window
  BY ElementOfSeq, LenProperties
<1>1. n \in Nat /\ 0 \in Int /\ \A k \in 1 .. n : ws[k].height \in Int
  BY <1>0 DEF Window
<1>. DEFINE D == [k \in Nat |-> [x \in Int |-> IF k \in 1 .. n /\ k \in S THEN x + ws[k].height ELSE x]]
<1>2. D \in [Nat -> [Int -> Int]]
  BY <1>1
<1>3. \A k \in 1 .. n : \A x \in Int : D[k][x] = IF k \in S THEN x + ws[k].height ELSE x
  BY <1>1
<1>. HIDE DEF D
<1>4. PICK g : Iteration(g, Int, 0, D, n)
  BY <1>1, <1>2, Iterated
<1>5. g \in [0 .. n -> Int] /\ g[0] = 0 /\ \A k \in 1 .. n : g[k] = D[k][g[k - 1]]
  BY <1>4 DEF Iteration
<1>. DEFINE F(h) == [k \in 0 .. n |-> IF k = 0 THEN 0
                                      ELSE IF k \in S THEN h[k - 1] + ws[k].height ELSE h[k - 1]]
<1>6. g = F(g)
  <2>1. ASSUME NEW k \in 1 .. n
        PROVE  g[k] = IF k \in S THEN g[k - 1] + ws[k].height ELSE g[k - 1]
    <3>1. k - 1 \in 0 .. n /\ g[k - 1] \in Int
      BY <1>1, <1>5
    <3>. QED  BY <1>3, <1>5, <3>1
  <2>2. \A k \in 0 .. n : g[k] = IF k = 0 THEN 0
                                 ELSE IF k \in S THEN g[k - 1] + ws[k].height ELSE g[k - 1]
    BY <1>1, <1>5, <2>1
  <2>. QED  BY <1>5, <2>2
<1>. DEFINE r == Lines(ws, S)
<1>7. r = CHOOSE h : h = F(h)
  BY DEF Lines
<1>. HIDE DEF r
<1>8. r = F(r)
  BY <1>6, <1>7
<1>9. /\ DOMAIN r = 0 .. n /\ r[0] = 0
      /\ \A k \in 1 .. n : r[k] = IF k \in S THEN r[k - 1] + ws[k].height ELSE r[k - 1]
  <2>1. \A k \in 1 .. n : k \in 0 .. n /\ k # 0
    BY <1>1
  <2>2. 0 \in 0 .. n
    BY <1>1
  <2>3. \A k \in 0 .. n : r[k] = IF k = 0 THEN 0
                                 ELSE IF k \in S THEN r[k - 1] + ws[k].height ELSE r[k - 1]
    BY <1>8
  <2>. QED  BY <1>8, <2>1, <2>2, <2>3
<1>. DEFINE T == {k \in 0 .. n : r[k] \in Int}
<1>10. 0 \in T
  BY <1>1, <1>9
<1>11. ASSUME NEW k \in 1 .. n, k - 1 \in T PROVE k \in T
  BY <1>1, <1>9, <1>11
<1>. HIDE DEF T
<1>12. \A k \in 0 .. n : k \in T
  BY <1>1, <1>10, <1>11, InductionTo
<1>13. r \in [0 .. n -> Int]
  BY <1>8, <1>12 DEF T
<1>. QED  BY <1>9, <1>13 DEF r

(* Windows of a line each have a line each, together. *)
LEMMA LinesEnough ==
  ASSUME NEW ws \in Seq(Window), NEW n, n = Len(ws), NEW S, S \subseteq 1 .. n,
         \A k \in 1 .. n : ws[k].height >= 1
  PROVE  Lines(ws, S)[n] >= Cardinality(S)
<1>. DEFINE L == Lines(ws, S)
            T == {k \in 0 .. n : L[k] >= Counted(S, k)}
<1>0. n \in Nat /\ \A k \in 1 .. n : ws[k].height \in Int
  <2>1. n \in Nat /\ \A k \in 1 .. n : ws[k] \in Window
    BY ElementOfSeq, LenProperties
  <2>. QED  BY <2>1 DEF Window
<1>1. /\ L \in [0 .. n -> Int] /\ L[0] = 0
      /\ \A k \in 1 .. n : L[k] = IF k \in S THEN L[k - 1] + ws[k].height ELSE L[k - 1]
  BY LinesFacts
<1>2. /\ Counted(S, 0) = 0 /\ Counted(S, n) = Cardinality(S)
      /\ \A k \in 0 .. n : Counted(S, k) \in Nat
      /\ \A k \in 1 .. n :
           Counted(S, k) = IF k \in S THEN Counted(S, k - 1) + 1 ELSE Counted(S, k - 1)
  BY <1>0, CountedFacts
<1>. HIDE DEF L
<1>3. 0 \in T
  BY <1>0, <1>1, <1>2
<1>4. ASSUME NEW k \in 1 .. n, k - 1 \in T PROVE k \in T
  <2>1. k \in 0 .. n /\ k - 1 \in 0 .. n /\ L[k - 1] >= Counted(S, k - 1)
    BY <1>0, <1>4
  <2>2. L[k - 1] \in Int /\ Counted(S, k - 1) \in Nat /\ ws[k].height \in Int /\ ws[k].height >= 1
    BY <1>0, <1>1, <1>2, <2>1
  <2>3. L[k] >= Counted(S, k)
    BY <1>1, <1>2, <2>1, <2>2
  <2>. QED  BY <2>1, <2>3
<1>. HIDE DEF T
<1>5. n \in T
  <2>1. n \in 0 .. n
    BY <1>0
  <2>. QED  BY <1>0, <1>3, <1>4, <2>1, InductionTo
<1>. QED  BY <1>2, <1>5 DEF T, L

(* The windows of S of the height of each, the last of them with the rest. *)
Leveled(ws, S, each, rest) ==
  [k \in DOMAIN ws |->
     IF k \notin S THEN ws[k]
     ELSE [ws[k] EXCEPT !.height = IF k = Greatest(S) THEN each + rest ELSE each]]

(* The windows of u begin where those of ws do, and have a line. *)
Placed(u, ws) ==
  \A k \in 1 .. Len(ws) : u[k].height >= 1 /\ u[k].first_row = ws[k].first_row

(* What becomes of the rows: the lines of S are returned, and given out.   *)
Returned(u, ws, S, each, rest) ==
  Rows(u)[Len(ws)] = Rows(ws)[Len(ws)] - Lines(ws, S)[Len(ws)] + each * Cardinality(S) + rest
Share(each, rest) == each \in Int /\ each >= 1 /\ rest \in Int /\ rest >= 0

LEMMA LeveledFacts ==
  ASSUME NEW ws \in Seq(Window), NEW n, n = Len(ws), n > 1, Lined(ws),
         NEW S \in SUBSET (1 .. n), S # {},
         NEW each, NEW rest, Share(each, rest),
         NEW u, u = Leveled(ws, S, each, rest)
  PROVE  /\ u \in Seq(Window) /\ Len(u) = n /\ SameNodes(u, ws) /\ Placed(u, ws)
         /\ Returned(u, ws, S, each, rest)
<1>. DEFINE L == Lines(ws, S)
            R == Rows(ws)
            Q == Rows(u)
            C(k) == Counted(S, k)
            g == Greatest(S)
<1>0. /\ S \subseteq 1 .. n
      /\ \A k \in 1 .. n : ws[k].height >= 1
      /\ each \in Int /\ each >= 1 /\ rest \in Int /\ rest >= 0
  BY DEF Lined, Share
<1>1. /\ n \in Nat /\ DOMAIN ws = 1 .. n
      /\ \A k \in 1 .. n : ws[k] \in Window /\ ws[k].height \in Int
  <2>1. n \in Nat /\ DOMAIN ws = 1 .. n /\ \A k \in 1 .. n : ws[k] \in Window
    BY ElementOfSeq, LenProperties
  <2>. QED  BY <2>1 DEF Window
<1>2. g \in S /\ g \in 1 .. n /\ \A k \in S : k <= g
  BY <1>0, <1>1, GreatestIn
<1>3. /\ L \in [0 .. n -> Int] /\ L[0] = 0
      /\ \A k \in 1 .. n : L[k] = IF k \in S THEN L[k - 1] + ws[k].height ELSE L[k - 1]
  BY LinesFacts
<1>4. /\ R \in [0 .. n -> Int] /\ R[0] = 0
      /\ \A k \in 1 .. n : R[k] = R[k - 1] + ws[k].height + 1
  BY RowsFacts
<1>5. /\ C(0) = 0 /\ C(n) = Cardinality(S)
      /\ \A k \in 0 .. n : C(k) \in Nat
      /\ \A k \in 1 .. n : C(k) = IF k \in S THEN C(k - 1) + 1 ELSE C(k - 1)
  BY <1>0, <1>1, CountedFacts
<1>. HIDE DEF L, R, C, g
<1>6. ASSUME NEW k \in 1 .. n
      PROVE  /\ u[k] \in Window /\ u[k].node = ws[k].node /\ u[k].temp = ws[k].temp
             /\ u[k].first_row = ws[k].first_row /\ u[k].height >= 1
             /\ u[k].height = IF k \notin S THEN ws[k].height
                              ELSE IF k = g THEN each + rest ELSE each
  <2>1. u[k] = IF k \notin S THEN ws[k]
               ELSE [ws[k] EXCEPT !.height = IF k = g THEN each + rest ELSE each]
    BY <1>1 DEF Leveled, g
  <2>2. CASE k \notin S
    BY <1>0, <1>1, <2>1, <2>2
  <2>3. CASE k \in S
    <3>. DEFINE h == IF k = g THEN each + rest ELSE each
    <3>1. h \in Int /\ h >= 1 /\ ws[k] \in Window
      BY <1>0, <1>1
    <3>2. u[k] = [ws[k] EXCEPT !.height = h]
      BY <2>1, <2>3
    <3>. HIDE DEF h
    <3>3. /\ u[k] \in Window /\ u[k].height = h /\ u[k].first_row = ws[k].first_row
          /\ u[k].node = ws[k].node /\ u[k].temp = ws[k].temp
      BY <3>1, <3>2, WindowSized
    <3>. QED  BY <2>3, <3>1, <3>3 DEF h
  <2>. QED  BY <2>2, <2>3
<1>7. u \in Seq(Window) /\ Len(u) = n
  <2>1. u \in [1 .. n -> Window]
    BY <1>1, <1>6 DEF Leveled
  <2>. QED  BY <1>1, <2>1, Mapped
<1>8. /\ Q \in [0 .. n -> Int] /\ Q[0] = 0
      /\ \A k \in 1 .. n : Q[k] = Q[k - 1] + u[k].height + 1
  BY <1>7, RowsFacts
<1>. HIDE DEF Q
<1>. DEFINE late(k) == IF k >= g THEN rest ELSE 0
            T == {k \in 0 .. n : Q[k] = R[k] - L[k] + each * C(k) + late(k)}
<1>9. 0 \in T
  <2>1. late(0) = 0 /\ each * 0 = 0
    BY <1>0, <1>2
  <2>. HIDE DEF late
  <2>. QED  BY <1>0, <1>1, <1>3, <1>4, <1>5, <1>8, <2>1
<1>10. ASSUME NEW k \in 1 .. n, k - 1 \in T PROVE k \in T
  <2>1. k \in 0 .. n /\ k - 1 \in 0 .. n
    BY <1>1
  <2>. DEFINE q == Q[k - 1]
              r == R[k - 1]
              l == L[k - 1]
              e == each * C(k - 1)
              h == ws[k].height
  <2>2. q \in Int /\ r \in Int /\ l \in Int /\ C(k - 1) \in Nat /\ h \in Int
    BY <1>1, <1>3, <1>4, <1>5, <1>8, <2>1
  <2>3. e \in Int /\ each * (C(k - 1) + 1) = e + each
    BY <1>0, <2>2, Times
  <2>4. q = r - l + e + late(k - 1)
    BY <1>10
  <2>5. Q[k] = q + u[k].height + 1 /\ R[k] = r + h + 1
    BY <1>4, <1>8
  <2>6. L[k] = IF k \in S THEN l + h ELSE l
    BY <1>3
  <2>7. each * C(k) = IF k \in S THEN e + each ELSE e
    BY <1>5, <2>3
  <2>8. late(k - 1) \in Int /\ late(k) = IF k = g THEN late(k - 1) + rest ELSE late(k - 1)
    BY <1>0, <1>2
  <2>. DEFINE p == late(k - 1)
  <2>12. p \in Int /\ q = r - l + e + p
    BY <2>4, <2>8
  <2>. HIDE DEF q, r, l, e, h, late, p
  <2>9. CASE k \notin S
    <3>1. k # g /\ u[k].height = h
      BY <1>2, <1>6, <2>9 DEF h
    <3>2. Q[k] = q + h + 1 /\ R[k] = r + h + 1 /\ L[k] = l /\ each * C(k) = e /\ late(k) = p
      BY <2>5, <2>6, <2>7, <2>8, <2>9, <3>1 DEF p
    <3>3. q + h + 1 = (r + h + 1) - l + e + p
      <4>1. h \in Int /\ r \in Int /\ l \in Int /\ e \in Int /\ p \in Int
        BY <1>0, <2>2, <2>3, <2>12
      <4>2. (r - l + e + p) + h + 1 = (r + h + 1) - l + e + p
        BY <4>1
      <4>. QED  BY <2>12, <4>2
    <3>. QED  BY <2>1, <3>2, <3>3
  <2>10. CASE k \in S /\ k # g
    <3>1. u[k].height = each
      BY <1>6, <2>10
    <3>2. Q[k] = q + each + 1 /\ R[k] = r + h + 1 /\ L[k] = l + h /\ each * C(k) = e + each /\ late(k) = p
      BY <2>5, <2>6, <2>7, <2>8, <2>10, <3>1 DEF p
    <3>3. q + each + 1 = (r + h + 1) - (l + h) + (e + each) + p
      BY <1>0, <2>2, <2>3, <2>12
    <3>. QED  BY <2>1, <3>2, <3>3
  <2>11. CASE k \in S /\ k = g
    <3>1. u[k].height = each + rest
      BY <1>6, <2>11
    <3>2. /\ Q[k] = q + (each + rest) + 1 /\ R[k] = r + h + 1 /\ L[k] = l + h
          /\ each * C(k) = e + each /\ late(k) = p + rest
      BY <2>5, <2>6, <2>7, <2>8, <2>11, <3>1 DEF p
    <3>3. q + (each + rest) + 1 = (r + h + 1) - (l + h) + (e + each) + (p + rest)
      BY <1>0, <2>2, <2>3, <2>12
    <3>. QED  BY <2>1, <3>2, <3>3
  <2>. QED  BY <2>9, <2>10, <2>11
<1>. HIDE DEF T
<1>11. n \in T
  <2>1. n \in 0 .. n
    BY <1>1
  <2>. QED  BY <1>1, <1>9, <1>10, <2>1, InductionTo
<1>12. late(n) = rest
  BY <1>1, <1>2
<1>13. Q[n] = R[n] - L[n] + each * Cardinality(S) + rest
  BY <1>5, <1>11, <1>12 DEF T
<1>14. SameNodes(u, ws)
  BY <1>6, <1>7 DEF SameNodes
<1>15. Placed(u, ws)
  BY <1>6 DEF Placed
<1>. QED  BY <1>7, <1>13, <1>14, <1>15 DEF Q, R, L, Returned

LEMMA TileKeeps ==
  ASSUME NEW ws \in Chains, NEW internals \in BOOLEAN, NEW t, t = Tile(ws, internals)
  PROVE  t \in Chains /\ Alike(t, ws)
<1>. DEFINE n == Len(ws)
            S == {k \in DOMAIN ws : internals \/ ws[k].node # "footnotes"}
            numwins == Cardinality(S)
            avail == Lines(ws, S)[n]
            each == Quotient(avail, numwins)
            rest == avail - each * numwins
            u == Leveled(ws, S, each, rest)
<1>1. CASE t = ws
  BY <1>1 DEF Alike
<1>2. SUFFICES ASSUME t # ws PROVE t \in Chains /\ Alike(t, ws)
  BY <1>1
<1>3. t = IF numwins <= 1 THEN ws ELSE Restacked(u)
  BY DEF Tile, Leveled
<1>4. ~(numwins <= 1) /\ t = Restacked(u)
  BY <1>2, <1>3
<1>5. /\ ws \in Seq(Window) /\ n \in Nat /\ n >= 1 /\ DOMAIN ws = 1 .. n
      /\ ws[1].first_row = 0
      /\ n > 1 => \A k \in 1 .. n : ws[k].height >= 1
  BY ChainFacts
<1>6. S \subseteq 1 .. n
  BY <1>5
<1>. HIDE DEF S, n, each, rest, avail
<1>7. IsFiniteSet(S) /\ numwins \in Nat /\ numwins <= n
  <2>1. IsFiniteSet(1 .. n) /\ Cardinality(1 .. n) = n
    BY <1>5, FS_Interval
  <2>. QED  BY <1>6, <2>1, FS_Subset, FS_CardinalityType
<1>8. n > 1 /\ numwins > 0 /\ S # {}
  <2>1. numwins > 1
    BY <1>4, <1>7
  <2>2. S # {}
    BY <2>1, FS_EmptySet
  <2>. QED  BY <1>5, <1>7, <2>1, <2>2
<1>9. avail \in Int /\ avail >= numwins
  <2>1. avail >= numwins
    BY <1>5, <1>6, <1>8, LinesEnough DEF avail, n
  <2>2. n \in 0 .. n /\ Lines(ws, S) \in [0 .. n -> Int]
    BY <1>5, LinesFacts DEF n
  <2>. QED  BY <2>1, <2>2 DEF avail
<1>. HIDE DEF numwins
<1>10. each \in Int /\ each >= 1 /\ each * numwins \in Int /\ rest \in Int /\ rest >= 0
  <2>1. numwins \in Int
    BY <1>7
  <2>2. /\ each \in Int /\ each >= 1 /\ each * numwins \in Int /\ avail - each * numwins >= 0
    BY <1>8, <1>9, <2>1, Fair DEF each
  <2>. QED  BY <1>9, <2>2 DEF rest
<1>. HIDE DEF u
<1>11. /\ u \in Seq(Window) /\ Len(u) = n /\ SameNodes(u, ws)
       /\ \A k \in 1 .. n : u[k].height >= 1 /\ u[k].first_row = ws[k].first_row
       /\ Rows(u)[n] = Rows(ws)[n] - avail + each * numwins + rest
  <2>1. u = Leveled(ws, S, each, rest) /\ n = Len(ws) /\ n > 1 /\ Lined(ws)
    BY <1>5, <1>8 DEF u, n, Lined
  <2>2. ws \in Seq(Window) /\ S # {} /\ Share(each, rest)
    BY <1>5, <1>8, <1>10 DEF Share
  <2>3. /\ u \in Seq(Window) /\ Len(u) = n /\ SameNodes(u, ws) /\ Placed(u, ws)
        /\ Returned(u, ws, S, each, rest)
    BY <1>6, <2>1, <2>2, LeveledFacts
  <2>. QED  BY <2>1, <2>3 DEF Placed, Returned, avail, numwins
<1>12. t \in Chains /\ Len(t) = n /\ Bottom(t) = Rows(u)[n] /\ SameWindows(t, u)
  <2>1. u[1].first_row = 0
    BY <1>5, <1>11
  <2>. QED  BY <1>4, <1>5, <1>11, <2>1, RestackedFacts
<1>13. Bottom(ws) = Rows(ws)[n] /\ Rows(ws)[n] \in Int
  <2>1. n \in 0 .. n /\ Rows(ws) \in [0 .. n -> Int]
    BY <1>5, RowsFacts DEF n
  <2>. QED  BY <2>1, ChainRows DEF n
<1>14. Bottom(t) = Bottom(ws)
  <2>. DEFINE e == each * numwins
              r == Rows(ws)[n]
  <2>1. e \in Int /\ r \in Int /\ Rows(u)[n] = r - avail + e + (avail - e)
    BY <1>10, <1>11, <1>13 DEF rest
  <2>2. r - avail + e + (avail - e) = r
    <3>. HIDE DEF e, r
    <3>. QED  BY <1>9, <2>1
  <2>. QED  BY <1>12, <1>13, <2>1, <2>2
<1>15. \A j \in 1 .. n : t[j].node = ws[j].node
  BY <1>11, <1>12 DEF SameNodes, SameWindows, n
<1>. QED  BY <1>12, <1>14, <1>15 DEF Alike, n

-----------------------------------------------------------------------------
(* Layouts that have room for one more window than they show.              *)

(* A screen that is covered by two windows or more has more rows than two  *)
(* for each: a line, a modeline, and some.                                 *)
Room(s) == Len(s.windows) > 1 /\ Bottom(s.windows) + 1 = s.screen
           => Bottom(s.windows) > 2 * Len(s.windows)
Sound(s) == Good(s) /\ Room(s)

(* On the same lines of the same screen. *)
Kept(t, s) == Bottom(t.windows) = Bottom(s.windows) /\ t.screen = s.screen

LEMMA LayoutFacts ==
  ASSUME NEW s, Good(s), NEW n, n = Len(s.windows)
  PROVE  /\ s \in Layouts /\ s.windows \in Chains /\ n \in Nat /\ n >= 1 /\ s.screen \in Int
         /\ DOMAIN s.windows = 1 .. n
         /\ s.active \in 1 .. n /\ s.held \in 0 .. n
         /\ Bottom(s.windows) \in Int
<1>1. s \in Layouts /\ s.windows \in Chains /\ s.screen \in Int
  BY DEF Good, Layouts
<1>2. n \in Nat /\ n >= 1 /\ DOMAIN s.windows = 1 .. n
  BY <1>1, ChainFacts
<1>3. s.active \in 1 .. n /\ s.held \in 0 .. n
  BY DEF Good
<1>4. Bottom(s.windows) \in Int
  <2>1. n \in 1 .. n
    BY <1>2
  <2>2. /\ Bottom(s.windows) = s.windows[n].first_row + s.windows[n].height + 1
        /\ s.windows[n].height \in Int /\ s.windows[n].first_row \in Int
    BY <1>1, <2>1, ChainFacts
  <2>. QED  BY <2>2
<1>. QED  BY <1>1, <1>2, <1>3, <1>4

LEMMA RoomFor ==
  ASSUME NEW ws \in Chains, NEW n, n = Len(ws), NEW k \in 1 .. n, ws[k].height >= 6
  PROVE  Bottom(ws) >= 2 * n + 5
<1>. DEFINE R == Rows(ws)
            more(j) == IF j >= k THEN 5 ELSE 0
            T == {j \in 0 .. n : R[j] >= 2 * j + more(j)}
<1>1. /\ ws \in Seq(Window) /\ n \in Nat /\ n >= 1
      /\ \A j \in 1 .. n : ws[j].height \in Int
      /\ n > 1 => \A j \in 1 .. n : ws[j].height >= 1
  BY ChainFacts
<1>2. /\ R \in [0 .. n -> Int] /\ R[0] = 0
      /\ \A j \in 1 .. n : R[j] = R[j - 1] + ws[j].height + 1
  BY <1>1, RowsFacts
<1>3. Bottom(ws) = R[n]
  BY ChainRows
<1>. HIDE DEF R
<1>4. 0 \in T
  BY <1>1, <1>2
<1>5. ASSUME NEW j \in 1 .. n, j - 1 \in T PROVE j \in T
  <2>4. R[j - 1] >= 2 * (j - 1) + more(j - 1)
    <3>. HIDE DEF more
    <3>. QED  BY <1>5
  <2>5. j \in 0 .. n /\ j - 1 \in 0 .. n
    BY <1>1
  <2>6. R[j] = R[j - 1] + ws[j].height + 1 /\ R[j - 1] \in Int /\ ws[j].height \in Int
    BY <1>1, <1>2, <2>5
  <2>1. /\ j \in 0 .. n /\ j - 1 \in 0 .. n /\ R[j - 1] >= 2 * (j - 1) + more(j - 1)
        /\ R[j] = R[j - 1] + ws[j].height + 1 /\ R[j - 1] \in Int /\ ws[j].height \in Int
    BY <2>4, <2>5, <2>6, Zenon
  <2>2. CASE j = k
    <3>1. more(j - 1) = 0 /\ more(j) = 5
      BY <1>1, <2>2
    <3>. HIDE DEF more
    <3>. QED  BY <2>1, <2>2, <3>1
  <2>3. CASE j # k
    <3>1. more(j) = more(j - 1) /\ more(j - 1) \in Int /\ ws[j].height >= 1
      BY <1>1, <2>3
    <3>. HIDE DEF more
    <3>. QED  BY <2>1, <3>1
  <2>. QED  BY <2>2, <2>3
<1>. HIDE DEF T
<1>6. n \in T
  <2>1. n \in 0 .. n
    BY <1>1
  <2>. QED  BY <1>1, <1>4, <1>5, <2>1, InductionTo
<1>. QED  BY <1>1, <1>3, <1>6 DEF T

LEMMA MakeWindowSound ==
  ASSUME NEW s, Sound(s), NEW n, n = Len(s.windows),
         NEW k \in 1 .. n, CanSplit(s, k), NEW node \in Nodes,
         NEW t, t = MakeWindow(s, k, node)
  PROVE  Sound(t) /\ Kept(t, s) /\ Len(t.windows) = n + 1
<1>1. /\ Good(t) /\ Len(t.windows) = n + 1 /\ t.screen = s.screen
      /\ Bottom(t.windows) = Bottom(s.windows)
  BY MakeWindowFacts DEF Sound
<1>2. s.windows \in Chains /\ n \in Nat /\ Bottom(s.windows) \in Int
  BY LayoutFacts DEF Sound
<1>3. s.windows[k].height >= 6
  <2>1. s.windows[k].height \in Int
    BY <1>2, ChainFacts
  <2>. DEFINE h == s.windows[k].height
  <2>2. h \div 2 >= 3
    BY DEF CanSplit, WINDOW_MIN_SIZE, WINDOW_MIN_HEIGHT
  <2>. HIDE DEF h
  <2>3. h >= 6
    BY <2>1, <2>2 DEF h
  <2>. QED  BY <2>3 DEF h
<1>4. Bottom(s.windows) >= 2 * n + 5
  BY <1>2, <1>3, RoomFor
<1>5. Room(t)
  BY <1>1, <1>2, <1>4 DEF Room
<1>. QED  BY <1>1, <1>5 DEF Sound, Kept

LEMMA DeleteWindowSound ==
  ASSUME NEW s, Sound(s), NEW n, n = Len(s.windows), n > 1, NEW k \in 1 .. n,
         NEW t, t = DeleteWindow(s, k)
  PROVE  Sound(t) /\ Kept(t, s) /\ Len(t.windows) = n - 1
<1>1. /\ Good(t) /\ Len(t.windows) = n - 1 /\ t.screen = s.screen
      /\ Bottom(t.windows) = Bottom(s.windows)
  BY DeleteWindowFacts DEF Sound
<1>2. n \in Nat /\ Bottom(s.windows) \in Int
  BY LayoutFacts DEF Sound
<1>3. Room(t)
  <2>1. SUFFICES ASSUME Len(t.windows) > 1, Bottom(t.windows) + 1 = t.screen
                 PROVE  Bottom(t.windows) > 2 * Len(t.windows)
    BY DEF Room
  <2>2. Bottom(s.windows) > 2 * n
    BY <1>1, <2>1 DEF Sound, Room
  <2>. QED  BY <1>1, <1>2, <2>2
<1>. QED  BY <1>1, <1>3 DEF Sound, Kept

(* The layout of s with other windows, as many, on the same lines.         *)
WithWindows(s, ws) == [s EXCEPT !.windows = ws]

LEMMA WindowsSound ==
  ASSUME NEW s, Sound(s), NEW ws \in Chains, Len(ws) = Len(s.windows),
         Bottom(ws) = Bottom(s.windows),
         NEW t, t = WithWindows(s, ws)
  PROVE  /\ Sound(t) /\ Kept(t, s) /\ t.windows = ws
         /\ t.active = s.active /\ t.held = s.held
<1>1. /\ s \in Layouts /\ s.active \in 1 .. Len(s.windows) /\ s.held \in 0 .. Len(s.windows)
  BY DEF Sound, Good
<1>2. /\ t \in Layouts /\ t.windows = ws /\ t.active = s.active /\ t.held = s.held
      /\ t.screen = s.screen
  BY <1>1 DEF Layouts, WithWindows
<1>3. Good(t)
  BY <1>1, <1>2 DEF Good
<1>4. Room(t)
  BY <1>2 DEF Sound, Room
<1>. QED  BY <1>2, <1>3, <1>4 DEF Sound, Kept

Replaced(ws, k, v) == [ws EXCEPT ![k] = v]

LEMMA ReplacedFacts ==
  ASSUME NEW ws \in Chains, NEW n, n = Len(ws), NEW k \in 1 .. n, NEW v \in Window,
         v.height = ws[k].height, v.first_row = ws[k].first_row,
         NEW u, u = Replaced(ws, k, v)
  PROVE  /\ u \in Chains /\ Len(u) = n /\ Bottom(u) = Bottom(ws)
         /\ u[k] = v /\ SameBut(u, ws, k)
<1>1. /\ ws \in Seq(Window) /\ n \in Nat /\ n >= 1
      /\ \A j \in 1 .. n : ws[j] \in Window
      /\ ws[1].first_row = 0
      /\ \A j \in 2 .. n : ws[j].first_row = ws[j - 1].first_row + ws[j - 1].height + 1
      /\ n > 1 => \A j \in 1 .. n : ws[j].height >= 1
      /\ Bottom(ws) = ws[n].first_row + ws[n].height + 1
  BY ChainFacts
<1>2. /\ u \in Seq(Window) /\ Len(u) = n /\ u[k] = v
      /\ \A j \in 1 .. n : j # k => u[j] = ws[j]
  BY <1>1, ExceptSeq DEF Replaced
<1>3. \A j \in 1 .. n : u[j].height = ws[j].height /\ u[j].first_row = ws[j].first_row
  BY <1>2
<1>4. \A j \in 2 .. n : u[j].first_row = u[j - 1].first_row + u[j - 1].height + 1
  <2>1. \A j \in 2 .. n : j \in 1 .. n /\ j - 1 \in 1 .. n
    BY <1>1
  <2>. QED  BY <1>1, <1>3, <2>1
<1>5. u[1].first_row = 0 /\ Bottom(u) = Bottom(ws)
  <2>1. 1 \in 1 .. n /\ n \in 1 .. n
    BY <1>1
  <2>. QED  BY <1>1, <1>2, <1>3, <2>1 DEF Bottom
<1>6. n > 1 => \A j \in 1 .. n : u[j].height >= 1
  BY <1>1, <1>3
<1>7. u \in Chains
  BY <1>1, <1>2, <1>4, <1>5, <1>6, IsChain
<1>. QED  BY <1>2, <1>5, <1>7 DEF SameBut

-----------------------------------------------------------------------------
(* Footnotes.                                                              *)

AtMostOne(ws) == \A i, j \in Shown(ws) : i = j
NodesMoved(v, ws, k) ==
  \A i \in 1 .. Len(ws) : i # k => v[Without(i, k)].node = ws[i].node

LEMMA WithoutFacts ==
  ASSUME NEW ws, NEW n \in Nat, n = Len(ws), DOMAIN ws = 1 .. n, NEW k \in 1 .. n,
         NEW v, Len(v) = n - 1, DOMAIN v = 1 .. n - 1, NodesWithout(v, ws, k)
  PROVE  /\ NodesMoved(v, ws, k)
         /\ AtMostOne(ws) => AtMostOne(v)
         /\ AtMostOne(ws) /\ k \in Shown(ws) => Shown(v) = {}
<1>1. \A j \in 1 .. n - 1 : v[j].node = IF j < k THEN ws[j].node ELSE ws[j + 1].node
  BY DEF NodesWithout
<1>2. ASSUME NEW i \in 1 .. n, i # k PROVE v[Without(i, k)].node = ws[i].node
  <2>1. CASE i > k
    <3>1. i - 1 \in 1 .. n - 1 /\ ~(i - 1 < k) /\ (i - 1) + 1 = i /\ Without(i, k) = i - 1
      BY <2>1 DEF Without
    <3>. QED  BY <1>1, <3>1
  <2>2. CASE i < k
    <3>1. i \in 1 .. n - 1 /\ Without(i, k) = i
      BY <2>2 DEF Without
    <3>. QED  BY <1>1, <2>2, <3>1
  <2>. QED  BY <1>2, <2>1, <2>2
<1>. DEFINE up(j) == IF j < k THEN j ELSE j + 1
<1>3. ASSUME NEW j \in Shown(v) PROVE up(j) \in Shown(ws) /\ up(j) # k /\ j \in 1 .. n - 1
  <2>1. j \in 1 .. n - 1 /\ v[j].node = "footnotes"
    BY DEF Shown
  <2>2. up(j) \in 1 .. n /\ up(j) # k
    BY <2>1
  <2>3. v[j].node = ws[up(j)].node
    BY <1>1, <2>1
  <2>. HIDE DEF up
  <2>. QED  BY <2>1, <2>2, <2>3 DEF Shown
<1>4. ASSUME AtMostOne(ws) PROVE AtMostOne(v)
  <2>1. SUFFICES ASSUME NEW i \in Shown(v), NEW j \in Shown(v) PROVE i = j
    BY DEF AtMostOne
  <2>2. up(i) \in Shown(ws) /\ up(j) \in Shown(ws) /\ i \in 1 .. n - 1 /\ j \in 1 .. n - 1
    BY <1>3
  <2>3. up(i) = up(j)
    <3>. HIDE DEF up
    <3>. QED  BY <1>4, <2>2 DEF AtMostOne
  <2>. QED  BY <2>2, <2>3
<1>5. ASSUME AtMostOne(ws), k \in Shown(ws) PROVE Shown(v) = {}
  <2>1. SUFFICES ASSUME NEW j \in Shown(v) PROVE FALSE
    OBVIOUS
  <2>. HIDE DEF up
  <2>2. up(j) \in Shown(ws) /\ up(j) # k
    BY <1>3
  <2>. QED  BY <1>5, <2>2 DEF AtMostOne
<1>. QED  BY <1>2, <1>4, <1>5 DEF NodesMoved

LEMMA FootnotesWindowFacts ==
  ASSUME NEW s, Good(s), NEW n, n = Len(s.windows), NEW f, f = FootnotesWindow(s)
  PROVE  (f = 0 /\ Shown(s.windows) = {}) \/ (f \in 1 .. n /\ f # 0 /\ f \in Shown(s.windows))
<1>1. n \in Nat /\ DOMAIN s.windows = 1 .. n
  BY LayoutFacts
<1>2. f = IF Shown(s.windows) = {} THEN 0 ELSE Least(Shown(s.windows))
  BY DEF FootnotesWindow, Shown
<1>. DEFINE S == Shown(s.windows)
<1>3. S \subseteq 1 .. n /\ S \subseteq Nat
  BY <1>1 DEF Shown
<1>. HIDE DEF S
<1>4. S # {} => Least(S) \in S
  BY <1>3, LeastIn
<1>5. S # {} => Least(S) \in 1 .. n
  BY <1>3, <1>4
<1>6. 0 \notin 1 .. n
  BY <1>1
<1>. QED  BY <1>2, <1>4, <1>5, <1>6 DEF S

(* The window that was asked for is made as high as the footnotes. *)
Fitted(made, w) ==
  LET shown == [made.windows EXCEPT ![w].temp = TRUE]
  IN [made EXCEPT !.windows = ChangeHeight(shown, w, FootnoteLines - shown[w].height)]

LEMMA FittedFacts ==
  ASSUME NEW made, Sound(made), NEW n, n = Len(made.windows), NEW w \in 1 .. n,
         NEW t, t = Fitted(made, w)
  PROVE  /\ Sound(t) /\ Kept(t, made) /\ Len(t.windows) = n
         /\ t.active = made.active /\ t.held = made.held
         /\ \A j \in 1 .. n : t.windows[j].node = made.windows[j].node
<1>. DEFINE ws == made.windows
            v == [ws[w] EXCEPT !.temp = TRUE]
            shown == Replaced(ws, w, v)
            amount == FootnoteLines - shown[w].height
            c == ChangeHeight(shown, w, amount)
<1>1. ws \in Chains /\ n \in Nat /\ n = Len(ws)
  BY LayoutFacts DEF Sound
<1>2. ws[w] \in Window
  BY <1>1, ChainFacts
<1>3. t = WithWindows(made, c)
  <2>1. [made.windows EXCEPT ![w].temp = TRUE] = shown
    BY DEF Replaced
  <2>. QED  BY <2>1 DEF Fitted, WithWindows
<1>4. /\ v \in Window /\ v.height = ws[w].height /\ v.first_row = ws[w].first_row
      /\ v.node = ws[w].node /\ v.height \in Int
  BY <1>2 DEF Window
<1>. HIDE DEF ws, v, shown
<1>5. /\ shown \in Chains /\ Len(shown) = n /\ Bottom(shown) = Bottom(ws)
      /\ shown[w] = v /\ SameBut(shown, ws, w)
  BY <1>1, <1>4, ReplacedFacts DEF shown
<1>6. \A j \in 1 .. n : shown[j].node = ws[j].node
  BY <1>1, <1>4, <1>5 DEF SameBut
<1>7. amount \in Int
  BY <1>4, <1>5, InfoWindowsAssumption
<1>. HIDE DEF amount, c
<1>8. c \in Chains /\ Alike(c, shown)
  BY <1>5, <1>7, ChangeHeightKeeps DEF c
<1>9. /\ Len(c) = n /\ Bottom(c) = Bottom(ws)
      /\ \A j \in 1 .. n : c[j].node = ws[j].node
  BY <1>5, <1>6, <1>8 DEF Alike
<1>10. Sound(t) /\ Kept(t, made) /\ t.windows = c /\ t.active = made.active /\ t.held = made.held
  BY <1>3, <1>8, <1>9, WindowsSound DEF ws
<1>. QED  BY <1>9, <1>10 DEF ws

(* What the footnotes of window k come to, when k is the active window or  *)
(* the one that the command has in hand.                                   *)
Settled(t, s, k) ==
  LET node == s.windows[k].node
  IN /\ Sound(t) /\ Kept(t, s)
     /\ AtMostOne(s.windows) /\ node = "plain" => Shown(t.windows) = {}
     /\ s.active = k /\ node # "plain" => t.windows[t.active].node = node
     /\ node = "noted" => t.windows[t.active].node = s.windows[s.active].node
     /\ s.held = k => t.held # 0
     /\ s.held = k /\ node # "plain" => t.windows[t.held].node = node

LEMMA GetOrRemoveFootnotesSettles ==
  ASSUME NEW s, Sound(s), NEW n, n = Len(s.windows), NEW k \in 1 .. n,
         NEW t, t = GetOrRemoveFootnotes(s, k)
  PROVE  Settled(t, s, k)
<1>. DEFINE ws == s.windows
            f == FootnotesWindow(s)
            node == ws[k].node
            made == IF f # 0 THEN s ELSE MakeWindow(s, n, "footnotes")
            w == IF f # 0 THEN f ELSE n + 1
<1>1. /\ Good(s) /\ ws \in Chains /\ n \in Nat /\ n >= 1 /\ DOMAIN ws = 1 .. n
      /\ s.active \in 1 .. n /\ s.held \in 0 .. n /\ n = Len(ws)
  BY LayoutFacts DEF Sound
<1>2. (f = 0 /\ Shown(ws) = {}) \/ (f \in 1 .. n /\ f # 0 /\ f \in Shown(ws))
  BY <1>1, FootnotesWindowFacts
<1>3. t = IF f = k THEN s
          ELSE IF node # "noted"
          THEN IF f # 0 THEN DeleteWindow(s, f) ELSE s
          ELSE IF f = 0 /\ ~CanSplit(s, n) THEN s
          ELSE Fitted(made, w)
  BY DEF GetOrRemoveFootnotes, Fitted
<1>4. node = s.windows[k].node /\ ws = s.windows
  OBVIOUS
<1>. HIDE DEF f, ws, node
<1>5. CASE t = s /\ (f = k \/ f = 0)
  <2>1. f = k => node = "footnotes"
    BY <1>2, <1>4 DEF Shown
  <2>2. k # 0
    BY <1>1
  <2>3. AtMostOne(ws) /\ node = "plain" => Shown(ws) = {}
    BY <1>2, <1>5, <2>1
  <2>. QED  BY <1>4, <1>5, <2>2, <2>3 DEF Settled, Kept
<1>6. CASE f # k /\ f # 0 /\ node # "noted" /\ t = DeleteWindow(s, f)
  <2>1. f \in 1 .. n /\ f \in Shown(ws) /\ n > 1
    BY <1>1, <1>2, <1>6
  <2>2. Sound(t) /\ Kept(t, s)
    BY <1>6, <2>1, DeleteWindowSound
  <2>3. /\ Good(t) /\ Len(t.windows) = n - 1 /\ NodesWithout(t.windows, s.windows, f)
        /\ MovedUp(t, s, f)
    <3>1. n > 1 /\ f \in 1 .. n /\ Good(s) /\ t = DeleteWindow(s, f)
      BY <1>1, <1>6, <2>1
    <3>. QED  BY <3>1, DeleteWindowFacts
  <2>4. DOMAIN t.windows = 1 .. n - 1
    BY <2>3, LayoutFacts
  <2>5. /\ NodesMoved(t.windows, ws, f)
        /\ AtMostOne(ws) /\ f \in Shown(ws) => Shown(t.windows) = {}
    BY <1>1, <1>4, <2>1, <2>3, <2>4, WithoutFacts
  <2>9. t.windows[Without(k, f)].node = ws[k].node
    BY <1>1, <1>6, <2>5 DEF NodesMoved
  <2>6. s.active = k => t.active = Without(k, f)
    BY <1>6, <2>3 DEF MovedUp
  <2>7. s.held = k => t.held = Without(k, f)
    BY <1>6, <2>3 DEF MovedUp
  <2>8. Without(k, f) # 0
    BY <1>1, <1>6, <2>1 DEF Without
  <2>. QED  BY <1>4, <1>6, <2>1, <2>2, <2>5, <2>6, <2>7, <2>8, <2>9 DEF Settled
<1>7. CASE f # k /\ node = "noted" /\ ~(f = 0 /\ ~CanSplit(s, n)) /\ t = Fitted(made, w)
  <2>1. /\ Sound(made) /\ Kept(made, s) /\ w \in 1 .. Len(made.windows)
        /\ made.active = s.active /\ made.held = s.held
        /\ k \in 1 .. Len(made.windows) /\ made.windows[k].node = node
        /\ s.active \in 1 .. Len(made.windows)
        /\ made.windows[s.active].node = s.windows[s.active].node
    <3>1. CASE f # 0
      BY <1>1, <1>2, <1>4, <3>1 DEF Kept
    <3>2. CASE f = 0
      <4>. DEFINE u == MakeWindow(s, n, "footnotes")
      <4>1. CanSplit(s, n) /\ n \in 1 .. n /\ "footnotes" \in Nodes /\ made = u /\ w = n + 1
        BY <1>1, <1>7, <3>2 DEF Nodes
      <4>. HIDE DEF u
      <4>2. Sound(u) /\ Kept(u, s) /\ Len(u.windows) = n + 1
        BY <4>1, MakeWindowSound DEF u
      <4>3. /\ MovedDown(u, s, n)
            /\ NodesWith(u.windows, s.windows, n, "footnotes")
        BY <1>1, <4>1, MakeWindowFacts DEF u
      <4>4. u.active = s.active /\ u.held = s.held
        BY <1>1, <4>3 DEF MovedDown
      <4>5. u.windows[k].node = node
        <5>1. k \in 1 .. n + 1 /\ k <= n
          BY <1>1
        <5>. QED  BY <1>1, <1>4, <4>3, <5>1 DEF NodesWith
      <4>6. n + 1 \in 1 .. n + 1 /\ k \in 1 .. n + 1 /\ s.active \in 1 .. n + 1
        BY <1>1
      <4>7. u.windows[s.active].node = s.windows[s.active].node
        <5>1. s.active \in 1 .. n + 1 /\ s.active <= n
          BY <1>1
        <5>. QED  BY <1>1, <1>4, <4>3, <5>1 DEF NodesWith
      <4>. QED  BY <4>1, <4>2, <4>4, <4>5, <4>6, <4>7
    <3>. QED  BY <3>1, <3>2
  <2>. HIDE DEF made, w
  <2>. DEFINE m == Len(made.windows)
  <2>2. /\ Sound(t) /\ Kept(t, made) /\ Len(t.windows) = m
        /\ t.active = made.active /\ t.held = made.held
        /\ \A j \in 1 .. m : t.windows[j].node = made.windows[j].node
    <3>1. Sound(made) /\ w \in 1 .. Len(made.windows) /\ t = Fitted(made, w)
      BY <1>7, <2>1
    <3>. QED  BY <3>1, FittedFacts
  <2>3. /\ t.windows[k].node = node /\ k # 0
        /\ t.windows[t.active].node = s.windows[s.active].node
    BY <1>1, <2>1, <2>2
  <2>4. Kept(t, s)
    BY <2>1, <2>2 DEF Kept
  <2>. QED  BY <1>4, <1>7, <2>1, <2>2, <2>3, <2>4 DEF Settled
<1>. QED  BY <1>3, <1>5, <1>6, <1>7

(* The same of what automatic-footnotes does, if it is on. *)
LEMMA FootnotesSound ==
  ASSUME NEW s, Sound(s), NEW n, n = Len(s.windows), NEW k \in 1 .. n,
         NEW t, t = Footnotes(s, k)
  PROVE  /\ Sound(t) /\ Kept(t, s)
         /\ s.held = k => t.held # 0
         /\ auto_footnotes_p => Settled(t, s, k)
<1>1. CASE auto_footnotes_p
  <2>1. Settled(t, s, k)
    BY <1>1, GetOrRemoveFootnotesSettles DEF Footnotes
  <2>. QED  BY <2>1 DEF Settled
<1>2. CASE ~auto_footnotes_p
  <2>1. t = s
    BY <1>2 DEF Footnotes
  <2>2. n \in Nat
    BY LayoutFacts DEF Sound
  <2>. QED  BY <1>2, <2>1, <2>2 DEF Kept
<1>. QED  BY <1>1, <1>2

(* A window shows another node. *)
Showing(s, k, node) == [s EXCEPT !.windows[k].node = node]

LEMMA NodeShown ==
  ASSUME NEW s, Sound(s), NEW n, n = Len(s.windows), NEW k \in 1 .. n, NEW node \in Nodes,
         NEW t, t = Showing(s, k, node)
  PROVE  /\ Sound(t) /\ Kept(t, s) /\ Len(t.windows) = n
         /\ t.active = s.active /\ t.held = s.held
         /\ t.windows[k].node = node
         /\ \A j \in 1 .. n : j # k => t.windows[j].node = s.windows[j].node
<1>. DEFINE ws == s.windows
            v == [ws[k] EXCEPT !.node = node]
            u == Replaced(ws, k, v)
<1>1. ws \in Chains /\ n \in Nat /\ n = Len(ws) /\ s \in Layouts
  BY LayoutFacts DEF Sound
<1>2. ws[k] \in Window
  BY <1>1, ChainFacts
<1>3. v \in Window /\ v.height = ws[k].height /\ v.first_row = ws[k].first_row /\ v.node = node
  BY <1>2 DEF Window
<1>4. t = WithWindows(s, u)
  BY <1>1 DEF Replaced, Layouts, WithWindows, Showing
<1>5. ws = s.windows
  OBVIOUS
<1>. HIDE DEF ws, v, u
<1>6. /\ u \in Chains /\ Len(u) = n /\ Bottom(u) = Bottom(ws) /\ u[k] = v /\ SameBut(u, ws, k)
  BY <1>1, <1>3, ReplacedFacts DEF u
<1>7. Sound(t) /\ Kept(t, s) /\ t.windows = u /\ t.active = s.active /\ t.held = s.held
  <2>1. u \in Chains /\ Len(u) = Len(s.windows) /\ Bottom(u) = Bottom(s.windows)
    BY <1>1, <1>5, <1>6
  <2>. QED  BY <1>4, <2>1, WindowsSound
<1>8. \A j \in 1 .. n : j # k => u[j].node = ws[j].node
  BY <1>1, <1>6 DEF SameBut
<1>. QED  BY <1>3, <1>5, <1>6, <1>7, <1>8

-----------------------------------------------------------------------------
(* Fewer windows, while there are too many.                                *)

Thinned(s) == IF TooMany(s, s.windows) THEN DeleteWindow(s, Doomed(s.windows)) ELSE s

(* The same screen and lines, and no second window of footnotes. *)
From(t, s) ==
  /\ Good(t) /\ Kept(t, s)
  /\ AtMostOne(s.windows) => AtMostOne(t.windows)

LEMMA DeletedFrom ==
  ASSUME NEW s, Good(s), NEW n, n = Len(s.windows), n > 1, NEW k \in 1 .. n,
         NEW t, t = DeleteWindow(s, k)
  PROVE  From(t, s) /\ Len(t.windows) = n - 1
<1>1. /\ Good(t) /\ Len(t.windows) = n - 1 /\ t.screen = s.screen
      /\ Bottom(t.windows) = Bottom(s.windows)
      /\ NodesWithout(t.windows, s.windows, k)
  BY DeleteWindowFacts
<1>2. /\ n \in Nat /\ DOMAIN s.windows = 1 .. n /\ DOMAIN t.windows = 1 .. n - 1
  BY <1>1, LayoutFacts
<1>3. AtMostOne(s.windows) => AtMostOne(t.windows)
  BY <1>1, <1>2, WithoutFacts
<1>. QED  BY <1>1, <1>3 DEF From, Kept

LEMMA DoomedFacts ==
  ASSUME NEW s, Good(s), NEW n, n = Len(s.windows), NEW d, d = Doomed(s.windows)
  PROVE  d \in 1 .. n
<1>. DEFINE temps == {k \in DOMAIN s.windows : s.windows[k].temp}
<1>1. n \in Nat /\ n >= 1 /\ DOMAIN s.windows = 1 .. n
  BY LayoutFacts
<1>2. temps \subseteq Nat /\ temps \subseteq 1 .. n
  BY <1>1
<1>3. d = IF temps = {} THEN 1 ELSE Least(temps)
  BY DEF Doomed
<1>. HIDE DEF temps
<1>4. temps # {} => Least(temps) \in temps
  BY <1>2, LeastIn
<1>5. temps # {} => Least(temps) \in 1 .. n
  BY <1>2, <1>4
<1>. QED  BY <1>1, <1>3, <1>5

LEMMA ThinnedFacts ==
  ASSUME NEW s, Good(s), NEW n, n = Len(s.windows), NEW t, t = Thinned(s)
  PROVE  /\ From(t, s)
         /\ ~TooMany(s, s.windows) => t = s
         /\ TooMany(s, s.windows) /\ n > 1 => Len(t.windows) = n - 1
<1>1. n \in Nat /\ n >= 1
  BY LayoutFacts
<1>2. CASE TooMany(s, s.windows) /\ n > 1
  <2>. DEFINE d == Doomed(s.windows)
  <2>1. d \in 1 .. n
    BY DoomedFacts
  <2>2. t = DeleteWindow(s, d)
    BY <1>2 DEF Thinned
  <2>. HIDE DEF d
  <2>3. From(t, s) /\ Len(t.windows) = n - 1
    BY <1>2, <2>1, <2>2, DeletedFrom
  <2>. QED  BY <1>2, <2>3
<1>3. CASE ~(TooMany(s, s.windows) /\ n > 1)
  <2>1. t = s
    <3>1. CASE ~TooMany(s, s.windows)
      BY <3>1 DEF Thinned
    <3>2. CASE n = 1
      BY <3>2 DEF Thinned, DeleteWindow
    <3>3. n = 1 \/ n > 1
      <4>1. \A i \in Nat : i >= 1 => i = 1 \/ i > 1
        OBVIOUS
      <4>. QED  BY <1>1, <4>1, Zenon
    <3>. QED  BY <1>3, <3>1, <3>2, <3>3, Zenon
  <2>. QED  BY <1>3, <2>1 DEF From, Kept
<1>. QED  BY <1>2, <1>3

LEMMA FromFrom ==
  ASSUME NEW s, NEW t, NEW u, From(t, s), From(u, t)
  PROVE  From(u, s)
BY DEF From, Kept

LEMMA FewerFacts ==
  ASSUME NEW s, Good(s), NEW n, n = Len(s.windows), NEW t, t = Fewer(s)
  PROVE  /\ From(t, s) /\ Len(t.windows) \in 1 .. n
         /\ TooMany(t, t.windows) => Len(t.windows) = 1
         /\ t = s \/ TooMany(s, s.windows)
<1>. DEFINE S == {x \in Layouts : Good(x)}
            m == n - 1
            D == [k \in Nat |-> [x \in S |-> Thinned(x)]]
<1>1. n \in Nat /\ n >= 1 /\ m \in Nat /\ s \in S
  BY LayoutFacts DEF Good
<1>2. \A x \in S : Thinned(x) \in S
  <2>1. SUFFICES ASSUME NEW x \in S PROVE Thinned(x) \in S
    OBVIOUS
  <2>2. Good(Thinned(x))
    <3>. DEFINE y == Thinned(x)
    <3>1. Good(x)
      OBVIOUS
    <3>. HIDE DEF y
    <3>2. From(y, x)
      BY <3>1, ThinnedFacts DEF y
    <3>. QED  BY <3>2 DEF From, y
  <2>. QED  BY <2>2 DEF Good
<1>3. D \in [Nat -> [S -> S]]
  BY <1>2
<1>4. \A k \in 1 .. m : \A x \in S : D[k][x] = Thinned(x)
  BY <1>1
<1>. HIDE DEF D, S, m
<1>5. PICK g : Iteration(g, S, s, D, m)
  BY <1>1, <1>3, Iterated
<1>6. g \in [0 .. m -> S] /\ g[0] = s /\ \A k \in 1 .. m : g[k] = D[k][g[k - 1]]
  BY <1>5 DEF Iteration
<1>7. \A k \in 1 .. m : g[k] = Thinned(g[k - 1])
  <2>1. SUFFICES ASSUME NEW k \in 1 .. m PROVE g[k] = Thinned(g[k - 1])
    OBVIOUS
  <2>2. k - 1 \in 0 .. m /\ g[k - 1] \in S
    BY <1>1, <1>6
  <2>. QED  BY <1>4, <1>6, <2>2
<1>. DEFINE F(h) == [i \in 0 .. m |->
                       IF i = 0 THEN s
                       ELSE IF TooMany(h[i - 1], h[i - 1].windows)
                            THEN DeleteWindow(h[i - 1], Doomed(h[i - 1].windows))
                            ELSE h[i - 1]]
            f == CHOOSE h : h = F(h)
<1>8. g = F(g)
  <2>1. \A i \in 0 .. m : i # 0 => i \in 1 .. m
    BY <1>1
  <2>2. \A i \in 0 .. m :
          g[i] = IF i = 0 THEN s
                 ELSE IF TooMany(g[i - 1], g[i - 1].windows)
                      THEN DeleteWindow(g[i - 1], Doomed(g[i - 1].windows))
                      ELSE g[i - 1]
    BY <1>6, <1>7, <2>1 DEF Thinned
  <2>. QED  BY <1>6, <2>2
<1>9. t = f[m]
  BY DEF Fewer, m
<1>10. f = F(f)
  BY <1>8
<1>. HIDE DEF f
<1>11. /\ f[0] = s /\ \A i \in 1 .. m : f[i] = Thinned(f[i - 1])
  <2>1. \A i \in 1 .. m : i \in 0 .. m /\ i # 0
    BY <1>1
  <2>2. \A i \in 0 .. m :
          f[i] = IF i = 0 THEN s
                 ELSE IF TooMany(f[i - 1], f[i - 1].windows)
                      THEN DeleteWindow(f[i - 1], Doomed(f[i - 1].windows))
                      ELSE f[i - 1]
    BY <1>10
  <2>3. 0 \in 0 .. m
    BY <1>1
  <2>. QED  BY <2>1, <2>2, <2>3 DEF Thinned
<1>. HIDE DEF F
<1>. DEFINE Many(x) == TooMany(x, x.windows)
            T == {i \in 0 .. m :
                    /\ From(f[i], s) /\ Len(f[i].windows) \in 1 .. n
                    /\ Many(f[i]) => Len(f[i].windows) = n - i
                    /\ f[i] = s \/ Many(s)}
<1>12. 0 \in T
  <2>1. From(s, s)
    BY DEF From, Kept
  <2>. QED  BY <1>1, <1>11, <2>1
<1>13. ASSUME NEW i \in 1 .. m, i - 1 \in T PROVE i \in T
  <2>. DEFINE x == f[i - 1]
              y == f[i]
              l == Len(x.windows)
  <2>1. i \in 0 .. m /\ i \in Int
    BY <1>1
  <2>2. /\ From(x, s) /\ l \in 1 .. n
        /\ Many(x) => l = n - (i - 1)
        /\ x = s \/ Many(s)
    BY <1>13
  <2>3. y = Thinned(x)
    BY <1>11
  <2>4. l = Len(x.windows)
    OBVIOUS
  <2>. HIDE DEF x, y, l, Many
  <2>5. Good(x)
    BY <2>2 DEF From
  <2>6. /\ From(y, x)
        /\ ~Many(x) => y = x
        /\ Many(x) /\ l > 1 => Len(y.windows) = l - 1
    BY <2>3, <2>4, <2>5, ThinnedFacts DEF Many
  <2>7. From(y, s)
    <3>1. From(x, s)
      BY <2>2
    <3>2. From(y, x)
      BY <2>6
    <3>. QED  BY <3>1, <3>2, FromFrom
  <2>8. /\ Len(y.windows) \in 1 .. n
        /\ Many(y) => Len(y.windows) = n - i
        /\ y = s \/ Many(s)
    <3>1. CASE ~Many(x)
      <4>1. y = x
        BY <2>6, <3>1
      <4>. QED  BY <2>2, <2>4, <3>1, <4>1
    <3>2. CASE Many(x)
      <4>1. l = n - (i - 1)
        BY <2>2, <3>2
      <4>2. l > 1
        BY <1>1, <2>1, <4>1 DEF m
      <4>3. Len(y.windows) = l - 1
        BY <2>6, <3>2, <4>2
      <4>4. Len(y.windows) = n - i /\ n - i \in 1 .. n
        BY <1>1, <2>1, <4>1, <4>3 DEF m
      <4>. QED  BY <2>2, <3>2, <4>4
    <3>. QED  BY <3>1, <3>2
  <2>. QED  BY <2>1, <2>7, <2>8 DEF y
<1>. HIDE DEF T
<1>14. m \in T
  <2>1. m \in 0 .. m
    BY <1>1
  <2>. QED  BY <1>1, <1>12, <1>13, <2>1, InductionTo
<1>15. n - m = 1
  BY <1>1 DEF m
<1>. QED  BY <1>9, <1>14, <1>15 DEF T

-----------------------------------------------------------------------------
(* The distribution of a change of the size of the screen.                 *)

LEMMA RowsSameBut ==
  ASSUME NEW ws \in Seq(Window), NEW n, n = Len(ws), NEW k \in 1 .. n,
         NEW u \in Seq(Window), Len(u) = n, SameBut(u, ws, k)
  PROVE  Rows(u)[n] + ws[k].height = Rows(ws)[n] + u[k].height
<1>. DEFINE R == Rows(ws)
            Q == Rows(u)
            h == ws[k].height
            g == u[k].height
<1>1. /\ n \in Nat /\ \A j \in 1 .. n : ws[j].height \in Int /\ u[j].height \in Int
  <2>1. n \in Nat /\ \A j \in 1 .. n : ws[j] \in Window /\ u[j] \in Window
    BY ElementOfSeq, LenProperties
  <2>. QED  BY <2>1 DEF Window
<1>2. /\ R \in [0 .. n -> Int] /\ R[0] = 0
      /\ \A j \in 1 .. n : R[j] = R[j - 1] + ws[j].height + 1
  BY RowsFacts
<1>3. /\ Q \in [0 .. n -> Int] /\ Q[0] = 0
      /\ \A j \in 1 .. n : Q[j] = Q[j - 1] + u[j].height + 1
  BY RowsFacts
<1>4. h \in Int /\ g \in Int
  BY <1>1
<1>5. \A j \in 1 .. n : j # k => u[j].height = ws[j].height
  BY DEF SameBut
<1>. HIDE DEF R, Q
<1>. DEFINE T == {j \in 0 .. n : IF j >= k THEN Q[j] + h = R[j] + g ELSE Q[j] = R[j]}
<1>6. 0 \in T
  BY <1>1, <1>2, <1>3
<1>7. ASSUME NEW j \in 1 .. n, j - 1 \in T PROVE j \in T
  <2>1. j \in 0 .. n /\ j - 1 \in 0 .. n
    BY <1>1
  <2>. DEFINE r == R[j - 1]
              q == Q[j - 1]
              a == ws[j].height
              b == u[j].height
  <2>2. r \in Int /\ q \in Int /\ a \in Int /\ b \in Int
    BY <1>1, <1>2, <1>3, <2>1
  <2>3. R[j] = r + a + 1 /\ Q[j] = q + b + 1
    BY <1>2, <1>3
  <2>4. IF j - 1 >= k THEN q + h = r + g ELSE q = r
    BY <1>7
  <2>5. j # k => b = a
    BY <1>5
  <2>6. j = k => a = h /\ b = g
    OBVIOUS
  <2>. HIDE DEF r, q, a, b, h, g
  <2>7. CASE j < k
    <3>1. ~(j - 1 >= k) /\ ~(j >= k) /\ j # k
      BY <1>1, <2>7
    <3>. QED  BY <2>1, <2>2, <2>3, <2>4, <2>5, <3>1
  <2>8. CASE j = k
    <3>1. ~(j - 1 >= k) /\ j >= k
      BY <1>1, <2>8
    <3>2. q + b + 1 + h = r + a + 1 + g
      BY <1>4, <2>2, <2>4, <2>6, <2>8, <3>1
    <3>. QED  BY <2>1, <2>3, <3>1, <3>2
  <2>9. CASE j > k
    <3>1. j - 1 >= k /\ j >= k /\ j # k
      BY <1>1, <2>9
    <3>2. q + b + 1 + h = r + a + 1 + g
      BY <1>4, <2>2, <2>4, <2>5, <3>1
    <3>. QED  BY <2>1, <2>3, <3>1, <3>2
  <2>. QED  BY <1>1, <2>7, <2>8, <2>9
<1>. HIDE DEF T
<1>8. n \in T
  <2>1. n \in 0 .. n
    BY <1>1
  <2>. QED  BY <1>1, <1>6, <1>7, <2>1, InductionTo
<1>9. n >= k
  BY <1>1
<1>. QED  BY <1>8, <1>9 DEF T, R, Q

(* The state of the distribution over m windows.                           *)
Turns(m) == [windows : {ws \in Seq(Window) : Len(ws) = m}, each : Int, leftover : Int]

AllLined(ws) == \A k \in 1 .. Len(ws) : ws[k].height >= 1

(* What a turn gives to window k, it takes from what is left over. *)
GivenTo(t, d, k) ==
  LET w == t.windows[k]
      v == d.windows[k]
  IN /\ t.each = d.each
     /\ SameBut(t.windows, d.windows, k)
     /\ w.node = v.node /\ w.temp = v.temp /\ w.first_row = v.first_row
     /\ w.height + t.leftover = v.height + d.each + d.leftover
     /\ v.height >= 1 => w.height >= 1
     /\ v.height >= 1 /\ d.each >= 0 /\ d.leftover >= 0 => t.leftover = 0
     /\ v.height + d.each >= 1 /\ d.leftover = 0 => t.leftover = 0

LEMMA GivenFacts ==
  ASSUME NEW m \in Nat, NEW d \in Turns(m), NEW k \in 1 .. m, NEW t, t = Given(d, k)
  PROVE  t \in Turns(m) /\ GivenTo(t, d, k)
<1>. DEFINE ws == d.windows
            height == ws[k].height
            e == d.each
            l == d.leftover
            taken == height + e >= 1
            h == IF taken THEN height + e ELSE height
            over == IF taken THEN l ELSE l + e
            fits == over # 0 /\ h + over >= 1
            a == IF fits THEN h + over ELSE h
            b == IF fits THEN 0 ELSE over
            u == Sized(ws, k, a)
<1>1. /\ ws \in Seq(Window) /\ Len(ws) = m /\ e \in Int /\ l \in Int /\ ws[k] \in Window
  <2>1. ws \in Seq(Window) /\ Len(ws) = m /\ e \in Int /\ l \in Int
    BY DEF Turns
  <2>. QED  BY <2>1, ElementOfSeq
<1>2. height \in Int
  BY <1>1 DEF Window
<1>3. t = [d EXCEPT !.windows = u, !.leftover = b]
  BY DEF Given, Sized, Turns
<1>4. d.windows = ws /\ d.each = e /\ d.leftover = l
  OBVIOUS
<1>. HIDE DEF ws, e, l
<1>5. a \in Int /\ b \in Int /\ a + b = height + e + l
  <2>. HIDE DEF height
  <2>. QED  BY <1>1, <1>2
<1>6. height >= 1 => a >= 1
  <2>. HIDE DEF height
  <2>. QED  BY <1>1, <1>2
<1>7. /\ height >= 1 /\ e >= 0 /\ l >= 0 => b = 0
      /\ height + e >= 1 /\ l = 0 => b = 0
  <2>. HIDE DEF height
  <2>. QED  BY <1>1, <1>2
<1>. HIDE DEF height, a, b, u
<1>8. /\ u \in Seq(Window) /\ Len(u) = m
      /\ u[k].height = a /\ u[k].first_row = ws[k].first_row
      /\ u[k].node = ws[k].node /\ u[k].temp = ws[k].temp
      /\ SameBut(u, ws, k)
  <2>1. ws \in Seq(Window) /\ m = Len(ws) /\ a \in Int /\ u = Sized(ws, k, a)
    BY <1>1, <1>5 DEF u
  <2>. QED  BY <2>1, HeightSet
<1>9. /\ t \in Turns(m) /\ t.windows = u /\ t.each = e /\ t.leftover = b
  BY <1>3, <1>4, <1>5, <1>8 DEF Turns
<1>. QED  BY <1>4, <1>5, <1>6, <1>7, <1>8, <1>9 DEF height, GivenTo

(* The state after i turns, for the windows ws, each turn of e lines and   *)
(* l lines left over at first.                                             *)
Turned(d, ws, i, e, l) ==
  /\ d \in Turns(Len(ws)) /\ d.each = e
  /\ SameNodes(d.windows, ws)
  /\ d.windows[1].first_row = ws[1].first_row
  /\ Rows(d.windows)[Len(ws)] + d.leftover = Rows(ws)[Len(ws)] + l + e * i
  /\ AllLined(ws) => AllLined(d.windows)
  /\ AllLined(ws) /\ e >= 0 /\ l >= 0 => d.leftover >= 0 /\ (i >= 1 => d.leftover = 0)
  /\ i = 0 => d.windows = ws /\ d.leftover = l
  /\ i = 1 /\ Len(ws) = 1 /\ ws[1].height + e >= 1 /\ l = 0 => d.leftover = 0

LEMMA TurnedOn ==
  ASSUME NEW ws \in Seq(Window), NEW m, m = Len(ws), NEW e \in Int, NEW l \in Int,
         NEW i \in Nat, NEW d, Turned(d, ws, i, e, l), NEW k \in 1 .. m,
         NEW t, t = Given(d, k)
  PROVE  Turned(t, ws, i + 1, e, l)
<1>1. m \in Nat
  BY LenProperties
<1>2. /\ d \in Turns(m) /\ d.each = e
      /\ SameNodes(d.windows, ws)
      /\ d.windows[1].first_row = ws[1].first_row
      /\ Rows(d.windows)[m] + d.leftover = Rows(ws)[m] + l + e * i
      /\ AllLined(ws) => AllLined(d.windows)
      /\ AllLined(ws) /\ e >= 0 /\ l >= 0 => d.leftover >= 0 /\ (i >= 1 => d.leftover = 0)
      /\ i = 0 => d.windows = ws /\ d.leftover = l
  BY DEF Turned
<1>3. t \in Turns(m) /\ GivenTo(t, d, k)
  BY <1>1, <1>2, GivenFacts
<1>. DEFINE us == d.windows
            vs == t.windows
            h == us[k].height
            g == vs[k].height
            p == d.leftover
            q == t.leftover
<1>4. /\ us \in Seq(Window) /\ Len(us) = m /\ p \in Int
      /\ vs \in Seq(Window) /\ Len(vs) = m /\ q \in Int
  BY <1>2, <1>3 DEF Turns
<1>5. /\ t.each = e /\ SameBut(vs, us, k)
      /\ vs[k].node = us[k].node /\ vs[k].temp = us[k].temp /\ vs[k].first_row = us[k].first_row
      /\ g + q = h + e + p
      /\ h >= 1 => g >= 1
      /\ h >= 1 /\ e >= 0 /\ p >= 0 => q = 0
      /\ h + e >= 1 /\ p = 0 => q = 0
  BY <1>2, <1>3 DEF GivenTo
<1>6. h \in Int /\ g \in Int
  <2>1. us[k] \in Window /\ vs[k] \in Window
    BY <1>4, ElementOfSeq
  <2>. QED  BY <2>1 DEF Window
<1>. DEFINE Q == Rows(us)[m]
            R == Rows(vs)[m]
            B == Rows(ws)[m]
            E == e * i
<1>7. Q \in Int /\ R \in Int /\ B \in Int /\ R + h = Q + g
  <2>1. m \in 0 .. m
    BY <1>1
  <2>2. Rows(us) \in [0 .. m -> Int] /\ Rows(vs) \in [0 .. m -> Int] /\ Rows(ws) \in [0 .. m -> Int]
    BY <1>4, RowsFacts
  <2>3. R + h = Q + g
    BY <1>4, <1>5, RowsSameBut
  <2>. QED  BY <2>1, <2>2, <2>3
<1>8. Q + p = B + l + E
  BY <1>2
<1>9. E \in Int /\ e * (i + 1) = E + e
  BY Times
<1>10. SameNodes(vs, ws)
  BY <1>1, <1>2, <1>4, <1>5 DEF SameNodes, SameBut
<1>11. vs[1].first_row = ws[1].first_row
  <2>1. CASE k = 1
    BY <1>2, <1>5, <2>1
  <2>2. CASE k # 1
    <3>1. 1 \in 1 .. Len(us)
      BY <1>1, <1>4
    <3>2. vs[1] = us[1]
      BY <1>5, <2>2, <3>1 DEF SameBut
    <3>. QED  BY <1>2, <3>2
  <2>. QED  BY <2>1, <2>2
<1>12. ASSUME AllLined(ws) PROVE AllLined(vs) /\ h >= 1
  <2>1. \A j \in 1 .. m : us[j].height >= 1
    BY <1>2, <1>4, <1>12 DEF AllLined
  <2>2. \A j \in 1 .. m : j # k => vs[j] = us[j]
    BY <1>4, <1>5 DEF SameBut
  <2>. QED  BY <1>4, <1>5, <2>1, <2>2 DEF AllLined
<1>16. ASSUME i = 0, m = 1, ws[1].height + e >= 1, l = 0 PROVE q = 0
  <2>1. k = 1 /\ us = ws /\ p = 0
    BY <1>2, <1>16
  <2>. QED  BY <1>5, <1>16, <2>1
<1>. HIDE DEF us, vs, h, g, p, q, Q, R, B, E
<1>17. i + 1 # 0 /\ (i + 1 = 1 => i = 0)
  OBVIOUS
<1>13. R + q = B + l + (E + e)
  <2>1. R + q = (Q + g - h) + q
    BY <1>4, <1>6, <1>7
  <2>2. (Q + g - h) + q = Q + (h + e + p) - h
    BY <1>4, <1>5, <1>6, <1>7
  <2>3. Q + (h + e + p) - h = (Q + p) + e
    BY <1>4, <1>6, <1>7
  <2>4. (Q + p) + e = B + l + (E + e)
    BY <1>7, <1>8, <1>9
  <2>. QED  BY <2>1, <2>2, <2>3, <2>4
<1>14. AllLined(ws) /\ e >= 0 /\ l >= 0 => q = 0
  BY <1>2, <1>5, <1>12 DEF p
<1>15. q = 0 => q >= 0
  OBVIOUS
<1>. QED  BY <1>3, <1>5, <1>9, <1>10, <1>11, <1>12, <1>13, <1>14, <1>15, <1>16, <1>17
           DEF Turned, vs, q, R, B

LEMMA SharedFacts ==
  ASSUME NEW s, Good(s), NEW m, m = Len(s.windows), NEW delta \in Int, NEW numwins \in Int,
         numwins > 0, NEW e, e = Quotient(delta, numwins), NEW l, l = delta - e * numwins,
         NEW t, t = Shared(s, delta, numwins)
  PROVE  e \in Int /\ l \in Int /\ Turned(t, s.windows, m, e, l)
<1>. DEFINE ws == s.windows
            start == s.screen % m
            S == Turns(m)
            at(k) == ((start + k - 1) % m) + 1
            D == [k \in Nat |-> [x \in S |-> Given(x, at(k))]]
            c == [windows |-> ws, each |-> e, leftover |-> l]
<1>1. /\ ws \in Seq(Window) /\ m \in Nat /\ m >= 1 /\ m = Len(ws) /\ s.screen \in Int
      /\ ws \in Chains
  <2>1. ws \in Chains /\ m \in Nat /\ m >= 1 /\ s.screen \in Int
    BY LayoutFacts
  <2>. QED  BY <2>1, ChainFacts
<1>2. e \in Int /\ l \in Int
  <2>1. e \in Int
    <3>1. delta \div numwins \in Int /\ (-delta) \div numwins \in Int
      <4>1. -delta \in Int
        OBVIOUS
      <4>. QED  BY <4>1, Division
    <3>. QED  BY <3>1 DEF Quotient
  <2>2. e * numwins \in Int
    BY <2>1, Times
  <2>. QED  BY <2>1, <2>2
<1>3. c \in S /\ c.windows = ws /\ c.each = e /\ c.leftover = l
  BY <1>1, <1>2 DEF Turns
<1>4. \A k \in Nat : at(k) \in 1 .. m
  <2>1. SUFFICES ASSUME NEW k \in Nat PROVE at(k) \in 1 .. m
    OBVIOUS
  <2>2. start \in Int
    BY <1>1, Division
  <2>. DEFINE j == start + k - 1
  <2>3. j \in Int
    <3>. HIDE DEF start
    <3>. QED  BY <2>2
  <2>. HIDE DEF j
  <2>4. j % m \in 0 .. m - 1
    <3>1. m \in Int /\ m > 0
      BY <1>1
    <3>. QED  BY <2>3, <3>1, Division
  <2>5. (j % m) + 1 \in 1 .. m
    <3>. DEFINE r == j % m
    <3>1. r \in 0 .. m - 1
      BY <2>4
    <3>. HIDE DEF r
    <3>2. r + 1 \in 1 .. m
      BY <1>1, <3>1
    <3>. QED  BY <3>2 DEF r
  <2>. QED  BY <2>5 DEF j
<1>. HIDE DEF at, c, ws
<1>5. \A k \in Nat : \A x \in S : Given(x, at(k)) \in S
  <2>1. SUFFICES ASSUME NEW k \in Nat, NEW x \in S PROVE Given(x, at(k)) \in S
    OBVIOUS
  <2>. DEFINE y == Given(x, at(k))
  <2>2. at(k) \in 1 .. m
    BY <1>4
  <2>. HIDE DEF y
  <2>3. y \in Turns(m)
    BY <1>1, <2>2, GivenFacts DEF y
  <2>. QED  BY <2>3 DEF y
<1>6. D \in [Nat -> [S -> S]] /\ \A k \in Nat : \A x \in S : D[k][x] = Given(x, at(k))
  BY <1>5
<1>. HIDE DEF D, S
<1>7. PICK g : Iteration(g, S, c, D, m)
  BY <1>1, <1>3, <1>6, Iterated
<1>8. g \in [0 .. m -> S] /\ g[0] = c /\ \A k \in 1 .. m : g[k] = D[k][g[k - 1]]
  BY <1>7 DEF Iteration
<1>9. \A k \in 1 .. m : g[k] = Given(g[k - 1], at(k))
  <2>1. SUFFICES ASSUME NEW k \in 1 .. m PROVE g[k] = Given(g[k - 1], at(k))
    OBVIOUS
  <2>2. k - 1 \in 0 .. m /\ g[k - 1] \in S /\ k \in Nat
    BY <1>1, <1>8
  <2>. QED  BY <1>6, <1>8, <2>2
<1>. DEFINE F(h) == [i \in 0 .. m |-> IF i = 0 THEN c ELSE Given(h[i - 1], at(i))]
            f == CHOOSE h : h = F(h)
<1>10. t = f[m]
  BY DEF Shared, at, c, ws
<1>11. g = F(g)
  <2>1. \A i \in 0 .. m : i # 0 => i \in 1 .. m
    BY <1>1
  <2>2. \A i \in 0 .. m : g[i] = IF i = 0 THEN c ELSE Given(g[i - 1], at(i))
    BY <1>8, <1>9, <2>1
  <2>. QED  BY <1>8, <2>2
<1>12. f = F(f)
  BY <1>11
<1>. HIDE DEF f
<1>13. f[0] = c /\ \A i \in 1 .. m : f[i] = Given(f[i - 1], at(i))
  <2>1. \A i \in 1 .. m : i \in 0 .. m /\ i # 0
    BY <1>1
  <2>2. \A i \in 0 .. m : f[i] = IF i = 0 THEN c ELSE Given(f[i - 1], at(i))
    BY <1>12
  <2>3. 0 \in 0 .. m
    BY <1>1
  <2>. QED  BY <2>1, <2>2, <2>3
<1>. HIDE DEF F
<1>. DEFINE T == {i \in 0 .. m : Turned(f[i], ws, i, e, l)}
<1>14. 0 \in T
  <2>1. Turned(c, ws, 0, e, l)
    <3>1. SameNodes(c.windows, ws) /\ (AllLined(ws) => AllLined(c.windows))
      BY <1>3 DEF SameNodes
    <3>2. c \in Turns(Len(ws)) /\ c.each = e /\ c.windows[1].first_row = ws[1].first_row
      BY <1>1, <1>3 DEF S
    <3>3. Rows(c.windows)[Len(ws)] + c.leftover = Rows(ws)[Len(ws)] + l + e * 0
      <4>1. e * 0 = 0
        BY <1>2
      <4>2. Rows(ws)[m] \in Int
        <5>1. Rows(ws) \in [0 .. m -> Int] /\ m \in 0 .. m
          BY <1>1, RowsFacts
        <5>. QED  BY <5>1
      <4>3. Rows(ws)[m] + l = Rows(ws)[m] + l + 0
        BY <1>2, <4>2
      <4>. QED  BY <1>1, <1>3, <4>1, <4>3
    <3>4. e >= 0 /\ l >= 0 => c.leftover >= 0 /\ (0 >= 1 => c.leftover = 0)
      BY <1>3
    <3>. QED  BY <1>3, <3>1, <3>2, <3>3, <3>4 DEF Turned
  <2>. QED  BY <1>1, <1>13, <2>1
<1>15. ASSUME NEW i \in 1 .. m, i - 1 \in T PROVE i \in T
  <2>. DEFINE d == f[i - 1]
              u == f[i]
              k == at(i)
              j == i - 1
  <2>1. i \in 0 .. m /\ j \in Nat /\ j + 1 = i /\ k \in 1 .. m
    BY <1>1, <1>4
  <2>2. Turned(d, ws, j, e, l)
    BY <1>15
  <2>3. u = Given(d, k)
    BY <1>13
  <2>. HIDE DEF d, u, k, j
  <2>4. Turned(u, ws, j + 1, e, l)
    BY <1>1, <1>2, <2>1, <2>2, <2>3, TurnedOn
  <2>. QED  BY <2>1, <2>4 DEF u
<1>. HIDE DEF T
<1>16. m \in T
  <2>1. m \in 0 .. m
    BY <1>1
  <2>. QED  BY <1>1, <1>14, <1>15, <2>1, InductionTo
<1>. QED  BY <1>2, <1>10, <1>16 DEF T, ws

LEMMA EvenFacts ==
  ASSUME NEW ws \in Chains, NEW m, m = Len(ws), m > 1, NEW avail \in Int, avail >= m,
         NEW t, t = Even(ws, avail)
  PROVE  t \in Chains /\ SameNodes(t, ws)
<1>. DEFINE each == avail \div m
            rest == avail - each * m
            u == [k \in DOMAIN ws |->
                    [ws[k] EXCEPT !.height = IF k = m THEN each + rest ELSE each]]
<1>1. /\ ws \in Seq(Window) /\ m \in Nat /\ DOMAIN ws = 1 .. m
      /\ \A k \in 1 .. m : ws[k] \in Window
      /\ ws[1].first_row = 0
  BY ChainFacts
<1>2. t = Restacked(u)
  BY DEF Even
<1>3. each \in Int /\ each >= 1 /\ rest \in Int /\ rest >= 0
  <2>. DEFINE q == Quotient(avail, m)
  <2>1. q = each
    BY <1>1 DEF Quotient
  <2>. HIDE DEF q
  <2>2. q \in Int /\ q >= 1 /\ q * m \in Int /\ avail - q * m >= 0
    BY <1>1, Fair DEF q
  <2>3. rest = avail - q * m
    BY <2>1
  <2>. HIDE DEF each, rest
  <2>. QED  BY <2>1, <2>2, <2>3
<1>. HIDE DEF each, rest
<1>4. ASSUME NEW k \in 1 .. m
      PROVE  /\ u[k] \in Window /\ u[k].height >= 1 /\ u[k].first_row = ws[k].first_row
             /\ u[k].node = ws[k].node /\ u[k].temp = ws[k].temp
  <2>. DEFINE h == IF k = m THEN each + rest ELSE each
  <2>1. h \in Int /\ h >= 1 /\ ws[k] \in Window
    BY <1>1, <1>3
  <2>2. u[k] = [ws[k] EXCEPT !.height = h]
    BY <1>1
  <2>. HIDE DEF h, u
  <2>3. /\ u[k] \in Window /\ u[k].height = h /\ u[k].first_row = ws[k].first_row
        /\ u[k].node = ws[k].node /\ u[k].temp = ws[k].temp
    BY <2>1, <2>2, WindowSized
  <2>. QED  BY <2>1, <2>3
<1>5. u \in Seq(Window) /\ Len(u) = m
  <2>1. u \in [1 .. m -> Window]
    BY <1>1, <1>4
  <2>. HIDE DEF u
  <2>. QED  BY <1>1, <2>1, Mapped
<1>. HIDE DEF u
<1>6. 1 \in 1 .. m
  BY <1>1
<1>7. t \in Chains /\ Len(t) = m /\ SameWindows(t, u)
  <2>1. u[1].first_row = 0 /\ m >= 1 /\ m = Len(u)
    BY <1>1, <1>4, <1>5, <1>6
  <2>2. \A k \in 1 .. m : u[k].height >= 1
    BY <1>4
  <2>. QED  BY <1>2, <1>5, <2>1, <2>2, RestackedFacts
<1>8. SameNodes(t, ws)
  BY <1>4, <1>5, <1>7 DEF SameWindows, SameNodes
<1>. QED  BY <1>7, <1>8

(* No window is left with less than no line. *)
Clamped(ws) ==
  [k \in 1 .. Len(ws) |->
     [ws[k] EXCEPT !.height = IF ws[k].height < 0 THEN 0 ELSE ws[k].height]]

LEMMA ClampedFacts ==
  ASSUME NEW ws \in Chains, NEW m, m = Len(ws), NEW t, t = Clamped(ws)
  PROVE  /\ t \in Chains /\ SameNodes(t, ws)
         /\ m > 1 \/ ws[1].height >= 0 => t = ws
<1>1. /\ ws \in Seq(Window) /\ m \in Nat /\ m >= 1 /\ DOMAIN ws = 1 .. m
      /\ \A k \in 1 .. m : ws[k] \in Window /\ ws[k].height \in Int
      /\ ws[1].first_row = 0
      /\ m > 1 => \A k \in 1 .. m : ws[k].height >= 1
  BY ChainFacts
<1>2. CASE \A k \in 1 .. m : ws[k].height >= 0
  <2>1. \A w \in Window : [w EXCEPT !.height = w.height] = w
    BY DEF Window
  <2>2. \A k \in 1 .. m : t[k] = ws[k]
    <3>1. SUFFICES ASSUME NEW k \in 1 .. m PROVE t[k] = ws[k]
      OBVIOUS
    <3>2. ~(ws[k].height < 0)
      BY <1>1, <1>2
    <3>3. t[k] = [ws[k] EXCEPT !.height = ws[k].height]
      BY <3>2 DEF Clamped
    <3>. QED  BY <1>1, <2>1, <3>3
  <2>3. t = [k \in 1 .. m |-> ws[k]]
    BY <1>1, <2>2 DEF Clamped
  <2>4. ws \in [1 .. m -> Window]
    BY <1>1, LenProperties
  <2>5. t = ws
    BY <2>3, <2>4
  <2>. QED  BY <2>5 DEF SameNodes
<1>3. CASE m = 1
  <2>. DEFINE h == IF ws[1].height < 0 THEN 0 ELSE ws[1].height
  <2>1. 1 \in 1 .. m /\ ws[1] \in Window /\ h \in Int
    BY <1>1
  <2>2. t[1] = [ws[1] EXCEPT !.height = h]
    BY <2>1 DEF Clamped
  <2>. HIDE DEF h
  <2>3. /\ t[1] \in Window /\ t[1].first_row = ws[1].first_row
        /\ t[1].node = ws[1].node /\ t[1].temp = ws[1].temp
    BY <2>1, <2>2, WindowSized
  <2>4. \A k \in 1 .. m : k = 1
    BY <1>3
  <2>5. t \in [1 .. m -> Window]
    BY <2>3, <2>4 DEF Clamped
  <2>6. t \in Seq(Window) /\ Len(t) = m
    BY <1>1, <2>5, Mapped
  <2>7. t \in Chains
    <3>1. m >= 1 /\ ~(m > 1) /\ \A k \in 2 .. m : FALSE
      BY <1>3
    <3>. QED  BY <1>1, <2>3, <2>6, <3>1, IsChain
  <2>8. SameNodes(t, ws)
    BY <2>3, <2>4, <2>6 DEF SameNodes
  <2>9. \A k \in 1 .. m : ws[1].height >= 0 => ws[k].height >= 0
    BY <2>4
  <2>10. ws[1].height >= 0 => t = ws
    <3>1. SUFFICES ASSUME ws[1].height >= 0 PROVE t = ws
      OBVIOUS
    <3>2. \A w \in Window : [w EXCEPT !.height = w.height] = w
      BY DEF Window
    <3>3. h = ws[1].height
      BY <1>1, <2>1, <3>1 DEF h
    <3>4. t[1] = ws[1]
      BY <2>1, <2>2, <3>2, <3>3
    <3>5. t = [k \in 1 .. m |-> ws[k]] /\ ws \in [1 .. m -> Window]
      BY <1>1, <2>4, <2>5, <3>4, LenProperties
    <3>. QED  BY <3>5
  <2>. QED  BY <1>3, <2>7, <2>8, <2>10
<1>4. m = 1 \/ \A k \in 1 .. m : ws[k].height >= 0
  BY <1>1
<1>. QED  BY <1>2, <1>3, <1>4

(* The share of more lines: nothing when there are not enough. *)
LEMMA More ==
  ASSUME NEW delta \in Int, delta > 0, NEW n \in Int, n > 0, NEW e, e = Quotient(delta, n)
  PROVE  e \in Int /\ e >= 0 /\ e * n \in Int /\ delta - e * n >= 0 /\ (delta < n => e = 0)
<1>. DEFINE q == delta \div n
            r == delta % n
<1>1. q \in Int /\ r \in 0 .. n - 1 /\ delta = n * q + r
  BY Division
<1>2. e = q
  BY DEF Quotient
<1>. HIDE DEF q, r
<1>3. n * q \in Int /\ q * n = n * q
  BY <1>1
<1>4. q >= 0
  <2>1. SUFFICES ASSUME q <= -1 PROVE FALSE
    BY <1>1
  <2>2. n * q <= -n
    BY <1>1, <2>1
  <2>. DEFINE p == n * q
  <2>3. p \in Int /\ p <= -n /\ delta = p + r
    BY <1>1, <1>3, <2>2
  <2>. HIDE DEF p
  <2>. QED  BY <1>1, <2>3
<1>5. delta - n * q >= 0
  <2>. DEFINE p == n * q
  <2>1. p \in Int /\ delta = p + r
    BY <1>1, <1>3
  <2>. HIDE DEF p
  <2>2. delta - p >= 0
    BY <1>1, <2>1
  <2>. QED  BY <2>2 DEF p
<1>6. ASSUME delta < n PROVE q = 0
  <2>1. SUFFICES ASSUME q >= 1 PROVE FALSE
    BY <1>1, <1>4
  <2>2. n * q >= n
    BY <1>1, <2>1
  <2>. DEFINE p == n * q
  <2>3. p \in Int /\ p >= n /\ delta = p + r
    BY <1>1, <1>3, <2>2
  <2>. HIDE DEF p
  <2>. QED  BY <1>1, <1>6, <2>3
<1>. QED  BY <1>1, <1>2, <1>3, <1>4, <1>5, <1>6

(* More lines are given out to the last. *)
LEMMA SharedOut ==
  ASSUME NEW s, Good(s), NEW m, m = Len(s.windows), NEW delta \in Int, delta > 0,
         NEW n \in Int, n > 0, n = m \/ delta < n,
         AllLined(s.windows) \/ (m = 1 /\ n = 1 /\ s.windows[1].height + delta >= 1),
         NEW t, t = Shared(s, delta, n)
  PROVE  Rows(t.windows)[m] = Bottom(s.windows) + delta /\ t.each >= 0
<1>. DEFINE ws == s.windows
            e == Quotient(delta, n)
            l == delta - e * n
            R == Rows(t.windows)[m]
            B == Rows(ws)[m]
<1>1. ws \in Chains /\ ws \in Seq(Window) /\ m \in Nat /\ m >= 1 /\ Bottom(ws) = B
  <2>1. ws \in Chains /\ m \in Nat /\ m >= 1
    BY LayoutFacts
  <2>. QED  BY <2>1, ChainRows, ChainFacts
<1>. HIDE DEF e, l
<1>2. e \in Int /\ l \in Int /\ Turned(t, ws, m, e, l)
  BY SharedFacts DEF e, l
<1>3. /\ t.each = e /\ R + t.leftover = B + l + e * m /\ t \in Turns(m)
      /\ AllLined(ws) /\ e >= 0 /\ l >= 0 => t.leftover >= 0 /\ (m >= 1 => t.leftover = 0)
      /\ m = 1 /\ ws[1].height + e >= 1 /\ l = 0 => t.leftover = 0
  BY <1>2 DEF Turned
<1>4. e >= 0 /\ e * n \in Int /\ l >= 0 /\ (delta < n => e = 0)
  BY More DEF e, l
<1>5. l + e * m = delta
  <2>1. CASE n = m
    <3>. DEFINE p == e * m
    <3>1. p \in Int /\ l = delta - p
      BY <1>4, <2>1 DEF l
    <3>. HIDE DEF p
    <3>2. l + p = delta
      BY <3>1
    <3>. QED  BY <3>2 DEF p
  <2>2. CASE delta < n
    <3>1. e = 0
      BY <1>4, <2>2
    <3>2. 0 * m = 0 /\ 0 * n = 0
      BY <1>1
    <3>. QED  BY <3>1, <3>2 DEF l
  <2>. QED  BY <2>1, <2>2
<1>6. t.leftover = 0
  <2>1. CASE AllLined(ws)
    BY <1>1, <1>3, <1>4, <2>1
  <2>2. CASE m = 1 /\ n = 1 /\ ws[1].height + delta >= 1
    <3>1. e * 1 = e
      BY <1>2
    <3>2. e * m = e /\ e * n = e
      BY <2>2, <3>1
    <3>3. l = delta - e
      BY <3>2 DEF l
    <3>4. e = delta
      <4>1. e = delta \div 1
        BY <2>2 DEF e, Quotient
      <4>2. \A x \in Int : x \div 1 = x
        OBVIOUS
      <4>. QED  BY <4>1, <4>2
    <3>5. l = 0
      BY <3>3, <3>4
    <3>. QED  BY <1>3, <2>2, <3>4, <3>5
  <2>. QED  BY <2>1, <2>2
<1>7. R \in Int /\ B \in Int
  <2>1. m \in 0 .. m
    BY <1>1
  <2>2. t.windows \in Seq(Window) /\ Len(t.windows) = m
    BY <1>3 DEF Turns
  <2>3. Rows(t.windows) \in [0 .. m -> Int] /\ Rows(ws) \in [0 .. m -> Int]
    BY <1>1, <2>2, RowsFacts
  <2>. QED  BY <2>1, <2>3
<1>8. R = B + delta
  <2>. DEFINE p == e * m
  <2>1. p \in Int
    BY <1>1, <1>2, Times
  <2>2. R + 0 = B + l + p /\ l + p = delta
    BY <1>3, <1>5, <1>6
  <2>. HIDE DEF R, B, p
  <2>. QED  BY <1>2, <1>7, <2>1, <2>2
<1>. QED  BY <1>1, <1>3, <1>4, <1>8

-----------------------------------------------------------------------------
(* A screen of another height.                                             *)

(* As many windows, with the same nodes. *)
ShowsSame(u, ws) == Len(u) = Len(ws) /\ \A j \in 1 .. Len(ws) : u[j].node = ws[j].node

LEMMA SameShown ==
  ASSUME NEW ws \in Chains, NEW u \in Chains, ShowsSame(u, ws)
  PROVE  Shown(u) = Shown(ws) /\ (AtMostOne(ws) => AtMostOne(u))
<1>1. DOMAIN ws = 1 .. Len(ws) /\ DOMAIN u = 1 .. Len(ws)
  BY ChainFacts DEF ShowsSame
<1>2. Shown(u) = Shown(ws)
  BY <1>1 DEF Shown, ShowsSame
<1>. QED  BY <1>2 DEF AtMostOne

Resized(t, s, height) ==
  /\ Sound(t) /\ t.screen = height
  /\ AtMostOne(s.windows) => AtMostOne(t.windows)
  /\ Room(s) /\ Bottom(s.windows) + 1 = s.screen /\ height > s.screen
     => Bottom(t.windows) + 1 = height

(* One window is left, and has the screen to itself. *)
LEMMA OneLeft ==
  ASSUME NEW s, Good(s), Len(s.windows) = 1, NEW height \in Int, s.screen = height,
         NEW t, t = WithWindows(s, Sized(s.windows, 1, height - 2))
  PROVE  /\ Sound(t) /\ t.screen = height /\ Bottom(t.windows) + 1 = height
         /\ AtMostOne(s.windows) => AtMostOne(t.windows)
<1>. DEFINE ws == s.windows
            n == Len(ws)
            u == Sized(ws, 1, height - 2)
<1>1. /\ s \in Layouts /\ ws \in Chains /\ n = 1 /\ DOMAIN ws = 1 .. n /\ n >= 1
      /\ s.active \in 1 .. n /\ s.held \in 0 .. n
  BY LayoutFacts
<1>2. ws \in Seq(Window) /\ ws[1].first_row = 0
  BY <1>1, ChainFacts
<1>3. t = WithWindows(s, u) /\ u = Sized(ws, 1, height - 2) /\ ws = s.windows /\ n = Len(ws)
  OBVIOUS
<1>. HIDE DEF ws, n, u
<1>4. /\ u \in Seq(Window) /\ Len(u) = n /\ u[1].height = height - 2
      /\ u[1].first_row = ws[1].first_row /\ u[1].node = ws[1].node
  <2>1. 1 \in 1 .. n /\ height - 2 \in Int
    BY <1>1
  <2>. QED  BY <1>2, <1>3, <2>1, HeightSet
<1>5. u \in Chains
  <2>1. ~(n > 1) /\ \A k \in 2 .. n : FALSE
    BY <1>1
  <2>. QED  BY <1>1, <1>2, <1>4, <2>1, IsChain
<1>6. Bottom(u) + 1 = height
  <2>1. Bottom(u) = 0 + (height - 2) + 1
    BY <1>1, <1>2, <1>4 DEF Bottom
  <2>. QED  BY <2>1
<1>7. /\ t \in Layouts /\ t.windows = u /\ t.screen = s.screen
      /\ t.active = s.active /\ t.held = s.held
  BY <1>1, <1>3, <1>5 DEF WithWindows, Layouts
<1>8. Sound(t)
  <2>1. Len(t.windows) = 1
    BY <1>1, <1>4, <1>7
  <2>2. Good(t)
    BY <1>1, <1>7, <2>1 DEF Good
  <2>3. ~(Len(t.windows) > 1)
    <3>1. ~(1 > 1)
      OBVIOUS
    <3>. QED  BY <2>1, <3>1, Zenon
  <2>. QED  BY <2>2, <2>3 DEF Sound, Room
<1>9. AtMostOne(ws) => AtMostOne(u)
  <2>1. \A j \in 1 .. n : u[j].node = ws[j].node
    BY <1>1, <1>4
  <2>2. ShowsSame(u, ws)
    BY <1>3, <1>4, <2>1 DEF ShowsSame
  <2>. QED  BY <1>1, <1>5, <2>2, SameShown
<1>. QED  BY <1>3, <1>6, <1>7, <1>8, <1>9

LEMMA NewScreenSizeFacts ==
  ASSUME NEW s, Good(s), NEW height \in Int, height # s.screen,
         NEW t, t = NewScreenSize(s, height)
  PROVE  Resized(t, s, height)
<1>. DEFINE n == Len(s.windows)
            delta == height - s.screen
            r == [s EXCEPT !.screen = height]
            few == Fewer(r)
            shared == Shared(few, delta, n)
            us == shared.windows
            ws == Restacked(us)
            m == Len(ws)
            avail == height - (m + ECHO_AREA_HEIGHT)
            outside == \E k \in 1 .. m : ws[k].height < WINDOW_MIN_HEIGHT \/ ws[k].height > avail
            evened == shared.each < 0 /\ ws[1].height # 0 /\ m > 1 /\ outside
            settled == IF evened THEN Even(ws, avail) ELSE ws
            clamped == [k \in 1 .. m |-> [settled[k] EXCEPT !.height = IF settled[k].height < 0 THEN 0 ELSE settled[k].height]]
<1>1. /\ s \in Layouts /\ s.windows \in Chains /\ n \in Nat /\ n >= 1 /\ s.screen \in Int
      /\ s.active \in 1 .. n /\ s.held \in 0 .. n /\ Bottom(s.windows) \in Int
  BY LayoutFacts
<1>2. delta \in Int /\ delta # 0
  BY <1>1
<1>3. /\ r \in Layouts /\ r.windows = s.windows /\ r.active = s.active
      /\ r.held = s.held /\ r.screen = height
  BY <1>1 DEF Layouts
<1>4. Good(r)
  BY <1>1, <1>3 DEF Good
<1>5. t = IF TooMany(few, few.windows)
          THEN [few EXCEPT !.windows[1].height = height - 2]
          ELSE [few EXCEPT !.windows = clamped]
  <2>1. ~(delta = 0)
    BY <1>2
  <2>. QED  BY <2>1 DEF NewScreenSize
<1>6. /\ From(few, r) /\ Len(few.windows) \in 1 .. n
      /\ TooMany(few, few.windows) => Len(few.windows) = 1
      /\ few = r \/ TooMany(r, r.windows)
  <2>. HIDE DEF r
  <2>. DEFINE j == Len(r.windows)
  <2>1. j = n
    BY <1>3
  <2>. HIDE DEF j, n
  <2>2. /\ From(few, r) /\ Len(few.windows) \in 1 .. j
        /\ TooMany(few, few.windows) => Len(few.windows) = 1
        /\ few = r \/ TooMany(r, r.windows)
    BY <1>4, FewerFacts DEF j
  <2>. QED  BY <2>1, <2>2
<1>. HIDE DEF few, r
<1>. DEFINE fs == few.windows
            p == Len(fs)
<1>7. /\ Good(few) /\ few.screen = height /\ Bottom(fs) = Bottom(s.windows)
      /\ AtMostOne(s.windows) => AtMostOne(fs)
  BY <1>3, <1>6 DEF From, Kept
<1>8. /\ few \in Layouts /\ fs \in Chains /\ p \in Nat /\ p >= 1
      /\ few.active \in 1 .. p /\ few.held \in 0 .. p /\ Bottom(fs) \in Int
  BY <1>7, LayoutFacts
<1>9. CASE TooMany(few, fs)
  <2>1. t = WithWindows(few, Sized(fs, 1, height - 2))
    BY <1>5, <1>8, <1>9 DEF WithWindows, Sized, Layouts
  <2>2. Len(few.windows) = 1
    BY <1>6, <1>9
  <2>3. /\ Sound(t) /\ t.screen = height /\ Bottom(t.windows) + 1 = height
        /\ AtMostOne(fs) => AtMostOne(t.windows)
    BY <1>7, <2>1, <2>2, OneLeft
  <2>. QED  BY <1>7, <2>3 DEF Resized
<1>10. CASE ~TooMany(few, fs)
  <2>1. t = [few EXCEPT !.windows = clamped]
    BY <1>5, <1>10
  <2>2. height - 1 > 3 * p
    <3>1. ~(height - 1 <= 3 * p)
      BY <1>7, <1>10 DEF TooMany, WINDOW_MIN_SIZE, WINDOW_MIN_HEIGHT
    <3>. HIDE DEF p
    <3>. QED  BY <1>8, <3>1
  <2>. DEFINE e == Quotient(delta, n)
              l == delta - e * n
  <2>3. n \in Int /\ n > 0 /\ p = Len(few.windows)
    BY <1>1
  <2>. HIDE DEF n, p, delta, e, l
  <2>4. e \in Int /\ l \in Int /\ Turned(shared, fs, p, e, l)
    BY <1>2, <1>7, <2>3, SharedFacts DEF e, l
  <2>. HIDE DEF shared
  <2>5. /\ shared \in Turns(p) /\ SameNodes(us, fs)
        /\ us[1].first_row = fs[1].first_row
        /\ AllLined(fs) => AllLined(us)
    BY <2>3, <2>4 DEF Turned
  <2>6. /\ us \in Seq(Window) /\ Len(us) = p
    BY <2>5 DEF Turns
  <2>7. us[1].first_row = 0 /\ (p > 1 => \A k \in 1 .. p : us[k].height >= 1)
    <3>1. fs[1].first_row = 0 /\ (p > 1 => AllLined(fs))
      BY <1>8, ChainFacts DEF AllLined, p
    <3>. QED  BY <2>5, <2>6, <3>1 DEF AllLined
  <2>. HIDE DEF us
  <2>8. ws \in Chains /\ m = p /\ Bottom(ws) = Rows(us)[p] /\ SameWindows(ws, us)
    <3>1. ws \in Chains /\ Len(ws) = p /\ Bottom(ws) = Rows(us)[p] /\ SameWindows(ws, us)
      BY <1>8, <2>6, <2>7, RestackedFacts
    <3>. QED  BY <3>1
  <2>. HIDE DEF ws
  <2>9. SameNodes(ws, fs)
    BY <2>3, <2>5, <2>6, <2>8 DEF SameNodes, SameWindows, p
  <2>. HIDE DEF m, evened
  <2>10. settled \in Chains /\ SameNodes(settled, ws)
    <3>1. CASE evened
      <4>. HIDE DEF fs
      <4>1. avail \in Int /\ avail >= m /\ m > 1
        <5>1. avail = height - (p + 1)
          BY <2>8 DEF ECHO_AREA_HEIGHT
        <5>2. m > 1
          BY <3>1 DEF evened
        <5>3. height - (p + 1) >= p
          BY <1>8, <2>2
        <5>4. height - (p + 1) \in Int
          BY <1>8
        <5>. QED  BY <2>8, <5>1, <5>2, <5>3, <5>4
      <4>2. settled = Even(ws, avail) /\ m = Len(ws)
        BY <3>1 DEF m
      <4>. HIDE DEF avail, settled
      <4>. QED  BY <2>8, <4>1, <4>2, EvenFacts
    <3>2. CASE ~evened
      <4>1. settled = ws
        BY <3>2
      <4>. QED  BY <2>8, <4>1 DEF SameNodes
    <3>. QED  BY <3>1, <3>2
  <2>11. ~evened => settled = ws
    OBVIOUS
  <2>. HIDE DEF settled
  <2>12. Len(settled) = p /\ m = p
    BY <2>8, <2>10 DEF SameNodes, m
  <2>13. clamped = Clamped(settled)
    BY <2>12 DEF Clamped
  <2>. HIDE DEF clamped
  <2>14. /\ clamped \in Chains /\ SameNodes(clamped, settled)
         /\ p > 1 \/ settled[1].height >= 0 => clamped = settled
    BY <2>10, <2>12, <2>13, ClampedFacts
  <2>15. /\ Len(clamped) = Len(fs)
         /\ \A j \in 1 .. Len(fs) : clamped[j].node = fs[j].node
    BY <2>9, <2>10, <2>14 DEF SameNodes
  <2>16. Len(clamped) = p /\ p = Len(fs)
    BY <2>15 DEF p
  <2>. HIDE DEF fs
  <2>17. AtMostOne(fs) => AtMostOne(clamped)
    <3>1. ShowsSame(clamped, fs)
      BY <2>15 DEF ShowsSame
    <3>. QED  BY <1>8, <2>14, <3>1, SameShown
  <2>18. /\ t \in Layouts /\ t.windows = clamped /\ t.screen = height
         /\ t.active = few.active /\ t.held = few.held
    BY <1>7, <1>8, <2>1, <2>14 DEF Layouts
  <2>19. Good(t)
    BY <1>8, <2>16, <2>18 DEF Good
  <2>20. Room(t)
    <3>1. SUFFICES ASSUME Bottom(clamped) + 1 = height PROVE Bottom(clamped) > 2 * p
      BY <2>16, <2>18 DEF Room
    <3>2. Bottom(clamped) \in Int
      BY <2>18, <2>19, LayoutFacts
    <3>. QED  BY <1>8, <2>2, <3>1, <3>2
  <2>21. ASSUME Room(s), Bottom(s.windows) + 1 = s.screen, height > s.screen
         PROVE  Bottom(clamped) + 1 = height
    <3>. DEFINE b == Bottom(s.windows)
    <3>1. delta > 0 /\ b \in Int /\ s.screen \in Int /\ b + 1 = s.screen /\ height = s.screen + delta
      BY <1>1, <2>21 DEF delta
    <3>2. n = p \/ (n > 1 /\ delta < n)
      <4>1. CASE few = r
        BY <1>3, <4>1 DEF n, p, fs
      <4>2. CASE p < n
        <5>1. few # r
          BY <1>1, <1>3, <4>2 DEF n, p, fs
        <5>2. height - 1 <= 3 * n
          BY <1>3, <1>6, <5>1 DEF TooMany, n, WINDOW_MIN_SIZE, WINDOW_MIN_HEIGHT
        <5>3. n > 1
          BY <1>8, <2>3, <4>2
        <5>4. b > 2 * n
          BY <2>21, <5>3 DEF Room, n
        <5>. HIDE DEF b
        <5>5. delta < n
          BY <1>2, <2>3, <3>1, <5>2, <5>4
        <5>. QED  BY <5>3, <5>5
      <4>3. p \in 1 .. n
        BY <1>6 DEF p, fs
      <4>4. p = n \/ p < n
        BY <2>3, <4>3
      <4>. QED  BY <4>2, <4>4
    <3>3. Bottom(fs) = b /\ (p = 1 => Bottom(fs) = fs[1].first_row + fs[1].height + 1 /\ fs[1].first_row = 0
                                       /\ fs[1].height \in Int)
      <4>1. p = 1 => Bottom(fs) = fs[1].first_row + fs[1].height + 1
        BY <2>16 DEF Bottom
      <4>2. fs[1].first_row = 0 /\ 1 \in 1 .. p
        <5>1. fs[1].first_row = 0
          BY <1>8, ChainFacts
        <5>2. 1 \in 1 .. p
          BY <1>8
        <5>. QED  BY <5>1, <5>2
      <4>3. fs[1].height \in Int
        BY <1>8, <2>16, <4>2, ChainFacts
      <4>. QED  BY <1>7, <4>1, <4>2, <4>3
    <3>4. p > 1 => AllLined(fs)
      BY <1>8, <2>16, ChainFacts DEF AllLined
    <3>. HIDE DEF b
    <3>5. AllLined(fs) \/ (p = 1 /\ n = 1 /\ fs[1].height + delta >= 1)
      <4>1. CASE p > 1
        BY <3>4, <4>1
      <4>2. CASE p = 1
        <5>1. b = fs[1].height + 1
          BY <3>3, <4>2
        <5>2. CASE n = 1
          <6>1. fs[1].height + delta = height - 2
            BY <1>2, <3>1, <3>3, <4>2, <5>1
          <6>2. height - 2 >= 1
            BY <2>2, <4>2
          <6>. QED  BY <4>2, <5>2, <6>1, <6>2
        <5>3. CASE n > 1
          <6>1. b > 2 * n
            BY <2>21, <5>3 DEF Room, n, b
          <6>2. fs[1].height >= 1
            BY <2>3, <3>1, <3>3, <4>2, <5>1, <5>3, <6>1
          <6>. QED  BY <2>16, <4>2, <6>2 DEF AllLined
        <5>. QED  BY <2>3, <5>2, <5>3
      <4>. QED  BY <1>8, <4>1, <4>2
    <3>6. Rows(us)[p] = Bottom(fs) + delta /\ shared.each >= 0
      <4>1. n = p \/ delta < n
        BY <3>2
      <4>2. AllLined(few.windows) \/ (p = 1 /\ n = 1 /\ few.windows[1].height + delta >= 1)
        BY <3>5 DEF fs
      <4>3. Rows(shared.windows)[p] = Bottom(few.windows) + delta /\ shared.each >= 0
        BY <1>2, <1>7, <2>3, <3>1, <4>1, <4>2, SharedOut DEF shared
      <4>. QED  BY <4>3 DEF us, fs
    <3>7. ~evened
      <4>1. shared.each \in Int
        BY <2>5 DEF Turns
      <4>2. ~(shared.each < 0)
        BY <3>6, <4>1
      <4>. QED  BY <4>2 DEF evened
    <3>8. settled = ws
      BY <2>11, <3>7
    <3>9. Bottom(settled) = b + delta
      BY <2>8, <3>3, <3>6, <3>8
    <3>10. p > 1 \/ settled[1].height >= 0
      <4>1. SUFFICES ASSUME p = 1 PROVE settled[1].height >= 0
        BY <1>8
      <4>2. Bottom(settled) = settled[1].first_row + settled[1].height + 1
        BY <2>12, <4>1 DEF Bottom
      <4>3. settled[1].first_row = 0 /\ 1 \in 1 .. p
        <5>1. settled[1].first_row = 0
          BY <2>10, ChainFacts
        <5>2. 1 \in 1 .. p
          BY <4>1
        <5>. QED  BY <5>1, <5>2
      <4>4. settled[1].height \in Int
        BY <2>10, <2>12, <4>3, ChainFacts
      <4>. DEFINE h == settled[1].height
      <4>5. h \in Int /\ b + delta = 0 + h + 1
        BY <3>9, <4>2, <4>3, <4>4
      <4>. HIDE DEF h
      <4>6. h >= 0
        BY <1>2, <2>2, <3>1, <4>1, <4>5
      <4>. QED  BY <4>6 DEF h
    <3>11. Bottom(clamped) = b + delta
      BY <2>14, <3>9, <3>10
    <3>. QED  BY <1>2, <3>1, <3>11
  <2>. QED  BY <1>7, <2>17, <2>18, <2>19, <2>20, <2>21 DEF Resized, Sound
<1>. QED  BY <1>9, <1>10

-----------------------------------------------------------------------------
(* The commands.                                                           *)

(* "the *Footnotes* window is deleted" (see FootnotesLeave). *)
LeavesFootnotes(t, s) ==
  /\ auto_footnotes_p
  /\ AtMostOne(s.windows)
  /\ s.windows[s.active].node # "plain"
  /\ t.windows[t.active].node = "plain"
  => Shown(t.windows) = {}

(* What each command does to the layout s. *)
Obeyed(t, s) == Sound(t) /\ Kept(t, s) /\ LeavesFootnotes(t, s)

LEMMA KeptKept ==
  ASSUME NEW s, NEW t, NEW u, Kept(t, s), Kept(u, t)
  PROVE  Kept(u, s)
BY DEF Kept

LEMMA SameNodeLeaves ==
  ASSUME NEW s, NEW t, t.windows[t.active].node = s.windows[s.active].node
  PROVE  LeavesFootnotes(t, s)
BY DEF LeavesFootnotes

(* Other heights in a layout. *)
LEMMA AlikeFacts ==
  ASSUME NEW s, Sound(s), NEW ws \in Chains, Alike(ws, s.windows),
         NEW t, t = WithWindows(s, ws)
  PROVE  /\ Sound(t) /\ Kept(t, s) /\ Shown(t.windows) = Shown(s.windows)
         /\ t.windows[t.active].node = s.windows[s.active].node
<1>1. /\ s.windows \in Chains /\ s.active \in 1 .. Len(s.windows)
  BY LayoutFacts DEF Sound
<1>2. Sound(t) /\ Kept(t, s) /\ t.windows = ws /\ t.active = s.active
  <2>1. Len(ws) = Len(s.windows) /\ Bottom(ws) = Bottom(s.windows)
    BY DEF Alike
  <2>. QED  BY <2>1, WindowsSound
<1>3. Shown(ws) = Shown(s.windows)
  <2>1. ShowsSame(ws, s.windows)
    BY DEF Alike, ShowsSame
  <2>. QED  BY <1>1, <2>1, SameShown
<1>4. ws[s.active].node = s.windows[s.active].node
  BY <1>1 DEF Alike
<1>. QED  BY <1>2, <1>3, <1>4

LEMMA TiledFacts ==
  ASSUME NEW s, Sound(s), NEW internals \in BOOLEAN,
         NEW t, t = WithWindows(s, Tile(s.windows, internals))
  PROVE  /\ Sound(t) /\ Kept(t, s) /\ Shown(t.windows) = Shown(s.windows)
         /\ t.windows[t.active].node = s.windows[s.active].node
<1>. DEFINE ws == Tile(s.windows, internals)
<1>1. s.windows \in Chains
  BY LayoutFacts DEF Sound
<1>2. ws \in Chains /\ Alike(ws, s.windows)
  BY <1>1, TileKeeps
<1>. HIDE DEF ws
<1>3. t = WithWindows(s, ws)
  BY DEF ws
<1>. QED  BY <1>2, <1>3, AlikeFacts

LEMMA TiledObeys ==
  ASSUME NEW s, NEW u, Obeyed(u, s), NEW t, t = Tiled(u)
  PROVE  Obeyed(t, s)
<1>1. Sound(u) /\ Kept(u, s) /\ LeavesFootnotes(u, s)
  BY DEF Obeyed
<1>2. CASE auto_tiling_p
  <2>1. t = WithWindows(u, Tile(u.windows, FALSE))
    BY <1>2 DEF Tiled, WithWindows
  <2>2. /\ Sound(t) /\ Kept(t, u) /\ Shown(t.windows) = Shown(u.windows)
        /\ t.windows[t.active].node = u.windows[u.active].node
    BY <1>1, <2>1, TiledFacts
  <2>3. Kept(t, s)
    BY <1>1, <2>2, KeptKept
  <2>4. LeavesFootnotes(t, s)
    BY <1>1, <2>2 DEF LeavesFootnotes
  <2>. QED  BY <2>2, <2>3, <2>4 DEF Obeyed
<1>3. CASE ~auto_tiling_p
  <2>1. t = u
    BY <1>3 DEF Tiled
  <2>. QED  BY <2>1
<1>. QED  BY <1>2, <1>3

LEMMA FootnotesLeft ==
  ASSUME NEW s, NEW u, Sound(u), AtMostOne(s.windows) => AtMostOne(u.windows),
         NEW t, t = Footnotes(u, u.active)
  PROVE  Sound(t) /\ Kept(t, u) /\ LeavesFootnotes(t, s)
<1>1. u.active \in 1 .. Len(u.windows)
  BY DEF Sound, Good
<1>2. /\ Sound(t) /\ Kept(t, u)
      /\ auto_footnotes_p => Settled(t, u, u.active)
  BY <1>1, FootnotesSound
<1>3. LeavesFootnotes(t, s)
  BY <1>2 DEF Settled, LeavesFootnotes
<1>. QED  BY <1>2, <1>3

LEMMA SplitObeys ==
  ASSUME NEW s, Sound(s), CanSplit(s, s.active),
         NEW node, node = s.windows[s.active].node,
         NEW t, t = Tiled(SetNode(MakeWindow(s, s.active, node), s.active + 1, node))
  PROVE  Obeyed(t, s)
<1>. DEFINE n == Len(s.windows)
            k == s.active
            u == MakeWindow(s, k, node)
            v == Showing(u, k + 1, node)
            w == SetNode(u, k + 1, node)
<1>1. n \in Nat /\ k \in 1 .. n /\ s.windows \in Chains /\ Good(s) /\ n = Len(s.windows)
  BY LayoutFacts DEF Sound
<1>2. node \in Nodes
  BY <1>1, ChainFacts
<1>3. CanSplit(s, k) /\ k = s.active /\ node = s.windows[k].node
  OBVIOUS
<1>4. w = IF node = "footnotes" THEN v ELSE Footnotes(v, k + 1)
  BY DEF SetNode, Showing
<1>. HIDE DEF n, k, u, v, w
<1>5. Sound(u) /\ Kept(u, s) /\ Len(u.windows) = n + 1
  BY <1>1, <1>2, <1>3, MakeWindowSound DEF u
<1>6. MovedDown(u, s, k) /\ NodesWith(u.windows, s.windows, k, node)
  BY <1>1, <1>2, <1>3, MakeWindowFacts DEF u
<1>7. u.active = k
  BY <1>1, <1>3, <1>6 DEF MovedDown
<1>8. u.windows[k].node = node
  <2>1. k \in 1 .. n + 1 /\ k <= k
    BY <1>1
  <2>. QED  BY <1>1, <1>3, <1>6, <2>1 DEF NodesWith
<1>9. /\ Sound(v) /\ Kept(v, u) /\ Len(v.windows) = n + 1
      /\ v.active = k /\ v.windows[k].node = node /\ v.windows[k + 1].node = node
  <2>1. n + 1 = Len(u.windows) /\ k + 1 \in 1 .. n + 1 /\ v = Showing(u, k + 1, node)
    BY <1>1, <1>5 DEF v
  <2>2. /\ Sound(v) /\ Kept(v, u) /\ Len(v.windows) = n + 1
        /\ v.active = u.active /\ v.windows[k + 1].node = node
        /\ \A j \in 1 .. n + 1 : j # k + 1 => v.windows[j].node = u.windows[j].node
    BY <1>2, <1>5, <2>1, NodeShown
  <2>3. k \in 1 .. n + 1 /\ k # k + 1
    BY <1>1
  <2>. QED  BY <1>7, <1>8, <2>2, <2>3
<1>10. Kept(v, s)
  BY <1>5, <1>9, KeptKept
<1>11. Obeyed(w, s)
  <2>1. CASE node = "footnotes"
    <3>1. w = v
      BY <1>4, <2>1
    <3>2. LeavesFootnotes(v, s)
      BY <1>3, <1>9, SameNodeLeaves
    <3>. QED  BY <1>9, <1>10, <3>1, <3>2 DEF Obeyed
  <2>2. CASE node # "footnotes"
    <3>1. /\ n + 1 = Len(v.windows) /\ k + 1 \in 1 .. n + 1 /\ w = Footnotes(v, k + 1)
      BY <1>1, <1>4, <1>9, <2>2
    <3>2. /\ Sound(w) /\ Kept(w, v)
          /\ auto_footnotes_p => Settled(w, v, k + 1)
      BY <1>9, <3>1, FootnotesSound
    <3>3. Kept(w, s)
      BY <1>10, <3>2, KeptKept
    <3>4. auto_footnotes_p /\ node = "noted" => w.windows[w.active].node = node
      BY <1>9, <3>2 DEF Settled
    <3>5. node = "plain" \/ node = "noted"
      BY <1>2, <2>2 DEF Nodes
    <3>6. LeavesFootnotes(w, s)
      BY <1>3, <3>4, <3>5 DEF LeavesFootnotes
    <3>. QED  BY <3>2, <3>3, <3>6 DEF Obeyed
  <2>. QED  BY <2>1, <2>2
<1>12. t = Tiled(w)
  BY <1>3 DEF w, u, k
<1>. QED  BY <1>11, <1>12, TiledObeys

LEMMA DeleteObeys ==
  ASSUME NEW s, Sound(s), Len(s.windows) > 1,
         NEW u, u = DeleteWindow(s, s.active),
         NEW t, t = Tiled(Footnotes(u, u.active))
  PROVE  Obeyed(t, s)
<1>. DEFINE n == Len(s.windows)
            v == Footnotes(u, u.active)
<1>1. n \in Nat /\ n > 1 /\ s.active \in 1 .. n /\ Good(s) /\ n = Len(s.windows)
  BY LayoutFacts DEF Sound
<1>. HIDE DEF n
<1>2. Sound(u) /\ Kept(u, s)
  BY <1>1, DeleteWindowSound
<1>3. AtMostOne(s.windows) => AtMostOne(u.windows)
  <2>1. From(u, s)
    BY <1>1, DeletedFrom
  <2>. QED  BY <2>1 DEF From
<1>4. Sound(v) /\ Kept(v, u) /\ LeavesFootnotes(v, s)
  BY <1>2, <1>3, FootnotesLeft
<1>5. Kept(v, s)
  BY <1>2, <1>4, KeptKept
<1>6. Obeyed(v, s)
  BY <1>4, <1>5 DEF Obeyed
<1>. HIDE DEF v
<1>7. t = Tiled(v)
  BY DEF v
<1>. QED  BY <1>6, <1>7, TiledObeys

(* A layout on the way to one window, which is the one in hand. *)
OnTheWay(x, s) ==
  /\ Sound(x) /\ Kept(x, s) /\ x.held # 0
  /\ x.windows[x.held].node = s.windows[s.held].node
OneLess(x) == DeleteWindow(x, IF x.held = 1 THEN 2 ELSE 1)

LEMMA OneLessFacts ==
  ASSUME NEW s, NEW x, OnTheWay(x, s), NEW l, l = Len(x.windows), NEW y, y = OneLess(x)
  PROVE  OnTheWay(y, s) /\ (l > 1 => Len(y.windows) = l - 1)
<1>. DEFINE k == IF x.held = 1 THEN 2 ELSE 1
<1>1. /\ Good(x) /\ l \in Nat /\ l >= 1 /\ x.windows \in Chains /\ DOMAIN x.windows = 1 .. l
      /\ x.held \in 0 .. l /\ x.held # 0 /\ Sound(x) /\ l = Len(x.windows)
  BY LayoutFacts DEF Sound, OnTheWay
<1>2. y = DeleteWindow(x, k)
  BY DEF OneLess
<1>3. CASE l > 1
  <2>1. k \in 1 .. l /\ k # x.held
    BY <1>1, <1>3
  <2>. HIDE DEF k
  <2>2. Sound(y) /\ Kept(y, x) /\ Len(y.windows) = l - 1
    BY <1>1, <1>2, <1>3, <2>1, DeleteWindowSound
  <2>3. NodesWithout(y.windows, x.windows, k) /\ MovedUp(y, x, k)
    BY <1>1, <1>2, <1>3, <2>1, DeleteWindowFacts
  <2>4. DOMAIN y.windows = 1 .. l - 1
    BY <2>2, LayoutFacts DEF Sound
  <2>5. NodesMoved(y.windows, x.windows, k)
    BY <1>1, <2>1, <2>2, <2>3, <2>4, WithoutFacts
  <2>6. y.held = Without(x.held, k)
    BY <2>1, <2>3 DEF MovedUp
  <2>7. y.held # 0
    BY <1>1, <2>1, <2>6 DEF Without
  <2>8. y.windows[y.held].node = x.windows[x.held].node
    <3>1. x.held \in 1 .. l
      BY <1>1
    <3>. QED  BY <1>1, <2>1, <2>5, <2>6, <3>1 DEF NodesMoved
  <2>9. Kept(y, s)
    BY <2>2, KeptKept DEF OnTheWay
  <2>. QED  BY <2>2, <2>7, <2>8, <2>9 DEF OnTheWay
<1>4. CASE ~(l > 1)
  <2>1. Len(x.windows) = 1
    <3>1. \A i \in Nat : i >= 1 /\ ~(i > 1) => i = 1
      OBVIOUS
    <3>. QED  BY <1>1, <1>4, <3>1, Zenon
  <2>2. y = x
    BY <1>2, <2>1 DEF DeleteWindow
  <2>. QED  BY <1>4, <2>2
<1>. QED  BY <1>3, <1>4

LEMMA KeepOneObeys ==
  ASSUME NEW s, Sound(s), s.held = s.active, NEW n, n = Len(s.windows), n > 1,
         NEW t, t = OneKept(s)
  PROVE  Obeyed(t, s)
<1>. DEFINE S == {x \in Layouts : OnTheWay(x, s)}
            m == n - 1
            D == [k \in Nat |-> [x \in S |-> OneLess(x)]]
<1>1. n \in Nat /\ n >= 1 /\ m \in Nat /\ s.active \in 1 .. n /\ s \in Layouts
  BY LayoutFacts DEF Sound
<1>2. OnTheWay(s, s) /\ s \in S
  BY <1>1 DEF OnTheWay, Kept
<1>3. \A x \in S : OneLess(x) \in S
  <2>1. SUFFICES ASSUME NEW x \in S PROVE OneLess(x) \in S
    OBVIOUS
  <2>. DEFINE y == OneLess(x)
  <2>2. OnTheWay(x, s)
    OBVIOUS
  <2>3. OnTheWay(y, s)
    BY <2>2, OneLessFacts
  <2>. HIDE DEF y
  <2>4. y \in Layouts
    BY <2>3 DEF OnTheWay, Sound, Good
  <2>. QED  BY <2>3, <2>4 DEF y
<1>4. D \in [Nat -> [S -> S]]
  BY <1>3
<1>5. \A k \in 1 .. m : \A x \in S : D[k][x] = OneLess(x)
  BY <1>1
<1>. HIDE DEF D, S, m
<1>6. PICK g : Iteration(g, S, s, D, m)
  BY <1>1, <1>2, <1>4, Iterated
<1>7. g \in [0 .. m -> S] /\ g[0] = s /\ \A k \in 1 .. m : g[k] = D[k][g[k - 1]]
  BY <1>6 DEF Iteration
<1>8. \A k \in 1 .. m : g[k] = OneLess(g[k - 1])
  <2>1. SUFFICES ASSUME NEW k \in 1 .. m PROVE g[k] = OneLess(g[k - 1])
    OBVIOUS
  <2>2. k - 1 \in 0 .. m /\ g[k - 1] \in S
    BY <1>1, <1>7
  <2>. QED  BY <1>5, <1>7, <2>2
<1>. DEFINE F(h) == [i \in 0 .. m |->
                       IF i = 0 THEN s
                       ELSE DeleteWindow(h[i - 1], IF h[i - 1].held = 1 THEN 2 ELSE 1)]
            f == CHOOSE h : h = F(h)
<1>9. g = F(g)
  <2>1. \A i \in 0 .. m : i # 0 => i \in 1 .. m
    BY <1>1
  <2>2. \A i \in 0 .. m :
          g[i] = IF i = 0 THEN s
                 ELSE DeleteWindow(g[i - 1], IF g[i - 1].held = 1 THEN 2 ELSE 1)
    BY <1>7, <1>8, <2>1 DEF OneLess
  <2>. QED  BY <1>7, <2>2
<1>10. t = f[m]
  BY DEF OneKept, m
<1>11. f = F(f)
  BY <1>9
<1>. HIDE DEF f
<1>12. /\ f[0] = s /\ \A i \in 1 .. m : f[i] = OneLess(f[i - 1])
  <2>1. \A i \in 1 .. m : i \in 0 .. m /\ i # 0
    BY <1>1
  <2>2. \A i \in 0 .. m :
          f[i] = IF i = 0 THEN s
                 ELSE DeleteWindow(f[i - 1], IF f[i - 1].held = 1 THEN 2 ELSE 1)
    BY <1>11
  <2>3. 0 \in 0 .. m
    BY <1>1
  <2>. QED  BY <2>1, <2>2, <2>3 DEF OneLess
<1>. HIDE DEF F
<1>. DEFINE T == {i \in 0 .. m : OnTheWay(f[i], s) /\ Len(f[i].windows) = n - i}
<1>13. 0 \in T
  BY <1>1, <1>2, <1>12
<1>14. ASSUME NEW i \in 1 .. m, i - 1 \in T PROVE i \in T
  <2>. DEFINE x == f[i - 1]
              y == f[i]
              l == Len(x.windows)
  <2>1. i \in 0 .. m /\ i \in Int
    BY <1>1
  <2>2. OnTheWay(x, s) /\ l = n - (i - 1)
    BY <1>14
  <2>3. y = OneLess(x) /\ l = Len(x.windows)
    BY <1>12
  <2>. HIDE DEF x, y, l
  <2>4. OnTheWay(y, s) /\ (l > 1 => Len(y.windows) = l - 1)
    <3>1. OnTheWay(x, s) /\ l = Len(x.windows) /\ y = OneLess(x)
      BY <2>2, <2>3
    <3>. QED  BY <3>1, OneLessFacts
  <2>5. l > 1
    BY <1>1, <2>1, <2>2 DEF m
  <2>6. Len(y.windows) = n - i
    BY <1>1, <2>1, <2>2, <2>4, <2>5
  <2>. QED  BY <2>1, <2>4, <2>6 DEF y
<1>. HIDE DEF T
<1>15. m \in T
  <2>1. m \in 0 .. m
    BY <1>1
  <2>. QED  BY <1>1, <1>13, <1>14, <2>1, InductionTo
<1>16. OnTheWay(t, s) /\ Len(t.windows) = 1
  <2>1. n - m = 1
    BY <1>1 DEF m
  <2>. QED  BY <1>10, <1>15, <2>1 DEF T
<1>17. t.active = t.held
  <2>1. t.active \in 1 .. 1 /\ t.held \in 0 .. 1 /\ t.held # 0
    BY <1>16 DEF OnTheWay, Sound, Good
  <2>. QED  BY <2>1
<1>18. LeavesFootnotes(t, s)
  <2>1. t.windows[t.active].node = s.windows[s.active].node
    BY <1>16, <1>17 DEF OnTheWay
  <2>. QED  BY <2>1, SameNodeLeaves
<1>. QED  BY <1>16, <1>18 DEF Obeyed, OnTheWay

Holding(s, k) == [s EXCEPT !.held = k]
Selecting(s) == [s EXCEPT !.active = s.held]

LEMMA NextWindowObeys ==
  ASSUME NEW s, Sound(s), NEW k \in 1 .. Len(s.windows),
         NEW v, v = Footnotes(Holding(s, k), k),
         NEW t, t = Selecting(v)
  PROVE  Obeyed(t, s)
<1>. DEFINE u == Holding(s, k)
            n == Len(s.windows)
<1>1. /\ s \in Layouts /\ n \in Nat /\ k \in 1 .. n /\ s.active \in 1 .. n
  BY LayoutFacts DEF Sound
<1>2. /\ u \in Layouts /\ u.windows = s.windows /\ u.active = s.active /\ u.held = k
      /\ u.screen = s.screen
  BY <1>1 DEF Layouts, Holding
<1>. HIDE DEF u
<1>3. Sound(u) /\ Kept(u, s)
  <2>1. Good(u)
    BY <1>1, <1>2 DEF Good
  <2>2. Room(u)
    BY <1>2 DEF Sound, Room
  <2>. QED  BY <1>2, <2>1, <2>2 DEF Sound, Kept
<1>4. /\ Sound(v) /\ Kept(v, u) /\ v.held # 0
      /\ auto_footnotes_p => Settled(v, u, k)
  <2>1. k \in 1 .. Len(u.windows) /\ v = Footnotes(u, k) /\ Sound(u) /\ u.held = k
    BY <1>2, <1>3 DEF u
  <2>. QED  BY <2>1, FootnotesSound
<1>5. /\ v \in Layouts /\ v.held \in 0 .. Len(v.windows) /\ Len(v.windows) \in Nat
  BY <1>4, LayoutFacts DEF Sound
<1>6. /\ t \in Layouts /\ t.windows = v.windows /\ t.active = v.held /\ t.held = v.held
      /\ t.screen = v.screen
  BY <1>5 DEF Layouts, Selecting
<1>7. Sound(t) /\ Kept(t, v)
  <2>1. v.held \in 1 .. Len(v.windows)
    BY <1>4, <1>5
  <2>2. Good(t)
    BY <1>5, <1>6, <2>1 DEF Good
  <2>3. Room(t)
    BY <1>4, <1>6 DEF Sound, Room
  <2>. QED  BY <1>6, <2>2, <2>3 DEF Sound, Kept
<1>8. Kept(t, s)
  <2>1. Kept(v, s)
    BY <1>3, <1>4, KeptKept
  <2>. QED  BY <1>7, <2>1, KeptKept
<1>9. LeavesFootnotes(t, s)
  BY <1>2, <1>4, <1>6 DEF Settled, LeavesFootnotes
<1>. QED  BY <1>7, <1>8, <1>9 DEF Obeyed

LEMMA GrowObeys ==
  ASSUME NEW s, Sound(s), NEW amount \in Int,
         NEW t, t = WithWindows(s, ChangeHeight(s.windows, s.active, amount))
  PROVE  Obeyed(t, s)
<1>. DEFINE ws == ChangeHeight(s.windows, s.active, amount)
<1>1. s.windows \in Chains /\ s.active \in 1 .. Len(s.windows)
  BY LayoutFacts DEF Sound
<1>2. ws \in Chains /\ Alike(ws, s.windows)
  BY <1>1, ChangeHeightKeeps
<1>. HIDE DEF ws
<1>3. t = WithWindows(s, ws)
  BY DEF ws
<1>4. Sound(t) /\ Kept(t, s) /\ t.windows[t.active].node = s.windows[s.active].node
  BY <1>2, <1>3, AlikeFacts
<1>. QED  BY <1>4, SameNodeLeaves DEF Obeyed

LEMMA TileObeys ==
  ASSUME NEW s, Sound(s), NEW t, t = WithWindows(s, Tile(s.windows, TRUE))
  PROVE  Obeyed(t, s)
<1>1. Sound(t) /\ Kept(t, s) /\ t.windows[t.active].node = s.windows[s.active].node
  BY TiledFacts
<1>. QED  BY <1>1, SameNodeLeaves DEF Obeyed

LEMMA SetNodeObeys ==
  ASSUME NEW s, Sound(s), NEW node \in {"plain", "noted"},
         NEW t, t = SetNode(s, s.active, node)
  PROVE  Obeyed(t, s)
<1>. DEFINE k == s.active
            n == Len(s.windows)
            v == Showing(s, k, node)
<1>1. n \in Nat /\ k \in 1 .. n /\ s.windows \in Chains /\ DOMAIN s.windows = 1 .. n
  BY LayoutFacts DEF Sound
<1>2. node \in Nodes /\ node # "footnotes"
  BY DEF Nodes
<1>3. t = Footnotes(v, k)
  BY <1>2 DEF SetNode, Showing
<1>4. k = s.active /\ n = Len(s.windows) /\ v = Showing(s, k, node)
  OBVIOUS
<1>. HIDE DEF k, n, v
<1>5. /\ Sound(v) /\ Kept(v, s) /\ Len(v.windows) = n /\ v.active = s.active
      /\ v.windows[k].node = node
      /\ \A j \in 1 .. n : j # k => v.windows[j].node = s.windows[j].node
  BY <1>1, <1>2, <1>4, NodeShown
<1>6. AtMostOne(s.windows) => AtMostOne(v.windows)
  <2>1. DOMAIN v.windows = 1 .. n
    <3>1. DOMAIN v.windows = 1 .. Len(v.windows)
      BY <1>5, LayoutFacts DEF Sound
    <3>. QED  BY <1>5, <3>1
  <2>2. Shown(v.windows) \subseteq Shown(s.windows)
    BY <1>1, <1>2, <1>5, <2>1 DEF Shown
  <2>. QED  BY <2>2 DEF AtMostOne
<1>7. t = Footnotes(v, v.active)
  BY <1>3, <1>4, <1>5
<1>8. Sound(t) /\ Kept(t, v) /\ LeavesFootnotes(t, s)
  BY <1>5, <1>6, <1>7, FootnotesLeft
<1>9. Kept(t, s)
  BY <1>5, <1>8, KeptKept
<1>. QED  BY <1>8, <1>9 DEF Obeyed

LEMMA ShowFootnotesObeys ==
  ASSUME NEW s, Sound(s), NEW f, f = FootnotesWindow(s),
         NEW t, t = IF f # 0 /\ Len(s.windows) > 1 THEN DeleteWindow(s, f)
                    ELSE GetOrRemoveFootnotes(s, s.active)
  PROVE  Obeyed(t, s)
<1>. DEFINE n == Len(s.windows)
<1>1. /\ Good(s) /\ n \in Nat /\ s.active \in 1 .. n /\ n = Len(s.windows)
      /\ DOMAIN s.windows = 1 .. n
  BY LayoutFacts DEF Sound
<1>2. (f = 0 /\ Shown(s.windows) = {}) \/ (f \in 1 .. n /\ f # 0 /\ f \in Shown(s.windows))
  BY <1>1, FootnotesWindowFacts
<1>. HIDE DEF n
<1>3. CASE f # 0 /\ n > 1
  <2>1. t = DeleteWindow(s, f) /\ f \in 1 .. n /\ f \in Shown(s.windows)
    BY <1>1, <1>2, <1>3
  <2>2. Sound(t) /\ Kept(t, s) /\ Len(t.windows) = n - 1
    BY <1>1, <1>3, <2>1, DeleteWindowSound
  <2>3. NodesWithout(t.windows, s.windows, f)
    BY <1>1, <1>3, <2>1, DeleteWindowFacts
  <2>4. DOMAIN t.windows = 1 .. n - 1
    BY <2>2, LayoutFacts DEF Sound
  <2>5. AtMostOne(s.windows) /\ f \in Shown(s.windows) => Shown(t.windows) = {}
    BY <1>1, <2>1, <2>2, <2>3, <2>4, WithoutFacts
  <2>6. LeavesFootnotes(t, s)
    BY <2>1, <2>5 DEF LeavesFootnotes
  <2>. QED  BY <2>2, <2>6 DEF Obeyed
<1>4. CASE ~(f # 0 /\ n > 1)
  <2>1. t = GetOrRemoveFootnotes(s, s.active)
    BY <1>1, <1>4
  <2>2. Settled(t, s, s.active)
    BY <1>1, <2>1, GetOrRemoveFootnotesSettles
  <2>3. LeavesFootnotes(t, s)
    BY <2>2 DEF Settled, LeavesFootnotes
  <2>. QED  BY <2>2, <2>3 DEF Settled, Obeyed
<1>. QED  BY <1>3, <1>4

(* What a screen of another height does to the layout s. *)
Grown(t, s, height) ==
  Bottom(s.windows) + 1 = s.screen /\ height > s.screen => Bottom(t.windows) + 1 = height

LEMMA ResizeFacts ==
  ASSUME NEW s, Sound(s), NEW height \in Int, height # s.screen,
         NEW u, u = NewScreenSize(s, height), NEW t, t = Footnotes(u, u.active)
  PROVE  /\ Sound(t) /\ t.screen = height /\ LeavesFootnotes(t, s)
         /\ Grown(t, s, height)
<1>1. Resized(u, s, height)
  BY NewScreenSizeFacts DEF Sound
<1>2. Sound(u) /\ u.screen = height /\ (AtMostOne(s.windows) => AtMostOne(u.windows))
  BY <1>1 DEF Resized
<1>3. Sound(t) /\ Kept(t, u) /\ LeavesFootnotes(t, s)
  BY <1>2, FootnotesLeft
<1>4. Grown(t, s, height)
  BY <1>1, <1>3 DEF Resized, Grown, Kept, Sound
<1>. QED  BY <1>2, <1>3, <1>4 DEF Kept

-----------------------------------------------------------------------------
(* The specification.                                                      *)

(* The layout that is left when a command is done with s. *)
Standing(s) == [windows |-> s.windows, active |-> s.active, held |-> s.active, screen |-> s.screen]

LEMMA StandingSound ==
  ASSUME NEW s, Sound(s)
  PROVE  Sound(Standing(s))
<1>. DEFINE t == Standing(s)
            n == Len(s.windows)
<1>1. /\ s \in Layouts /\ s.windows \in Chains /\ s.active \in 1 .. n /\ s.screen \in Int
      /\ n \in Nat
  BY LayoutFacts DEF Sound
<1>2. /\ t \in Layouts /\ t.windows = s.windows /\ t.active = s.active /\ t.held = s.active
      /\ t.screen = s.screen
  BY <1>1 DEF Layouts, Standing
<1>. HIDE DEF t
<1>3. Good(t)
  BY <1>1, <1>2 DEF Good
<1>4. Room(t)
  BY <1>2 DEF Sound, Room
<1>. QED  BY <1>3, <1>4 DEF Sound, t

IInv ==
  /\ Sound(Layout)
  /\ the_screen \in ScreenHeights
  /\ resizes \in 0 .. MaxResizes

(* What every step does to the lines, and to the footnotes. *)
LinesStay == Covers /\ the_screen' >= the_screen => Covers'
FootnotesGo ==
  /\ auto_footnotes_p
  /\ \A j, k \in Shown(windows) : j = k
  /\ windows[active_window].node # "plain"
  /\ windows'[active_window'].node = "plain"
  => Shown(windows') = {}

LEMMA LayoutIs ==
  ASSUME IInv
  PROVE  /\ Sound(Layout) /\ Layout.windows = windows /\ Layout.active = active_window
         /\ Layout.held = active_window /\ Layout.screen = the_screen
BY DEF IInv, Layout

LEMMA BecomesIs ==
  ASSUME NEW t, Sound(t), Becomes(t)
  PROVE  /\ Sound(Layout)'
         /\ windows' = t.windows /\ active_window' = t.active /\ the_screen' = t.screen
<1>1. Layout' = Standing(t)
  BY DEF Becomes, Layout, Standing
<1>2. Sound(Standing(t))
  BY StandingSound
<1>. QED  BY <1>1, <1>2 DEF Becomes

LEMMA Commanded ==
  ASSUME IInv, NEW t, Obeyed(t, Layout), Becomes(t), UNCHANGED resizes
  PROVE  IInv' /\ LinesStay /\ FootnotesGo
<1>1. /\ Sound(Layout) /\ Layout.windows = windows /\ Layout.active = active_window
      /\ Layout.screen = the_screen
  BY LayoutIs
<1>2. /\ Sound(Layout)'
      /\ windows' = t.windows /\ active_window' = t.active /\ the_screen' = t.screen
  BY BecomesIs DEF Obeyed
<1>3. Bottom(windows') = Bottom(windows) /\ the_screen' = the_screen
  BY <1>1, <1>2 DEF Obeyed, Kept
<1>4. IInv'
  BY <1>2, <1>3 DEF IInv
<1>5. LinesStay
  <2>1. Covers' <=> Covers
    BY <1>3 DEF Covers
  <2>. QED  BY <2>1 DEF LinesStay
<1>6. FootnotesGo
  <2>1. LeavesFootnotes(t, Layout)
    BY DEF Obeyed
  <2>. QED  BY <1>1, <1>2, <2>1 DEF LeavesFootnotes, AtMostOne, FootnotesGo
<1>. QED  BY <1>4, <1>5, <1>6

LEMMA Stuttered ==
  ASSUME IInv, UNCHANGED vars
  PROVE  IInv' /\ LinesStay /\ FootnotesGo
<1>1. /\ windows' = windows /\ active_window' = active_window
      /\ the_screen' = the_screen /\ resizes' = resizes
  BY DEF vars
<1>2. Layout' = Layout
  BY <1>1 DEF Layout
<1>3. IInv'
  BY <1>1, <1>2 DEF IInv
<1>4. LinesStay
  BY <1>1 DEF LinesStay, Covers
<1>5. FootnotesGo
  BY <1>1 DEF FootnotesGo
<1>. QED  BY <1>3, <1>4, <1>5

LEMMA Resizing ==
  ASSUME IInv, NEW height \in ScreenHeights, reset_info_window_sizes(height)
  PROVE  IInv' /\ LinesStay /\ FootnotesGo
<1>. DEFINE u == NewScreenSize(Layout, height)
            t == Footnotes(u, u.active)
<1>1. /\ Sound(Layout) /\ Layout.windows = windows /\ Layout.active = active_window
      /\ Layout.screen = the_screen
  BY LayoutIs
<1>2. /\ resizes < MaxResizes /\ height # the_screen /\ resizes' = resizes + 1
      /\ Becomes(t)
  BY DEF reset_info_window_sizes
<1>3. height \in Int /\ the_screen \in Int /\ MaxResizes \in Nat
  BY InfoWindowsAssumption DEF IInv
<1>. HIDE DEF u
<1>4. u = NewScreenSize(Layout, height)
  BY DEF u
<1>5. t = Footnotes(u, u.active)
  OBVIOUS
<1>. HIDE DEF t
<1>6. /\ Sound(t) /\ t.screen = height /\ LeavesFootnotes(t, Layout)
      /\ Grown(t, Layout, height)
  BY <1>1, <1>2, <1>3, <1>4, <1>5, ResizeFacts
<1>7. /\ Sound(Layout)'
      /\ windows' = t.windows /\ active_window' = t.active /\ the_screen' = t.screen
  BY <1>2, <1>6, BecomesIs
<1>8. IInv'
  <2>1. resizes' \in 0 .. MaxResizes
    BY <1>2, <1>3 DEF IInv
  <2>. QED  BY <1>6, <1>7, <2>1 DEF IInv
<1>9. LinesStay
  <2>1. SUFFICES ASSUME Covers, the_screen' >= the_screen PROVE Covers'
    BY DEF LinesStay
  <2>2. height > the_screen
    BY <1>2, <1>3, <1>6, <1>7, <2>1
  <2>3. Bottom(Layout.windows) + 1 = Layout.screen
    BY <1>1, <2>1 DEF Covers, ECHO_AREA_HEIGHT
  <2>4. Bottom(t.windows) + 1 = height
    BY <1>1, <1>6, <2>2, <2>3 DEF Grown
  <2>. QED  BY <1>6, <1>7, <2>4 DEF Covers, ECHO_AREA_HEIGHT
<1>10. FootnotesGo
  BY <1>1, <1>6, <1>7 DEF LeavesFootnotes, AtMostOne, FootnotesGo
<1>. QED  BY <1>8, <1>9, <1>10

LEMMA Obeying ==
  ASSUME IInv, Command, UNCHANGED resizes
  PROVE  IInv' /\ LinesStay /\ FootnotesGo
<1>1. /\ Sound(Layout) /\ Layout.windows = windows /\ Layout.active = active_window
      /\ Layout.held = active_window /\ Layout.screen = the_screen
  BY LayoutIs
<1>2. DOMAIN windows = 1 .. Len(windows)
  <2>1. DOMAIN Layout.windows = 1 .. Len(Layout.windows)
    BY <1>1, LayoutFacts DEF Sound
  <2>. QED  BY <1>1, <2>1
<1>3. \A ws : WithWindows(Layout, ws) = [Layout EXCEPT !.windows = ws]
  BY DEF WithWindows
<1>4. CASE info_split_window
  <2>. DEFINE node == windows[active_window].node
              t == Tiled(SetNode(MakeWindow(Layout, active_window, node), active_window + 1, node))
  <2>1. CanSplit(Layout, active_window) /\ Becomes(t)
    BY <1>4 DEF info_split_window
  <2>2. Obeyed(t, Layout)
    <3>. HIDE DEF node
    <3>1. node = Layout.windows[Layout.active].node
      BY <1>1 DEF node
    <3>2. t = Tiled(SetNode(MakeWindow(Layout, Layout.active, node), Layout.active + 1, node))
      BY <1>1
    <3>3. CanSplit(Layout, Layout.active)
      BY <1>1, <2>1
    <3>. HIDE DEF t
    <3>. QED  BY <1>1, <3>1, <3>2, <3>3, SplitObeys
  <2>. HIDE DEF t
  <2>. QED  BY <2>1, <2>2, Commanded
<1>5. CASE info_delete_window
  <2>. DEFINE u == DeleteWindow(Layout, active_window)
              t == Tiled(Footnotes(u, u.active))
  <2>1. Len(windows) > 1 /\ Becomes(t)
    BY <1>5 DEF info_delete_window
  <2>2. Obeyed(t, Layout)
    <3>. HIDE DEF u
    <3>1. u = DeleteWindow(Layout, Layout.active)
      BY <1>1 DEF u
    <3>2. t = Tiled(Footnotes(u, u.active))
      OBVIOUS
    <3>3. Len(Layout.windows) > 1
      BY <1>1, <2>1
    <3>. HIDE DEF t
    <3>. QED  BY <1>1, <3>1, <3>2, <3>3, DeleteObeys
  <2>. HIDE DEF t
  <2>. QED  BY <2>1, <2>2, Commanded
<1>6. CASE info_keep_one_window
  <2>. DEFINE t == OneKept(Layout)
              n == Len(windows)
  <2>1. n > 1 /\ Becomes(t)
    BY <1>6 DEF info_keep_one_window
  <2>2. t = OneKept(Layout) /\ n = Len(Layout.windows)
    BY <1>1
  <2>. HIDE DEF t, n
  <2>3. Obeyed(t, Layout)
    <3>1. Sound(Layout) /\ Layout.held = Layout.active
      BY <1>1
    <3>. QED  BY <2>1, <2>2, <3>1, KeepOneObeys
  <2>. QED  BY <2>1, <2>3, Commanded
<1>7. ASSUME NEW k \in DOMAIN windows, info_next_window(k)
      PROVE  IInv' /\ LinesStay /\ FootnotesGo
  <2>. DEFINE v == Footnotes(Holding(Layout, k), k)
              t == Selecting(v)
  <2>1. Becomes(t)
    BY <1>7 DEF info_next_window, Holding, Selecting
  <2>2. k \in 1 .. Len(Layout.windows)
    BY <1>1, <1>2
  <2>3. v = Footnotes(Holding(Layout, k), k) /\ t = Selecting(v)
    OBVIOUS
  <2>. HIDE DEF t, v
  <2>4. Obeyed(t, Layout)
    BY <1>1, <2>2, <2>3, NextWindowObeys
  <2>. QED  BY <2>1, <2>4, Commanded
<1>8. ASSUME NEW amount \in Amounts, info_grow_window(amount)
      PROVE  IInv' /\ LinesStay /\ FootnotesGo
  <2>. DEFINE t == WithWindows(Layout, ChangeHeight(windows, active_window, amount))
  <2>1. Becomes(t)
    <3>1. t = [Layout EXCEPT !.windows = ChangeHeight(@, active_window, amount)]
      BY <1>1 DEF WithWindows
    <3>. QED  BY <1>8, <3>1 DEF info_grow_window
  <2>2. t = WithWindows(Layout, ChangeHeight(Layout.windows, Layout.active, amount))
    BY <1>1
  <2>3. amount \in Int
    BY InfoWindowsAssumption
  <2>. HIDE DEF t
  <2>4. Obeyed(t, Layout)
    BY <1>1, <2>2, <2>3, GrowObeys
  <2>. QED  BY <2>1, <2>4, Commanded
<1>9. CASE info_tile_windows
  <2>. DEFINE t == WithWindows(Layout, Tile(windows, TRUE))
  <2>1. Becomes(t)
    <3>1. t = [Layout EXCEPT !.windows = Tile(@, TRUE)]
      BY <1>1 DEF WithWindows
    <3>. QED  BY <1>9, <3>1 DEF info_tile_windows
  <2>2. t = WithWindows(Layout, Tile(Layout.windows, TRUE))
    BY <1>1
  <2>. HIDE DEF t
  <2>3. Obeyed(t, Layout)
    BY <1>1, <2>2, TileObeys
  <2>. QED  BY <2>1, <2>3, Commanded
<1>10. ASSUME NEW node \in {"plain", "noted"}, info_set_node_of_window(node)
       PROVE  IInv' /\ LinesStay /\ FootnotesGo
  <2>. DEFINE t == SetNode(Layout, active_window, node)
  <2>1. Becomes(t)
    BY <1>10 DEF info_set_node_of_window
  <2>2. t = SetNode(Layout, Layout.active, node)
    BY <1>1
  <2>. HIDE DEF t
  <2>3. Obeyed(t, Layout)
    BY <1>1, <2>2, SetNodeObeys
  <2>. QED  BY <2>1, <2>3, Commanded
<1>11. CASE info_show_footnotes
  <2>. DEFINE f == FootnotesWindow(Layout)
              t == IF f # 0 /\ Len(windows) > 1 THEN DeleteWindow(Layout, f)
                   ELSE GetOrRemoveFootnotes(Layout, active_window)
  <2>1. Becomes(t)
    BY <1>11 DEF info_show_footnotes
  <2>2. f = FootnotesWindow(Layout)
    OBVIOUS
  <2>. HIDE DEF f
  <2>3. t = IF f # 0 /\ Len(Layout.windows) > 1 THEN DeleteWindow(Layout, f)
            ELSE GetOrRemoveFootnotes(Layout, Layout.active)
    BY <1>1
  <2>. HIDE DEF t
  <2>4. Obeyed(t, Layout)
    BY <1>1, <2>2, <2>3, ShowFootnotesObeys
  <2>. QED  BY <2>1, <2>4, Commanded
<1>. QED  BY <1>4, <1>5, <1>6, <1>7, <1>8, <1>9, <1>10, <1>11 DEF Command

LEMMA Stepped ==
  ASSUME IInv, [Next]_vars
  PROVE  IInv' /\ LinesStay /\ FootnotesGo
<1>1. CASE Command /\ UNCHANGED resizes
  BY <1>1, Obeying
<1>2. ASSUME NEW height \in ScreenHeights, reset_info_window_sizes(height)
      PROVE  IInv' /\ LinesStay /\ FootnotesGo
  BY <1>2, Resizing
<1>3. CASE UNCHANGED vars
  BY <1>3, Stuttered
<1>. QED  BY <1>1, <1>2, <1>3 DEF Next

LEMMA Starting ==
  ASSUME Init
  PROVE  IInv
<1>. DEFINE w == [height |-> the_screen - 1 - ECHO_AREA_HEIGHT, first_row |-> 0,
                  temp |-> FALSE, node |-> "plain"]
<1>1. the_screen \in ScreenHeights /\ windows = << w >> /\ active_window = 1 /\ resizes = 0
  BY DEF Init
<1>2. the_screen \in Int /\ MaxResizes \in Nat
  BY <1>1, InfoWindowsAssumption
<1>3. w \in Window /\ w.first_row = 0
  <2>1. the_screen - 1 - ECHO_AREA_HEIGHT \in Int
    BY <1>2 DEF ECHO_AREA_HEIGHT
  <2>. HIDE DEF ECHO_AREA_HEIGHT
  <2>. QED  BY <2>1 DEF Window, Nodes
<1>. HIDE DEF w
<1>4. windows \in Seq(Window) /\ Len(windows) = 1 /\ windows[1] = w
  BY <1>1, <1>3
<1>5. windows \in Chains
  <2>1. 1 >= 1 /\ ~(1 > 1) /\ \A k \in 2 .. 1 : FALSE
    OBVIOUS
  <2>2. Chained(windows)
    BY <1>3, <1>4, <2>1 DEF Chained
  <2>3. Lined(windows)
    BY <1>4, <2>1 DEF Lined
  <2>4. windows # << >>
    <3>1. Len(<< >>) = 0 /\ 1 # 0
      OBVIOUS
    <3>. QED  BY <1>4, <3>1, Zenon
  <2>. QED  BY <1>4, <2>2, <2>3, <2>4 DEF Chains
<1>6. /\ Layout \in Layouts /\ Layout.windows = windows /\ Layout.active = 1 /\ Layout.held = 1
  BY <1>1, <1>2, <1>5 DEF Layout, Layouts
<1>7. Good(Layout)
  <2>1. 1 \in 1 .. 1 /\ 1 \in 0 .. 1
    OBVIOUS
  <2>2. Len(Layout.windows) = 1
    BY <1>4, <1>6
  <2>. QED  BY <1>6, <2>1, <2>2, Zenon DEF Good
<1>8. Room(Layout)
  <2>1. ~(1 > 1)
    OBVIOUS
  <2>2. ~(Len(Layout.windows) > 1)
    BY <1>4, <1>6, <2>1, Zenon
  <2>. QED  BY <2>2 DEF Room
<1>9. resizes \in 0 .. MaxResizes
  BY <1>1, <1>2
<1>. QED  BY <1>1, <1>7, <1>8, <1>9 DEF IInv, Sound

LEMMA IInvAlways == Spec => []IInv
<1>1. Init => IInv
  BY Starting
<1>2. IInv /\ [Next]_vars => IInv'
  BY Stepped
<1>. QED  BY <1>1, <1>2, PTL DEF Spec

(* The chain always has a window, the active one is among them, and what   *)
(* is known of each has its type (window.h).                               *)
THEOREM TypeCorrect == Spec => []TypeOK
<1>1. IInv => TypeOK
  <2>1. SUFFICES ASSUME IInv PROVE TypeOK
    OBVIOUS
  <2>2. Good(Layout) /\ Layout.windows = windows /\ Layout.active = active_window
    BY <2>1, LayoutIs DEF Sound
  <2>3. /\ windows \in Chains /\ DOMAIN windows = 1 .. Len(windows)
        /\ active_window \in 1 .. Len(windows)
    BY <2>2, LayoutFacts
  <2>. QED  BY <2>1, <2>3 DEF TypeOK, Chains, IInv
<1>. QED  BY <1>1, IInvAlways, PTL

(* The windows neither overlap nor leave rows between them, whatever was   *)
(* split, deleted, made larger or smaller, tiled or laid out again for     *)
(* another screen, in any order (window.c).                                *)
THEOREM AlwaysStacked == Spec => []Stacked
<1>1. IInv => Stacked
  <2>1. SUFFICES ASSUME IInv PROVE Stacked
    OBVIOUS
  <2>2. windows \in Chains
    BY <2>1, LayoutIs, LayoutFacts DEF Sound
  <2>. QED  BY <2>2, ChainIsStacked DEF Stacked
<1>. QED  BY <1>1, IInvAlways, PTL

(* No command and no size of the screen leaves a window that shares the    *)
(* screen without a line (window.c:172).                                   *)
THEOREM AlwaysALine == Spec => []AtLeastALine
<1>1. IInv => AtLeastALine
  <2>1. SUFFICES ASSUME IInv PROVE AtLeastALine
    OBVIOUS
  <2>2. Good(Layout) /\ Layout.windows = windows
    BY <2>1, LayoutIs DEF Sound
  <2>3. windows \in Chains /\ DOMAIN windows = 1 .. Len(windows)
    BY <2>2, LayoutFacts
  <2>. QED  BY <2>3 DEF AtLeastALine, Chains, Lined
<1>. QED  BY <1>1, IInvAlways, PTL

(* Lines are moved between windows and never lost: a layout that covers    *)
(* the screen still does after every command, and on a larger screen; only *)
(* a smaller screen can end that (window.c:144).                           *)
THEOREM LinesAlwaysKept == Spec => LinesKept
<1>1. IInv /\ [Next]_vars => [Covers /\ the_screen' >= the_screen => Covers']_vars
  BY Stepped DEF LinesStay
<1>. QED  BY <1>1, IInvAlways, PTL DEF Spec, LinesKept

(* When the active window comes to a node without footnotes and there is   *)
(* one *Footnotes* window, it is deleted, by whatever command              *)
(* (info-stnd.texi:2003).                                                  *)
THEOREM FootnotesAlwaysLeave == Spec => FootnotesLeave
<1>1. IInv /\ [Next]_vars =>
        [/\ auto_footnotes_p
         /\ \A j, k \in Shown(windows) : j = k
         /\ windows[active_window].node # "plain"
         /\ windows'[active_window'].node = "plain"
         => Shown(windows') = {}]_vars
  BY Stepped DEF FootnotesGo
<1>. QED  BY <1>1, IInvAlways, PTL DEF Spec, FootnotesLeave

=============================================================================
