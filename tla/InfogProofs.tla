---------------------------- MODULE InfogProofs ----------------------------
(* The processes of infog agree on the manual, whatever the user does and  *)
(* however late they hear of each other; and what a user who waits sees    *)
(* belongs to the page that is shown, in whatever order they answer.       *)
EXTENDS Infog, SequenceTheorems, TLAPS

(* What a callback works on has the types of the main process. *)
MainTyped(v) ==
  v \in [current_manual : Manuals, uri : Pages, toc : Seq(WithContents),
         selection : {v.selection}, pending_node : Nodes \union {None},
         index_store : Seq(Pages), index_list : Seq(Nodes),
         links : [Rels -> Pages \union {None}]]
Typed(s) ==
  /\ s \in [main : {s.main}, to_page : Seq(Pages), to_hidden : Seq(HiddenRequests)]
  /\ MainTyped(s.main)

(* A callback leaves the manual, and only asks for more pages. *)
Keeps(s, t) ==
  /\ Typed(t)
  /\ t.main.current_manual = s.main.current_manual
  /\ \A k \in 1 .. Len(s.to_page) :
       k \in 1 .. Len(t.to_page) /\ t.to_page[k] = s.to_page[k]

(* The last change that is announced in q is to the manual m. *)
Announces(q) == \E k \in 1 .. Len(q) : q[k].kind = "new-manual"
LastSays(q, m) ==
  \A k \in 1 .. Len(q) : q[k].kind = "new-manual" =>
    q[k].manual = m \/ \E j \in k + 1 .. Len(q) : q[j].kind = "new-manual"

-----------------------------------------------------------------------------
(* Queues of messages *)

LEMMA SequenceElements ==
  ASSUME NEW S, NEW q \in Seq(S)
  PROVE  /\ Len(q) \in Nat /\ DOMAIN q = 1 .. Len(q)
         /\ \A k \in 1 .. Len(q) : q[k] \in S
  OBVIOUS

LEMMA ConcatAt ==
  ASSUME NEW S, NEW q \in Seq(S), NEW r \in Seq(S)
  PROVE  /\ q \o r \in Seq(S)
         /\ Len(q \o r) = Len(q) + Len(r)
         /\ \A k \in 1 .. Len(q) : (q \o r)[k] = q[k]
         /\ \A k \in Len(q) + 1 .. Len(q) + Len(r) : (q \o r)[k] = r[k - Len(q)]
  BY ConcatProperties

(* Messages that announce nothing leave what was announced. *)
LEMMA SilentConcat ==
  ASSUME NEW q \in Seq(PageMessages), NEW r \in Seq(PageMessages), NEW m,
         ~Announces(r)
  PROVE  /\ LastSays(q, m) => LastSays(q \o r, m)
         /\ Announces(q \o r) <=> Announces(q)
<1>1. /\ Len(q) \in Nat /\ Len(r) \in Nat
      /\ Len(q \o r) = Len(q) + Len(r)
      /\ \A k \in 1 .. Len(q) : (q \o r)[k] = q[k]
      /\ \A k \in Len(q) + 1 .. Len(q) + Len(r) : (q \o r)[k] = r[k - Len(q)]
  BY ConcatAt
<1>2. \A k \in Len(q) + 1 .. Len(q) + Len(r) : (q \o r)[k].kind # "new-manual"
  <2>1. TAKE k \in Len(q) + 1 .. Len(q) + Len(r)
  <2>2. k - Len(q) \in 1 .. Len(r)  BY <1>1
  <2> QED  BY <1>1, <2>2 DEF Announces
<1>3. LastSays(q, m) => LastSays(q \o r, m)
  <2>1. SUFFICES ASSUME LastSays(q, m), NEW k \in 1 .. Len(q \o r),
                        (q \o r)[k].kind = "new-manual"
                 PROVE  \/ (q \o r)[k].manual = m
                        \/ \E j \in k + 1 .. Len(q \o r) : (q \o r)[j].kind = "new-manual"
    BY DEF LastSays
  <2>2. k \in 1 .. Len(q) /\ q[k].kind = "new-manual"  BY <1>1, <1>2, <2>1
  <2>3. CASE q[k].manual = m  BY <1>1, <2>2, <2>3
  <2>4. CASE \E j \in k + 1 .. Len(q) : q[j].kind = "new-manual"
    <3>1. PICK j \in k + 1 .. Len(q) : q[j].kind = "new-manual"  BY <2>4
    <3>2. j \in k + 1 .. Len(q \o r) /\ (q \o r)[j] = q[j]  BY <1>1, <2>2, <3>1
    <3> QED  BY <3>1, <3>2
  <2> QED  BY <2>1, <2>2, <2>3, <2>4 DEF LastSays
<1>4. Announces(q \o r) <=> Announces(q)
  BY <1>1, <1>2 DEF Announces
<1> QED  BY <1>3, <1>4

(* An announcement at the end is the last. *)
LEMMA LoudConcat ==
  ASSUME NEW q \in Seq(PageMessages), NEW m \in Manuals \union Missing,
         NEW e \in PageMessages, e = [kind |-> "new-manual", manual |-> m]
  PROVE  LastSays(q \o << e >>, m) /\ Announces(q \o << e >>)
<1> DEFINE r == << e >>
<1>1. r \in Seq(PageMessages) /\ Len(r) = 1 /\ r[1] = e  OBVIOUS
<1>2. /\ Len(q) \in Nat
      /\ Len(q \o r) = Len(q) + 1
      /\ (q \o r)[Len(q) + 1] = e
  <2> HIDE DEF r
  <2>1. /\ Len(q \o r) = Len(q) + Len(r)
        /\ \A k \in Len(q) + 1 .. Len(q) + Len(r) : (q \o r)[k] = r[k - Len(q)]
    BY <1>1, ConcatAt
  <2>2. Len(q) \in Nat /\ Len(q) + 1 \in Len(q) + 1 .. Len(q) + Len(r)
        /\ (Len(q) + 1) - Len(q) = 1
    BY <1>1
  <2> QED  BY <1>1, <2>1, <2>2
<1> HIDE DEF r
<1>3. (q \o r)[Len(q) + 1].kind = "new-manual" /\ (q \o r)[Len(q) + 1].manual = m
  BY <1>2
<1>4. LastSays(q \o r, m)
  <2>1. SUFFICES ASSUME NEW k \in 1 .. Len(q \o r)
                 PROVE  \/ (q \o r)[k].manual = m
                        \/ \E j \in k + 1 .. Len(q \o r) : (q \o r)[j].kind = "new-manual"
    BY DEF LastSays
  <2>2. CASE k = Len(q) + 1  BY <1>3, <2>2
  <2>3. CASE k # Len(q) + 1
    <3>1. Len(q) + 1 \in k + 1 .. Len(q \o r)  BY <1>2, <2>3
    <3> QED  BY <1>3, <3>1
  <2> QED  BY <2>2, <2>3
<1>5. Announces(q \o r)  BY <1>2, <1>3 DEF Announces
<1> QED  BY <1>4, <1>5 DEF r

(* What is left when the first message has been taken. *)
LEMMA AfterHead ==
  ASSUME NEW q \in Seq(PageMessages), q # << >>, NEW m, LastSays(q, m)
  PROVE  /\ Tail(q) \in Seq(PageMessages) /\ Head(q) \in PageMessages
         /\ LastSays(Tail(q), m)
         /\ Head(q).kind # "new-manual" => (Announces(Tail(q)) <=> Announces(q))
         /\ Head(q).kind = "new-manual" /\ ~Announces(Tail(q)) => Head(q).manual = m
<1>1. /\ Tail(q) \in Seq(PageMessages) /\ Head(q) \in PageMessages /\ Head(q) = q[1]
      /\ Len(q) \in Nat /\ Len(q) >= 1
      /\ Len(Tail(q)) = Len(q) - 1
      /\ \A k \in 1 .. Len(q) - 1 : Tail(q)[k] = q[k + 1]
  BY HeadTailProperties, EmptySeq
<1>2. LastSays(Tail(q), m)
  <2>1. SUFFICES ASSUME NEW k \in 1 .. Len(Tail(q)), Tail(q)[k].kind = "new-manual"
                 PROVE  \/ Tail(q)[k].manual = m
                        \/ \E j \in k + 1 .. Len(Tail(q)) : Tail(q)[j].kind = "new-manual"
    BY DEF LastSays
  <2>2. k + 1 \in 1 .. Len(q) /\ q[k + 1] = Tail(q)[k]  BY <1>1
  <2>3. CASE q[k + 1].manual = m  BY <2>2, <2>3
  <2>4. CASE \E j \in k + 2 .. Len(q) : q[j].kind = "new-manual"
    <3>1. PICK j \in k + 2 .. Len(q) : q[j].kind = "new-manual"  BY <2>4
    <3>2. j - 1 \in k + 1 .. Len(Tail(q)) /\ Tail(q)[j - 1] = q[j]  BY <1>1, <3>1
    <3> QED  BY <3>1, <3>2
  <2>5. (k + 1) + 1 = k + 2  BY <1>1
  <2> QED  BY <2>1, <2>2, <2>3, <2>4, <2>5 DEF LastSays
<1>3. ASSUME Head(q).kind # "new-manual"
      PROVE  Announces(Tail(q)) <=> Announces(q)
  <2>1. ASSUME Announces(q)  PROVE Announces(Tail(q))
    <3>1. PICK k \in 1 .. Len(q) : q[k].kind = "new-manual"  BY <2>1 DEF Announces
    <3>2. k - 1 \in 1 .. Len(Tail(q)) /\ Tail(q)[k - 1] = q[k]  BY <1>1, <1>3, <3>1
    <3> QED  BY <3>1, <3>2 DEF Announces
  <2>2. ASSUME Announces(Tail(q))  PROVE Announces(q)
    <3>1. PICK k \in 1 .. Len(Tail(q)) : Tail(q)[k].kind = "new-manual"
      BY <2>2 DEF Announces
    <3>2. k + 1 \in 1 .. Len(q) /\ Tail(q)[k] = q[k + 1]  BY <1>1, <3>1
    <3> QED  BY <3>1, <3>2 DEF Announces
  <2> QED  BY <2>1, <2>2
<1>4. ASSUME Head(q).kind = "new-manual", ~Announces(Tail(q))
      PROVE  Head(q).manual = m
  <2>1. ASSUME NEW j \in 2 .. Len(q), q[j].kind = "new-manual"  PROVE FALSE
    <3>1. j - 1 \in 1 .. Len(Tail(q)) /\ Tail(q)[j - 1] = q[j]  BY <1>1
    <3> QED  BY <1>4, <2>1, <3>1 DEF Announces
  <2> QED  BY <1>1, <1>4, <2>1 DEF LastSays
<1> QED  BY <1>1, <1>2, <1>3, <1>4

LEMMA ThreeMessages ==
  ASSUME NEW a, NEW b, NEW c
  PROVE  /\ << >> \o << a >> \o << b >> = << a, b >>
         /\ << >> \o << a >> \o << b >> \o << c >> = << a, b, c >>
         /\ << a, b, c >> \o << >> = << a, b, c >>
         /\ << a >> \o << b >> = << a, b >> /\ << >> \o << a, b >> = << a, b >>
<1> DEFINE S == {a, b, c}
<1>0. << a >> \in Seq(S) /\ << b >> \in Seq(S) /\ << c >> \in Seq(S)
      /\ << a, b >> \in Seq(S) /\ << a, b, c >> \in Seq(S)
  OBVIOUS
<1> HIDE DEF S
<1>1. << >> \o << a >> = << a >>  OBVIOUS
<1>2. << a >> \o << b >> = << a, b >>
  <2> DEFINE q == << a >> \o << b >>
  <2>1. /\ q \in Seq(S) /\ Len(q) = 2
        /\ \A k \in 1 .. 2 : q[k] = IF k <= 1 THEN << a >>[k] ELSE << b >>[k - 1]
    BY <1>0, ConcatProperties
  <2> HIDE DEF q
  <2>2. q[1] = a /\ q[2] = b  BY <2>1
  <2>3. Len(q) = Len(<< a, b >>) /\ \A k \in 1 .. Len(q) : q[k] = << a, b >>[k]
    BY <2>1, <2>2
  <2>4. q = << a, b >>  BY <1>0, <2>1, <2>3, SeqEqual
  <2> QED  BY <2>4 DEF q
<1>3. << a, b >> \o << c >> = << a, b, c >>
  <2> DEFINE q == << a, b >> \o << c >>
  <2>1. /\ q \in Seq(S) /\ Len(q) = 3
        /\ \A k \in 1 .. 3 : q[k] = IF k <= 2 THEN << a, b >>[k] ELSE << c >>[k - 2]
    BY <1>0, ConcatProperties
  <2> HIDE DEF q
  <2>2. q[1] = a /\ q[2] = b /\ q[3] = c  BY <2>1
  <2>3. Len(q) = Len(<< a, b, c >>) /\ \A k \in 1 .. Len(q) : q[k] = << a, b, c >>[k]
    BY <2>1, <2>2
  <2>4. q = << a, b, c >>  BY <1>0, <2>1, <2>3, SeqEqual
  <2> QED  BY <2>4 DEF q
<1>4. << a, b, c >> \o << >> = << a, b, c >> /\ << >> \o << a, b >> = << a, b >>
  OBVIOUS
<1> QED  BY <1>1, <1>2, <1>3, <1>4

-----------------------------------------------------------------------------
(* The callbacks of the main process *)

LEMMA KeepsSelf ==
  ASSUME NEW s, Typed(s)
  PROVE  Keeps(s, s)
  BY DEF Keeps

LEMMA KeepsBoth ==
  ASSUME NEW s, NEW t, NEW u, Keeps(s, t), Keeps(t, u)
  PROVE  Keeps(s, u)
  BY DEF Keeps

LEMMA LoadUriKeeps ==
  ASSUME NEW s, Typed(s), NEW p \in Pages
  PROVE  Keeps(s, load_uri(s, p))
<1> DEFINE t == load_uri(s, p)
<1>0. Append(s.to_page, p) \in Seq(Pages)  BY AppendProperties DEF Typed
<1>1. /\ t \in [main : {t.main}, to_page : Seq(Pages), to_hidden : Seq(HiddenRequests)]
      /\ t.main = [s.main EXCEPT !.uri = p]
      /\ t.to_page = Append(s.to_page, p) /\ t.to_hidden = s.to_hidden
  BY <1>0 DEF load_uri, Typed
<1>2. MainTyped(t.main) /\ t.main.current_manual = s.main.current_manual
  BY <1>1 DEF Typed, MainTyped
<1>3. /\ t.to_page \in Seq(Pages)
      /\ \A k \in 1 .. Len(s.to_page) :
           k \in 1 .. Len(t.to_page) /\ t.to_page[k] = s.to_page[k]
  BY <1>1, AppendProperties DEF Typed
<1> QED  BY <1>1, <1>2, <1>3 DEF Typed, Keeps

LEMMA LoadHiddenKeeps ==
  ASSUME NEW s, Typed(s), NEW p \in Pages, NEW q \in {"send-index", "top-node"}
  PROVE  Keeps(s, load_hidden(s, p, q))
<1> DEFINE t == load_hidden(s, p, q)
           e == [page |-> p, query |-> q]
<1>1. e \in HiddenRequests  BY DEF HiddenRequests
<1>2. Append(s.to_hidden, e) \in Seq(HiddenRequests)
  BY <1>1, AppendProperties DEF Typed
<1> HIDE DEF e
<1>3. t = [s EXCEPT !.to_hidden = Append(s.to_hidden, e)]  BY DEF load_hidden, e
<1>4. /\ t \in [main : {t.main}, to_page : Seq(Pages), to_hidden : Seq(HiddenRequests)]
      /\ t.main = s.main /\ t.to_page = s.to_page
  BY <1>2, <1>3 DEF Typed
<1> QED  BY <1>4 DEF Typed, Keeps

(* Assignments to variables other than the manual. *)
LEMMA MainKeeps ==
  ASSUME NEW s, NEW v, Typed(s), MainTyped(v),
         v.current_manual = s.main.current_manual
  PROVE  Keeps(s, [s EXCEPT !.main = v])
  BY DEF Typed, Keeps

LEMMA SelectedKeeps ==
  ASSUME NEW s, Typed(s), NEW row, row.node \in Nodes
  PROVE  Keeps(s, Selected(s, row))
<1> DEFINE v == [s.main EXCEPT !.selection = row]
           t == [s EXCEPT !.main = v]
<1>1. MainTyped(v) /\ v.current_manual = s.main.current_manual
  BY DEF Typed, MainTyped
<1>2. Keeps(s, t) /\ t.main = v  BY <1>1, MainKeeps DEF Typed
<1>3. P(t.main.uri.manual, row.node) \in Pages
  BY <1>1, <1>2 DEF MainTyped, P, Pages
<1>4. Keeps(t, load_relative_url(t, row.node))
  BY <1>2, <1>3, LoadUriKeeps DEF Keeps, load_relative_url
<1>5. [s EXCEPT !.main.selection = row] = t  OBVIOUS
<1> QED  BY <1>2, <1>4, <1>5, KeepsBoth, KeepsSelf DEF Selected

LEMMA SwitchNodeKeeps ==
  ASSUME NEW s, Typed(s), NEW n \in Nodes
  PROVE  Keeps(s, switch_node(s, n))
<1> DEFINE row == RowOf(s.main.toc, n)
<1>1. row = None \/ row.node = n  BY DEF RowOf
<1>2. switch_node(s, n) = IF row = None THEN s ELSE Selected(s, row)
  BY DEF switch_node
<1> HIDE DEF row
<1> QED  BY <1>1, <1>2, KeepsSelf, SelectedKeeps

LEMMA ContinueKeeps ==
  ASSUME NEW s, Typed(s)
  PROVE  Keeps(s, continue_to_load_index_nodes(s))
<1> DEFINE rest == s.main.index_list
           v == [s.main EXCEPT !.index_list = Tail(rest)]
           t == [s EXCEPT !.main = v]
           p == P(s.main.current_manual, Head(rest))
<1>1. CASE rest = << >>
  BY <1>1, KeepsSelf DEF continue_to_load_index_nodes
<1>2. CASE rest # << >>
  <2>1. rest \in Seq(Nodes)  BY DEF Typed, MainTyped
  <2>2. Tail(rest) \in Seq(Nodes) /\ Head(rest) \in Nodes
    BY <1>2, <2>1, HeadTailProperties
  <2>3. MainTyped(v) /\ v.current_manual = s.main.current_manual
    BY <2>2 DEF Typed, MainTyped
  <2>4. Keeps(s, t)  BY <2>3, MainKeeps
  <2>5. p \in Pages  BY <2>2 DEF Typed, MainTyped, P, Pages
  <2>6. Keeps(t, load_hidden(t, p, "send-index"))
    BY <2>4, <2>5, LoadHiddenKeeps DEF Keeps
  <2>7. continue_to_load_index_nodes(s) = load_hidden(t, p, "send-index")
    BY <1>2 DEF continue_to_load_index_nodes
  <2> QED  BY <2>4, <2>6, <2>7, KeepsBoth
<1> QED  BY <1>1, <1>2

LEMMA LoadIndexNodesKeeps ==
  ASSUME NEW s, Typed(s), NEW nodes \in Seq(Nodes)
  PROVE  Keeps(s, load_index_nodes(s, nodes))
<1> DEFINE v == [s.main EXCEPT !.index_list = nodes]
           t == [s EXCEPT !.main = v]
<1>1. MainTyped(v) /\ v.current_manual = s.main.current_manual
  BY DEF Typed, MainTyped
<1>2. Keeps(s, t)  BY <1>1, MainKeeps
<1>3. Keeps(t, continue_to_load_index_nodes(t))
  BY <1>2, ContinueKeeps DEF Keeps
<1>4. load_index_nodes(s, nodes) = continue_to_load_index_nodes(t)
  BY DEF load_index_nodes
<1> QED  BY <1>2, <1>3, <1>4, KeepsBoth

LEMMA SaveCompletionsKeeps ==
  ASSUME NEW s, Typed(s), NEW p \in Pages
  PROVE  Keeps(s, save_completions(s, p))
<1> DEFINE v == [s.main EXCEPT !.index_store = Append(s.main.index_store, p)]
           t == [s EXCEPT !.main = v]
<1>1. Append(s.main.index_store, p) \in Seq(Pages)
  BY AppendProperties DEF Typed, MainTyped
<1>2. MainTyped(v) /\ v.current_manual = s.main.current_manual
  BY <1>1 DEF Typed, MainTyped
<1>3. Keeps(s, t)  BY <1>2, MainKeeps
<1>4. Keeps(t, continue_to_load_index_nodes(t))
  BY <1>3, ContinueKeeps DEF Keeps
<1>5. save_completions(s, p) = continue_to_load_index_nodes(t)
  BY DEF save_completions
<1> QED  BY <1>3, <1>4, <1>5, KeepsBoth

LEMMA InformNewNodeKeeps ==
  ASSUME NEW s, Typed(s), NEW n \in Nodes
  PROVE  Keeps(s, inform_new_node(s, n))
<1> DEFINE w == [s.main EXCEPT !.pending_node = n]
           t == IF s.main.toc # << >> THEN switch_node(s, n) ELSE [s EXCEPT !.main = w]
           v == [t.main EXCEPT !.links = NoLinks]
<1>1. MainTyped(w) /\ w.current_manual = s.main.current_manual
  BY DEF Typed, MainTyped
<1>2. Keeps(s, t)  BY <1>1, MainKeeps, SwitchNodeKeeps
<1>3. inform_new_node(s, n) = [t EXCEPT !.main = v]
  BY DEF inform_new_node
<1> HIDE DEF t
<1>4. NoLinks \in [Rels -> Pages \union {None}]  BY DEF NoLinks
<1>5. MainTyped(v) /\ v.current_manual = t.main.current_manual
  BY <1>2, <1>4 DEF Keeps, Typed, MainTyped
<1>6. Keeps(t, [t EXCEPT !.main = v])  BY <1>2, <1>5, MainKeeps DEF Keeps
<1> QED  BY <1>2, <1>3, <1>6, KeepsBoth

LEMMA LoadTocKeeps ==
  ASSUME NEW s, Typed(s), NEW m \in WithContents
  PROVE  Keeps(s, load_toc(s, m))
<1> DEFINE w == [s.main EXCEPT !.toc = Append(s.main.toc, m)]
           t == [s EXCEPT !.main = w]
           u == switch_node(t, t.main.pending_node)
           v == [u.main EXCEPT !.pending_node = None]
<1>1. Append(s.main.toc, m) \in Seq(WithContents)
  BY AppendProperties DEF Typed, MainTyped
<1>2. MainTyped(w) /\ w.current_manual = s.main.current_manual
  BY <1>1 DEF Typed, MainTyped
<1>3. Keeps(s, t)  BY <1>2, MainKeeps
<1>4. load_toc(s, m) = IF t.main.pending_node = None THEN t ELSE [u EXCEPT !.main = v]
  BY DEF load_toc
<1>5. ASSUME t.main.pending_node # None
      PROVE  Keeps(t, [u EXCEPT !.main = v])
  <2>1. t.main.pending_node \in Nodes
    BY <1>3, <1>5 DEF Keeps, Typed, MainTyped
  <2>2. Keeps(t, u)  BY <1>3, <2>1, SwitchNodeKeeps DEF Keeps
  <2> HIDE DEF u
  <2>3. MainTyped(v) /\ v.current_manual = u.main.current_manual
    BY <2>2 DEF Keeps, Typed, MainTyped
  <2>4. Keeps(u, [u EXCEPT !.main = v])  BY <2>2, <2>3, MainKeeps DEF Keeps
  <2> QED  BY <2>2, <2>4, KeepsBoth
<1> HIDE DEF t
<1> QED  BY <1>3, <1>4, <1>5, KeepsBoth

LEMMA NewManualTyped ==
  ASSUME NEW s, Typed(s), NEW m
  PROVE  /\ Typed(new_manual(s, m))
         /\ m \in Manuals => new_manual(s, m).main.current_manual = m
         /\ m \notin Manuals => new_manual(s, m) = s
<1> DEFINE v == [s.main EXCEPT !.current_manual = m, !.toc = << >>,
                               !.selection = None, !.index_store = << >>]
           t == [s EXCEPT !.main = v]
<1>1. CASE m \notin Manuals  BY <1>1 DEF new_manual
<1>2. CASE m \in Manuals
  <2>0. << >> \in Seq(WithContents) /\ << >> \in Seq(Pages)  OBVIOUS
  <2>1. MainTyped(v) /\ v.current_manual = m
    BY <1>2, <2>0 DEF Typed, MainTyped
  <2>2. Typed(t) /\ t.main = v  BY <2>1 DEF Typed
  <2>3. new_manual(s, m) = t  BY <1>2 DEF new_manual
  <2> QED  BY <1>2, <2>1, <2>2, <2>3
<1> QED  BY <1>1, <1>2

(* What a message that is not of a new manual does. *)
LEMMA MessageKeeps ==
  ASSUME NEW s, Typed(s), NEW m \in PageMessages \union HiddenMessages,
         m.kind # "new-manual"
  PROVE  Keeps(s, handle_script_message(s, m))
<1>1. CASE m \in [kind : {"uri"}, page : Pages]
  <2> DEFINE v == [s.main EXCEPT !.uri = m.page]
  <2>1. MainTyped(v) /\ v.current_manual = s.main.current_manual
    BY <1>1 DEF Typed, MainTyped
  <2>2. handle_script_message(s, m) = [s EXCEPT !.main = v]
    BY <1>1 DEF handle_script_message
  <2> HIDE DEF v
  <2> QED  BY <2>1, <2>2, MainKeeps
<1>2. CASE m \in [kind : {"pointer"}, rel : Rels, page : Pages]
  <2> DEFINE v == [s.main EXCEPT !.links = [s.main.links EXCEPT ![m.rel] = m.page]]
  <2>1. MainTyped(v) /\ v.current_manual = s.main.current_manual
    BY <1>2 DEF Typed, MainTyped
  <2>2. handle_script_message(s, m) = [s EXCEPT !.main = v]
    BY <1>2 DEF handle_script_message
  <2> HIDE DEF v
  <2> QED  BY <2>1, <2>2, MainKeeps
<1>3. CASE m \in [kind : {"inform-new-node", "new-node"}, node : Nodes]
  <2>1. CASE m.kind = "inform-new-node"
    BY <1>3, <2>1, InformNewNodeKeeps DEF handle_script_message
  <2>2. CASE m.kind = "new-node"
    <3>1. P(s.main.current_manual, m.node) \in Pages
      BY <1>3 DEF Typed, MainTyped, P, Pages
    <3> QED  BY <1>3, <2>2, <3>1, LoadUriKeeps DEF handle_script_message, load_node
  <2> QED  BY <1>3, <2>1, <2>2
<1>4. CASE m \in [kind : {"toc"}, manual : WithContents]
  BY <1>4, LoadTocKeeps DEF handle_script_message
<1>5. CASE m \in [kind : {"index-nodes"}, nodes : Seq(Nodes)]
  BY <1>5, LoadIndexNodesKeeps DEF handle_script_message
<1>6. CASE m \in [kind : {"index"}, page : Pages]
  BY <1>6, SaveCompletionsKeeps DEF handle_script_message
<1> QED  BY <1>1, <1>2, <1>3, <1>4, <1>5, <1>6 DEF PageMessages, HiddenMessages

-----------------------------------------------------------------------------
(* The invariant: what the extension has told last is the manual it is in. *)
(* When nothing of it is left to hear, the main process has that manual,   *)
(* or could not find it, or has asked for a page of its own.               *)

Bound ==
  \/ page.manual = main.current_manual
  \/ page.manual \in Missing
  \/ \E k \in 1 .. Len(to_page) : to_page[k].manual = main.current_manual

IInv ==
  /\ Typed(World)
  /\ page \in [manual : Manuals \union Missing \union {None},
               loading : Pages \union {None}, shown : Pages \union {None}]
  /\ hidden \in HiddenRequests \union {None}
  /\ from_page \in Seq(PageMessages) /\ from_hidden \in Seq(HiddenMessages)
  /\ LastSays(from_page, page.manual)
  /\ ~Announces(from_page) => Bound

(* A callback has made the main process what it is in the next state. *)
LEMMA BecomesTyped ==
  ASSUME NEW s, Typed(s), Becomes(s)
  PROVE  Typed(World)'
<1>1. World' = [main |-> s.main, to_page |-> s.to_page, to_hidden |-> s.to_hidden]
  BY DEF World, Becomes
<1> QED  BY <1>1 DEF Typed

LEMMA InitIInv == Init => IInv
<1> SUFFICES ASSUME Init PROVE IInv
  OBVIOUS
<1> USE DEF Init
<1>1. P(FIRST_MANUAL, Top) \in Pages  BY InfogAssumption DEF P, Pages
<1>2. MainTyped(main)
  <2>1. NoLinks \in [Rels -> Pages \union {None}]  BY DEF NoLinks
  <2>2. << >> \in Seq(WithContents) /\ << >> \in Seq(Pages) /\ << >> \in Seq(Nodes)
    OBVIOUS
  <2> QED  BY <1>1, <2>1, <2>2, InfogAssumption DEF MainTyped
<1>3. Typed(World)
  <2>1. to_page \in Seq(Pages)  BY <1>1
  <2>2. to_hidden \in Seq(HiddenRequests)  OBVIOUS
  <2> QED  BY <1>2, <2>1, <2>2 DEF Typed, World
<1>4. LastSays(from_page, page.manual)  BY DEF LastSays
<1>5. Bound
  <2>1. 1 \in 1 .. Len(to_page) /\ to_page[1].manual = FIRST_MANUAL  BY DEF P
  <2> QED  BY <2>1 DEF Bound
<1> QED  BY <1>3, <1>4, <1>5 DEF IInv

(* A request of a page, by the main process or a link, keeps what is said  *)
(* of the manual; without an announcement the manual is the one before.    *)
LEMMA RequestSays ==
  ASSUME IInv, NEW m \in Manuals \union Missing,
         NEW c \in PageMessages, NEW q \in Seq(PageMessages),
         LastSays(q, page.manual), Announces(q) <=> Announces(from_page),
         c.kind # "new-manual"
  PROVE  /\ q \o Announced(m) \o << c >> \in Seq(PageMessages)
         /\ LastSays(q \o Announced(m) \o << c >>, m)
         /\ ~Announces(q \o Announced(m) \o << c >>) =>
              m = page.manual /\ ~Announces(from_page)
<1>1. << c >> \in Seq(PageMessages) /\ ~Announces(<< c >>)  BY DEF Announces
<1>2. CASE m = page.manual
  <2>1. Announced(m) = << >>  BY <1>2 DEF Announced
  <2>2. q \o << >> = q  BY ConcatEmptySeq
  <2> QED  BY <1>1, <1>2, <2>1, <2>2, SilentConcat, ConcatAt
<1>3. CASE m # page.manual
  <2> DEFINE e == [kind |-> "new-manual", manual |-> m]
  <2>1. e \in PageMessages  BY DEF PageMessages
  <2>2. Announced(m) = << e >>  BY <1>3 DEF Announced
  <2>3. LastSays(q \o << e >>, m) /\ Announces(q \o << e >>)  BY <2>1, LoudConcat
  <2>4. << e >> \in Seq(PageMessages)  BY <2>1
  <2> HIDE DEF e
  <2>5. q \o << e >> \in Seq(PageMessages)  BY <2>4, ConcatAt
  <2> QED  BY <1>1, <2>2, <2>3, <2>5, SilentConcat, ConcatAt
<1> QED  BY <1>2, <1>3

(* What a request leaves to be shown when to_page is t afterwards. *)
LEMMA RequestIInv ==
  ASSUME IInv, NEW p \in Pages, Request(p), UNCHANGED <<main, to_hidden, hidden, from_hidden>>,
         to_page' \in Seq(Pages),
         ~Announces(from_page) /\ p.manual = page.manual /\ Bound => Bound'
  PROVE  IInv'
<1> DEFINE a == [kind |-> "uri", page |-> p]
           c == [kind |-> "inform-new-node", node |-> p.node]
<1>1. p.manual \in Manuals /\ p.node \in Nodes  BY DEF Pages
<1>2. a \in PageMessages /\ c \in PageMessages /\ c.kind # "new-manual" /\ a.kind # "new-manual"
  BY <1>1 DEF PageMessages
<1>3. from_page \in Seq(PageMessages) /\ LastSays(from_page, page.manual)  BY DEF IInv
<1>4. /\ page' = [page EXCEPT !.manual = p.manual, !.loading = p]
      /\ from_page' = from_page \o << a >> \o Announced(p.manual) \o << c >>
  BY DEF Request
<1> HIDE DEF a, c
<1>5. << a >> \in Seq(PageMessages) /\ ~Announces(<< a >>)  BY <1>2 DEF Announces
<1>6. /\ from_page \o << a >> \in Seq(PageMessages)
      /\ LastSays(from_page \o << a >>, page.manual)
      /\ Announces(from_page \o << a >>) <=> Announces(from_page)
  BY <1>3, <1>5, SilentConcat, ConcatAt
<1>7. /\ from_page' \in Seq(PageMessages) /\ LastSays(from_page', p.manual)
      /\ ~Announces(from_page') => p.manual = page.manual /\ ~Announces(from_page)
  BY <1>1, <1>2, <1>4, <1>6, RequestSays
<1>8. /\ page' \in [manual : Manuals \union Missing \union {None},
                    loading : Pages \union {None}, shown : Pages \union {None}]
      /\ page'.manual = p.manual
  BY <1>1, <1>4 DEF IInv
<1>9. Typed(World)'
  BY DEF IInv, Typed, World
<1>10. ~Announces(from_page') => Bound'
  BY <1>7 DEF IInv
<1> QED  BY <1>7, <1>8, <1>9, <1>10 DEF IInv

LEMMA LoadPageIInv == IInv /\ LoadPage => IInv'
<1> SUFFICES ASSUME IInv, LoadPage PROVE IInv'
  OBVIOUS
<1> DEFINE p == Head(to_page)
<1>1. to_page \in Seq(Pages) /\ to_page # << >> /\ to_page' = Tail(to_page)
  BY DEF IInv, Typed, World, LoadPage
<1>2. /\ p \in Pages /\ p = to_page[1] /\ to_page' \in Seq(Pages)
      /\ Len(to_page) \in Nat /\ Len(to_page') = Len(to_page) - 1
      /\ \A k \in 1 .. Len(to_page) - 1 : to_page'[k] = to_page[k + 1]
  BY <1>1, HeadTailProperties, EmptySeq
<1>3. Request(p) /\ UNCHANGED <<main, to_hidden, hidden, from_hidden>>
  BY DEF LoadPage
<1> HIDE DEF p
<1>4. ASSUME p.manual = page.manual, Bound  PROVE Bound'
  <2>1. page'.manual = page.manual /\ main' = main
    BY <1>3, <1>4 DEF Request, IInv
  <2>2. page.manual \notin Missing
    BY <1>2, <1>4, InfogAssumption DEF Pages
  <2>3. CASE page.manual = main.current_manual  BY <2>1, <2>3 DEF Bound
  <2>4. CASE \E k \in 1 .. Len(to_page) : to_page[k].manual = main.current_manual
    <3>1. PICK k \in 1 .. Len(to_page) : to_page[k].manual = main.current_manual
      BY <2>4
    <3>2. CASE k = 1  BY <1>2, <1>4, <2>1, <3>1, <3>2 DEF Bound
    <3>3. CASE k # 1
      <4>1. k - 1 \in 1 .. Len(to_page') /\ to_page'[k - 1] = to_page[k]
        BY <1>2, <3>1, <3>3
      <4> QED  BY <2>1, <3>1, <4>1 DEF Bound
    <3> QED  BY <3>2, <3>3
  <2> QED  BY <1>4, <2>2, <2>3, <2>4 DEF Bound
<1> QED  BY <1>2, <1>3, <1>4, RequestIInv

LEMMA FollowLinkIInv ==
  ASSUME IInv, NEW p \in Pages, FollowLink(p)
  PROVE  IInv'
<1>1. /\ Request(p) /\ to_page' = to_page
      /\ UNCHANGED <<main, to_hidden, hidden, from_hidden>>
  BY DEF FollowLink, InPage
<1>2. to_page' \in Seq(Pages)  BY <1>1 DEF IInv, Typed, World
<1>3. page'.manual = p.manual  BY <1>1 DEF Request, IInv
<1>4. p.manual = page.manual /\ Bound => Bound'  BY <1>1, <1>3 DEF Bound
<1> QED  BY <1>1, <1>2, <1>4, RequestIInv

LEMMA FollowPrivateIInv ==
  ASSUME IInv, NEW m \in Manuals \union Missing, NEW n \in Nodes, FollowPrivate(m, n)
  PROVE  IInv'
<1> DEFINE c == [kind |-> "new-node", node |-> n]
<1>1. /\ page' = [page EXCEPT !.manual = m, !.loading = None]
      /\ from_page' = from_page \o Announced(m) \o << c >>
      /\ UNCHANGED <<main, to_page, to_hidden, hidden, from_hidden>>
  BY DEF FollowPrivate, PrivateRequest, InPage
<1>2. c \in PageMessages /\ c.kind # "new-manual"  BY DEF PageMessages
<1> HIDE DEF c
<1>3. from_page \in Seq(PageMessages) /\ LastSays(from_page, page.manual)  BY DEF IInv
<1>4. /\ from_page' \in Seq(PageMessages) /\ LastSays(from_page', m)
      /\ ~Announces(from_page') => m = page.manual /\ ~Announces(from_page)
  BY <1>1, <1>2, <1>3, RequestSays
<1>5. /\ page' \in [manual : Manuals \union Missing \union {None},
                    loading : Pages \union {None}, shown : Pages \union {None}]
      /\ page'.manual = m
  BY <1>1 DEF IInv
<1>6. Typed(World)'  BY <1>1 DEF IInv, Typed, World
<1>7. ~Announces(from_page') => Bound'  BY <1>1, <1>4, <1>5 DEF IInv, Bound
<1> QED  BY <1>1, <1>4, <1>5, <1>6, <1>7 DEF IInv

LEMMA PageLoadedIInv == IInv /\ PageLoaded => IInv'
<1> SUFFICES ASSUME IInv, PageLoaded PROVE IInv'
  OBVIOUS
<1> DEFINE p == page.loading
           r == SentPointers(p)
<1>1. p \in Pages  BY DEF IInv, PageLoaded
<1>2. /\ page' = [page EXCEPT !.shown = p, !.loading = None]
      /\ from_page' = from_page \o r
      /\ UNCHANGED <<main, to_page, to_hidden, hidden, from_hidden>>
  BY DEF PageLoaded
<1> HIDE DEF p
<1>3. r \in Seq(PageMessages) /\ ~Announces(r)
  <2>1. Pointers[p] \in Seq([rel : Rels, node : Nodes])
    BY <1>1, InfogAssumption DEF Rels
  <2>2. /\ Len(Pointers[p]) \in Nat /\ DOMAIN Pointers[p] = 1 .. Len(Pointers[p])
        /\ \A k \in 1 .. Len(Pointers[p]) : Pointers[p][k] \in [rel : Rels, node : Nodes]
    BY <2>1, SequenceElements
  <2>3. ASSUME NEW k \in 1 .. Len(Pointers[p])
        PROVE  /\ [kind |-> "pointer", rel |-> Pointers[p][k].rel,
                   page |-> P(p.manual, Pointers[p][k].node)] \in PageMessages
    <3>1. P(p.manual, Pointers[p][k].node) \in Pages  BY <1>1, <2>2 DEF P, Pages
    <3> QED  BY <2>2, <3>1 DEF PageMessages
  <2>4. /\ DOMAIN r = 1 .. Len(Pointers[p])
        /\ \A k \in 1 .. Len(Pointers[p]) :
             r[k] \in PageMessages /\ r[k].kind = "pointer"
    BY <2>2, <2>3 DEF SentPointers
  <2>5. r = [k \in 1 .. Len(Pointers[p]) |-> r[k]]
    BY <2>2 DEF SentPointers
  <2> HIDE DEF r
  <2>6. r \in [1 .. Len(Pointers[p]) -> PageMessages]  BY <2>4, <2>5
  <2>7. r \in Seq(PageMessages) /\ Len(r) = Len(Pointers[p])
    BY <2>2, <2>6
  <2> QED  BY <2>4, <2>7 DEF Announces
<1> HIDE DEF r
<1>4. /\ from_page' \in Seq(PageMessages) /\ LastSays(from_page', page.manual)
      /\ Announces(from_page') <=> Announces(from_page)
  BY <1>2, <1>3, SilentConcat, ConcatAt DEF IInv
<1>5. /\ page' \in [manual : Manuals \union Missing \union {None},
                    loading : Pages \union {None}, shown : Pages \union {None}]
      /\ page'.manual = page.manual
  BY <1>1, <1>2 DEF IInv
<1>6. Typed(World)'  BY <1>2 DEF IInv, Typed, World
<1>7. ~Announces(from_page') => Bound'  BY <1>2, <1>4, <1>5 DEF IInv, Bound
<1> QED  BY <1>2, <1>4, <1>5, <1>6, <1>7 DEF IInv

LEMMA LoadHiddenIInv == IInv /\ LoadHidden => IInv'
<1> SUFFICES ASSUME IInv, LoadHidden PROVE IInv'
  OBVIOUS
<1>1. to_hidden \in Seq(HiddenRequests) /\ to_hidden # << >>
  BY DEF IInv, Typed, World, LoadHidden
<1>2. Head(to_hidden) \in HiddenRequests /\ Tail(to_hidden) \in Seq(HiddenRequests)
  BY <1>1, HeadTailProperties
<1>3. Typed(World)'  BY <1>2 DEF IInv, Typed, World, LoadHidden
<1>4. Bound' <=> Bound  BY DEF Bound, LoadHidden
<1> QED  BY <1>2, <1>3, <1>4 DEF IInv, LoadHidden

LEMMA HiddenLoadedIInv == IInv /\ HiddenLoaded => IInv'
<1> SUFFICES ASSUME IInv, HiddenLoaded PROVE IInv'
  OBVIOUS
<1>1. hidden \in HiddenRequests /\ hidden' = None  BY DEF IInv, HiddenLoaded
<1>2. hidden.page \in Pages /\ hidden.page.manual \in Manuals
  BY <1>1 DEF HiddenRequests, Pages
<1> DEFINE m == hidden.page.manual
           e == [kind |-> "toc", manual |-> m]
<1>3. /\ send_index(hidden.page) \in HiddenMessages
      /\ find_indices(m) \in HiddenMessages
      /\ m \in WithContents => e \in HiddenMessages
  BY <1>2, InfogAssumption DEF HiddenMessages, send_index, find_indices
<1>4. Answers(hidden) \in Seq(HiddenMessages)
  <2>1. << send_index(hidden.page) >> \in Seq(HiddenMessages)
        /\ << find_indices(m) >> \in Seq(HiddenMessages)
    BY <1>3
  <2>2. send_toc(m) \in Seq(HiddenMessages)
    <3>1. << >> \in Seq(HiddenMessages)  BY EmptySeq
    <3>2. m \in WithContents => << e >> \in Seq(HiddenMessages)  BY <1>3
    <3> QED  BY <3>1, <3>2 DEF send_toc
  <2>3. send_toc(m) \o << find_indices(m) >> \in Seq(HiddenMessages)
    BY <2>1, <2>2, ConcatAt
  <2> QED  BY <2>1, <2>3 DEF Answers
<1>5. from_hidden' \in Seq(HiddenMessages)
  BY <1>4, ConcatAt DEF IInv, HiddenLoaded
<1>6. Typed(World)'  BY DEF IInv, Typed, World, HiddenLoaded
<1>7. Bound' <=> Bound  BY DEF Bound, HiddenLoaded
<1> QED  BY <1>1, <1>5, <1>6, <1>7 DEF IInv, HiddenLoaded

(* A callback that leaves the manual.  *)
LEMMA KeepsIInv ==
  ASSUME IInv, NEW s, Keeps(World, s), Becomes(s), UNCHANGED <<page, hidden>>,
         from_page' \in Seq(PageMessages), from_hidden' \in Seq(HiddenMessages),
         LastSays(from_page', page.manual),
         Announces(from_page') <=> Announces(from_page)
  PROVE  IInv'
<1>1. Typed(World)'  BY BecomesTyped DEF Keeps
<1>2. /\ main'.current_manual = main.current_manual
      /\ \A k \in 1 .. Len(to_page) :
           k \in 1 .. Len(to_page') /\ to_page'[k] = to_page[k]
  BY DEF Keeps, Becomes, World
<1>3. Bound => Bound'  BY <1>2 DEF Bound
<1> QED  BY <1>1, <1>3 DEF IInv

LEMMA PageMessageIInv == IInv /\ PageMessage => IInv'
<1> SUFFICES ASSUME IInv, PageMessage PROVE IInv'
  OBVIOUS
<1> DEFINE h == Head(from_page)
           s == handle_script_message(World, h)
<1>1. /\ from_page \in Seq(PageMessages) /\ from_page # << >>
      /\ LastSays(from_page, page.manual) /\ from_page' = Tail(from_page)
      /\ Becomes(s) /\ UNCHANGED <<page, hidden, from_hidden>>
  BY DEF IInv, PageMessage
<1>2. /\ from_page' \in Seq(PageMessages) /\ h \in PageMessages
      /\ LastSays(from_page', page.manual)
      /\ h.kind # "new-manual" => (Announces(from_page') <=> Announces(from_page))
      /\ h.kind = "new-manual" /\ ~Announces(from_page') => h.manual = page.manual
  BY <1>1, AfterHead
<1> HIDE DEF h
<1>3. CASE h.kind # "new-manual"
  <2>1. Keeps(World, s)  BY <1>2, <1>3, MessageKeeps DEF IInv
  <2> HIDE DEF s
  <2> QED  BY <1>1, <1>2, <1>3, <2>1, KeepsIInv DEF IInv
<1>4. CASE h.kind = "new-manual"
  <2> DEFINE t == new_manual(World, h.manual)
  <2>1. h.manual \in Manuals \union Missing  BY <1>2, <1>4 DEF PageMessages
  <2>2. s = new_manual_message(World, h.manual)
    BY <1>4 DEF handle_script_message
  <2>3. CASE h.manual \in Missing
    <3>1. s = World  BY <2>2, <2>3, InfogAssumption DEF new_manual_message
    <3>2. Typed(World)'  BY <1>1, <3>1, BecomesTyped DEF IInv
    <3>3. ~Announces(from_page') => Bound'  BY <1>1, <1>2, <1>4, <2>3 DEF Bound
    <3> QED  BY <1>1, <1>2, <3>2, <3>3 DEF IInv
  <2>4. CASE h.manual \in Manuals
    <3>1. Typed(t) /\ t.main.current_manual = h.manual
      BY <2>4, NewManualTyped DEF IInv
    <3>2. P(h.manual, Top) \in Pages  BY <2>4, InfogAssumption DEF P, Pages
    <3>3. s = load_hidden(t, P(h.manual, Top), "top-node")
      BY <2>2, <2>4 DEF new_manual_message
    <3> HIDE DEF t
    <3>4. Keeps(t, s)  BY <3>1, <3>2, <3>3, LoadHiddenKeeps
    <3> HIDE DEF s
    <3>5. Typed(World)'  BY <1>1, <3>4, BecomesTyped DEF Keeps
    <3>6. main'.current_manual = h.manual  BY <1>1, <3>1, <3>4 DEF Keeps, Becomes
    <3>7. ~Announces(from_page') => Bound'  BY <1>1, <1>2, <1>4, <3>6 DEF Bound
    <3> QED  BY <1>1, <1>2, <3>5, <3>7 DEF IInv
  <2> QED  BY <2>1, <2>3, <2>4
<1> QED  BY <1>3, <1>4

LEMMA HiddenMessageIInv == IInv /\ HiddenMessage => IInv'
<1> SUFFICES ASSUME IInv, HiddenMessage PROVE IInv'
  OBVIOUS
<1> DEFINE h == Head(from_hidden)
           s == handle_script_message(World, h)
<1>1. /\ from_hidden \in Seq(HiddenMessages) /\ from_hidden # << >>
      /\ from_hidden' = Tail(from_hidden)
      /\ Becomes(s) /\ UNCHANGED <<page, from_page, hidden>>
  BY DEF IInv, HiddenMessage
<1>2. from_hidden' \in Seq(HiddenMessages) /\ h \in HiddenMessages
  BY <1>1, HeadTailProperties
<1> HIDE DEF h
<1>3. h.kind # "new-manual"  BY <1>2 DEF HiddenMessages
<1>4. Keeps(World, s)  BY <1>2, <1>3, MessageKeeps DEF IInv
<1> HIDE DEF s
<1> QED  BY <1>1, <1>2, <1>4, KeepsIInv DEF IInv

(* A command in the window that leaves the manual. *)
LEMMA InWindowIInv ==
  ASSUME IInv, NEW s, Keeps(World, s), InWindow(s)
  PROVE  IInv'
  BY KeepsIInv DEF InWindow, IInv

LEMMA manual_entryIInv ==
  ASSUME IInv, NEW m \in Manuals \union Missing, manual_entry(m)
  PROVE  IInv'
<1> DEFINE t == new_manual(World, m)
           s == load_manual(World, m)
<1>1. Typed(World)  BY DEF IInv
<1>2. Becomes(s) /\ UNCHANGED <<page, from_page, hidden, from_hidden>>
  BY DEF manual_entry, InWindow
<1>3. CASE m \notin Manuals
  <2>1. Keeps(World, s)  BY <1>1, <1>3, KeepsSelf DEF load_manual
  <2> QED  BY <2>1, InWindowIInv DEF manual_entry
<1>4. CASE m \in Manuals
  <2>1. Typed(t) /\ t.main.current_manual = m  BY <1>1, <1>4, NewManualTyped
  <2>2. P(m, Top) \in Pages /\ P(m, Top).manual = m
    BY <1>4, InfogAssumption DEF P, Pages
  <2>3. s = load_uri(t, P(m, Top))  BY <1>4 DEF load_manual
  <2> HIDE DEF t
  <2>4. Keeps(t, s)  BY <2>1, <2>2, <2>3, LoadUriKeeps
  <2>5. s.to_page = Append(t.to_page, P(m, Top)) /\ t.to_page \in Seq(Pages)
    BY <2>1, <2>3 DEF load_uri, Typed
  <2>6. Len(s.to_page) \in 1 .. Len(s.to_page) /\ s.to_page[Len(s.to_page)] = P(m, Top)
    BY <2>2, <2>5, AppendProperties
  <2> HIDE DEF s
  <2>7. main'.current_manual = m /\ to_page' = s.to_page
    BY <1>2, <2>1, <2>4 DEF Keeps, Becomes
  <2>8. Bound'  BY <2>2, <2>6, <2>7 DEF Bound
  <2>9. Typed(World)'  BY <1>2, <2>4, BecomesTyped DEF Keeps
  <2> QED  BY <1>2, <2>8, <2>9 DEF IInv
<1> QED  BY <1>3, <1>4

LEMMA NextIInv == IInv /\ [Next]_vars => IInv'
<1> SUFFICES ASSUME IInv, [Next]_vars PROVE IInv'
  OBVIOUS
<1>1. Typed(World) /\ World.main = main  BY DEF IInv, World
<1>2. ASSUME NEW m \in Manuals \union Missing, manual_entry(m)  PROVE IInv'
  BY <1>2, manual_entryIInv
<1>3. ASSUME NEW r \in Rels, key_press(r)  PROVE IInv'
  <2>1. main.links[r] \in Pages
    BY <1>1, <1>3 DEF key_press, Typed, MainTyped
  <2> QED  BY <1>1, <1>3, <2>1, LoadUriKeeps, InWindowIInv DEF key_press
<1>4. ASSUME NEW n \in Nodes, index_match_selected(n)  PROVE IInv'
  <2>1. P(main.uri.manual, n) \in Pages
    BY <1>1 DEF Typed, MainTyped, P, Pages
  <2>2. Keeps(World, load_relative_url(World, n))
    BY <1>1, <2>1, LoadUriKeeps DEF load_relative_url
  <2> QED  BY <1>4, <2>2, InWindowIInv DEF index_match_selected
<1>5. ASSUME NEW n \in Nodes, NEW k \in DOMAIN main.toc, toc_selected(k, n)  PROVE IInv'
  <2> DEFINE row == [row |-> k, node |-> n]
  <2>1. row.node \in Nodes  OBVIOUS
  <2>2. InWindow(Selected(World, row))  BY <1>5 DEF toc_selected
  <2> HIDE DEF row
  <2> QED  BY <1>1, <2>1, <2>2, SelectedKeeps, InWindowIInv
<1>6. ASSUME NEW m \in Manuals \union Missing, NEW n \in Nodes, FollowPrivate(m, n)
      PROVE  IInv'
  BY <1>6, FollowPrivateIInv
<1>7. ASSUME NEW p \in Pages, FollowLink(p)  PROVE IInv'
  BY <1>7, FollowLinkIInv
<1>8. CASE UNCHANGED vars
  BY <1>8 DEF vars, IInv, World, Typed, Bound
<1> QED
  BY <1>2, <1>3, <1>4, <1>5, <1>6, <1>7, <1>8, LoadPageIInv, PageLoadedIInv,
     LoadHiddenIInv, HiddenLoadedIInv, PageMessageIInv, HiddenMessageIInv DEF Next

-----------------------------------------------------------------------------
LEMMA IInvAlways == Spec => []IInv
  BY InitIInv, NextIInv, PTL DEF Spec

(* The state of the main process has its types: a message never makes it   *)
(* work on a page or a manual that is not there (main.c).                  *)
THEOREM TypeCorrect == Spec => []TypeOK
<1>1. IInv => TypeOK
  BY DEF IInv, Typed, MainTyped, World, TypeOK
<1> QED  BY <1>1, IInvAlways, PTL

(* The main process and the extension agree on the manual once a change    *)
(* has been heard of, for all manuals and however much the user does.      *)
THEOREM ManualsAgreeCorrect == Spec => []ManualsAgree
<1>1. IInv => ManualsAgree
  <2> SUFFICES ASSUME IInv, to_page = << >>, ~Announcing
               PROVE  page.manual = main.current_manual \/ page.manual \in Missing
    BY DEF ManualsAgree
  <2>1. ~Announces(from_page)  BY DEF Announces, Announcing, IInv
  <2>2. Len(to_page) = 0  OBVIOUS
  <2> QED  BY <2>1, <2>2 DEF IInv, Bound
<1> QED  BY <1>1, IInvAlways, PTL

-----------------------------------------------------------------------------
(***************************************************************************)
(* The story of a command of a user who waits.                             *)

(* The messages of the process of the page. *)
Uri(p) == [kind |-> "uri", page |-> p]
Inform(p) == [kind |-> "inform-new-node", node |-> p.node]
NewManual(m) == [kind |-> "new-manual", manual |-> m]
NewNode(n) == [kind |-> "new-node", node |-> n]
PointerOf(p, k) ==
  [kind |-> "pointer", rel |-> Pointers[p][k].rel, page |-> P(p.manual, Pointers[p][k].node)]

(* What it says of p in the manual that is known already. *)
Tells(p) == {Uri(p), Inform(p)} \union {PointerOf(p, k) : k \in DOMAIN Pointers[p]}

Has(q, e) == \E k \in 1 .. Len(q) : q[k] = e

(* The hidden view is asked for a page, or has begun to load it. *)
Fetching(r) ==
  /\ from_hidden = << >>
  /\ \/ to_hidden = << r >> /\ hidden = None
     \/ to_hidden = << >> /\ hidden = r
Answered(q) == to_hidden = << >> /\ hidden = None /\ from_hidden = q

TopOf(m) == [page |-> P(m, Top), query |-> "top-node"]
TocOf(m) == [kind |-> "toc", manual |-> m]
IndexOf(m, k) == [page |-> P(m, Indices[m][k]), query |-> "send-index"]

(* The first k pages with an index are in the store, the nodes of the other *)
(* ones in the list.                                                        *)
Stored(v, m, k) ==
  /\ Len(v.index_store) = k
  /\ \A i \in 1 .. k : v.index_store[i] = P(m, Indices[m][i])
Listed(v, m, k) ==
  /\ Len(v.index_list) = Len(Indices[m]) - k
  /\ \A i \in 1 .. Len(Indices[m]) - k : v.index_list[i] = Indices[m][k + i]

(* What is in the sidebar once it is there, if the manual has contents. *)
Sidebar(m) == IF m \in WithContents THEN << m >> ELSE << >>

(* How far the sidebar and the index of a manual have come. *)
TocWanted(m) ==
  /\ main.toc = << >> /\ main.index_store = << >> /\ main.index_list = << >>
  /\ \/ Fetching(TopOf(m))
     \/ m \in WithContents /\ Answered(<< TocOf(m), find_indices(m) >>)
TocThere(m) ==
  /\ main.toc = Sidebar(m) /\ main.index_store = << >> /\ main.index_list = << >>
  /\ Answered(<< find_indices(m) >>)
IndexWanted(m, k) ==
  /\ main.toc = Sidebar(m) /\ Stored(main, m, k - 1) /\ Listed(main, m, k)
  /\ Fetching(IndexOf(m, k)) \/ Answered(<< send_index(P(m, Indices[m][k])) >>)
AllThere(m) ==
  /\ main.toc = Sidebar(m) /\ Stored(main, m, Len(Indices[m])) /\ main.index_list = << >>
  /\ Answered(<< >>)
Filling(m) ==
  \/ TocWanted(m) \/ TocThere(m) \/ AllThere(m)
  \/ \E k \in 1 .. Len(Indices[m]) : IndexWanted(m, k)

(* p is loaded again, or the main process will hear that it is the node. *)
Coming(p) == to_page # << >> \/ Has(from_page, Inform(p))
UriKnown(p) == main.uri = p \/ (from_page # << >> /\ Head(from_page) = Uri(p))
SelectionRight(p) ==
  \/ main.pending_node = p.node
  \/ /\ main.toc = << p.manual >>
     /\ p.node \in Toc[p.manual] => main.selection = [row |-> 1, node |-> p.node]
LinksRight(p) ==
  \A r \in Rels : main.links[r] # None =>
    \E k \in DOMAIN Pointers[p] :
      /\ Pointers[p][k].rel = r
      /\ main.links[r] = P(p.manual, Pointers[p][k].node)

(* No node of another manual waits for the sidebar of m.  A manual without *)
(* contents has none to wait for.                                          *)
NoneWaits(m) == m \in WithContents => main.pending_node = None

(* p is shown or is to be, in the manual that both processes are in. *)
Showing(p) ==
  /\ main.current_manual = p.manual /\ page.manual = p.manual
  /\ main.uri.manual = p.manual
  /\ to_page \in Seq({p}) /\ page.loading \in {None, p}
  /\ page.shown = p \/ page.loading = p \/ to_page # << >>
  /\ from_page \in Seq(Tells(p)) /\ UriKnown(p)
  /\ NoneWaits(p.manual) \/ main.pending_node = p.node
  /\ main.pending_node # None => main.toc = << >>
  /\ Coming(p) \/ (SelectionRight(p) /\ LinksRight(p))
Heading(p) == Showing(p) /\ Filling(p.manual)

(* Nothing of the manual before m is under way. *)
Before(m) ==
  /\ Answered(<< >>) /\ main.index_list = << >> /\ NoneWaits(m)

(* p is asked for, and its manual is to be announced. *)
Asked(p) ==
  /\ Before(p.manual) /\ to_page = << p >> /\ page.loading = None /\ from_page = << >>
  /\ page.manual # p.manual /\ main.current_manual = p.manual /\ main.uri = p

(* The manual of p has been announced. *)
Told(p) ==
  /\ Before(p.manual) /\ to_page = << >> /\ page.manual = p.manual
  /\ \E r \in {<< >>, SentPointers(p)} :
       /\ \/ page.loading = p /\ r = << >>
          \/ page.loading = None /\ page.shown = p /\ r = SentPointers(p)
       /\ \/ from_page = << Uri(p), NewManual(p.manual), Inform(p) >> \o r
          \/ main.uri = p /\ from_page = << NewManual(p.manual), Inform(p) >> \o r

(* A link with the name of a manual was followed, its page is not asked for: *)
(* it will be in that manual, or in the same when that one is not installed. *)
LinkTold(m, n) ==
  /\ \E c \in Manuals : Before(c) /\ c = IF m \in Manuals THEN m ELSE main.current_manual
  /\ to_page = << >> /\ page.loading = None /\ page.manual = m
  /\ \/ from_page = << NewManual(m), NewNode(n) >>
     \/ from_page = << NewNode(n) >> /\ m \notin Manuals
LinkKnown(n) ==
  /\ to_page = << >> /\ page.loading = None /\ page.manual = main.current_manual
  /\ from_page = << NewNode(n) >> /\ NoneWaits(main.current_manual)
  /\ Filling(main.current_manual)

Story ==
  \/ \E p \in Pages : Asked(p) \/ Told(p) \/ Heading(p)
  \/ \E n \in Nodes : \/ LinkKnown(n)
                      \/ \E m \in Manuals \union Missing : LinkTold(m, n)

StoryTold == ~user.hurried /\ ~user.again /\ ~user.left => Story

-----------------------------------------------------------------------------
LEMMA HasTail ==
  ASSUME NEW S, NEW q \in Seq(S), q # << >>, NEW e, Has(q, e), Head(q) # e
  PROVE  Has(Tail(q), e)
<1>1. PICK k \in 1 .. Len(q) : q[k] = e  BY DEF Has
<1>2. /\ Head(q) = q[1] /\ Len(q) \in Nat /\ Len(Tail(q)) = Len(q) - 1
      /\ \A i \in 1 .. Len(q) - 1 : Tail(q)[i] = q[i + 1]
  BY HeadTailProperties, EmptySeq
<1>3. k # 1  BY <1>1, <1>2
<1>4. k - 1 \in 1 .. Len(Tail(q)) /\ Tail(q)[k - 1] = e  BY <1>1, <1>2, <1>3
<1> QED  BY <1>4 DEF Has

LEMMA HasConcat ==
  ASSUME NEW S, NEW q \in Seq(S), NEW r \in Seq(S), NEW e
  PROVE  /\ Has(q, e) => Has(q \o r, e)
         /\ Has(r, e) => Has(q \o r, e)
<1>1. /\ Len(q) \in Nat /\ Len(r) \in Nat /\ Len(q \o r) = Len(q) + Len(r)
      /\ \A k \in 1 .. Len(q) : (q \o r)[k] = q[k]
      /\ \A k \in Len(q) + 1 .. Len(q) + Len(r) : (q \o r)[k] = r[k - Len(q)]
  BY ConcatAt
<1>2. ASSUME NEW k \in 1 .. Len(q), q[k] = e  PROVE Has(q \o r, e)
  <2>1. k \in 1 .. Len(q \o r) /\ (q \o r)[k] = e  BY <1>1, <1>2
  <2> QED  BY <2>1 DEF Has
<1>3. ASSUME NEW k \in 1 .. Len(r), r[k] = e  PROVE Has(q \o r, e)
  <2>1. /\ k + Len(q) \in Len(q) + 1 .. Len(q) + Len(r) /\ (k + Len(q)) - Len(q) = k
        /\ k + Len(q) \in 1 .. Len(q \o r)
    BY <1>1
  <2>2. (q \o r)[k + Len(q)] = e  BY <1>1, <1>3, <2>1
  <2> QED  BY <2>1, <2>2 DEF Has
<1> QED  BY <1>2, <1>3 DEF Has

LEMMA HasOne ==
  ASSUME NEW e
  PROVE  Has(<< e >>, e)
  BY DEF Has

LEMMA HeadOfConcat ==
  ASSUME NEW S, NEW q \in Seq(S), q # << >>, NEW r \in Seq(S)
  PROVE  /\ q \o r # << >> /\ Head(q \o r) = Head(q)
         /\ Tail(q \o r) = Tail(q) \o r
<1>1. /\ Len(q) \in Nat /\ Len(q) >= 1 /\ Len(r) \in Nat
      /\ q \o r \in Seq(S) /\ Len(q \o r) = Len(q) + Len(r)
      /\ \A k \in 1 .. Len(q) : (q \o r)[k] = q[k]
      /\ \A k \in Len(q) + 1 .. Len(q) + Len(r) : (q \o r)[k] = r[k - Len(q)]
  BY ConcatAt, EmptySeq
<1>2. q \o r # << >>  BY <1>1, EmptySeq
<1>3. /\ Tail(q) \in Seq(S) /\ Len(Tail(q)) = Len(q) - 1
      /\ \A i \in 1 .. Len(q) - 1 : Tail(q)[i] = q[i + 1]
  BY HeadTailProperties
<1>4. /\ Tail(q \o r) \in Seq(S) /\ Len(Tail(q \o r)) = Len(q \o r) - 1
      /\ \A i \in 1 .. Len(q \o r) - 1 : Tail(q \o r)[i] = (q \o r)[i + 1]
  BY <1>1, <1>2, HeadTailProperties
<1>5. /\ Tail(q) \o r \in Seq(S) /\ Len(Tail(q) \o r) = Len(Tail(q)) + Len(r)
      /\ \A k \in 1 .. Len(Tail(q)) : (Tail(q) \o r)[k] = Tail(q)[k]
      /\ \A k \in Len(Tail(q)) + 1 .. Len(Tail(q)) + Len(r) :
           (Tail(q) \o r)[k] = r[k - Len(Tail(q))]
  BY <1>3, ConcatAt
<1>6. Len(Tail(q \o r)) = Len(Tail(q) \o r)  BY <1>1, <1>3, <1>4, <1>5
<1>7. ASSUME NEW k \in 1 .. Len(Tail(q \o r))
      PROVE  Tail(q \o r)[k] = (Tail(q) \o r)[k]
  <2>1. Tail(q \o r)[k] = (q \o r)[k + 1]  BY <1>1, <1>4
  <2>2. CASE k \in 1 .. Len(q) - 1
    <3>1. k + 1 \in 1 .. Len(q) /\ k \in 1 .. Len(Tail(q))  BY <1>1, <1>3, <2>2
    <3> QED  BY <1>1, <1>3, <1>5, <2>1, <2>2, <3>1
  <2>3. CASE k \notin 1 .. Len(q) - 1
    <3>1. /\ k + 1 \in Len(q) + 1 .. Len(q) + Len(r)
          /\ k \in Len(Tail(q)) + 1 .. Len(Tail(q)) + Len(r)
          /\ (k + 1) - Len(q) = k - Len(Tail(q))
      BY <1>1, <1>3, <1>4, <2>3
    <3> QED  BY <1>1, <1>5, <2>1, <3>1
  <2> QED  BY <2>2, <2>3
<1>8. Tail(q \o r) = Tail(q) \o r
  BY <1>4, <1>5, <1>6, <1>7, SeqEqual
<1>9. Head(q \o r) = Head(q)  BY <1>1, <1>2
<1> QED  BY <1>2, <1>8, <1>9

-----------------------------------------------------------------------------
(* The sidebar and the index *)

LEMMA IndicesType ==
  ASSUME NEW m \in Manuals
  PROVE  /\ Indices[m] \in Seq(Nodes) /\ Len(Indices[m]) \in Nat
         /\ \A k \in 1 .. Len(Indices[m]) : P(m, Indices[m][k]) \in Pages
<1>1. Indices[m] \in Seq(Nodes)  BY InfogAssumption
<1>2. /\ Len(Indices[m]) \in Nat
      /\ \A k \in 1 .. Len(Indices[m]) : Indices[m][k] \in Nodes
  BY <1>1, SequenceElements
<1> QED  BY <1>1, <1>2 DEF P, Pages

LEMMA TopType ==
  ASSUME NEW m \in Manuals
  PROVE  P(m, Top) \in Pages /\ P(m, Top).manual = m /\ P(m, Top).node = Top
  BY InfogAssumption DEF P, Pages

(* None of it changes. *)
LEMMA FillingSame ==
  ASSUME NEW m, Filling(m),
         main'.toc = main.toc, main'.index_store = main.index_store,
         main'.index_list = main.index_list,
         UNCHANGED <<to_hidden, hidden, from_hidden>>
  PROVE  Filling(m)'
<1>1. \A r : Fetching(r)' <=> Fetching(r)  BY DEF Fetching
<1>2. \A q : Answered(q)' <=> Answered(q)  BY DEF Answered
<1>3. \A k : /\ Stored(main, m, k)' <=> Stored(main, m, k)
             /\ Listed(main, m, k)' <=> Listed(main, m, k)
  BY DEF Stored, Listed
<1>4. TocWanted(m) => TocWanted(m)'  BY <1>1, <1>2 DEF TocWanted
<1>5. TocThere(m) => TocThere(m)'  BY <1>2 DEF TocThere
<1>6. AllThere(m) => AllThere(m)'  BY <1>2, <1>3 DEF AllThere
<1>7. \A k : IndexWanted(m, k) => IndexWanted(m, k)'
  BY <1>1, <1>2, <1>3 DEF IndexWanted
<1> QED  BY <1>4, <1>5, <1>6, <1>7 DEF Filling

(* The hidden view begins to load. *)
LEMMA FillingLoadHidden ==
  ASSUME NEW m, Filling(m), LoadHidden
  PROVE  Filling(m)'
<1>1. /\ to_hidden # << >> /\ to_hidden' = Tail(to_hidden) /\ hidden' = Head(to_hidden)
      /\ main' = main /\ from_hidden' = from_hidden
  BY DEF LoadHidden
<1>2. ASSUME NEW r, Fetching(r)  PROVE Fetching(r)'
  <2>1. to_hidden = << r >> /\ from_hidden = << >>  BY <1>1, <1>2 DEF Fetching
  <2>2. to_hidden' = << >> /\ hidden' = r  BY <1>1, <2>1
  <2> QED  BY <1>1, <2>1, <2>2 DEF Fetching
<1>3. \A q : ~Answered(q)  BY <1>1 DEF Answered
<1>4. \A k : /\ Stored(main, m, k)' <=> Stored(main, m, k)
             /\ Listed(main, m, k)' <=> Listed(main, m, k)
  BY <1>1 DEF Stored, Listed
<1>5. TocWanted(m) => TocWanted(m)'  BY <1>1, <1>2, <1>3 DEF TocWanted
<1>6. \A k : IndexWanted(m, k) => IndexWanted(m, k)'
  BY <1>1, <1>2, <1>3, <1>4 DEF IndexWanted
<1> QED  BY <1>3, <1>5, <1>6 DEF Filling, TocThere, AllThere

(* It has loaded, and answers. *)
LEMMA FillingHiddenLoaded ==
  ASSUME NEW m, Filling(m), HiddenLoaded
  PROVE  Filling(m)'
<1>1. /\ hidden # None /\ hidden' = None /\ from_hidden' = from_hidden \o Answers(hidden)
      /\ main' = main /\ to_hidden' = to_hidden
  BY DEF HiddenLoaded
<1>2. ASSUME NEW r, Fetching(r)  PROVE Answered(<< >> \o Answers(r))'
  <2>1. to_hidden = << >> /\ hidden = r /\ from_hidden = << >>
    BY <1>1, <1>2 DEF Fetching
  <2> QED  BY <1>1, <2>1 DEF Answered
<1>3. \A q : ~Answered(q)  BY <1>1 DEF Answered
<1>4. \A k : /\ Stored(main, m, k)' <=> Stored(main, m, k)
             /\ Listed(main, m, k)' <=> Listed(main, m, k)
  BY <1>1 DEF Stored, Listed
<1>5. TocWanted(m) => TocWanted(m)' \/ TocThere(m)'
  <2>1. /\ << >> \o Answers(TopOf(m)) =
             IF m \in WithContents THEN << TocOf(m), find_indices(m) >>
             ELSE << find_indices(m) >>
    <3>1. Answers(TopOf(m)) = send_toc(m) \o << find_indices(m) >>
      BY DEF Answers, TopOf, P
    <3>2. send_toc(m) = IF m \in WithContents THEN << TocOf(m) >> ELSE << >>
      BY DEF send_toc, TocOf
    <3> DEFINE a == TocOf(m)
               b == find_indices(m)
    <3> HIDE DEF a, b
    <3>3. << a >> \o << b >> = << a, b >> /\ << >> \o << a, b >> = << a, b >>
      BY ThreeMessages
    <3>4. << >> \o << b >> = << b >>  OBVIOUS
    <3> QED  BY <3>1, <3>2, <3>3, <3>4 DEF a, b
  <2>2. ASSUME TocWanted(m), Fetching(TopOf(m))  PROVE TocWanted(m)' \/ TocThere(m)'
    <3>1. CASE m \in WithContents
      BY <1>1, <1>2, <2>1, <2>2, <3>1 DEF TocWanted
    <3>2. CASE m \notin WithContents
      BY <1>1, <1>2, <2>1, <2>2, <3>2 DEF TocWanted, TocThere, Sidebar
    <3> QED  BY <3>1, <3>2
  <2> QED  BY <1>3, <2>2 DEF TocWanted
<1>6. \A k : IndexWanted(m, k) => IndexWanted(m, k)'
  <2>1. \A k : << >> \o Answers(IndexOf(m, k)) = << send_index(P(m, Indices[m][k])) >>
    BY DEF Answers, IndexOf
  <2> QED  BY <1>1, <1>2, <1>3, <1>4, <2>1 DEF IndexWanted
<1>7. ~TocThere(m) /\ ~AllThere(m)  BY <1>3 DEF TocThere, AllThere
<1> QED  BY <1>5, <1>6, <1>7 DEF Filling

(* Two states of the main process that only differ in the index. *)
SameReader(v, w) ==
  /\ w.current_manual = v.current_manual /\ w.uri = v.uri /\ w.toc = v.toc
  /\ w.selection = v.selection /\ w.pending_node = v.pending_node /\ w.links = v.links

(* The next index node is asked for, or there is none. *)
LEMMA ContinueFills ==
  ASSUME NEW s, Typed(s), NEW m \in Manuals, s.main.current_manual = m,
         s.main.toc = Sidebar(m), s.to_hidden = << >>,
         NEW k \in 0 .. Len(Indices[m]), Stored(s.main, m, k), Listed(s.main, m, k),
         Becomes(continue_to_load_index_nodes(s)),
         hidden' = None, from_hidden' = << >>
  PROVE  Filling(m)' /\ SameReader(s.main, main') /\ to_page' = s.to_page
<1> DEFINE rest == s.main.index_list
           t == continue_to_load_index_nodes(s)
<1>1. rest \in Seq(Nodes)  BY DEF Typed, MainTyped
<1>2. Len(Indices[m]) \in Nat  BY IndicesType
<1>3. main' = t.main /\ to_page' = t.to_page /\ to_hidden' = t.to_hidden
  BY DEF Becomes
<1>4. CASE rest = << >>
  <2>1. t = s  BY <1>4 DEF continue_to_load_index_nodes
  <2>2. Len(rest) = 0  BY <1>4
  <2>3. k = Len(Indices[m])  BY <1>2, <2>2 DEF Listed
  <2>4. Stored(main, m, Len(Indices[m]))'  BY <1>3, <2>1, <2>3 DEF Stored
  <2>5. AllThere(m)'  BY <1>3, <1>4, <2>1, <2>4 DEF AllThere, Answered
  <2> QED  BY <1>3, <2>1, <2>5 DEF Filling, SameReader
<1>5. CASE rest # << >>
  <2> DEFINE e == [page |-> P(m, Head(rest)), query |-> "send-index"]
             v == [s.main EXCEPT !.index_list = Tail(rest)]
  <2>1. /\ Tail(rest) \in Seq(Nodes) /\ Len(rest) \in Nat \ {0}
        /\ Head(rest) = rest[1]
        /\ Len(Tail(rest)) = Len(rest) - 1
        /\ \A i \in 1 .. Len(rest) - 1 : Tail(rest)[i] = rest[i + 1]
    BY <1>1, <1>5, HeadTailProperties, EmptySeq
  <2>2. /\ Len(rest) = Len(Indices[m]) - k
        /\ \A i \in 1 .. Len(Indices[m]) - k : rest[i] = Indices[m][k + i]
    BY DEF Listed
  <2>3. k + 1 \in 1 .. Len(Indices[m])  BY <1>2, <2>1, <2>2
  <2>4. Head(rest) = Indices[m][k + 1]  BY <2>1, <2>2
  <2>5. t = [[s EXCEPT !.main.index_list = Tail(rest)] EXCEPT
               !.to_hidden = Append(@, e)]
    BY <1>5 DEF continue_to_load_index_nodes, load_hidden, Typed
  <2>6. t.main = v /\ t.to_page = s.to_page /\ t.to_hidden = Append(s.to_hidden, e)
    BY <2>5 DEF Typed
  <2>7. /\ v.index_list = Tail(rest) /\ v.index_store = s.main.index_store
        /\ v.toc = s.main.toc /\ SameReader(s.main, v)
    BY DEF Typed, MainTyped, SameReader
  <2>8. Append(s.to_hidden, e) = << e >>  OBVIOUS
  <2>9. e = IndexOf(m, k + 1)  BY <2>4 DEF IndexOf
  <2>10. Fetching(IndexOf(m, k + 1))'
    BY <1>3, <2>6, <2>8, <2>9 DEF Fetching
  <2>11. Stored(main, m, (k + 1) - 1)'
    <3>1. (k + 1) - 1 = k  OBVIOUS
    <3>2. main'.index_store = s.main.index_store  BY <1>3, <2>6, <2>7
    <3> QED  BY <3>1, <3>2 DEF Stored
  <2>12. Listed(main, m, k + 1)'
    <3>1. main'.index_list = Tail(rest)  BY <1>3, <2>6, <2>7
    <3>2. Len(Tail(rest)) = Len(Indices[m]) - (k + 1)  BY <1>2, <2>1, <2>2
    <3>3. ASSUME NEW i \in 1 .. Len(Indices[m]) - (k + 1)
          PROVE  Tail(rest)[i] = Indices[m][(k + 1) + i]
      <4> DEFINE n == Len(Indices[m])
      <4>1. k \in Nat /\ n \in Nat /\ i \in 1 .. n - (k + 1)  BY <1>2
      <4>2. Len(rest) = n - k  BY <2>2
      <4> HIDE DEF n, rest
      <4>3. i \in 1 .. Len(rest) - 1 /\ i + 1 \in 1 .. n - k /\ k + (i + 1) = (k + 1) + i
        BY <4>1, <4>2
      <4>4. Tail(rest)[i] = rest[i + 1]  BY <2>1, <4>3
      <4>5. rest[i + 1] = Indices[m][k + (i + 1)]  BY <2>2, <4>3 DEF n
      <4> QED  BY <4>3, <4>4, <4>5
    <3> QED  BY <3>1, <3>2, <3>3 DEF Listed
  <2>13. main'.toc = Sidebar(m)  BY <1>3, <2>6, <2>7
  <2>14. IndexWanted(m, k + 1)'
    BY <2>10, <2>11, <2>12, <2>13 DEF IndexWanted
  <2> QED  BY <1>3, <2>3, <2>6, <2>7, <2>14 DEF Filling
<1> QED  BY <1>4, <1>5

-----------------------------------------------------------------------------
(* The selection *)

LEMMA PageOf ==
  ASSUME NEW p \in Pages
  PROVE  P(p.manual, p.node) = p /\ p.manual \in Manuals /\ p.node \in Nodes
  BY DEF P, Pages

LEMMA RowOfOne ==
  ASSUME NEW m, NEW n
  PROVE  RowOf(<< m >>, n) = IF n \in Toc[m] THEN [row |-> 1, node |-> n] ELSE None
<1> DEFINE K == {k \in DOMAIN << m >> : n \in Toc[<< m >>[k]]}
<1>1. DOMAIN << m >> = {1} /\ << m >>[1] = m  OBVIOUS
<1>2. RowOf(<< m >>, n) =
        IF K = {} THEN None
        ELSE [row |-> CHOOSE k \in K : \A j \in K : j <= k, node |-> n]
  BY DEF RowOf
<1>3. CASE n \in Toc[m]
  <2>1. K = {1}  BY <1>1, <1>3
  <2> HIDE DEF K
  <2>2. (CHOOSE k \in K : \A j \in K : j <= k) = 1  BY <2>1
  <2> QED  BY <1>2, <1>3, <2>1, <2>2
<1>4. CASE n \notin Toc[m]
  <2>1. K = {}  BY <1>1, <1>4
  <2> QED  BY <1>2, <1>4, <2>1
<1> QED  BY <1>3, <1>4

(* What a selection leaves alone. *)
Leaves(s, t) ==
  /\ t.main.current_manual = s.main.current_manual /\ t.main.toc = s.main.toc
  /\ t.main.index_store = s.main.index_store /\ t.main.index_list = s.main.index_list
  /\ t.main.pending_node = s.main.pending_node /\ t.main.links = s.main.links
  /\ t.to_hidden = s.to_hidden

(* What a new selection is. *)
Loads(s, t, row, p) ==
  /\ t.main.selection = row /\ t.main.uri = p /\ t.to_page = Append(s.to_page, p)

LEMMA SelectedLoads ==
  ASSUME NEW s, Typed(s), NEW row
  PROVE  /\ Leaves(s, Selected(s, row))
         /\ row = s.main.selection => Selected(s, row) = s
         /\ row # s.main.selection =>
              Loads(s, Selected(s, row), row, P(s.main.uri.manual, row.node))
<1> DEFINE u == [s EXCEPT !.main.selection = row]
           q == P(s.main.uri.manual, row.node)
           t == load_uri(u, q)
<1>1. CASE row = s.main.selection  BY <1>1 DEF Selected, Leaves
<1>2. CASE row # s.main.selection
  <2>1. u.main.uri = s.main.uri  BY DEF Typed, MainTyped
  <2>2. Selected(s, row) = t  BY <1>2, <2>1 DEF Selected, load_relative_url
  <2> HIDE DEF q
  <2>3. t = [u EXCEPT !.main.uri = q, !.to_page = Append(@, q)]  BY DEF load_uri
  <2>4. u = [s EXCEPT !.main = [s.main EXCEPT !.selection = row]]  OBVIOUS
  <2>5. /\ t.main = [[s.main EXCEPT !.selection = row] EXCEPT !.uri = q]
        /\ t.to_page = Append(s.to_page, q) /\ t.to_hidden = s.to_hidden
    BY <2>3, <2>4 DEF Typed
  <2> HIDE DEF t
  <2>6. Leaves(s, t)  BY <2>5 DEF Leaves, Typed, MainTyped
  <2>7. Loads(s, t, row, q)  BY <2>5 DEF Loads, Typed, MainTyped
  <2> QED  BY <1>2, <2>2, <2>6, <2>7 DEF q
<1> QED  BY <1>1, <1>2

(* The row of p is or becomes the selection: then p is loaded. *)
Switched(s, t, p) ==
  /\ Leaves(s, t)
  /\ \/ t.main.uri = s.main.uri /\ t.to_page = s.to_page
     \/ t.main.uri = p /\ t.to_page = Append(s.to_page, p)
  /\ p.node \in Toc[p.manual] => t.main.selection = [row |-> 1, node |-> p.node]

LEMMA SwitchNodeSwitches ==
  ASSUME NEW s, Typed(s), NEW p \in Pages, s.main.toc = << p.manual >>,
         s.main.uri.manual = p.manual
  PROVE  Switched(s, switch_node(s, p.node), p)
<1> DEFINE row == [row |-> 1, node |-> p.node]
           t == switch_node(s, p.node)
<1>1. CASE p.node \notin Toc[p.manual]
  <2>1. t = s  BY <1>1, RowOfOne DEF switch_node
  <2> QED  BY <1>1, <2>1 DEF Switched, Leaves
<1>2. CASE p.node \in Toc[p.manual]
  <2>1. row \in [row : Nat, node : Nodes]  BY PageOf
  <2>2. row # None  BY <2>1, InfogAssumption
  <2>3. t = Selected(s, row)  BY <1>2, <2>2, RowOfOne DEF switch_node
  <2>4. P(s.main.uri.manual, row.node) = p  BY PageOf
  <2> HIDE DEF t, row
  <2>5. /\ Leaves(s, t)
        /\ row = s.main.selection => t = s
        /\ row # s.main.selection => Loads(s, t, row, p)
    BY <2>3, <2>4, SelectedLoads
  <2>6. Switched(s, t, p)  BY <2>5 DEF Switched, Loads, row
  <2> QED  BY <2>6 DEF t
<1> QED  BY <1>1, <1>2

LEMMA SwitchNodeLeaves ==
  ASSUME NEW s, Typed(s), NEW n
  PROVE  Leaves(s, switch_node(s, n))
<1>1. Leaves(s, s)  BY DEF Leaves
<1> QED  BY <1>1, SelectedLoads DEF switch_node

-----------------------------------------------------------------------------
(* The answers of the hidden view *)

(* The table of contents is put into the sidebar, and a pending node selected. *)
LEMMA TocFills ==
  ASSUME NEW s, Typed(s), NEW m \in WithContents, s.main.toc = << >>
  PROVE  LET t == load_toc(s, m)
             u == [s EXCEPT !.main = [s.main EXCEPT !.toc = << m >>]]
         IN /\ Typed(u) /\ u.main = [s.main EXCEPT !.toc = << m >>]
            /\ u.to_page = s.to_page /\ u.to_hidden = s.to_hidden
            /\ s.main.pending_node = None => t = u
            /\ s.main.pending_node # None =>
                 LET v == switch_node(u, s.main.pending_node)
                 IN t = [v EXCEPT !.main = [v.main EXCEPT !.pending_node = None]]
<1> DEFINE w == [s.main EXCEPT !.toc = << m >>]
           u == [s EXCEPT !.main = w]
<1>1. << m >> \in Seq(WithContents) /\ Append(s.main.toc, m) = << m >>  OBVIOUS
<1>2. MainTyped(w) /\ w.current_manual = s.main.current_manual
  BY <1>1 DEF Typed, MainTyped
<1>3. /\ Typed(u) /\ u.main = w /\ u.to_page = s.to_page /\ u.to_hidden = s.to_hidden
  BY <1>2 DEF Typed
<1>4. [s EXCEPT !.main.toc = Append(@, m)] = u  BY <1>1
<1>5. u.main.pending_node = s.main.pending_node
  BY <1>3 DEF Typed, MainTyped
<1>6. load_toc(s, m) =
        IF u.main.pending_node = None THEN u
        ELSE [switch_node(u, u.main.pending_node) EXCEPT !.main.pending_node = None]
  BY <1>4 DEF load_toc
<1> HIDE DEF u
<1>7. s.main.pending_node = None => load_toc(s, m) = u  BY <1>5, <1>6
<1>8. s.main.pending_node # None =>
        LET v == switch_node(u, s.main.pending_node)
        IN load_toc(s, m) = [v EXCEPT !.main = [v.main EXCEPT !.pending_node = None]]
  BY <1>5, <1>6
<1> QED  BY <1>3, <1>7, <1>8 DEF u

(* Without a pending node, only the table of contents is added. *)
WithToc(s, m) == [s EXCEPT !.main = [s.main EXCEPT !.toc = << m >>]]

LEMMA TocFillsOnly ==
  ASSUME NEW s, Typed(s), NEW m \in WithContents,
         s.main.toc = << >>, s.main.pending_node = None
  PROVE  /\ load_toc(s, m) = WithToc(s, m)
         /\ WithToc(s, m).main = [s.main EXCEPT !.toc = << m >>]
         /\ WithToc(s, m).to_page = s.to_page
<1> DEFINE w == [s.main EXCEPT !.toc = << m >>]
           u == [s EXCEPT !.main = w]
<1>1. Append(s.main.toc, m) = << m >>  OBVIOUS
<1>2. /\ u.main = w /\ u.to_page = s.to_page
      /\ u.main.pending_node = s.main.pending_node
  BY DEF Typed, MainTyped
<1>3. [s EXCEPT !.main.toc = Append(@, m)] = u  BY <1>1
<1>4. u.main.pending_node = None  BY <1>2
<1>5. load_toc(s, m) = u
  <2> HIDE DEF u
  <2> QED  BY <1>3, <1>4 DEF load_toc
<1> QED  BY <1>2, <1>5 DEF WithToc

LEMMA TocMessage ==
  ASSUME IInv, NEW m \in Manuals, TocWanted(m), HiddenMessage
  PROVE  /\ Filling(m)' /\ main.toc = << >> /\ m \in WithContents
         /\ Becomes(load_toc(World, m)) /\ UNCHANGED <<page, from_page>>
<1> DEFINE t == load_toc(World, m)
           u == [World EXCEPT !.main = [World.main EXCEPT !.toc = << m >>]]
           n == World.main.pending_node
           v == switch_node(u, n)
<1>1. /\ Typed(World) /\ World.main = main /\ World.to_page = to_page
      /\ World.to_hidden = to_hidden
  BY DEF IInv, World
<1>2. /\ from_hidden # << >> /\ from_hidden' = Tail(from_hidden)
      /\ Becomes(handle_script_message(World, Head(from_hidden)))
      /\ UNCHANGED <<page, from_page, hidden>>
  BY DEF HiddenMessage
<1>3. /\ main.toc = << >> /\ main.index_store = << >> /\ main.index_list = << >>
      /\ from_hidden = << TocOf(m), find_indices(m) >> /\ to_hidden = << >> /\ hidden = None
      /\ m \in WithContents
  BY <1>2 DEF TocWanted, Fetching, Answered
<1>4. Head(from_hidden) = TocOf(m) /\ from_hidden' = << find_indices(m) >>
  BY <1>2, <1>3
<1>5. Becomes(t)
  <2>1. handle_script_message(World, TocOf(m)) = t
    BY DEF handle_script_message, TocOf
  <2> QED  BY <1>2, <1>4, <2>1
<1>6. /\ Typed(u) /\ u.main = [main EXCEPT !.toc = << m >>]
      /\ u.to_page = to_page /\ u.to_hidden = to_hidden
      /\ n = None => t = u
      /\ n # None => t = [v EXCEPT !.main = [v.main EXCEPT !.pending_node = None]]
  <2>1. World.main.toc = << >>  BY <1>1, <1>3
  <2>2. /\ Typed(u) /\ u.main = [World.main EXCEPT !.toc = << m >>]
        /\ u.to_page = World.to_page /\ u.to_hidden = World.to_hidden
        /\ n = None => t = u
        /\ n # None => t = [v EXCEPT !.main = [v.main EXCEPT !.pending_node = None]]
    BY <1>1, <1>3, <2>1, TocFills
  <2> HIDE DEF t, u, n, v
  <2> QED  BY <1>1, <2>2
<1> HIDE DEF t, u
<1>7. /\ u.main.toc = << m >> /\ u.main.index_store = << >> /\ u.main.index_list = << >>
      /\ u.to_hidden = << >>
  BY <1>1, <1>3, <1>6 DEF Typed, MainTyped
<1>8. /\ t.main.toc = << m >> /\ t.main.index_store = << >> /\ t.main.index_list = << >>
      /\ t.to_hidden = << >>
  <2>1. CASE n = None  BY <1>6, <1>7, <2>1
  <2>2. CASE n # None
    <3>1. n \in Nodes  BY <1>1, <2>2 DEF Typed, MainTyped
    <3>2. Typed(v) /\ Leaves(u, v)
      BY <1>6, <3>1, SwitchNodeKeeps, SwitchNodeLeaves DEF Keeps
    <3> HIDE DEF v
    <3>3. /\ t.main.toc = v.main.toc /\ t.main.index_store = v.main.index_store
          /\ t.main.index_list = v.main.index_list /\ t.to_hidden = v.to_hidden
      BY <1>6, <2>2, <3>2 DEF Typed, MainTyped
    <3> QED  BY <1>7, <3>2, <3>3 DEF Leaves
  <2> QED  BY <2>1, <2>2
<1>9. TocThere(m)'
  BY <1>2, <1>3, <1>4, <1>5, <1>8 DEF Becomes, TocThere, Answered, Sidebar
<1> QED  BY <1>2, <1>3, <1>5, <1>9 DEF Filling, t

LEMMA IndicesMessage ==
  ASSUME IInv, NEW m \in Manuals, m = main.current_manual, TocThere(m), HiddenMessage
  PROVE  /\ Filling(m)' /\ SameReader(main, main')
         /\ UNCHANGED <<to_page, page, from_page>>
<1> DEFINE w == [main EXCEPT !.index_list = Indices[m]]
           s == [World EXCEPT !.main = w]
<1>1. /\ Typed(World) /\ World.main = main /\ World.to_page = to_page
      /\ World.to_hidden = to_hidden
  BY DEF IInv, World
<1>2. /\ from_hidden # << >> /\ from_hidden' = Tail(from_hidden)
      /\ Becomes(handle_script_message(World, Head(from_hidden)))
      /\ UNCHANGED <<page, from_page, hidden>>
  BY DEF HiddenMessage
<1>3. /\ main.toc = Sidebar(m) /\ main.index_store = << >>
      /\ from_hidden = << find_indices(m) >> /\ to_hidden = << >> /\ hidden = None
  BY DEF TocThere, Answered
<1>4. Head(from_hidden) = find_indices(m) /\ from_hidden' = << >>
  BY <1>2, <1>3
<1>5. Indices[m] \in Seq(Nodes) /\ Len(Indices[m]) \in Nat  BY IndicesType
<1>6. Becomes(continue_to_load_index_nodes(s))
  <2>1. handle_script_message(World, find_indices(m)) = load_index_nodes(World, Indices[m])
    BY DEF handle_script_message, find_indices
  <2>2. [World EXCEPT !.main.index_list = Indices[m]] = s  BY <1>1
  <2> QED  BY <1>2, <1>4, <2>1, <2>2 DEF load_index_nodes
<1>7. MainTyped(w) /\ w.index_list = Indices[m] /\ w.index_store = << >>
      /\ w.toc = Sidebar(m) /\ SameReader(main, w)
  BY <1>1, <1>3, <1>5 DEF Typed, MainTyped, SameReader
<1>8. Typed(s) /\ s.main = w /\ s.to_page = to_page /\ s.to_hidden = << >>
  BY <1>1, <1>3, <1>7 DEF Typed
<1> HIDE DEF s, w
<1>9. Stored(s.main, m, 0)
  BY <1>7, <1>8 DEF Stored
<1>10. Listed(s.main, m, 0)
  <2> DEFINE q == Indices[m]
  <2>1. q \in Seq(Nodes) /\ Len(q) \in Nat  BY <1>5
  <2>2. w.index_list = q  BY <1>7
  <2> HIDE DEF q
  <2>3. Len(q) = Len(q) - 0  BY <2>1
  <2>4. \A i \in 1 .. Len(q) - 0 : 0 + i = i  OBVIOUS
  <2> QED  BY <1>8, <2>2, <2>3, <2>4 DEF Listed, q
<1>11. s.main.current_manual = m /\ s.main.toc = Sidebar(m) /\ 0 \in 0 .. Len(Indices[m])
  BY <1>5, <1>7, <1>8 DEF SameReader
<1>12. hidden' = None /\ from_hidden' = << >>  BY <1>2, <1>3, <1>4
<1>13. Filling(m)' /\ SameReader(s.main, main') /\ to_page' = s.to_page
  BY <1>6, <1>8, <1>9, <1>10, <1>11, <1>12, ContinueFills
<1> QED  BY <1>2, <1>7, <1>8, <1>13 DEF SameReader

LEMMA IndexMessage ==
  ASSUME IInv, NEW m \in Manuals, m = main.current_manual,
         NEW k \in 1 .. Len(Indices[m]), IndexWanted(m, k), HiddenMessage
  PROVE  /\ Filling(m)' /\ SameReader(main, main')
         /\ UNCHANGED <<to_page, page, from_page>>
<1> DEFINE p == P(m, Indices[m][k])
           w == [main EXCEPT !.index_store = Append(main.index_store, p)]
           s == [World EXCEPT !.main = w]
<1>1. /\ Typed(World) /\ World.main = main /\ World.to_page = to_page
      /\ World.to_hidden = to_hidden
  BY DEF IInv, World
<1>2. /\ from_hidden # << >> /\ from_hidden' = Tail(from_hidden)
      /\ Becomes(handle_script_message(World, Head(from_hidden)))
      /\ UNCHANGED <<page, from_page, hidden>>
  BY DEF HiddenMessage
<1>3. /\ main.toc = Sidebar(m) /\ Stored(main, m, k - 1) /\ Listed(main, m, k)
      /\ from_hidden = << send_index(p) >> /\ to_hidden = << >> /\ hidden = None
  BY <1>2 DEF IndexWanted, Fetching, Answered
<1>4. Head(from_hidden) = send_index(p) /\ from_hidden' = << >>
  BY <1>2, <1>3
<1>5. p \in Pages /\ Len(Indices[m]) \in Nat  BY IndicesType
<1>6. Becomes(continue_to_load_index_nodes(s))
  <2> HIDE DEF p
  <2>1. handle_script_message(World, send_index(p)) = save_completions(World, p)
    BY DEF handle_script_message, send_index
  <2>2. [World EXCEPT !.main.index_store = Append(@, p)] = s  BY <1>1
  <2> QED  BY <1>2, <1>4, <2>1, <2>2 DEF save_completions
<1>7. /\ main.index_store \in Seq(Pages) /\ Append(main.index_store, p) \in Seq(Pages)
      /\ Len(Append(main.index_store, p)) = Len(main.index_store) + 1
      /\ \A i \in 1 .. Len(main.index_store) :
           Append(main.index_store, p)[i] = main.index_store[i]
      /\ Append(main.index_store, p)[Len(main.index_store) + 1] = p
  <2>1. main.index_store \in Seq(Pages)  BY <1>1 DEF Typed, MainTyped
  <2> HIDE DEF p
  <2> QED  BY <1>5, <2>1, AppendProperties
<1>8. MainTyped(w) /\ w.index_list = main.index_list
      /\ w.index_store = Append(main.index_store, p)
      /\ w.toc = Sidebar(m) /\ SameReader(main, w)
  <2> HIDE DEF p
  <2> QED  BY <1>1, <1>3, <1>7 DEF Typed, MainTyped, SameReader
<1>9. Typed(s) /\ s.main = w /\ s.to_page = to_page /\ s.to_hidden = << >>
  BY <1>1, <1>3, <1>8 DEF Typed
<1> HIDE DEF s, w
<1>10. Stored(s.main, m, k)
  <2>1. /\ Len(main.index_store) = k - 1
        /\ \A i \in 1 .. k - 1 : main.index_store[i] = P(m, Indices[m][i])
    BY <1>3 DEF Stored
  <2>2. Len(main.index_store) + 1 = k  BY <1>5, <2>1
  <2>3. ASSUME NEW i \in 1 .. k
        PROVE  Append(main.index_store, p)[i] = P(m, Indices[m][i])
    <3>1. CASE i = k  BY <1>7, <2>2, <3>1
    <3>2. CASE i # k
      <4>1. i \in 1 .. k - 1  BY <3>2
      <4>2. i \in 1 .. Len(main.index_store)  BY <2>1, <4>1
      <4> QED  BY <1>7, <2>1, <4>1, <4>2
    <3> QED  BY <3>1, <3>2
  <2>4. Len(Append(main.index_store, p)) = k  BY <1>7, <2>2
  <2> HIDE DEF p
  <2> QED  BY <1>8, <1>9, <2>3, <2>4 DEF Stored
<1>11. Listed(s.main, m, k)
  BY <1>3, <1>8, <1>9 DEF Listed
<1>12. s.main.current_manual = m /\ s.main.toc = Sidebar(m) /\ k \in 0 .. Len(Indices[m])
  BY <1>5, <1>8, <1>9 DEF SameReader
<1>13. hidden' = None /\ from_hidden' = << >>  BY <1>2, <1>3, <1>4
<1>14. Filling(m)' /\ SameReader(s.main, main') /\ to_page' = s.to_page
  BY <1>6, <1>9, <1>10, <1>11, <1>12, <1>13, ContinueFills
<1> QED  BY <1>2, <1>8, <1>9, <1>14 DEF SameReader

(* What an answer of the hidden view does while it fills the manual. *)
LEMMA FillingHiddenMessage ==
  ASSUME IInv, NEW m \in Manuals, m = main.current_manual, Filling(m), HiddenMessage
  PROVE  /\ Filling(m)' /\ UNCHANGED <<page, from_page>>
         /\ \/ SameReader(main, main') /\ to_page' = to_page
            \/ /\ main.toc = << >> /\ m \in WithContents
               /\ Becomes(load_toc(World, m))
<1>1. ~AllThere(m)  BY DEF HiddenMessage, AllThere, Answered
<1>2. CASE TocWanted(m)  BY <1>2, TocMessage
<1>3. CASE TocThere(m)  BY <1>3, IndicesMessage
<1>4. CASE \E k \in 1 .. Len(Indices[m]) : IndexWanted(m, k)  BY <1>4, IndexMessage
<1> QED  BY <1>1, <1>2, <1>3, <1>4 DEF Filling

-----------------------------------------------------------------------------
(* The page, while the hidden view works *)

LEMMA ShowingSame ==
  ASSUME NEW p, Showing(p), SameReader(main, main'), UNCHANGED <<to_page, page, from_page>>
  PROVE  Showing(p)'
<1>1. Coming(p)' <=> Coming(p)  BY DEF Coming
<1>2. UriKnown(p)' <=> UriKnown(p)  BY DEF UriKnown, SameReader
<1>3. SelectionRight(p)' <=> SelectionRight(p)  BY DEF SelectionRight, SameReader
<1>4. LinksRight(p)' <=> LinksRight(p)  BY DEF LinksRight, SameReader
<1> QED  BY <1>1, <1>2, <1>3, <1>4 DEF Showing, SameReader, NoneWaits

LEMMA SameSame ==
  ASSUME main' = main
  PROVE  SameReader(main, main')
  BY DEF SameReader

(* A page that is asked for once more. *)
LEMMA AskedOnceMore ==
  ASSUME NEW p, NEW q \in Seq({p})
  PROVE  Append(q, p) \in Seq({p}) /\ Append(q, p) # << >>
  BY AppendProperties

(* The sidebar comes: the page that is pending is selected in it. *)
LEMMA ShowingToc ==
  ASSUME IInv, NEW p \in Pages, Showing(p), main.toc = << >>,
         p.manual \in WithContents,
         Becomes(load_toc(World, p.manual)), UNCHANGED <<page, from_page>>
  PROVE  Showing(p)'
<1> DEFINE m == p.manual
           t == load_toc(World, m)
           u == [World EXCEPT !.main = [World.main EXCEPT !.toc = << m >>]]
           n == World.main.pending_node
           v == switch_node(u, n)
<1>1. /\ Typed(World) /\ World.main = main /\ World.to_page = to_page
      /\ World.to_hidden = to_hidden
  BY DEF IInv, World
<1>2. m \in WithContents /\ p.node \in Nodes  BY PageOf
<1>3. /\ main.current_manual = m /\ page.manual = m /\ main.uri.manual = m
      /\ to_page \in Seq({p}) /\ page.loading \in {None, p}
      /\ page.shown = p \/ page.loading = p \/ to_page # << >>
      /\ from_page \in Seq(Tells(p)) /\ UriKnown(p) /\ n \in {None, p.node}
      /\ Coming(p) \/ (SelectionRight(p) /\ LinksRight(p))
  BY <1>1 DEF Showing, NoneWaits
<1>4. /\ Typed(u) /\ u.main = [main EXCEPT !.toc = << m >>]
      /\ u.to_page = to_page /\ u.to_hidden = to_hidden
      /\ n = None => t = u
      /\ n # None => t = [v EXCEPT !.main = [v.main EXCEPT !.pending_node = None]]
  <2>1. World.main.toc = << >>  BY <1>1
  <2> HIDE DEF m
  <2>2. m \in WithContents  BY <1>2
  <2>3. /\ Typed(u) /\ u.main = [World.main EXCEPT !.toc = << m >>]
        /\ u.to_page = World.to_page /\ u.to_hidden = World.to_hidden
        /\ n = None => t = u
        /\ n # None => t = [v EXCEPT !.main = [v.main EXCEPT !.pending_node = None]]
    BY <1>1, <2>1, <2>2, TocFills
  <2> HIDE DEF t, u, n, v
  <2> QED  BY <1>1, <2>3
<1>5. main' = t.main /\ to_page' = t.to_page  BY DEF Becomes
<1>6. n = main.pending_node  BY <1>1
<1> HIDE DEF t, u, m, n
<1>7. /\ u.main.toc = << m >> /\ u.main.current_manual = m /\ u.main.uri = main.uri
      /\ u.main.links = main.links /\ u.main.pending_node = n
  BY <1>1, <1>3, <1>4, <1>6 DEF Typed, MainTyped
<1>8. CASE n = None
  <2>1. main' = u.main /\ to_page' = to_page  BY <1>4, <1>5, <1>8
  <2>2. ~SelectionRight(p)
    <3>1. None \notin Nodes  BY InfogAssumption
    <3>2. << >> # << p.manual >>  OBVIOUS
    <3> QED  BY <1>2, <1>8, <1>6, <3>1, <3>2 DEF SelectionRight
  <2>3. Coming(p)'  BY <1>3, <2>1, <2>2 DEF Coming
  <2>4. UriKnown(p)'  BY <1>3, <1>7, <2>1 DEF UriKnown
  <2> QED  BY <1>3, <1>7, <1>8, <1>6, <2>1, <2>3, <2>4 DEF Showing, NoneWaits, m
<1>9. CASE n # None
  <2>1. n = p.node  BY <1>3, <1>9
  <2>2. Typed(v) /\ Switched(u, v, p)
    <3>1. u.main.toc = << p.manual >> /\ u.main.uri.manual = p.manual
      BY <1>3, <1>7 DEF m
    <3>2. Switched(u, switch_node(u, p.node), p)  BY <1>4, <3>1, SwitchNodeSwitches
    <3> QED  BY <1>2, <1>4, <2>1, <3>2, SwitchNodeKeeps DEF Keeps
  <2> HIDE DEF v
  <2>3. /\ main'.pending_node = None /\ main'.toc = v.main.toc
        /\ main'.current_manual = v.main.current_manual /\ main'.uri = v.main.uri
        /\ main'.selection = v.main.selection /\ main'.links = v.main.links
        /\ to_page' = v.to_page
    BY <1>4, <1>5, <1>9, <2>2 DEF Typed, MainTyped
  <2>4. /\ main'.toc = << m >> /\ main'.current_manual = m /\ main'.links = main.links
        /\ p.node \in Toc[m] => main'.selection = [row |-> 1, node |-> p.node]
        /\ \/ main'.uri = main.uri /\ to_page' = to_page
           \/ main'.uri = p /\ to_page' = Append(to_page, p)
    BY <1>4, <1>7, <2>2, <2>3 DEF Switched, Leaves, m
  <2>5. to_page' \in Seq({p}) /\ (to_page # << >> => to_page' # << >>)
    BY <1>3, <2>4, AskedOnceMore
  <2>6. SelectionRight(p)'  BY <2>4 DEF SelectionRight, m
  <2>7. LinksRight(p) => LinksRight(p)'  BY <2>4 DEF LinksRight
  <2>8. Coming(p) => Coming(p)'  BY <2>5 DEF Coming
  <2>9. UriKnown(p)' /\ main'.uri.manual = m  BY <1>3, <2>4 DEF UriKnown, m
  <2> QED  BY <1>3, <2>3, <2>4, <2>5, <2>6, <2>7, <2>8, <2>9 DEF Showing, NoneWaits, m
<1> QED  BY <1>8, <1>9

HiddenStep == LoadHidden \/ HiddenLoaded \/ HiddenMessage

LEMMA HeadingHidden ==
  ASSUME IInv, NEW p \in Pages, Heading(p), HiddenStep
  PROVE  Heading(p)'
<1>1. Showing(p) /\ Filling(p.manual) /\ p.manual \in Manuals /\ p.manual = main.current_manual
  BY PageOf DEF Heading, Showing
<1>2. CASE LoadHidden
  <2>1. Filling(p.manual)'  BY <1>1, <1>2, FillingLoadHidden
  <2>2. Showing(p)'  BY <1>1, <1>2, SameSame, ShowingSame DEF LoadHidden
  <2> QED  BY <2>1, <2>2 DEF Heading
<1>3. CASE HiddenLoaded
  <2>1. Filling(p.manual)'  BY <1>1, <1>3, FillingHiddenLoaded
  <2>2. Showing(p)'  BY <1>1, <1>3, SameSame, ShowingSame DEF HiddenLoaded
  <2> QED  BY <2>1, <2>2 DEF Heading
<1>4. CASE HiddenMessage
  <2>1. /\ Filling(p.manual)' /\ UNCHANGED <<page, from_page>>
        /\ \/ SameReader(main, main') /\ to_page' = to_page
           \/ /\ main.toc = << >> /\ p.manual \in WithContents
              /\ Becomes(load_toc(World, p.manual))
    BY <1>1, <1>4, FillingHiddenMessage
  <2>2. Showing(p)'  BY <1>1, <2>1, ShowingSame, ShowingToc
  <2> QED  BY <2>1, <2>2 DEF Heading
<1> QED  BY <1>2, <1>3, <1>4 DEF HiddenStep

LEMMA LinkKnownHidden ==
  ASSUME IInv, NEW n, LinkKnown(n), HiddenStep
  PROVE  LinkKnown(n)'
<1> DEFINE m == main.current_manual
<1>1. /\ to_page = << >> /\ page.loading = None /\ page.manual = m
      /\ from_page = << NewNode(n) >> /\ NoneWaits(m) /\ Filling(m)
  BY DEF LinkKnown
<1>2. m \in Manuals  BY DEF IInv, Typed, MainTyped, World
<1>3. PICK c \in Manuals : c = m  BY <1>2
<1>4. SUFFICES /\ Filling(c)' /\ main'.current_manual = c
               /\ c \in WithContents => main'.pending_node = None
               /\ UNCHANGED <<to_page, page, from_page>>
  BY <1>1, <1>3 DEF LinkKnown, NoneWaits
<1>5. /\ Filling(c) /\ c = main.current_manual
      /\ c \in WithContents => main.pending_node = None
  BY <1>1, <1>3 DEF NoneWaits
<1>6. CASE LoadHidden
  BY <1>1, <1>5, <1>6, FillingLoadHidden DEF LoadHidden
<1>7. CASE HiddenLoaded
  BY <1>1, <1>5, <1>7, FillingHiddenLoaded DEF HiddenLoaded
<1>8. CASE HiddenMessage
  <2>1. /\ Filling(c)' /\ UNCHANGED <<page, from_page>>
        /\ \/ SameReader(main, main') /\ to_page' = to_page
           \/ /\ main.toc = << >> /\ c \in WithContents
              /\ Becomes(load_toc(World, c))
    BY <1>5, <1>8, FillingHiddenMessage
  <2>2. CASE SameReader(main, main') /\ to_page' = to_page
    BY <1>1, <1>5, <2>1, <2>2 DEF SameReader
  <2>3. CASE /\ main.toc = << >> /\ c \in WithContents
             /\ Becomes(load_toc(World, c))
    <3> DEFINE w == [World.main EXCEPT !.toc = << c >>]
               u == [World EXCEPT !.main = w]
    <3>1. Typed(World) /\ World.main = main /\ World.to_page = to_page
      BY DEF IInv, World
    <3>2. load_toc(World, c) = u /\ u.main = w /\ u.to_page = to_page
      <4>1. World.main.toc = << >> /\ World.main.pending_node = None
        BY <1>5, <2>3, <3>1
      <4>2. load_toc(World, c) = u /\ u.main = w /\ u.to_page = World.to_page
        <5> HIDE DEF w, u
        <5>1. /\ load_toc(World, c) = WithToc(World, c)
              /\ WithToc(World, c).main = [World.main EXCEPT !.toc = << c >>]
              /\ WithToc(World, c).to_page = World.to_page
          BY <2>3, <3>1, <4>1, TocFillsOnly
        <5>2. WithToc(World, c) = u  BY DEF WithToc, u, w
        <5> QED  BY <5>1, <5>2 DEF w
      <4> HIDE DEF u
      <4> QED  BY <3>1, <4>2
    <3>3. main' = w /\ to_page' = to_page  BY <2>3, <3>2 DEF Becomes
    <3>4. w.current_manual = c /\ w.pending_node = None
      BY <1>5, <2>3, <3>1 DEF Typed, MainTyped
    <3> QED  BY <2>1, <3>3, <3>4
  <2> QED  BY <2>1, <2>2, <2>3
<1> QED  BY <1>6, <1>7, <1>8 DEF HiddenStep

-----------------------------------------------------------------------------
(* The process of the page, and what it tells *)

LEMMA TellsOf ==
  ASSUME NEW p \in Pages
  PROVE  /\ Uri(p) \in Tells(p) /\ Inform(p) \in Tells(p)
         /\ SentPointers(p) \in Seq(Tells(p))
         /\ \A k \in DOMAIN Pointers[p] : Pointers[p][k] \in [rel : Rels, node : Nodes]
<1>1. Pointers[p] \in Seq([rel : Rels, node : Nodes])
  BY InfogAssumption DEF Rels
<1>2. /\ Len(Pointers[p]) \in Nat /\ DOMAIN Pointers[p] = 1 .. Len(Pointers[p])
      /\ \A k \in 1 .. Len(Pointers[p]) : Pointers[p][k] \in [rel : Rels, node : Nodes]
  BY <1>1, SequenceElements
<1>3. SentPointers(p) = [k \in 1 .. Len(Pointers[p]) |-> PointerOf(p, k)]
  BY <1>2 DEF SentPointers, PointerOf
<1>4. \A k \in 1 .. Len(Pointers[p]) : PointerOf(p, k) \in Tells(p)
  BY <1>2 DEF Tells
<1>5. SentPointers(p) \in [1 .. Len(Pointers[p]) -> Tells(p)]
  BY <1>3, <1>4
<1>6. SentPointers(p) \in Seq(Tells(p))  BY <1>2, <1>5
<1> QED  BY <1>2, <1>6 DEF Tells

(* What else there is to hear does not change what is heard first. *)
LEMMA UriStillKnown ==
  ASSUME NEW p, NEW S, from_page \in Seq(S), NEW r \in Seq(S), from_page' = from_page \o r,
         UriKnown(p), main' = main
  PROVE  UriKnown(p)'
<1>1. CASE main.uri = p  BY <1>1 DEF UriKnown
<1>2. CASE from_page # << >> /\ Head(from_page) = Uri(p)
  <2>1. from_page' # << >> /\ Head(from_page') = Head(from_page)
    BY <1>2, HeadOfConcat
  <2> QED  BY <1>2, <2>1 DEF UriKnown, Uri
<1> QED  BY <1>1, <1>2 DEF UriKnown

LEMMA HeadingLoadPage ==
  ASSUME IInv, NEW p \in Pages, Heading(p), LoadPage
  PROVE  Heading(p)'
<1>1. /\ main.current_manual = p.manual /\ page.manual = p.manual
      /\ main.uri.manual = p.manual /\ to_page \in Seq({p})
      /\ from_page \in Seq(Tells(p)) /\ UriKnown(p)
      /\ NoneWaits(p.manual) \/ main.pending_node = p.node
      /\ main.pending_node # None => main.toc = << >>
      /\ Filling(p.manual)
  BY DEF Heading, Showing
<1>2. /\ to_page # << >> /\ to_page' = Tail(to_page) /\ Request(Head(to_page))
      /\ UNCHANGED <<main, to_hidden, hidden, from_hidden>>
  BY DEF LoadPage
<1>3. Head(to_page) \in {p} /\ to_page' \in Seq({p})
  BY <1>1, <1>2, HeadTailProperties
<1>4. Head(to_page) = p  BY <1>3
<1>5. /\ page' = [page EXCEPT !.manual = p.manual, !.loading = p]
      /\ from_page' = from_page \o << Uri(p) >> \o Announced(p.manual) \o << Inform(p) >>
  BY <1>2, <1>4 DEF Request, Uri, Inform
<1>6. page'.manual = p.manual /\ page'.loading = p
  BY <1>5 DEF IInv
<1>7. Uri(p) \in Tells(p) /\ Inform(p) \in Tells(p)  BY TellsOf
<1>8. << Uri(p) >> \in Seq(Tells(p)) /\ << Inform(p) >> \in Seq(Tells(p))
  BY <1>7
<1>9. from_page' = (from_page \o << Uri(p) >>) \o << Inform(p) >>
  <2>1. Announced(p.manual) = << >>  BY <1>1 DEF Announced
  <2>2. from_page \o << Uri(p) >> \in Seq(Tells(p))  BY <1>1, <1>8, ConcatAt
  <2>3. (from_page \o << Uri(p) >>) \o << >> = from_page \o << Uri(p) >>
    BY <2>2, ConcatEmptySeq
  <2> QED  BY <1>5, <2>1, <2>3
<1>10. /\ from_page \o << Uri(p) >> \in Seq(Tells(p)) /\ from_page' \in Seq(Tells(p))
       /\ Has(from_page', Inform(p))
  <2>1. from_page \o << Uri(p) >> \in Seq(Tells(p))  BY <1>1, <1>8, ConcatAt
  <2>2. Has(<< Inform(p) >>, Inform(p))  BY HasOne
  <2> QED  BY <1>8, <1>9, <2>1, <2>2, ConcatAt, HasConcat
<1>11. UriKnown(p)'
  <2>1. << Uri(p) >> \o << Inform(p) >> \in Seq(Tells(p))  BY <1>8, ConcatAt
  <2>2. from_page' = from_page \o (<< Uri(p) >> \o << Inform(p) >>)
    BY <1>1, <1>8, <1>9, ConcatAssociative
  <2> QED  BY <1>1, <1>2, <2>1, <2>2, UriStillKnown
<1>12. Filling(p.manual)'
  <2>1. main'.toc = main.toc /\ main'.index_store = main.index_store
        /\ main'.index_list = main.index_list
    BY <1>2
  <2> QED  BY <1>1, <1>2, <2>1, FillingSame
<1>13. Coming(p)'  BY <1>10 DEF Coming, Inform
<1> QED  BY <1>1, <1>2, <1>3, <1>6, <1>10, <1>11, <1>12, <1>13 DEF Heading, Showing, NoneWaits, Tells, Uri, Inform,
     PointerOf

LEMMA HeadingPageLoaded ==
  ASSUME IInv, NEW p \in Pages, Heading(p), PageLoaded
  PROVE  Heading(p)'
<1>1. /\ main.current_manual = p.manual /\ page.manual = p.manual
      /\ main.uri.manual = p.manual /\ to_page \in Seq({p})
      /\ page.loading \in {None, p}
      /\ from_page \in Seq(Tells(p)) /\ UriKnown(p)
      /\ NoneWaits(p.manual) \/ main.pending_node = p.node
      /\ main.pending_node # None => main.toc = << >>
      /\ Coming(p) \/ (SelectionRight(p) /\ LinksRight(p))
      /\ Filling(p.manual)
  BY DEF Heading, Showing
<1>2. /\ page.loading # None
      /\ page' = [page EXCEPT !.shown = page.loading, !.loading = None]
      /\ from_page' = from_page \o SentPointers(page.loading)
      /\ UNCHANGED <<main, to_page, to_hidden, hidden, from_hidden>>
  BY DEF PageLoaded
<1>3. page.loading = p  BY <1>1, <1>2
<1>4. page'.manual = p.manual /\ page'.loading = None /\ page'.shown = p
  BY <1>1, <1>2, <1>3 DEF IInv
<1>5. SentPointers(p) \in Seq(Tells(p)) /\ from_page' = from_page \o SentPointers(p)
  BY <1>2, <1>3, TellsOf
<1>6. from_page' \in Seq(Tells(p)) /\ (Has(from_page, Inform(p)) => Has(from_page', Inform(p)))
  BY <1>1, <1>5, ConcatAt, HasConcat
<1>7. UriKnown(p)'  BY <1>1, <1>2, <1>5, UriStillKnown
<1>8. Coming(p) => Coming(p)'  BY <1>2, <1>6 DEF Coming, Inform
<1>9. SelectionRight(p)' <=> SelectionRight(p)  BY <1>2 DEF SelectionRight
<1>10. LinksRight(p)' <=> LinksRight(p)  BY <1>2 DEF LinksRight
<1>11. Filling(p.manual)'
  <2>1. main'.toc = main.toc /\ main'.index_store = main.index_store
        /\ main'.index_list = main.index_list
    BY <1>2
  <2> QED  BY <1>1, <1>2, <2>1, FillingSame
<1> QED
  BY <1>1, <1>2, <1>4, <1>6, <1>7, <1>8, <1>9, <1>10, <1>11
  DEF Heading, Showing, NoneWaits, Tells, Uri, Inform,
     PointerOf

-----------------------------------------------------------------------------
(* What the process of the page has told is heard *)

LEMMA FillingToc ==
  ASSUME NEW m, Filling(m)
  PROVE  main.toc = << >> \/ (m \in WithContents /\ main.toc = << m >>)
  BY DEF Filling, TocWanted, TocThere, AllThere, IndexWanted, Sidebar

(* What all messages for a page that is headed for have in common. *)
LEMMA HeadingHears ==
  ASSUME IInv, NEW p \in Pages, Heading(p), PageMessage
  PROVE  /\ Head(from_page) \in Tells(p) /\ from_page' \in Seq(Tells(p))
         /\ Head(from_page) # Inform(p) => (Coming(p) /\ to_page' # << >> => Coming(p)')
         /\ Head(from_page) # Inform(p) => (Coming(p) /\ to_page' = to_page => Coming(p)')
         /\ Head(from_page) # Uri(p) => main.uri = p
         /\ Becomes(handle_script_message(World, Head(from_page)))
         /\ UNCHANGED <<page, hidden, from_hidden>>
<1>1. /\ from_page # << >> /\ from_page' = Tail(from_page)
      /\ Becomes(handle_script_message(World, Head(from_page)))
      /\ UNCHANGED <<page, hidden, from_hidden>>
  BY DEF PageMessage
<1>2. from_page \in Seq(Tells(p)) /\ UriKnown(p)  BY DEF Heading, Showing
<1>3. Head(from_page) \in Tells(p) /\ from_page' \in Seq(Tells(p))
  BY <1>1, <1>2, HeadTailProperties
<1>4. Has(from_page, Inform(p)) /\ Head(from_page) # Inform(p) => Has(from_page', Inform(p))
  BY <1>1, <1>2, HasTail
<1>5. Head(from_page) # Inform(p) => (Coming(p) /\ to_page' = to_page => Coming(p)')
  BY <1>4 DEF Coming, Inform
<1>6. to_page' # << >> => Coming(p)'  BY DEF Coming
<1> QED  BY <1>1, <1>2, <1>3, <1>5, <1>6 DEF UriKnown

LEMMA HeadingUri ==
  ASSUME IInv, NEW p \in Pages, Heading(p), PageMessage, Head(from_page) = Uri(p)
  PROVE  Heading(p)'
<1> DEFINE w == [main EXCEPT !.uri = p]
<1>1. Typed(World) /\ World.main = main /\ World.to_page = to_page /\ World.to_hidden = to_hidden
  BY DEF IInv, World
<1>2. /\ from_page' \in Seq(Tells(p)) /\ UNCHANGED <<page, hidden, from_hidden>>
      /\ Becomes(handle_script_message(World, Uri(p)))
      /\ Head(from_page) # Inform(p) => (Coming(p) /\ to_page' = to_page => Coming(p)')
  BY HeadingHears
<1>3. main' = w /\ to_page' = to_page /\ to_hidden' = to_hidden
  <2>1. handle_script_message(World, Uri(p)) = [World EXCEPT !.main.uri = p]
    BY DEF handle_script_message, Uri
  <2>2. [World EXCEPT !.main.uri = p] =
          [main |-> w, to_page |-> to_page, to_hidden |-> to_hidden]
    BY DEF World
  <2> QED  BY <1>2, <2>1, <2>2 DEF Becomes
<1>4. /\ w.uri = p /\ w.current_manual = main.current_manual /\ w.toc = main.toc
      /\ w.selection = main.selection /\ w.pending_node = main.pending_node
      /\ w.links = main.links /\ w.index_store = main.index_store
      /\ w.index_list = main.index_list
  BY <1>1 DEF Typed, MainTyped
<1>5. Coming(p) => Coming(p)'
  <2>1. Uri(p) # Inform(p)  BY DEF Uri, Inform
  <2> QED  BY <1>2, <1>3, <2>1
<1>6. UriKnown(p)'  BY <1>3, <1>4 DEF UriKnown
<1>7. SelectionRight(p)' <=> SelectionRight(p)  BY <1>3, <1>4 DEF SelectionRight
<1>8. LinksRight(p)' <=> LinksRight(p)  BY <1>3, <1>4 DEF LinksRight
<1>9. Filling(p.manual)'
  BY <1>2, <1>3, <1>4, FillingSame DEF Heading
<1>10. Showing(p)  BY DEF Heading
<1> HIDE DEF w
<1>11. Showing(p)'
  BY <1>2, <1>3, <1>4, <1>5, <1>6, <1>7, <1>8, <1>10
  DEF Showing, NoneWaits, Tells, Uri, Inform, PointerOf
<1> QED  BY <1>9, <1>11 DEF Heading

LEMMA HeadingPointer ==
  ASSUME IInv, NEW p \in Pages, Heading(p), PageMessage,
         NEW k \in DOMAIN Pointers[p], Head(from_page) = PointerOf(p, k)
  PROVE  Heading(p)'
<1> DEFINE r == Pointers[p][k].rel
           q == P(p.manual, Pointers[p][k].node)
           w == [main EXCEPT !.links = [main.links EXCEPT ![r] = q]]
<1>1. Typed(World) /\ World.main = main /\ World.to_page = to_page /\ World.to_hidden = to_hidden
  BY DEF IInv, World
<1>2. PointerOf(p, k) # Inform(p) /\ PointerOf(p, k) # Uri(p)
  BY DEF PointerOf, Uri, Inform
<1>3. /\ from_page' \in Seq(Tells(p)) /\ UNCHANGED <<page, hidden, from_hidden>>
      /\ Becomes(handle_script_message(World, PointerOf(p, k)))
      /\ Head(from_page) # Inform(p) => (Coming(p) /\ to_page' = to_page => Coming(p)')
      /\ main.uri = p
  BY <1>2, HeadingHears
<1>4. main' = w /\ to_page' = to_page /\ to_hidden' = to_hidden
  <2>1. PointerOf(p, k) = [kind |-> "pointer", rel |-> r, page |-> q]
    BY DEF PointerOf
  <2> HIDE DEF r, q
  <2>2. handle_script_message(World, PointerOf(p, k)) = [World EXCEPT !.main.links[r] = q]
    BY <2>1 DEF handle_script_message
  <2>3. [World EXCEPT !.main.links[r] = q] =
          [main |-> w, to_page |-> to_page, to_hidden |-> to_hidden]
    BY DEF World
  <2> QED  BY <1>3, <2>2, <2>3 DEF Becomes
<1>5. /\ w.uri = main.uri /\ w.current_manual = main.current_manual /\ w.toc = main.toc
      /\ w.selection = main.selection /\ w.pending_node = main.pending_node
      /\ w.links = [main.links EXCEPT ![r] = q] /\ w.index_store = main.index_store
      /\ w.index_list = main.index_list
  <2> HIDE DEF r, q
  <2> QED  BY <1>1 DEF Typed, MainTyped
<1>6. Coming(p) => Coming(p)'  BY <1>2, <1>3, <1>4
<1>7. UriKnown(p)'  BY <1>3, <1>4, <1>5 DEF UriKnown
<1>8. SelectionRight(p)' <=> SelectionRight(p)  BY <1>4, <1>5 DEF SelectionRight
<1>9. LinksRight(p) => LinksRight(p)'
  <2>1. main.links \in [Rels -> Pages \union {None}]  BY <1>1 DEF Typed, MainTyped
  <2>2. r \in Rels  BY TellsOf
  <2>3. main'.links = [main.links EXCEPT ![r] = q]  BY <1>4, <1>5
  <2>4. ASSUME LinksRight(p), NEW o \in Rels, main'.links[o] # None
        PROVE  \E j \in DOMAIN Pointers[p] :
                 /\ Pointers[p][j].rel = o
                 /\ main'.links[o] = P(p.manual, Pointers[p][j].node)
    <3>1. CASE o = r
      <4>1. main'.links[o] = q  BY <2>1, <2>2, <2>3, <3>1
      <4> QED  BY <3>1, <4>1
    <3>2. CASE o # r
      <4>1. main'.links[o] = main.links[o]  BY <2>1, <2>2, <2>3, <3>2
      <4> QED  BY <2>4, <4>1 DEF LinksRight
    <3> QED  BY <3>1, <3>2
  <2> QED  BY <2>4 DEF LinksRight
<1>10. Filling(p.manual)'
  BY <1>3, <1>4, <1>5, FillingSame DEF Heading
<1>11. Showing(p)  BY DEF Heading
<1> HIDE DEF w
<1>12. Showing(p)'
  BY <1>3, <1>4, <1>5, <1>6, <1>7, <1>8, <1>9, <1>11
  DEF Showing, NoneWaits, Tells, Uri, Inform, PointerOf
<1> QED  BY <1>10, <1>12 DEF Heading

(* The main process hears that p is the node: it is selected in the sidebar, *)
(* or is pending until there is one.                                         *)
LEMMA HeadingInform ==
  ASSUME IInv, NEW p \in Pages, Heading(p), PageMessage, Head(from_page) = Inform(p)
  PROVE  Heading(p)'
<1> DEFINE n == p.node
           t == IF main.toc # << >> THEN switch_node(World, n)
                ELSE [World EXCEPT !.main = [main EXCEPT !.pending_node = n]]
           w == [t.main EXCEPT !.links = NoLinks]
<1>1. Typed(World) /\ World.main = main /\ World.to_page = to_page /\ World.to_hidden = to_hidden
  BY DEF IInv, World
<1>2. /\ from_page' \in Seq(Tells(p)) /\ UNCHANGED <<page, hidden, from_hidden>>
      /\ Becomes(handle_script_message(World, Inform(p))) /\ main.uri = p
  <2>1. Uri(p) # Inform(p)  BY DEF Uri, Inform
  <2> QED  BY <2>1, HeadingHears
<1>3. n \in Nodes /\ p.manual \in Manuals  BY PageOf
<1>4. /\ main.current_manual = p.manual /\ page.manual = p.manual
      /\ to_page \in Seq({p}) /\ page.loading \in {None, p}
      /\ page.shown = p \/ page.loading = p \/ to_page # << >>
      /\ main.pending_node # None => main.toc = << >>
      /\ Filling(p.manual)
  BY DEF Heading, Showing
<1>5. Becomes([t EXCEPT !.main = w])
  <2>1. handle_script_message(World, Inform(p)) = inform_new_node(World, n)
    BY DEF handle_script_message, Inform
  <2>2. inform_new_node(World, n) = [t EXCEPT !.main = w]
    BY <1>1 DEF inform_new_node
  <2> QED  BY <1>2, <2>1, <2>2
<1>6. CASE main.toc = << >>
  <2> DEFINE u == [main EXCEPT !.pending_node = n]
  <2>1. t = [main |-> u, to_page |-> to_page, to_hidden |-> to_hidden]
    BY <1>6 DEF World
  <2> HIDE DEF t
  <2>2. t.main = u /\ t.to_page = to_page /\ t.to_hidden = to_hidden
    BY <2>1
  <2>3. main' = w /\ to_page' = to_page /\ to_hidden' = to_hidden
    <3> HIDE DEF w
    <3> QED  BY <1>5, <2>1, <2>2 DEF Becomes
  <2>4. /\ main'.uri = p /\ main'.current_manual = p.manual /\ main'.toc = << >>
        /\ main'.pending_node = n /\ main'.links = NoLinks
        /\ main'.index_store = main.index_store /\ main'.index_list = main.index_list
    BY <1>1, <1>2, <1>4, <1>6, <2>2, <2>3 DEF Typed, MainTyped
  <2> HIDE DEF w
  <2>5. SelectionRight(p)' /\ LinksRight(p)' /\ UriKnown(p)'
    BY <2>4 DEF SelectionRight, LinksRight, UriKnown, NoLinks
  <2>6. Filling(p.manual)'
    BY <1>2, <1>4, <1>6, <2>3, <2>4, FillingSame
  <2>7. Showing(p)'
    BY <1>2, <1>4, <2>3, <2>4, <2>5
    DEF Showing, NoneWaits, Tells, Uri, Inform, PointerOf
  <2> QED  BY <2>6, <2>7 DEF Heading
<1>7. CASE main.toc # << >>
  <2>1. main.toc = << p.manual >> /\ main.pending_node = None
    <3>1. Filling(p.manual)  BY <1>4
    <3>2. main.toc = << >> \/ main.toc = << p.manual >>  BY <3>1, FillingToc
    <3>3. main.pending_node = None  BY <1>4, <1>7
    <3> QED  BY <1>7, <3>2, <3>3
  <2>2. t = switch_node(World, n)  BY <1>7
  <2>3. Switched(World, t, p) /\ Typed(t)
    <3>1. World.main.toc = << p.manual >> /\ World.main.uri.manual = p.manual
      BY <1>1, <1>2, <2>1
    <3>2. Switched(World, switch_node(World, p.node), p)
      BY <1>1, <3>1, SwitchNodeSwitches
    <3> QED  BY <1>1, <1>3, <2>2, <3>2, SwitchNodeKeeps DEF Keeps
  <2> HIDE DEF t
  <2>4. main' = w /\ to_page' = t.to_page /\ to_hidden' = t.to_hidden
    <3> HIDE DEF w
    <3> QED  BY <1>5, <2>3 DEF Becomes, Typed
  <2>5. /\ main'.uri = t.main.uri /\ main'.current_manual = t.main.current_manual
        /\ main'.toc = t.main.toc /\ main'.selection = t.main.selection
        /\ main'.pending_node = t.main.pending_node /\ main'.links = NoLinks
        /\ main'.index_store = t.main.index_store /\ main'.index_list = t.main.index_list
    BY <2>3, <2>4 DEF Typed, MainTyped
  <2> HIDE DEF w
  <2>6. /\ main'.uri = p /\ main'.current_manual = p.manual /\ main'.toc = << p.manual >>
        /\ n \in Toc[p.manual] => main'.selection = [row |-> 1, node |-> n]
        /\ main'.pending_node = None /\ to_hidden' = to_hidden
        /\ main'.index_store = main.index_store /\ main'.index_list = main.index_list
        /\ to_page' = to_page \/ to_page' = Append(to_page, p)
    BY <1>1, <1>2, <1>4, <2>1, <2>3, <2>4, <2>5 DEF Switched, Leaves
  <2>7. to_page' \in Seq({p}) /\ (to_page # << >> => to_page' # << >>)
    BY <1>4, <2>6, AskedOnceMore
  <2>8. SelectionRight(p)' /\ LinksRight(p)' /\ UriKnown(p)'
    BY <2>5, <2>6 DEF SelectionRight, LinksRight, UriKnown, NoLinks
  <2>9. Filling(p.manual)'
    BY <1>2, <1>4, <2>1, <2>6, FillingSame
  <2>10. Showing(p)'
    BY <1>2, <1>4, <2>6, <2>7, <2>8
    DEF Showing, NoneWaits, Tells, Uri, Inform, PointerOf
  <2> QED  BY <2>9, <2>10 DEF Heading
<1> QED  BY <1>6, <1>7

LEMMA HeadingPageMessage ==
  ASSUME IInv, NEW p \in Pages, Heading(p), PageMessage
  PROVE  Heading(p)'
<1>1. Head(from_page) \in Tells(p)  BY HeadingHears
<1>2. CASE \E k \in DOMAIN Pointers[p] : Head(from_page) = PointerOf(p, k)
  BY <1>2, HeadingPointer
<1> QED  BY <1>1, <1>2, HeadingUri, HeadingInform DEF Tells

-----------------------------------------------------------------------------
(* Before the manual is known to both processes *)

LEMMA BeforeRests ==
  ASSUME NEW m, Before(m)
  PROVE  ~HiddenStep
  BY DEF Before, Answered, HiddenStep, LoadHidden, HiddenLoaded, HiddenMessage

LEMMA BeforeSame ==
  ASSUME NEW m, Before(m), main'.index_list = main.index_list,
         main'.pending_node = main.pending_node,
         UNCHANGED <<to_hidden, hidden, from_hidden>>
  PROVE  Before(m)'
  BY DEF Before, Answered, NoneWaits

(* The messages that come with the first request in a manual are right. *)
LEMMA RequestTells ==
  ASSUME IInv, NEW p \in Pages, Before(p.manual), page.manual # p.manual, from_page = << >>,
         Request(p), to_page' = << >>, UNCHANGED <<main, to_hidden, hidden, from_hidden>>
  PROVE  Told(p)'
<1>1. /\ page' = [page EXCEPT !.manual = p.manual, !.loading = p]
      /\ from_page' = << >> \o << Uri(p) >> \o Announced(p.manual) \o << Inform(p) >>
  BY DEF Request, Uri, Inform
<1>2. page'.manual = p.manual /\ page'.loading = p
  BY <1>1 DEF IInv
<1>3. Announced(p.manual) = << NewManual(p.manual) >>
  BY DEF Announced, NewManual
<1>4. from_page' = << Uri(p), NewManual(p.manual), Inform(p) >> \o << >>
  BY <1>1, <1>3, ThreeMessages
<1>5. Before(p.manual)'  BY BeforeSame
<1> QED  BY <1>2, <1>4, <1>5 DEF Told, Uri, NewManual, Inform

LEMMA AskedLoadPage ==
  ASSUME IInv, NEW p \in Pages, Asked(p), LoadPage
  PROVE  Told(p)'
<1>1. /\ Before(p.manual) /\ to_page = << p >> /\ from_page = << >> /\ page.manual # p.manual
  BY DEF Asked
<1>2. Head(to_page) = p /\ Tail(to_page) = << >>  BY <1>1
<1>3. Request(p) /\ to_page' = << >> /\ UNCHANGED <<main, to_hidden, hidden, from_hidden>>
  BY <1>2 DEF LoadPage
<1> QED  BY <1>1, <1>3, RequestTells

(* The messages of a page of a manual that is announced. *)
LEMMA ToldQueue ==
  ASSUME NEW p \in Pages, NEW r \in {<< >>, SentPointers(p)}
  PROVE  LET a == Uri(p)
             b == NewManual(p.manual)
             c == Inform(p)
         IN /\ r \in Seq(PageMessages)
            /\ << a, b, c >> \o r \in Seq(PageMessages)
            /\ << b, c >> \o r \in Seq(PageMessages)
            /\ << a, b, c >> \o r # << >> /\ << b, c >> \o r # << >>
            /\ Head(<< a, b, c >> \o r) = a /\ Tail(<< a, b, c >> \o r) = << b, c >> \o r
            /\ Head(<< b, c >> \o r) = b /\ Tail(<< b, c >> \o r) = << c >> \o r
            /\ << c >> \o r \in Seq(Tells(p)) /\ Has(<< c >> \o r, c)
<1> DEFINE a == Uri(p)
           b == NewManual(p.manual)
           c == Inform(p)
<1>1. SentPointers(p) \in Seq(Tells(p)) /\ c \in Tells(p)  BY TellsOf
<1>2. r \in Seq(Tells(p))
  <2>1. << >> \in Seq(Tells(p))  BY EmptySeq
  <2> QED  BY <1>1, <2>1
<1>3. p.manual \in Manuals /\ p.node \in Nodes  BY PageOf
<1>4. a \in PageMessages /\ b \in PageMessages /\ c \in PageMessages
  BY <1>3 DEF Uri, NewManual, Inform, PageMessages
<1>5. \A k \in DOMAIN Pointers[p] : PointerOf(p, k) \in PageMessages
  <2>1. TAKE k \in DOMAIN Pointers[p]
  <2>2. Pointers[p][k].rel \in Rels /\ Pointers[p][k].node \in Nodes  BY TellsOf
  <2>3. P(p.manual, Pointers[p][k].node) \in Pages  BY <1>3, <2>2 DEF P, Pages
  <2> QED  BY <2>2, <2>3 DEF PointerOf, PageMessages
<1>6. Tells(p) \subseteq PageMessages  BY <1>4, <1>5 DEF Tells
<1>7. r \in Seq(PageMessages)  BY <1>2, <1>6, SeqMonotonic
<1> HIDE DEF a, b, c
<1>8. /\ << a, b, c >> \in Seq(PageMessages) /\ << b, c >> \in Seq(PageMessages)
      /\ << a, b, c >> # << >> /\ << b, c >> # << >>
      /\ Head(<< a, b, c >>) = a /\ Tail(<< a, b, c >>) = << b, c >>
      /\ Head(<< b, c >>) = b /\ Tail(<< b, c >>) = << c >>
  BY <1>4
<1>9. /\ << a, b, c >> \o r \in Seq(PageMessages) /\ << b, c >> \o r \in Seq(PageMessages)
  BY <1>7, <1>8, ConcatAt
<1>10. /\ << a, b, c >> \o r # << >> /\ << b, c >> \o r # << >>
       /\ Head(<< a, b, c >> \o r) = a /\ Tail(<< a, b, c >> \o r) = << b, c >> \o r
       /\ Head(<< b, c >> \o r) = b /\ Tail(<< b, c >> \o r) = << c >> \o r
  BY <1>7, <1>8, HeadOfConcat
<1>11. << c >> \o r \in Seq(Tells(p)) /\ Has(<< c >> \o r, c)
  <2>1. << c >> \in Seq(Tells(p)) /\ Has(<< c >>, c)  BY <1>1, HasOne
  <2> QED  BY <1>2, <2>1, ConcatAt, HasConcat
<1> QED  BY <1>7, <1>9, <1>10, <1>11 DEF a, b, c

LEMMA ToldPageLoaded ==
  ASSUME IInv, NEW p \in Pages, Told(p), PageLoaded
  PROVE  Told(p)'
<1> DEFINE r == SentPointers(p)
           a == Uri(p)
           b == NewManual(p.manual)
           c == Inform(p)
<1>1. /\ page.loading # None
      /\ page' = [page EXCEPT !.shown = page.loading, !.loading = None]
      /\ from_page' = from_page \o SentPointers(page.loading)
      /\ UNCHANGED <<main, to_page, to_hidden, hidden, from_hidden>>
  BY DEF PageLoaded
<1>2. /\ Before(p.manual) /\ to_page = << >> /\ page.manual = p.manual /\ page.loading = p
      /\ \/ from_page = << a, b, c >> \o << >>
         \/ main.uri = p /\ from_page = << b, c >> \o << >>
  BY <1>1 DEF Told
<1> HIDE DEF r, a, b, c
<1>3. << a, b, c >> \o << >> = << a, b, c >> /\ << b, c >> \o << >> = << b, c >>
  OBVIOUS
<1>4. \/ from_page' = << a, b, c >> \o r
      \/ main'.uri = p /\ from_page' = << b, c >> \o r
  BY <1>1, <1>2, <1>3 DEF r
<1>5. page'.manual = p.manual /\ page'.loading = None /\ page'.shown = p
  BY <1>1, <1>2 DEF IInv
<1>6. Before(p.manual)'  BY <1>1, <1>2, BeforeSame
<1>7. to_page' = << >>  BY <1>1, <1>2
<1> QED  BY <1>4, <1>5, <1>6, <1>7 DEF Told, r, a, b, c, Uri, NewManual, Inform, SentPointers

(* Another manual: everything of it is to come. *)
LEMMA ManualMessage ==
  ASSUME IInv, NEW m \in Manuals, Before(m), Becomes(new_manual_message(World, m)),
         UNCHANGED <<hidden, from_hidden>>
  PROVE  /\ Filling(m)' /\ main'.toc = << >> /\ to_page' = to_page
         /\ main'.current_manual = m /\ main'.uri = main.uri
         /\ main'.pending_node = main.pending_node /\ main'.links = main.links
<1> DEFINE w == [main EXCEPT !.current_manual = m, !.toc = << >>,
                             !.selection = None, !.index_store = << >>]
           t == [main |-> w, to_page |-> to_page, to_hidden |-> to_hidden]
           e == TopOf(m)
<1>1. Typed(World) /\ World.main = main  BY DEF IInv, World
<1>2. to_hidden = << >> /\ hidden = None /\ from_hidden = << >>
      /\ main.index_list = << >>
  BY DEF Before, Answered
<1>3. new_manual(World, m) = t  BY DEF new_manual, World
<1>4. new_manual_message(World, m) = [t EXCEPT !.to_hidden = Append(@, e)]
  BY <1>3 DEF new_manual_message, load_hidden, TopOf
<1>5. /\ w.current_manual = m /\ w.toc = << >> /\ w.index_store = << >>
      /\ w.uri = main.uri /\ w.pending_node = main.pending_node
      /\ w.links = main.links /\ w.index_list = main.index_list
  BY <1>1 DEF Typed, MainTyped
<1> HIDE DEF w, e
<1>6. main' = w /\ to_page' = to_page /\ to_hidden' = Append(to_hidden, e)
  BY <1>4 DEF Becomes
<1>7. to_hidden' = << e >>  BY <1>2, <1>6
<1>8. Fetching(TopOf(m))'  BY <1>2, <1>7 DEF Fetching, e, TopOf
<1>9. TocWanted(m)'  BY <1>2, <1>5, <1>6, <1>8 DEF TocWanted, TopOf
<1> QED  BY <1>2, <1>5, <1>6, <1>9 DEF Filling

LEMMA ToldPageMessage ==
  ASSUME IInv, NEW p \in Pages, Told(p), PageMessage
  PROVE  Told(p)' \/ Heading(p)'
<1> DEFINE a == Uri(p)
           b == NewManual(p.manual)
           c == Inform(p)
<1>1. Typed(World) /\ World.main = main /\ World.to_page = to_page /\ World.to_hidden = to_hidden
  BY DEF IInv, World
<1>2. /\ from_page' = Tail(from_page)
      /\ Becomes(handle_script_message(World, Head(from_page)))
      /\ UNCHANGED <<page, hidden, from_hidden>>
  BY DEF PageMessage
<1>3. Before(p.manual) /\ to_page = << >> /\ page.manual = p.manual  BY DEF Told
<1>4. PICK r \in {<< >>, SentPointers(p)} :
        /\ \/ page.loading = p /\ r = << >>
           \/ page.loading = None /\ page.shown = p /\ r = SentPointers(p)
        /\ \/ from_page = << a, b, c >> \o r
           \/ main.uri = p /\ from_page = << b, c >> \o r
  BY DEF Told
<1>5. /\ Head(<< a, b, c >> \o r) = a /\ Tail(<< a, b, c >> \o r) = << b, c >> \o r
      /\ Head(<< b, c >> \o r) = b /\ Tail(<< b, c >> \o r) = << c >> \o r
      /\ << c >> \o r \in Seq(Tells(p)) /\ Has(<< c >> \o r, c)
  BY ToldQueue
<1>6. CASE from_page = << a, b, c >> \o r
  <2> DEFINE w == [main EXCEPT !.uri = p]
  <2> HIDE DEF b, c
  <2>1. handle_script_message(World, a) = [World EXCEPT !.main.uri = p]
    BY DEF handle_script_message, Uri
  <2>2. [World EXCEPT !.main.uri = p] =
          [main |-> w, to_page |-> to_page, to_hidden |-> to_hidden]
    BY DEF World
  <2> HIDE DEF a
  <2>3. Becomes([main |-> w, to_page |-> to_page, to_hidden |-> to_hidden])
    BY <1>2, <1>5, <1>6, <2>1, <2>2
  <2>4. main' = w /\ to_page' = to_page /\ to_hidden' = to_hidden
    BY <2>3 DEF Becomes
  <2>5. w.uri = p /\ w.index_list = main.index_list /\ w.pending_node = main.pending_node
    BY <1>1 DEF Typed, MainTyped
  <2>6. Before(p.manual)'  BY <1>2, <1>3, <2>4, <2>5, BeforeSame
  <2>7. main'.uri = p /\ from_page' = << b, c >> \o r  BY <1>2, <1>5, <1>6, <2>4, <2>5
  <2>8. /\ to_page' = << >> /\ page'.manual = p.manual
        /\ \/ page'.loading = p /\ r = << >>
           \/ page'.loading = None /\ page'.shown = p /\ r = SentPointers(p)
    BY <1>2, <1>3, <1>4, <2>4
  <2>9. Told(p)'
    BY <2>6, <2>7, <2>8 DEF Told, b, c, NewManual, Inform, Uri, SentPointers
  <2> QED  BY <2>9
<1>7. CASE main.uri = p /\ from_page = << b, c >> \o r
  <2>1. handle_script_message(World, b) = new_manual_message(World, p.manual)
    BY DEF handle_script_message, NewManual
  <2>2. p.manual \in Manuals  BY PageOf
  <2>3. Becomes(new_manual_message(World, p.manual)) /\ from_page' = << c >> \o r
    BY <1>2, <1>5, <1>7, <2>1
  <2>4. /\ Filling(p.manual)' /\ main'.toc = << >> /\ to_page' = to_page
        /\ main'.current_manual = p.manual /\ main'.uri = p
        /\ main'.pending_node = main.pending_node
    BY <1>2, <1>3, <1>7, <2>2, <2>3, ManualMessage
  <2>5. Coming(p)' /\ UriKnown(p)'
    BY <1>5, <2>3, <2>4 DEF Coming, UriKnown, Inform
  <2>6. << >> \in Seq({p})  BY EmptySeq
  <2>7. Showing(p)'
    BY <1>2, <1>3, <1>4, <1>5, <2>3, <2>4, <2>5, <2>6
    DEF Showing, Before, NoneWaits, Tells, Uri, Inform, PointerOf
  <2> QED  BY <2>4, <2>7 DEF Heading
<1> QED  BY <1>4, <1>6, <1>7

(* A page is asked for in the manual that both processes are in. *)
LEMMA LoadedInManual ==
  ASSUME NEW p \in Pages, main.current_manual = p.manual, page.manual = p.manual,
         page.loading = None, NoneWaits(p.manual), Filling(p.manual),
         main'.uri = p, main'.current_manual = main.current_manual,
         main'.toc = main.toc, main'.index_store = main.index_store,
         main'.index_list = main.index_list, main'.pending_node = main.pending_node,
         to_page' = << p >>, from_page' = << >>,
         UNCHANGED <<page, to_hidden, hidden, from_hidden>>
  PROVE  Heading(p)'
<1>1. Filling(p.manual)'  BY FillingSame
<1>2. Coming(p)' /\ UriKnown(p)'  BY DEF Coming, UriKnown
<1>3. to_page' \in Seq({p}) /\ to_page' # << >>  OBVIOUS
<1>4. << >> \in Seq(Tells(p))  BY EmptySeq
<1>5. main'.pending_node # None => main'.toc = << >>
  BY FillingToc DEF NoneWaits
<1>6. Showing(p)'
  BY <1>2, <1>3, <1>4, <1>5 DEF Showing, NoneWaits, Tells, Uri, Inform, PointerOf
<1> QED  BY <1>1, <1>6 DEF Heading

LEMMA LoadUriIs ==
  ASSUME NEW s, Typed(s), NEW p
  PROVE  /\ load_uri(s, p).main = [s.main EXCEPT !.uri = p]
         /\ load_uri(s, p).to_page = Append(s.to_page, p)
         /\ load_uri(s, p).to_hidden = s.to_hidden
  BY DEF load_uri, Typed

(* The node of a link is loaded in the manual of the main process. *)
LEMMA NodeMessage ==
  ASSUME IInv, NEW n \in Nodes, to_page = << >>, from_page = << NewNode(n) >>, PageMessage
  PROVE  LET p == P(main.current_manual, n)
         IN /\ p \in Pages /\ p.manual = main.current_manual
            /\ main'.uri = p /\ main'.current_manual = main.current_manual
            /\ main'.toc = main.toc /\ main'.index_store = main.index_store
            /\ main'.index_list = main.index_list
            /\ main'.pending_node = main.pending_node
            /\ to_page' = << p >> /\ from_page' = << >>
            /\ UNCHANGED <<page, to_hidden, hidden, from_hidden>>
<1> DEFINE p == P(main.current_manual, n)
           w == [main EXCEPT !.uri = p]
<1>1. Typed(World) /\ World.main = main  BY DEF IInv, World
<1>2. /\ from_page' = Tail(from_page)
      /\ Becomes(handle_script_message(World, Head(from_page)))
      /\ UNCHANGED <<page, hidden, from_hidden>>
  BY DEF PageMessage
<1>3. p \in Pages /\ p.manual = main.current_manual
  BY <1>1 DEF P, Pages, Typed, MainTyped
<1>4. Head(from_page) = NewNode(n) /\ Tail(from_page) = << >>  OBVIOUS
<1>5. handle_script_message(World, NewNode(n)) = load_node(World, n)
  BY DEF handle_script_message, NewNode
<1>6. load_node(World, n) = load_uri(World, p)  BY <1>1 DEF load_node
<1> HIDE DEF p
<1>7. /\ load_uri(World, p).main = w
      /\ load_uri(World, p).to_page = Append(to_page, p)
      /\ load_uri(World, p).to_hidden = to_hidden
  BY <1>1, LoadUriIs DEF World
<1>8. main' = w /\ to_page' = << p >> /\ to_hidden' = to_hidden
  BY <1>2, <1>4, <1>5, <1>6, <1>7 DEF Becomes
<1>9. /\ w.uri = p /\ w.current_manual = main.current_manual /\ w.toc = main.toc
      /\ w.index_store = main.index_store /\ w.index_list = main.index_list
      /\ w.pending_node = main.pending_node
  BY <1>1 DEF Typed, MainTyped
<1> QED  BY <1>2, <1>3, <1>4, <1>8, <1>9 DEF p

LEMMA LinkKnownPageMessage ==
  ASSUME IInv, NEW n \in Nodes, LinkKnown(n), PageMessage
  PROVE  \E p \in Pages : Heading(p)'
<1>1. /\ to_page = << >> /\ page.loading = None /\ page.manual = main.current_manual
      /\ from_page = << NewNode(n) >> /\ NoneWaits(main.current_manual)
      /\ Filling(main.current_manual)
  BY DEF LinkKnown
<1>2. PICK p \in Pages :
        /\ p.manual = main.current_manual
        /\ main'.uri = p /\ main'.current_manual = main.current_manual
        /\ main'.toc = main.toc /\ main'.index_store = main.index_store
        /\ main'.index_list = main.index_list
        /\ main'.pending_node = main.pending_node
        /\ to_page' = << p >> /\ from_page' = << >>
        /\ UNCHANGED <<page, to_hidden, hidden, from_hidden>>
  BY <1>1, NodeMessage
<1>3. Filling(p.manual) /\ NoneWaits(p.manual)  BY <1>1, <1>2
<1> QED  BY <1>1, <1>2, <1>3, LoadedInManual

LEMMA LinkToldPageMessage ==
  ASSUME IInv, NEW m \in Manuals \union Missing, NEW n \in Nodes, LinkTold(m, n),
         PageMessage
  PROVE  Story'
<1>1. to_page = << >> /\ page.loading = None /\ page.manual = m
  BY DEF LinkTold
<1>0. PICK c \in Manuals :
        Before(c) /\ c = IF m \in Manuals THEN m ELSE main.current_manual
  BY DEF LinkTold
<1>2. CASE from_page = << NewManual(m), NewNode(n) >>
  <2>1. /\ from_page' = Tail(from_page)
        /\ Becomes(handle_script_message(World, Head(from_page)))
        /\ UNCHANGED <<page, hidden, from_hidden>>
    BY DEF PageMessage
  <2>2. Head(from_page) = NewManual(m) /\ Tail(from_page) = << NewNode(n) >>  BY <1>2
  <2>3. handle_script_message(World, NewManual(m)) = new_manual_message(World, m)
    BY DEF handle_script_message, NewManual
  <2>4. Becomes(new_manual_message(World, m)) /\ from_page' = << NewNode(n) >>
    BY <2>1, <2>2, <2>3
  <2>5. CASE m \in Manuals
    <3>1. /\ Filling(m)' /\ main'.toc = << >> /\ to_page' = to_page
          /\ main'.current_manual = m /\ main'.pending_node = main.pending_node
      BY <1>0, <1>1, <2>1, <2>4, <2>5, ManualMessage
    <3>2. LinkKnown(n)'
      <4>1. Filling(main.current_manual)'  BY <3>1
      <4>2. NoneWaits(main.current_manual)'
        BY <1>0, <2>5, <3>1 DEF Before, NoneWaits
      <4> QED  BY <1>1, <2>1, <2>4, <3>1, <4>1, <4>2 DEF LinkKnown, NewNode
    <3> QED  BY <3>2 DEF Story
  <2>6. CASE m \notin Manuals
    <3>1. new_manual_message(World, m) = World  BY <2>6 DEF new_manual_message
    <3>2. main' = main /\ to_page' = to_page /\ to_hidden' = to_hidden
      BY <2>4, <3>1 DEF Becomes, World
    <3>3. Before(c)' /\ c = IF m \in Manuals THEN m ELSE main'.current_manual
      BY <1>0, <2>1, <3>2, BeforeSame
    <3>4. LinkTold(m, n)'
      BY <1>1, <2>1, <2>4, <2>6, <3>2, <3>3 DEF LinkTold, NewNode, NewManual
    <3> QED  BY <3>4 DEF Story
  <2> QED  BY <2>5, <2>6
<1>3. CASE from_page = << NewNode(n) >> /\ m \notin Manuals
  <2>1. PICK p \in Pages :
        /\ p.manual = main.current_manual
        /\ main'.uri = p /\ main'.current_manual = main.current_manual
        /\ main'.toc = main.toc /\ main'.index_store = main.index_store
        /\ main'.index_list = main.index_list
        /\ main'.pending_node = main.pending_node
        /\ to_page' = << p >> /\ from_page' = << >>
        /\ UNCHANGED <<page, to_hidden, hidden, from_hidden>>
    BY <1>1, <1>3, NodeMessage
  <2>2. Before(p.manual)'
    <3>1. Before(c)'  BY <1>0, <2>1, BeforeSame
    <3>2. c = p.manual  BY <1>0, <1>3, <2>1
    <3> QED  BY <3>1, <3>2
  <2>3. m # p.manual  BY <1>3, PageOf
  <2>4. Asked(p)'  BY <1>1, <2>1, <2>2, <2>3 DEF Asked
  <2> QED  BY <2>4 DEF Story
<1> QED  BY <1>2, <1>3 DEF LinkTold

-----------------------------------------------------------------------------
(* What the user does once everything has come to rest *)

Settled(p) ==
  /\ Quiet /\ Heading(p) /\ AllThere(p.manual)
  /\ main.current_manual = p.manual /\ page.manual = p.manual
  /\ page.shown = p /\ main.uri = p
  /\ main.pending_node = IF p.manual \in WithContents THEN None ELSE p.node
  /\ SelectionRight(p) /\ LinksRight(p)

(* Where a command may lead to without leaving a node to the next sidebar. *)
Leads(p, m) == ~(p.manual \notin WithContents /\ m \in WithContents)

LEMMA SettledLeads ==
  ASSUME NEW p, Settled(p), NEW m, Leads(p, m)
  PROVE  NoneWaits(m)
  BY DEF Settled, Leads, NoneWaits

LEMMA QuietSettled ==
  ASSUME IInv, Story, Quiet
  PROVE  \E p \in Pages : Settled(p)
<1>1. /\ to_page = << >> /\ from_page = << >> /\ page.loading = None
      /\ to_hidden = << >> /\ from_hidden = << >> /\ hidden = None
  BY DEF Quiet
<1>2. ASSUME NEW p \in Pages, Asked(p)  PROVE FALSE
  BY <1>1, <1>2 DEF Asked
<1>3. ASSUME NEW p \in Pages, Told(p)  PROVE FALSE
  <2>1. PICK r \in {<< >>, SentPointers(p)} :
          \/ from_page = << Uri(p), NewManual(p.manual), Inform(p) >> \o r
          \/ from_page = << NewManual(p.manual), Inform(p) >> \o r
    BY <1>3 DEF Told
  <2> QED  BY <1>1, <2>1, ToldQueue
<1>4. ASSUME NEW n, LinkKnown(n)  PROVE FALSE
  BY <1>1, <1>4 DEF LinkKnown
<1>5. ASSUME NEW m, NEW n, LinkTold(m, n)  PROVE FALSE
  BY <1>1, <1>5 DEF LinkTold
<1>6. PICK p \in Pages : Heading(p)
  BY <1>2, <1>3, <1>4, <1>5 DEF Story
<1>7. \A q : Answered(q) => q = << >>  BY <1>1 DEF Answered
<1>8. \A r \in HiddenRequests : ~Fetching(r)
  <2>1. None \notin HiddenRequests  BY InfogAssumption DEF HiddenRequests
  <2> QED  BY <1>1, <2>1 DEF Fetching
<1>9. p.manual \in Manuals  BY PageOf
<1>10. TopOf(p.manual) \in HiddenRequests
       /\ \A k \in 1 .. Len(Indices[p.manual]) : IndexOf(p.manual, k) \in HiddenRequests
  BY <1>9, TopType, IndicesType DEF TopOf, IndexOf, HiddenRequests
<1>11. AllThere(p.manual)
  <2>1. ~TocWanted(p.manual)  BY <1>7, <1>8, <1>10 DEF TocWanted
  <2>2. ~TocThere(p.manual)  BY <1>7 DEF TocThere
  <2>3. ASSUME NEW k \in 1 .. Len(Indices[p.manual]), IndexWanted(p.manual, k)
        PROVE  FALSE
    BY <1>7, <1>8, <1>10, <2>3 DEF IndexWanted
  <2> QED  BY <1>6, <2>1, <2>2, <2>3 DEF Heading, Filling
<1>12. main.toc = IF p.manual \in WithContents THEN << p.manual >> ELSE << >>
  BY <1>11 DEF AllThere, Sidebar
<1>13. /\ main.current_manual = p.manual /\ page.manual = p.manual
       /\ page.shown = p \/ page.loading = p \/ to_page # << >>
       /\ UriKnown(p)
       /\ main.pending_node # None => main.toc = << >>
       /\ Coming(p) \/ (SelectionRight(p) /\ LinksRight(p))
  BY <1>6 DEF Heading, Showing
<1>14. main.uri = p  BY <1>1, <1>13 DEF UriKnown
<1>15. p # None  BY InfogAssumption
<1>16. page.shown = p  BY <1>1, <1>13, <1>15
<1>17. ~Coming(p)
  <2>1. Len(from_page) = 0  BY <1>1
  <2> QED  BY <1>1, <2>1 DEF Coming, Has
<1>18. main.pending_node = IF p.manual \in WithContents THEN None ELSE p.node
  <2>1. CASE p.manual \in WithContents
    <3>1. main.toc # << >>  BY <1>12, <2>1
    <3> QED  BY <1>13, <2>1, <3>1
  <2>2. CASE p.manual \notin WithContents
    <3>1. main.toc # << p.manual >>  BY <1>12, <2>2
    <3> QED  BY <1>13, <1>17, <2>2, <3>1 DEF SelectionRight
  <2> QED  BY <2>1, <2>2
<1> QED  BY <1>6, <1>11, <1>13, <1>14, <1>16, <1>17, <1>18 DEF Settled

(* A page of the manual is asked for by the window. *)
LEMMA SettledLoads ==
  ASSUME IInv, NEW p \in Pages, Settled(p), NEW q \in Pages, q.manual = p.manual,
         NEW s, Leaves(World, s), s.main.uri = q, s.to_page = Append(World.to_page, q),
         InWindow(s)
  PROVE  Heading(q)'
<1>1. /\ to_page = << >> /\ from_page = << >> /\ page.loading = None
      /\ main.current_manual = p.manual /\ page.manual = p.manual
      /\ NoneWaits(p.manual) /\ AllThere(p.manual)
  BY DEF Settled, Quiet, NoneWaits
<1>2. World.main = main /\ World.to_page = to_page /\ World.to_hidden = to_hidden
  BY DEF World
<1>3. /\ main' = s.main /\ to_page' = s.to_page /\ to_hidden' = s.to_hidden
      /\ UNCHANGED <<page, from_page, hidden, from_hidden>>
  BY DEF InWindow, Becomes
<1>4. to_page' = << q >>
  <2>1. Append(<< >>, q) = << q >>  OBVIOUS
  <2> QED  BY <1>1, <1>2, <1>3, <2>1
<1>5. /\ main'.uri = q /\ main'.current_manual = main.current_manual
      /\ main'.toc = main.toc /\ main'.index_store = main.index_store
      /\ main'.index_list = main.index_list
      /\ main'.pending_node = main.pending_node /\ to_hidden' = to_hidden
  BY <1>2, <1>3 DEF Leaves
<1>6. Filling(q.manual)  BY <1>1 DEF Filling
<1> QED  BY <1>1, <1>3, <1>4, <1>5, <1>6, LoadedInManual

LEMMA LoadUriLeaves ==
  ASSUME NEW s, Typed(s), NEW q
  PROVE  /\ Leaves(s, load_uri(s, q)) /\ load_uri(s, q).main.uri = q
         /\ load_uri(s, q).to_page = Append(s.to_page, q)
<1> DEFINE t == load_uri(s, q)
<1>1. /\ t.main = [s.main EXCEPT !.uri = q] /\ t.to_page = Append(s.to_page, q)
      /\ t.to_hidden = s.to_hidden
  BY LoadUriIs
<1> HIDE DEF t
<1>2. Leaves(s, t) /\ t.main.uri = q  BY <1>1 DEF Leaves, Typed, MainTyped
<1> QED  BY <1>1, <1>2 DEF t

(* The next, the previous or the upper node of the page. *)
LEMMA KeySettles ==
  ASSUME IInv, NEW p \in Pages, Settled(p), NEW r \in Rels, key_press(r)
  PROVE  Story'
<1>1. Typed(World) /\ World.main = main  BY DEF IInv, World
<1>2. main.links[r] # None /\ InWindow(load_uri(World, main.links[r]))
  BY DEF key_press
<1>3. PICK k \in DOMAIN Pointers[p] : main.links[r] = P(p.manual, Pointers[p][k].node)
  BY <1>2 DEF Settled, LinksRight
<1>4. main.links[r] \in Pages /\ main.links[r].manual = p.manual
  <2>1. Pointers[p][k].node \in Nodes  BY TellsOf
  <2> QED  BY <1>3, <2>1, PageOf DEF P, Pages
<1>5. PICK q \in Pages : q = main.links[r]  BY <1>4
<1>6. Heading(q)'
  BY <1>1, <1>2, <1>4, <1>5, LoadUriLeaves, SettledLoads
<1> QED  BY <1>6 DEF Story

(* A node of the manual that is found in its index. *)
LEMMA IndexSettles ==
  ASSUME IInv, NEW p \in Pages, Settled(p), NEW n \in Nodes, index_match_selected(n)
  PROVE  Story'
<1>1. Typed(World) /\ World.main = main  BY DEF IInv, World
<1>2. InWindow(load_relative_url(World, n))  BY DEF index_match_selected
<1>3. PICK q \in Pages : q = P(p.manual, n)  BY PageOf DEF P, Pages
<1>4. load_relative_url(World, n) = load_uri(World, q) /\ q.manual = p.manual
  BY <1>1, <1>3 DEF load_relative_url, Settled, P
<1>5. Heading(q)'
  BY <1>1, <1>2, <1>4, LoadUriLeaves, SettledLoads
<1> QED  BY <1>5 DEF Story

(* A row of the sidebar, which may be the one that is selected. *)
LEMMA TocSettles ==
  ASSUME IInv, NEW p \in Pages, Settled(p), NEW n \in Nodes,
         NEW k \in DOMAIN main.toc, toc_selected(k, n)
  PROVE  Story'
<1> DEFINE row == [row |-> k, node |-> n]
           s == Selected(World, row)
<1>1. Typed(World) /\ World.main = main /\ World.to_page = to_page /\ World.to_hidden = to_hidden
  BY DEF IInv, World
<1>2. InWindow(s)  BY DEF toc_selected
<1>3. PICK q \in Pages : q = P(p.manual, n)  BY PageOf DEF P, Pages
<1>4. q.manual = p.manual /\ P(World.main.uri.manual, row.node) = q
  BY <1>1, <1>3 DEF Settled, P
<1> HIDE DEF row
<1>5. /\ Leaves(World, s)
      /\ row = main.selection => s = World
      /\ row # main.selection => Loads(World, s, row, q)
  BY <1>1, <1>4, SelectedLoads
<1>6. CASE row = main.selection
  <2>1. UNCHANGED <<main, to_page, to_hidden, page, from_page, hidden, from_hidden>>
    BY <1>1, <1>2, <1>5, <1>6 DEF InWindow, Becomes
  <2>2. Filling(p.manual)'
    BY <2>1, FillingSame DEF Settled, Heading
  <2>3. Showing(p)'
    BY <2>1, SameSame, ShowingSame DEF Settled, Heading
  <2> QED  BY <2>2, <2>3 DEF Story, Heading
<1>7. CASE row # main.selection
  <2> HIDE DEF s
  <2>1. Heading(q)'
    BY <1>2, <1>4, <1>5, <1>7, SettledLoads DEF Loads
  <2> QED  BY <2>1 DEF Story
<1> QED  BY <1>6, <1>7

(* A link to a page, of this manual or another one. *)
LEMMA LinkSettles ==
  ASSUME IInv, NEW p \in Pages, Settled(p), NEW q \in Pages, FollowLink(q),
         Leads(p, q.manual)
  PROVE  Story'
<1>1. /\ Request(q) /\ UNCHANGED <<main, to_page, to_hidden, hidden, from_hidden>>
  BY DEF FollowLink, InPage
<1>2. /\ to_page = << >> /\ from_page = << >> /\ page.loading = None
      /\ main.current_manual = p.manual /\ page.manual = p.manual /\ main.uri = p
      /\ NoneWaits(q.manual) /\ AllThere(p.manual)
  BY SettledLeads DEF Settled, Quiet
<1>3. CASE q.manual # p.manual
  <2>1. Before(q.manual)  BY <1>2 DEF Before, AllThere
  <2>2. Told(q)'  BY <1>1, <1>2, <1>3, <2>1, RequestTells
  <2> QED  BY <2>2 DEF Story
<1>4. CASE q.manual = p.manual
  <2>1. /\ page' = [page EXCEPT !.manual = q.manual, !.loading = q]
        /\ from_page' = << >> \o << Uri(q) >> \o Announced(q.manual) \o << Inform(q) >>
    BY <1>1, <1>2 DEF Request, Uri, Inform
  <2>2. page'.manual = q.manual /\ page'.loading = q
    BY <2>1 DEF IInv
  <2>3. Uri(q) \in Tells(q) /\ Inform(q) \in Tells(q)  BY TellsOf
  <2>4. << Uri(q) >> \in Seq(Tells(q)) /\ << Inform(q) >> \in Seq(Tells(q))
        /\ << Uri(q) >> # << >> /\ Head(<< Uri(q) >>) = Uri(q)
    BY <2>3
  <2>5. from_page' = << Uri(q) >> \o << Inform(q) >>
    <3>1. Announced(q.manual) = << >>  BY <1>2, <1>4 DEF Announced
    <3>2. << >> \o << Uri(q) >> = << Uri(q) >> /\ << Uri(q) >> \o << >> = << Uri(q) >>
      BY <2>4, ConcatEmptySeq
    <3> QED  BY <2>1, <3>1, <3>2
  <2>6. /\ from_page' \in Seq(Tells(q)) /\ Has(from_page', Inform(q))
        /\ from_page' # << >> /\ Head(from_page') = Uri(q)
    <3>1. Has(<< Inform(q) >>, Inform(q))  BY HasOne
    <3> QED  BY <2>4, <2>5, <3>1, ConcatAt, HasConcat, HeadOfConcat
  <2>7. Coming(q)' /\ UriKnown(q)'  BY <2>6 DEF Coming, UriKnown, Inform, Uri
  <2>8. Filling(q.manual)'
    <3>1. Filling(q.manual)  BY <1>2, <1>4 DEF Filling
    <3>2. /\ main'.toc = main.toc /\ main'.index_store = main.index_store
          /\ main'.index_list = main.index_list
      BY <1>1
    <3> QED  BY <1>1, <3>1, <3>2, FillingSame
  <2>9. << >> \in Seq({q})  BY EmptySeq
  <2>11. main.pending_node # None => main.toc = << >>
    BY <1>2, <1>4 DEF NoneWaits, AllThere, Sidebar
  <2>10. Showing(q)'
    BY <1>1, <1>2, <1>4, <2>2, <2>6, <2>7, <2>9, <2>11
    DEF Showing, NoneWaits, Tells, Uri, Inform, PointerOf
  <2> QED  BY <2>8, <2>10 DEF Story, Heading
<1> QED  BY <1>3, <1>4

(* A link with the name of a manual, which may not be installed. *)
LEMMA PrivateSettles ==
  ASSUME IInv, NEW p \in Pages, Settled(p),
         NEW m \in Manuals \union Missing, NEW n \in Nodes, FollowPrivate(m, n),
         Leads(p, m)
  PROVE  Story'
<1>1. /\ page' = [page EXCEPT !.manual = m, !.loading = None]
      /\ from_page' = from_page \o Announced(m) \o << NewNode(n) >>
      /\ UNCHANGED <<main, to_page, to_hidden, hidden, from_hidden>>
  BY DEF FollowPrivate, PrivateRequest, InPage, NewNode
<1>2. /\ to_page = << >> /\ from_page = << >>
      /\ main.current_manual = p.manual /\ page.manual = p.manual
      /\ NoneWaits(p.manual) /\ NoneWaits(m) /\ AllThere(p.manual)
  BY SettledLeads DEF Settled, Quiet, NoneWaits
<1>3. page'.manual = m /\ page'.loading = None  BY <1>1 DEF IInv
<1>4. CASE m = p.manual
  <2>1. Announced(m) = << >>  BY <1>2, <1>4 DEF Announced
  <2>2. << >> \o << >> \o << NewNode(n) >> = << NewNode(n) >>  OBVIOUS
  <2>3. from_page' = << NewNode(n) >>  BY <1>1, <1>2, <2>1, <2>2
  <2>4. Filling(main.current_manual)'
    <3>1. Filling(m)  BY <1>2, <1>4 DEF Filling
    <3>2. /\ main'.toc = main.toc /\ main'.index_store = main.index_store
          /\ main'.index_list = main.index_list /\ main'.current_manual = m
      BY <1>1, <1>2, <1>4
    <3>3. Filling(m)'  BY <1>1, <3>1, <3>2, FillingSame
    <3> QED  BY <3>2, <3>3
  <2>5. LinkKnown(n)'
    BY <1>1, <1>2, <1>3, <1>4, <2>3, <2>4 DEF LinkKnown, NewNode, NoneWaits
  <2> QED  BY <2>5 DEF Story
<1>5. CASE m # p.manual
  <2> DEFINE e == NewManual(m)
             d == NewNode(n)
  <2>1. Announced(m) = << e >>  BY <1>2, <1>5 DEF Announced, NewManual
  <2>2. from_page' = << >> \o << e >> \o << d >>  BY <1>1, <1>2, <2>1
  <2> HIDE DEF e, d
  <2>3. << >> \o << e >> \o << d >> = << e, d >>  BY ThreeMessages
  <2>4. PICK c \in Manuals : c = IF m \in Manuals THEN m ELSE main.current_manual
    BY <1>2, PageOf
  <2>5. Before(c)'
    <3>1. Before(c)  BY <1>2, <2>4 DEF Before, AllThere
    <3> QED  BY <1>1, <3>1, BeforeSame
  <2>6. LinkTold(m, n)'
    BY <1>1, <1>2, <1>3, <2>2, <2>3, <2>4, <2>5 DEF LinkTold, NewManual, NewNode, e, d
  <2> QED  BY <2>6 DEF Story
<1> QED  BY <1>4, <1>5

(* Another manual by its name. *)
LEMMA EntrySettles ==
  ASSUME IInv, NEW p \in Pages, Settled(p),
         NEW m \in Manuals \union Missing, m # main.current_manual, manual_entry(m),
         Leads(p, m)
  PROVE  Story'
<1>1. Typed(World) /\ World.main = main /\ World.to_page = to_page /\ World.to_hidden = to_hidden
  BY DEF IInv, World
<1>2. Becomes(load_manual(World, m)) /\ UNCHANGED <<page, from_page, hidden, from_hidden>>
  BY DEF manual_entry, InWindow
<1>3. CASE m \notin Manuals
  <2>1. load_manual(World, m) = World  BY <1>3 DEF load_manual
  <2>2. UNCHANGED <<main, to_page, to_hidden, page, from_page, hidden, from_hidden>>
    BY <1>1, <1>2, <2>1 DEF Becomes
  <2>3. Filling(p.manual)'
    BY <2>2, FillingSame DEF Settled, Heading
  <2>4. Showing(p)'
    BY <2>2, SameSame, ShowingSame DEF Settled, Heading
  <2> QED  BY <2>3, <2>4 DEF Story, Heading
<1>4. CASE m \in Manuals
  <2> DEFINE q == P(m, Top)
             w == [main EXCEPT !.current_manual = m, !.toc = << >>,
                               !.selection = None, !.index_store = << >>]
             t == [main |-> w, to_page |-> to_page, to_hidden |-> to_hidden]
  <2>1. q \in Pages /\ q.manual = m  BY <1>4, TopType
  <2>2. new_manual(World, m) = t  BY <1>4 DEF new_manual, World
  <2>3. load_manual(World, m) = load_uri(t, q)  BY <1>4, <2>2 DEF load_manual
  <2>4. Typed(t)  BY <1>1, <2>2, NewManualTyped
  <2> HIDE DEF q, w
  <2>5. t.main = w /\ t.to_page = to_page /\ t.to_hidden = to_hidden  OBVIOUS
  <2> HIDE DEF t
  <2>6. /\ load_uri(t, q).main = [w EXCEPT !.uri = q]
        /\ load_uri(t, q).to_page = Append(to_page, q)
        /\ load_uri(t, q).to_hidden = to_hidden
    BY <2>4, <2>5, LoadUriIs
  <2>7. /\ [w EXCEPT !.uri = q].current_manual = m
        /\ [w EXCEPT !.uri = q].uri = q
        /\ [w EXCEPT !.uri = q].pending_node = main.pending_node
        /\ [w EXCEPT !.uri = q].index_list = main.index_list
    BY <1>1 DEF Typed, MainTyped, w
  <2>8. /\ main'.current_manual = m /\ main'.uri = q
        /\ main'.pending_node = main.pending_node
        /\ main'.index_list = main.index_list
        /\ to_page' = Append(to_page, q) /\ to_hidden' = to_hidden
    BY <1>2, <2>3, <2>6, <2>7 DEF Becomes
  <2>9. /\ to_page = << >> /\ from_page = << >> /\ page.loading = None
        /\ page.manual = main.current_manual /\ NoneWaits(m)
        /\ AllThere(p.manual)
    BY SettledLeads DEF Settled, Quiet
  <2>10. to_page' = << q >>
    <3>1. Append(<< >>, q) = << q >>  OBVIOUS
    <3> QED  BY <2>8, <2>9, <3>1
  <2>11. Before(m)  BY <2>9 DEF Before, AllThere
  <2>12. Before(m)'  BY <1>2, <2>8, <2>11, BeforeSame
  <2>13. Asked(q)'
    BY <1>2, <2>1, <2>8, <2>9, <2>10, <2>12 DEF Asked
  <2> QED  BY <2>1, <2>13 DEF Story
<1> QED  BY <1>3, <1>4

-----------------------------------------------------------------------------
LEMMA InitStory == Init => Story
<1> SUFFICES ASSUME Init PROVE Story
  OBVIOUS
<1> DEFINE p == P(FIRST_MANUAL, Top)
<1>1. p \in Pages /\ p.manual = FIRST_MANUAL /\ None \notin Manuals
  BY InfogAssumption, TopType
<1>2. Asked(p)
  BY <1>1, InfogAssumption DEF Init, Asked, Before, Answered, NoneWaits
<1> QED  BY <1>1, <1>2 DEF Story

(* A step of one of the processes. *)
LEMMA ProcessStory ==
  ASSUME IInv, Story, LoadPage \/ PageLoaded \/ PageMessage \/ HiddenStep
  PROVE  Story'
<1>1. ASSUME NEW p \in Pages, Asked(p)  PROVE Story'
  <2>1. LoadPage
    BY <1>1, BeforeRests DEF Asked, PageLoaded, PageMessage
  <2> QED  BY <1>1, <2>1, AskedLoadPage DEF Story
<1>2. ASSUME NEW p \in Pages, Told(p)  PROVE Story'
  <2>1. PageLoaded \/ PageMessage
    BY <1>2, BeforeRests DEF Told, LoadPage
  <2> QED  BY <1>2, <2>1, ToldPageLoaded, ToldPageMessage DEF Story
<1>3. ASSUME NEW p \in Pages, Heading(p)  PROVE Story'
  <2>1. Heading(p)'
    BY <1>3, HeadingLoadPage, HeadingPageLoaded, HeadingPageMessage, HeadingHidden
  <2> QED  BY <2>1 DEF Story
<1>4. ASSUME NEW n \in Nodes, LinkKnown(n)  PROVE Story'
  <2>1. CASE PageMessage  BY <1>4, <2>1, LinkKnownPageMessage DEF Story
  <2>2. CASE HiddenStep  BY <1>4, <2>2, LinkKnownHidden DEF Story
  <2> QED  BY <1>4, <2>1, <2>2 DEF LinkKnown, LoadPage, PageLoaded
<1>5. ASSUME NEW m \in Manuals \union Missing, NEW n \in Nodes, LinkTold(m, n)
      PROVE  Story'
  <2>1. PageMessage
    BY <1>5, BeforeRests DEF LinkTold, LoadPage, PageLoaded
  <2> QED  BY <1>5, <2>1, LinkToldPageMessage
<1> QED  BY <1>1, <1>2, <1>3, <1>4, <1>5 DEF Story

(* A user who waits gives a command only when everything is at rest. *)
LEMMA CommandWaits ==
  ASSUME NEW a \in BOOLEAN, NEW m, Command(a, m),
         ~user'.hurried, ~user'.again, ~user'.left
  PROVE  /\ Quiet /\ ~user.hurried /\ ~user.again /\ ~user.left /\ ~a
         /\ ~(main.current_manual \notin WithContents /\ m \in WithContents)
  BY DEF Command

(* Then a page is shown from which the command leads. *)
LEMMA CommandLeads ==
  ASSUME IInv, StoryTold, NEW a \in BOOLEAN, NEW m, Command(a, m),
         ~user'.hurried, ~user'.again, ~user'.left
  PROVE  ~a /\ \E p \in Pages : Settled(p) /\ Leads(p, m)
<1>1. /\ Quiet /\ ~user.hurried /\ ~user.again /\ ~user.left /\ ~a
      /\ ~(main.current_manual \notin WithContents /\ m \in WithContents)
  BY CommandWaits
<1>2. PICK p \in Pages : Settled(p)  BY <1>1, QuietSettled DEF StoryTold
<1>3. Leads(p, m)  BY <1>1, <1>2 DEF Leads, Settled
<1> QED  BY <1>1, <1>2, <1>3

LEMMA NextStoryTold == IInv /\ StoryTold /\ [Next]_vars => StoryTold'
<1> SUFFICES ASSUME IInv, StoryTold, [Next]_vars,
                    ~user'.hurried, ~user'.again, ~user'.left
             PROVE  Story'
  BY DEF StoryTold
<1>1. CASE user' = user /\ (LoadPage \/ PageLoaded \/ PageMessage \/ HiddenStep)
  BY <1>1, ProcessStory DEF StoryTold
<1>2. ASSUME NEW m \in Manuals \union Missing, manual_entry(m)  PROVE Story'
  <2>1. Command(m = main.current_manual, m)  BY <1>2 DEF manual_entry
  <2>2. m # main.current_manual /\ \E p \in Pages : Settled(p) /\ Leads(p, m)
    BY <2>1, CommandLeads
  <2> QED  BY <1>2, <2>2, EntrySettles
<1>3. ASSUME NEW r \in Rels, key_press(r)  PROVE Story'
  <2>1. \E p \in Pages : Settled(p)  BY <1>3, CommandLeads DEF key_press
  <2> QED  BY <1>3, <2>1, KeySettles
<1>4. ASSUME NEW n \in Nodes, index_match_selected(n)  PROVE Story'
  <2>1. \E p \in Pages : Settled(p)  BY <1>4, CommandLeads DEF index_match_selected
  <2> QED  BY <1>4, <2>1, IndexSettles
<1>5. ASSUME NEW n \in Nodes, NEW k \in DOMAIN main.toc, toc_selected(k, n)  PROVE Story'
  <2>1. \E p \in Pages : Settled(p)  BY <1>5, CommandLeads DEF toc_selected
  <2> QED  BY <1>5, <2>1, TocSettles
<1>6. ASSUME NEW m \in Manuals \union Missing, NEW n \in Nodes, FollowPrivate(m, n)
      PROVE  Story'
  <2>1. \E p \in Pages : Settled(p) /\ Leads(p, m)
    BY <1>6, CommandLeads DEF FollowPrivate
  <2> QED  BY <1>6, <2>1, PrivateSettles
<1>7. ASSUME NEW q \in Pages, FollowLink(q)  PROVE Story'
  <2>1. \E p \in Pages : Settled(p) /\ Leads(p, q.manual)
    BY <1>7, CommandLeads DEF FollowLink
  <2> QED  BY <1>7, <2>1, LinkSettles
<1>8. CASE UNCHANGED vars
  <2>1. Story' <=> Story
    BY <1>8 DEF vars, Story, Asked, Told, Heading, Showing, LinkKnown, LinkTold, Before,
       NoneWaits,
       Filling, TocWanted, TocThere, AllThere, IndexWanted, Fetching, Answered,
       Stored, Listed, Coming, UriKnown, SelectionRight, LinksRight
  <2> QED  BY <1>8, <2>1 DEF vars, StoryTold
<1>9. LoadPage \/ PageLoaded \/ PageMessage \/ HiddenStep => user' = user
  BY DEF LoadPage, PageLoaded, PageMessage, HiddenStep, LoadHidden, HiddenLoaded,
     HiddenMessage
<1> QED
  BY <1>1, <1>2, <1>3, <1>4, <1>5, <1>6, <1>7, <1>8, <1>9 DEF Next, HiddenStep

LEMMA StoryAlways == Spec => [](IInv /\ StoryTold)
<1>1. Init => IInv /\ StoryTold  BY InitIInv, InitStory DEF StoryTold
<1>2. IInv /\ StoryTold /\ [Next]_vars => (IInv /\ StoryTold)'
  BY NextIInv, NextStoryTold
<1> QED  BY <1>1, <1>2, PTL DEF Spec

(* After each command of a user who waits, once all is at rest, the sidebar, *)
(* the index, the selection and the keys are those of the page that is shown *)
(* (main.c), for all manuals, with contents or without, however the two      *)
(* views loaded.                                                             *)
THEOREM SettledRightCorrect == Spec => []SettledRight
<1>1. ASSUME IInv, StoryTold  PROVE SettledRight
  <2>1. SUFFICES ASSUME Quiet, ~user.hurried, ~user.again, ~user.left
                 PROVE  LET m == main.current_manual
                            n == page.shown.node
                        IN /\ page.shown.manual = m
                           /\ main.toc = IF m \in WithContents THEN <<m>> ELSE << >>
                           /\ main.index_store =
                                [k \in DOMAIN Indices[m] |-> P(m, Indices[m][k])]
                           /\ main.pending_node =
                                IF m \in WithContents THEN None ELSE n
                           /\ m \in WithContents /\ n \in Toc[m] =>
                                main.selection = [row |-> 1, node |-> n]
                           /\ \A r \in Rels : main.links[r] # None =>
                                \E k \in DOMAIN Pointers[page.shown] :
                                  Pointers[page.shown][k] =
                                    [rel |-> r, node |-> main.links[r].node]
    BY DEF SettledRight
  <2>2. PICK p \in Pages : Settled(p)
    BY <1>1, <2>1, QuietSettled DEF StoryTold
  <2>3. /\ main.current_manual = p.manual /\ page.shown = p
        /\ main.pending_node = IF p.manual \in WithContents THEN None ELSE p.node
        /\ AllThere(p.manual) /\ SelectionRight(p) /\ LinksRight(p)
    BY <2>2 DEF Settled
  <2>4. main.toc = IF p.manual \in WithContents THEN << p.manual >> ELSE << >>
    BY <2>3 DEF AllThere, Sidebar
  <2>5. main.index_store =
          [k \in DOMAIN Indices[p.manual] |-> P(p.manual, Indices[p.manual][k])]
    <3> DEFINE m == p.manual
               q == [k \in DOMAIN Indices[m] |-> P(m, Indices[m][k])]
    <3>1. m \in Manuals  BY PageOf
    <3>2. /\ Indices[m] \in Seq(Nodes) /\ Len(Indices[m]) \in Nat
          /\ \A k \in 1 .. Len(Indices[m]) : P(m, Indices[m][k]) \in Pages
      <4> HIDE DEF m
      <4> QED  BY <3>1, IndicesType
    <3>3. DOMAIN Indices[m] = 1 .. Len(Indices[m])  BY <3>2
    <3>4. main.index_store \in Seq(Pages)
      BY <1>1 DEF IInv, Typed, MainTyped, World
    <3>5. /\ Len(main.index_store) = Len(Indices[m])
          /\ \A i \in 1 .. Len(Indices[m]) : main.index_store[i] = P(m, Indices[m][i])
      BY <2>3 DEF AllThere, Stored
    <3>6. main.index_store = [k \in 1 .. Len(main.index_store) |-> main.index_store[k]]
      BY <3>4, LenProperties
    <3> HIDE DEF m
    <3>7. main.index_store = q  BY <3>3, <3>5, <3>6
    <3> QED  BY <3>7 DEF m
  <2>6. p.manual \in WithContents /\ p.node \in Toc[p.manual] =>
          main.selection = [row |-> 1, node |-> p.node]
    <3>1. p.node # None  BY PageOf, InfogAssumption
    <3> QED  BY <2>3, <3>1 DEF SelectionRight
  <2>7. ASSUME NEW r \in Rels, main.links[r] # None
        PROVE  \E k \in DOMAIN Pointers[p] :
                 Pointers[p][k] = [rel |-> r, node |-> main.links[r].node]
    <3>1. PICK k \in DOMAIN Pointers[p] :
            /\ Pointers[p][k].rel = r
            /\ main.links[r] = P(p.manual, Pointers[p][k].node)
      BY <2>3, <2>7 DEF LinksRight
    <3>2. Pointers[p][k] \in [rel : Rels, node : Nodes]  BY TellsOf
    <3>3. main.links[r].node = Pointers[p][k].node  BY <3>1 DEF P
    <3>4. Pointers[p][k] = [rel |-> Pointers[p][k].rel, node |-> Pointers[p][k].node]
      BY <3>2
    <3> QED  BY <3>1, <3>3, <3>4
  <2> QED  BY <2>3, <2>4, <2>5, <2>6, <2>7
<1> QED  BY <1>1, StoryAlways, PTL

=============================================================================
