---------------------------- MODULE InfoJsProofs ----------------------------
(***************************************************************************)
(* Theorems about InfoJs, for every manual, every set of expressions and   *)
(* every order in which pages load and messages are delivered.             *)
(***************************************************************************)
EXTENDS InfoJs, SequenceTheorems, FiniteSetTheorems, WellFoundedInduction, TLAPS

(* What the navigation links of a page lead to has a container from the    *)
(* start.                                                                  *)
NavInToc ==
  \A p \in AllPages : \A l \in Nav[p] :
    PageOf[l] = TOP_ID \/ \E k \in DOMAIN Toc : PageOf[Toc[k]] = PageOf[l]

-----------------------------------------------------------------------------
(* The types of the state and of the messages.                             *)

Modes == {"pushState", "replaceState", "none"}
Expressions == Regexps \union {None}
SearchState == [regexp : Expressions, status : {"ready", "searching", "done"},
                found : BOOLEAN, page : AllPages]
State == [current : Linkids, history : Modes, highlight : Expressions,
          loaded_nodes : SUBSET Linkids, linked : SUBSET AllPages, search : SearchState]
Remembered == [prev_id : Linkids, search_seen : BOOLEAN]
Message == {Unmark, ScrollToResult} \union {SearchFor(r) : r \in Expressions}
Mark == {None} \union [regexp : Expressions, nth : Nat]
Frame == [phase : {"none", "loading", "dom", "ready"}, waiting : Seq(Message),
          mail : Seq(Message), mark : Mark]
Answer == {CacheLinks(p) : p \in Pages} \union {Result(b) : b \in BOOLEAN}
Timer == [page : AllPages, regexp : Expressions]
Worlds == [state : State, pages : Remembered,
           history : [entries : Seq(Linkids), at : Nat],
           frame : [AllPages -> Frame], inbox : Seq(Answer), timers : Seq(Timer)]

(* No message is on its way to a page that has not loaded. *)
Delivering(f) == \A p \in Pages : f[p].mail # << >> => f[p].phase = "ready"

Sound(s) ==
  /\ s \in Worlds
  /\ s.history.at \in 1 .. Len(s.history.entries)
  /\ Delivering(s.frame)

(* The entry of the history and the page that was rendered last are those  *)
(* of the state, and what may be rendered next has a container.            *)
Known(s) ==
  /\ \A k \in DOMAIN Toc : Toc[k] \in s.state.loaded_nodes
  /\ Container(s, PageOf[s.state.current])
  /\ Container(s, s.state.search.page)
InStep(s) ==
  /\ s.pages.prev_id = s.state.current
  /\ s.history.entries[s.history.at] = s.state.current

(* A state that is ready to be rendered. *)
Ready(s) ==
  /\ Known(s)
  /\ \/ s.state.history # "none"
     \/ s.history.entries[s.history.at] = s.state.current
  /\ s.pages.prev_id = s.state.current
     => s.history.entries[s.history.at] = s.state.current

(* A page that has loaded stays loaded. *)
StillReady(f, g) == \A p \in Pages : f[p].phase = "ready" => g[p].phase = "ready"

SameButFrames(s, t) == t = [s EXCEPT !.frame = t.frame] /\ StillReady(s.frame, t.frame)

-----------------------------------------------------------------------------
(* The links of the table of contents.                                     *)

LEMMA LeastElement ==
  ASSUME NEW S \in SUBSET Nat, S # {}
  PROVE  \E m \in S : \A n \in S : m <= n
<1>. DEFINE R == OpToRel(<, Nat)
<1>1. IsWellFoundedOn(R, Nat)
  BY NatLessThanWellFounded
<1>2. \A x, y \in Nat : <<x, y>> \in R <=> x < y
  BY DEF OpToRel
<1>. HIDE DEF R
<1>0. PICK m \in S : \A n \in S : ~ (<<n, m>> \in R)
  BY <1>1, WFMin
<1>3. ASSUME NEW n \in S
      PROVE  m <= n
  <2>1. ~ (<<n, m>> \in R)
    BY <1>0
  <2>2. n \in Nat /\ m \in Nat
    OBVIOUS
  <2>3. ~(n < m)
    BY <1>2, <2>1, <2>2, Zenon
  <2>. QED  BY <2>2, <2>3
<1>. QED  BY <1>3

(* The page that a search goes to next is in the table of contents. *)
LEMMA ForwardPage ==
  ASSUME NEW l, forward_pageid(l) # None
  PROVE  \E k \in DOMAIN Toc : Toc[k] = forward_pageid(l) /\ Toc[k] \in Pages
<1>. DEFINE S == {k \in After(l) :
                    Toc[k] \in Pages /\ PageOf[Toc[k]] # (IF k = 1 THEN TOP_ID ELSE PageOf[Toc[k - 1]])}
<1>1. S \in SUBSET (DOMAIN Toc)
  BY DEF After
<1>2. DOMAIN Toc \in SUBSET Nat
  BY InfoJsAssumption
<1>3. S # {} /\ forward_pageid(l) = Toc[CHOOSE k \in S : \A j \in S : k <= j]
  BY DEF forward_pageid
<1>4. PICK k \in S : \A j \in S : k <= j
  <2>. HIDE DEF S
  <2>. QED  BY <1>1, <1>2, <1>3, LeastElement
<1>5. (CHOOSE m \in S : \A j \in S : m <= j) \in S
  <2>. HIDE DEF S
  <2>. QED  BY <1>4
<1>6. \A m \in S : Toc[m] \in Pages
  OBVIOUS
<1>. HIDE DEF S
<1>. QED  BY <1>1, <1>3, <1>5, <1>6

-----------------------------------------------------------------------------
(* Messages to pages.                                                      *)

LEMMA QueuedType ==
  ASSUME NEW q \in Seq(Message), NEW m \in Message
  PROVE  Queued(q, m) \in Seq(Message)
BY DEF Queued

LEMMA FrameField ==
  ASSUME NEW f \in [AllPages -> Frame], NEW p \in AllPages
  PROVE  /\ \A x \in {"none", "loading", "dom", "ready"} :
              [f EXCEPT ![p].phase = x] \in [AllPages -> Frame]
         /\ \A x \in Seq(Message) : /\ [f EXCEPT ![p].waiting = x] \in [AllPages -> Frame]
                                    /\ [f EXCEPT ![p].mail = x] \in [AllPages -> Frame]
         /\ \A x \in Mark : [f EXCEPT ![p].mark = x] \in [AllPages -> Frame]
<1>. DEFINE Phase == {"none", "loading", "dom", "ready"}
<1>1. \A g \in Frame : /\ \A x \in Phase : [g EXCEPT !.phase = x] \in Frame
                       /\ \A x \in Seq(Message) : /\ [g EXCEPT !.waiting = x] \in Frame
                                                  /\ [g EXCEPT !.mail = x] \in Frame
                       /\ \A x \in Mark : [g EXCEPT !.mark = x] \in Frame
  BY DEF Frame
<1>. HIDE DEF Phase
<1>2. f[p] \in Frame
  OBVIOUS
<1>3. \A g \in Frame : [f EXCEPT ![p] = g] \in [AllPages -> Frame]
  OBVIOUS
<1>. QED  BY <1>1, <1>2, <1>3 DEF Phase

(* A world with other frames. *)
LEMMA OtherFrames ==
  ASSUME NEW s, Sound(s), NEW f \in [AllPages -> Frame], Delivering(f),
         StillReady(s.frame, f)
  PROVE  /\ Sound([s EXCEPT !.frame = f])
         /\ SameButFrames(s, [s EXCEPT !.frame = f])
<1>. DEFINE t == [s EXCEPT !.frame = f]
<1>1. t \in Worlds /\ t.history = s.history /\ t.frame = f
  BY DEF Sound, Worlds
<1>2. t = [s EXCEPT !.frame = t.frame]
  BY <1>1
<1>. QED  BY <1>1, <1>2 DEF Sound, SameButFrames

LEMMA MessageTypes ==
  /\ Unmark \in Message /\ ScrollToResult \in Message
  /\ \A r \in Expressions : SearchFor(r) \in Message
BY DEF Message

LEMMA SameButFramesTransitive ==
  ASSUME NEW s, NEW t, NEW u, Sound(s), Sound(t), Sound(u),
         SameButFrames(s, t), SameButFrames(t, u)
  PROVE  SameButFrames(s, u)
BY DEF SameButFrames, StillReady, Sound, Worlds

(* An iframe is made. *)
LEMMA FramedSound ==
  ASSUME NEW s, Sound(s), NEW p \in AllPages
  PROVE  Sound(Framed(s, p)) /\ SameButFrames(s, Framed(s, p))
<1>. DEFINE f == [s.frame EXCEPT ![p].phase = "loading"]
<1>1. s.frame \in [AllPages -> Frame] /\ Delivering(s.frame) /\ s = [s EXCEPT !.frame = s.frame]
  BY DEF Sound, Worlds
<1>2. f \in [AllPages -> Frame]
  BY <1>1, FrameField
<1>3. CASE s.frame[p].phase = "none"
  <2>1. Framed(s, p) = [s EXCEPT !.frame = f]
    BY <1>3 DEF Framed
  <2>2. Delivering(f) /\ StillReady(s.frame, f)
    <3>1. \A q \in Pages : q # p => f[q] = s.frame[q]
      BY <1>1
    <3>2. f[p].mail = s.frame[p].mail
      BY <1>1 DEF Frame
    <3>3. p \in Pages => s.frame[p].mail = << >>
      BY <1>1, <1>3 DEF Delivering
    <3>. QED  BY <1>1, <1>3, <3>1, <3>2, <3>3 DEF Delivering, StillReady
  <2>. QED  BY <1>2, <2>1, <2>2, OtherFrames
<1>4. CASE s.frame[p].phase # "none"
  BY <1>1, <1>4 DEF Framed, SameButFrames, StillReady
<1>. QED  BY <1>3, <1>4

LEMMA PostSound ==
  ASSUME NEW s, Sound(s), NEW p \in AllPages, NEW m \in Message
  PROVE  Sound(post_message(s, p, m)) /\ SameButFrames(s, post_message(s, p, m))
<1>. DEFINE t == Framed(s, p)
            f == [t.frame EXCEPT ![p].mail = Queued(@, m)]
            g == [t.frame EXCEPT ![p].waiting = Queued(@, m)]
<1>1. Sound(t) /\ SameButFrames(s, t)
  BY FramedSound
<1>. HIDE DEF t
<1>2. t.frame \in [AllPages -> Frame] /\ Delivering(t.frame)
  BY <1>1 DEF Sound, Worlds
<1>3. Queued(t.frame[p].mail, m) \in Seq(Message) /\ Queued(t.frame[p].waiting, m) \in Seq(Message)
  BY <1>2, QueuedType DEF Frame
<1>4. f \in [AllPages -> Frame] /\ g \in [AllPages -> Frame]
  BY <1>2, <1>3, FrameField
<1>5. CASE p # TOP_ID /\ t.frame[p].phase = "ready"
  <2>1. post_message(s, p, m) = [t EXCEPT !.frame = f]
    BY <1>5 DEF post_message, t
  <2>2. Delivering(f) /\ StillReady(t.frame, f)
    <3>1. \A q \in Pages : f[q].phase = t.frame[q].phase /\ (q # p => f[q].mail = t.frame[q].mail)
      BY <1>2 DEF Frame
    <3>. QED  BY <1>2, <1>5, <3>1 DEF Delivering, StillReady
  <2>3. Sound([t EXCEPT !.frame = f]) /\ SameButFrames(t, [t EXCEPT !.frame = f])
    BY <1>1, <1>4, <2>2, OtherFrames
  <2>. QED  BY <1>1, <2>1, <2>3, SameButFramesTransitive
<1>6. CASE p # TOP_ID /\ t.frame[p].phase # "ready"
  <2>1. post_message(s, p, m) = [t EXCEPT !.frame = g]
    BY <1>6 DEF post_message, t
  <2>2. Delivering(g) /\ StillReady(t.frame, g)
    <3>1. \A q \in Pages : g[q].phase = t.frame[q].phase /\ g[q].mail = t.frame[q].mail
      BY <1>2 DEF Frame
    <3>. QED  BY <1>2, <3>1 DEF Delivering, StillReady
  <2>3. Sound([t EXCEPT !.frame = g]) /\ SameButFrames(t, [t EXCEPT !.frame = g])
    BY <1>1, <1>4, <2>2, OtherFrames
  <2>. QED  BY <1>1, <2>1, <2>3, SameButFramesTransitive
<1>7. CASE p = TOP_ID
  <2>1. post_message(s, p, m) = s
    BY <1>7 DEF post_message
  <2>2. SameButFrames(s, s)
    BY DEF SameButFrames, StillReady, Sound, Worlds
  <2>. QED  BY <2>1, <2>2
<1>. QED  BY <1>5, <1>6, <1>7

-----------------------------------------------------------------------------
(* The rendering of a state.                                               *)

(* What a part of the rendering keeps. *)
Keeps(s, t) == /\ t.state = s.state
               /\ t.history = s.history
               /\ t.pages.prev_id = s.pages.prev_id
               /\ StillReady(s.frame, t.frame)

LEMMA FramesKept ==
  ASSUME NEW s, Sound(s), NEW t, SameButFrames(s, t)
  PROVE  Keeps(s, t) /\ t.pages = s.pages /\ t.timers = s.timers /\ t.inbox = s.inbox
BY DEF SameButFrames, Keeps, Sound, Worlds

LEMMA PageTypes ==
  ASSUME NEW s, Sound(s)
  PROVE  /\ PageOf[s.state.current] \in AllPages
         /\ PageOf[s.pages.prev_id] \in AllPages
         /\ s.state.search.page \in AllPages
         /\ s.state.search.regexp \in Expressions
BY InfoJsAssumption DEF Sound, Worlds, State, Remembered, SearchState

LEMMA LeavePageSound ==
  ASSUME NEW s, Sound(s)
  PROVE  Sound(LeavePage(s)) /\ SameButFrames(s, LeavePage(s))
<1>1. s.pages.prev_id # None
  BY InfoJsAssumption DEF Sound, Worlds, Remembered
<1>2. LeavePage(s) = post_message(s, PageOf[s.pages.prev_id], Unmark)
  BY <1>1 DEF LeavePage
<1>. QED  BY <1>2, PageTypes, PostSound, MessageTypes

LEMMA UpdatedHistory ==
  ASSUME NEW h \in [entries : Seq(Linkids), at : Nat], h.at \in 1 .. Len(h.entries),
         NEW l \in Linkids, NEW mode \in Modes
  PROVE  LET u == update_history(h, l, mode)
         IN /\ u \in [entries : Seq(Linkids), at : Nat]
            /\ u.at \in 1 .. Len(u.entries)
            /\ mode # "none" => u.entries[u.at] = l
            /\ mode = "none" => u = h
<1>0. mode = "pushState" \/ mode = "replaceState" \/ mode = "none"
  BY DEF Modes
<1>. DEFINE e == SubSeq(h.entries, 1, h.at)
<1>1. e \in Seq(Linkids) /\ Len(e) = h.at
  <2>. DEFINE es == h.entries
              n == h.at
  <2>1. es \in Seq(Linkids) /\ n \in 1 .. Len(es)
    OBVIOUS
  <2>. HIDE DEF es, n
  <2>2. SubSeq(es, 1, n) \in Seq(Linkids) /\ Len(SubSeq(es, 1, n)) = n
    BY <2>1
  <2>. QED  BY <2>2 DEF es, n
<1>2. CASE mode = "pushState"
  <2>. DEFINE es == Append(e, l)
              v == [entries |-> es, at |-> h.at + 1]
  <2>. HIDE DEF e
  <2>1. es \in Seq(Linkids) /\ Len(es) = h.at + 1 /\ es[h.at + 1] = l
    BY <1>1
  <2>2. update_history(h, l, mode) = v
    BY <1>2 DEF update_history, e
  <2>. HIDE DEF es
  <2>3. /\ v \in [entries : Seq(Linkids), at : Nat] /\ v.entries[v.at] = l
        /\ v.at \in 1 .. Len(v.entries)
    BY <2>1
  <2>. QED  BY <1>2, <2>2, <2>3, Zenon
<1>3. CASE mode = "replaceState"
  <2>1. update_history(h, l, mode) = [h EXCEPT !.entries = [h.entries EXCEPT ![h.at] = l]]
    BY <1>3 DEF update_history
  <2>2. /\ [h.entries EXCEPT ![h.at] = l] \in Seq(Linkids)
        /\ Len([h.entries EXCEPT ![h.at] = l]) = Len(h.entries)
        /\ [h.entries EXCEPT ![h.at] = l][h.at] = l
    BY ExceptSeq
  <2>. QED  BY <1>3, <2>1, <2>2
<1>4. CASE mode = "none"
  BY <1>4 DEF update_history
<1>. QED  BY <1>0, <1>2, <1>3, <1>4, Zenon

LEMMA ShowPageSound ==
  ASSUME NEW s, Sound(s)
  PROVE  LET t == ShowPage(s)
         IN /\ Sound(t) /\ t.state = s.state
            /\ t.pages.prev_id = s.state.current
            /\ s.state.history # "none" => t.history.entries[t.history.at] = s.state.current
            /\ s.state.history = "none" => t.history = s.history
            /\ StillReady(s.frame, t.frame)
<1>. DEFINE l == s.state.current
            r == LeavePage(s)
            q == Framed(r, PageOf[l])
            h == update_history(s.history, l, s.state.history)
            t == [q EXCEPT !.history = h, !.pages.prev_id = l]
<1>1. Sound(r) /\ SameButFrames(s, r)
  BY LeavePageSound
<1>2. Sound(q) /\ SameButFrames(r, q)
  <2>. HIDE DEF r
  <2>. QED  BY <1>1, PageTypes, FramedSound
<1>3. /\ q.history = s.history /\ q.state = s.state /\ q.pages = s.pages
      /\ StillReady(s.frame, q.frame)
  <2>. HIDE DEF r, q
  <2>. QED  BY <1>1, <1>2, FramesKept DEF Keeps, StillReady
<1>4. /\ l \in Linkids /\ s.state.history \in Modes
      /\ s.history \in [entries : Seq(Linkids), at : Nat]
      /\ s.history.at \in 1 .. Len(s.history.entries)
  BY DEF Sound, Worlds, State
<1>5. /\ h \in [entries : Seq(Linkids), at : Nat]
      /\ h.at \in 1 .. Len(h.entries)
      /\ s.state.history # "none" => h.entries[h.at] = l
      /\ s.state.history = "none" => h = s.history
  <2>. HIDE DEF l
  <2>. QED  BY <1>4, UpdatedHistory
<1>6. ShowPage(s) = t
  BY <1>3 DEF ShowPage
<1>. HIDE DEF l, q, h
<1>7. /\ Sound(t) /\ t.state = q.state /\ t.pages.prev_id = l /\ t.history = h
      /\ t.frame = q.frame
  <2>1. q \in Worlds /\ Delivering(q.frame)
    BY <1>2 DEF Sound
  <2>2. q.pages \in Remembered
    BY <2>1 DEF Worlds
  <2>3. [q.pages EXCEPT !.prev_id = l] \in Remembered
    BY <2>2, <1>4 DEF Remembered
  <2>4. /\ t \in Worlds /\ t.frame = q.frame /\ t.history = h /\ t.state = q.state
        /\ t.pages = [q.pages EXCEPT !.prev_id = l]
    BY <2>1, <2>3, <1>5 DEF Worlds
  <2>. QED  BY <2>1, <2>2, <2>4, <1>5 DEF Sound, Remembered
<1>. QED  BY <1>3, <1>5, <1>6, <1>7 DEF l

LEMMA AppendType ==
  ASSUME NEW S, NEW q \in Seq(S), NEW x \in S
  PROVE  Append(q, x) \in Seq(S)
OBVIOUS

LEMMA StartSearchSound ==
  ASSUME NEW s, Sound(s)
  PROVE  Sound(StartSearch(s)) /\ Keeps(s, StartSearch(s))
<1>. DEFINE x == [page |-> s.state.search.page, regexp |-> s.state.search.regexp]
            t == [s EXCEPT !.pages.search_seen = TRUE, !.timers = Append(@, x)]
<1>1. x \in Timer
  BY PageTypes DEF Timer
<1>. HIDE DEF x
<1>2. s.timers \in Seq(Timer) /\ s.pages \in Remembered /\ s \in Worlds
  BY DEF Sound, Worlds
<1>0. Append(s.timers, x) \in Seq(Timer)
  BY <1>1, <1>2, AppendType
<1>3. [s.pages EXCEPT !.search_seen = TRUE] \in Remembered
  BY <1>2 DEF Remembered
<1>4. /\ t \in Worlds /\ t.frame = s.frame /\ t.history = s.history /\ t.state = s.state
      /\ t.pages.prev_id = s.pages.prev_id
  BY <1>0, <1>2, <1>3 DEF Worlds, Remembered
<1>5. Sound(t) /\ Keeps(s, t)
  BY <1>4 DEF Sound, Keeps, StillReady
<1>6. StartSearch(s) = t \/ StartSearch(s) = s
  BY DEF StartSearch, x
<1>. QED  BY <1>5, <1>6 DEF Keeps, StillReady

LEMMA RemoveHighlightSound ==
  ASSUME NEW s, Sound(s)
  PROVE  Sound(RemoveHighlight(s)) /\ Keeps(s, RemoveHighlight(s))
<1>. DEFINE p == PageOf[s.state.current]
            f == [s.frame EXCEPT ![TOP_ID].mark = None]
            t == [s EXCEPT !.frame = f]
<1>1. p \in AllPages /\ TOP_ID \in AllPages
  BY PageTypes DEF AllPages
<1>. HIDE DEF p
<1>2. s.frame \in [AllPages -> Frame] /\ Delivering(s.frame)
  BY DEF Sound, Worlds
<1>3. f \in [AllPages -> Frame]
  BY <1>1, <1>2, FrameField DEF Mark
<1>4. Delivering(f) /\ StillReady(s.frame, f)
  <2>1. \A q \in Pages : f[q].phase = s.frame[q].phase /\ f[q].mail = s.frame[q].mail
    BY <1>2 DEF Frame
  <2>. QED  BY <1>2, <2>1 DEF Delivering, StillReady
<1>. HIDE DEF f
<1>5. Sound(t) /\ Keeps(s, t)
  BY <1>3, <1>4, OtherFrames, FramesKept
<1>6. Sound(post_message(s, p, Unmark)) /\ Keeps(s, post_message(s, p, Unmark))
  BY <1>1, PostSound, MessageTypes, FramesKept
<1>7. \/ RemoveHighlight(s) = s
      \/ RemoveHighlight(s) = t
      \/ RemoveHighlight(s) = post_message(s, p, Unmark)
  BY DEF RemoveHighlight, p, f
<1>. QED  BY <1>5, <1>6, <1>7 DEF Keeps, StillReady

LEMMA ScrollToFoundSound ==
  ASSUME NEW s, Sound(s)
  PROVE  Sound(ScrollToFound(s)) /\ Keeps(s, ScrollToFound(s))
<1>. DEFINE q == post_message(s, PageOf[s.state.current], ScrollToResult)
            t == [q EXCEPT !.pages.search_seen = TRUE]
<1>1. Sound(q) /\ Keeps(s, q)
  BY PageTypes, PostSound, MessageTypes, FramesKept
<1>2. ScrollToFound(s) = s \/ ScrollToFound(s) = t
  BY DEF ScrollToFound
<1>. HIDE DEF q
<1>3. q.pages \in Remembered /\ q \in Worlds
  BY <1>1 DEF Sound, Worlds
<1>4. [q.pages EXCEPT !.search_seen = TRUE] \in Remembered
  BY <1>3 DEF Remembered
<1>5. /\ t \in Worlds /\ t.frame = q.frame /\ t.history = q.history /\ t.state = q.state
      /\ t.pages.prev_id = q.pages.prev_id
  BY <1>3, <1>4 DEF Worlds, Remembered
<1>6. Sound(t) /\ Keeps(s, t)
  BY <1>1, <1>5 DEF Sound, Keeps
<1>. QED  BY <1>2, <1>6 DEF Keeps, StillReady

LEMMA RenderedSound ==
  ASSUME NEW s, Sound(s)
  PROVE  /\ Sound(Rendered(s)) /\ Rendered(s).state = s.state
         /\ StillReady(s.frame, Rendered(s).frame)
         /\ Ready(s) => InStep(Rendered(s))
<1>. DEFINE moved == s.state.current # s.pages.prev_id
            shown == IF moved THEN ShowPage(s) ELSE s
            a == StartSearch(shown)
            b == RemoveHighlight(a)
            c == ScrollToFound(b)
<1>1. Sound(shown) /\ shown.state = s.state /\ StillReady(s.frame, shown.frame)
  BY ShowPageSound DEF StillReady
<1>2. Ready(s) => InStep(shown)
  <2>1. CASE moved
    BY <2>1, ShowPageSound DEF Ready, InStep
  <2>2. CASE ~moved
    BY <2>2 DEF Ready, InStep
  <2>. QED  BY <2>1, <2>2
<1>. HIDE DEF shown
<1>3. Sound(a) /\ Keeps(shown, a)
  BY <1>1, StartSearchSound
<1>. HIDE DEF a
<1>4. Sound(b) /\ Keeps(a, b)
  BY <1>3, RemoveHighlightSound
<1>. HIDE DEF b
<1>5. Sound(c) /\ Keeps(b, c)
  BY <1>4, ScrollToFoundSound
<1>. HIDE DEF c
<1>6. c.state = s.state /\ (Ready(s) => InStep(c))
  BY <1>1, <1>2, <1>3, <1>4, <1>5 DEF Keeps, InStep
<1>9. StillReady(s.frame, c.frame)
  BY <1>1, <1>3, <1>4, <1>5 DEF Keeps, StillReady
<1>7. CASE moved /\ ~Container(s, PageOf[s.state.current])
  <2>1. Rendered(s) = LeavePage(s)
    BY <1>7 DEF Rendered
  <2>2. ~Ready(s)
    BY <1>7 DEF Ready, Known
  <2>. QED  BY <2>1, <2>2, LeavePageSound, FramesKept DEF Keeps
<1>8. CASE ~(moved /\ ~Container(s, PageOf[s.state.current]))
  <2>1. Rendered(s) = c
    BY <1>8 DEF Rendered, shown, a, b, c
  <2>. QED  BY <2>1, <1>5, <1>6, <1>9
<1>. QED  BY <1>7, <1>8

-----------------------------------------------------------------------------
(* The actions of the updater.                                             *)

Settled(s) == Sound(s) /\ Known(s) /\ InStep(s)

LEMMA RenderedSettled ==
  ASSUME NEW s, Sound(s)
  PROVE  Sound(Rendered(s)) /\ (Ready(s) => Settled(Rendered(s)))
<1>1. Known(s) => Known(Rendered(s))
  BY RenderedSound DEF Known, Container
<1>. QED  BY <1>1, RenderedSound DEF Settled, Ready

LEMMA SettledReady ==
  ASSUME NEW s, Settled(s)
  PROVE  Ready(s)
BY DEF Settled, InStep, Ready

LEMMA OtherState ==
  ASSUME NEW s, Sound(s), NEW st \in State
  PROVE  LET t == [s EXCEPT !.state = st]
         IN Sound(t) /\ t.state = st /\ t.history = s.history /\ t.pages = s.pages
<1>. DEFINE t == [s EXCEPT !.state = st]
<1>1. /\ t \in Worlds /\ t.state = st /\ t.history = s.history /\ t.pages = s.pages
      /\ t.frame = s.frame
  BY DEF Sound, Worlds
<1>. QED  BY <1>1 DEF Sound

LEMMA SearchNotSeen ==
  ASSUME NEW s, Sound(s)
  PROVE  LET t == [s EXCEPT !.pages.search_seen = FALSE]
         IN /\ Sound(t) /\ t.state = s.state /\ t.history = s.history
            /\ t.pages.prev_id = s.pages.prev_id
<1>. DEFINE t == [s EXCEPT !.pages.search_seen = FALSE]
<1>1. s \in Worlds /\ s.pages \in Remembered
  BY DEF Sound, Worlds
<1>2. [s.pages EXCEPT !.search_seen = FALSE] \in Remembered
  BY <1>1 DEF Remembered
<1>3. /\ t \in Worlds /\ t.state = s.state /\ t.history = s.history
      /\ t.pages.prev_id = s.pages.prev_id /\ t.frame = s.frame
  BY <1>1, <1>2 DEF Worlds, Remembered
<1>. QED  BY <1>3 DEF Sound

(* Following a link: with its page registered, or with a page that has a   *)
(* container already.                                                      *)
LEMMA CurrentUrl ==
  ASSUME NEW s, Sound(s), NEW l \in Linkids, NEW mode \in Modes
  PROVE  LET r == current_url(s, l, mode)
         IN /\ Sound(r)
            /\ /\ Known(s)
               /\ mode = "none" \/ s.pages.prev_id = l
                  => s.history.entries[s.history.at] = l
               => Settled(r)
<1>. DEFINE st == [s.state EXCEPT !.current = l, !.history = mode, !.highlight = None,
                                  !.loaded_nodes = @ \union {l}]
            t == [s EXCEPT !.state = st]
<1>1. s.state \in State
  BY DEF Sound, Worlds
<1>2. /\ st \in State /\ st.current = l /\ st.history = mode /\ st.search = s.state.search
      /\ st.loaded_nodes = s.state.loaded_nodes \union {l}
  BY <1>1 DEF State, Expressions
<1>3. current_url(s, l, mode) = Rendered(t)
  BY DEF current_url
<1>. HIDE DEF st
<1>4. Sound(t) /\ t.state = st /\ t.history = s.history /\ t.pages = s.pages
  BY <1>2, OtherState
<1>. HIDE DEF t
<1>5. Known(s) => Known(t)
  BY <1>2, <1>4 DEF Known, Container
<1>6. /\ Known(s)
      /\ mode = "none" \/ s.pages.prev_id = l => s.history.entries[s.history.at] = l
      => Ready(t)
  BY <1>2, <1>4, <1>5 DEF Ready
<1>7. Sound(Rendered(t)) /\ (Ready(t) => Settled(Rendered(t)))
  BY <1>4, RenderedSettled
<1>. QED  BY <1>3, <1>6, <1>7, Zenon

LEMMA Navigated ==
  ASSUME NEW s, Sound(s), NEW l \in Linkids
  PROVE  /\ Sound(navigated(s, l))
         /\ Settled(s) /\ Container(s, PageOf[l]) => Settled(navigated(s, l))
<1>. DEFINE st == [s.state EXCEPT !.current = l, !.history = "pushState", !.highlight = None]
            t == [s EXCEPT !.state = st]
<1>1. s.state \in State
  BY DEF Sound, Worlds
<1>2. /\ st \in State /\ st.current = l /\ st.history = "pushState"
      /\ st.search = s.state.search /\ st.loaded_nodes = s.state.loaded_nodes
  BY <1>1 DEF State, Expressions, Modes
<1>3. navigated(s, l) = Rendered(t)
  BY DEF navigated
<1>. HIDE DEF st
<1>4. Sound(t) /\ t.state = st /\ t.history = s.history /\ t.pages = s.pages
  BY <1>2, OtherState
<1>. HIDE DEF t
<1>5. Settled(s) /\ Container(s, PageOf[l]) => Ready(t)
  BY <1>2, <1>4 DEF Ready, Settled, InStep, Known, Container
<1>6. Sound(Rendered(t)) /\ (Ready(t) => Settled(Rendered(t)))
  BY <1>4, RenderedSettled
<1>. QED  BY <1>3, <1>5, <1>6, Zenon

LEMMA CachedLinks ==
  ASSUME NEW s, Sound(s), NEW p \in Pages
  PROVE  /\ Sound(cache_links(s, p))
         /\ Settled(s) => Settled(cache_links(s, p))
<1>. DEFINE st == [s.state EXCEPT !.loaded_nodes = @ \union {p}, !.linked = @ \union {p}]
            t == [s EXCEPT !.state = st]
<1>1. s.state \in State /\ p \in Linkids /\ p \in AllPages
  BY DEF Sound, Worlds, Linkids, AllPages
<1>2. /\ st \in State /\ st.current = s.state.current /\ st.history = s.state.history
      /\ st.search = s.state.search /\ st.loaded_nodes = s.state.loaded_nodes \union {p}
  BY <1>1 DEF State
<1>3. cache_links(s, p) = Rendered(t)
  BY DEF cache_links
<1>. HIDE DEF st
<1>4. Sound(t) /\ t.state = st /\ t.history = s.history /\ t.pages = s.pages
  BY <1>2, OtherState
<1>. HIDE DEF t
<1>5. Settled(s) => Ready(t)
  BY <1>2, <1>4 DEF Ready, Settled, InStep, Known, Container
<1>6. Sound(Rendered(t)) /\ (Ready(t) => Settled(Rendered(t)))
  BY <1>4, RenderedSettled
<1>. QED  BY <1>3, <1>5, <1>6, Zenon

(* A change of the search alone, rendered. *)
Searching(s, x) == [s EXCEPT !.state.search = x, !.pages.search_seen = FALSE]

LEMMA OtherSearch ==
  ASSUME NEW s, Sound(s), NEW x \in SearchState
  PROVE  /\ Sound(Rendered(Searching(s, x)))
         /\ Settled(s) /\ Container(s, x.page) => Settled(Rendered(Searching(s, x)))
<1>. DEFINE st == [s.state EXCEPT !.search = x]
            t == [s EXCEPT !.state = st]
            u == Searching(s, x)
<1>1. s.state \in State
  BY DEF Sound, Worlds
<1>2. /\ st \in State /\ st.current = s.state.current /\ st.history = s.state.history
      /\ st.search = x /\ st.loaded_nodes = s.state.loaded_nodes
  BY <1>1 DEF State
<1>3. u = [t EXCEPT !.pages.search_seen = FALSE]
  BY DEF Searching
<1>. HIDE DEF st
<1>4. Sound(t) /\ t.state = st /\ t.history = s.history /\ t.pages = s.pages
  BY <1>2, OtherState
<1>. HIDE DEF t, u
<1>5. Sound(u) /\ u.state = st /\ u.history = s.history /\ u.pages.prev_id = s.pages.prev_id
  BY <1>3, <1>4, SearchNotSeen
<1>6. Settled(s) /\ Container(s, x.page) => Ready(u)
  BY <1>2, <1>5 DEF Ready, Settled, InStep, Known, Container
<1>7. Sound(Rendered(u)) /\ (Ready(u) => Settled(Rendered(u)))
  BY <1>5, RenderedSettled
<1>. QED  BY <1>6, <1>7 DEF u

LEMMA SearchInit ==
  ASSUME NEW s, Sound(s), NEW r \in Regexps
  PROVE  /\ Sound(search_init(s, r))
         /\ Settled(s) => Settled(search_init(s, r))
<1>. DEFINE x == [regexp |-> r, status |-> "ready", found |-> FALSE,
                  page |-> PageOf[s.state.current]]
<1>1. x \in SearchState
  BY PageTypes DEF SearchState, Expressions
<1>2. search_init(s, r) = Rendered(Searching(s, x))
  BY DEF search_init, Searching
<1>3. Settled(s) => Container(s, x.page)
  BY DEF Settled, Known
<1>. HIDE DEF x
<1>. QED  BY <1>1, <1>2, <1>3, OtherSearch

LEMMA SearchQuery ==
  ASSUME NEW s, Sound(s)
  PROVE  /\ Sound(search_query(s))
         /\ Settled(s) => Settled(search_query(s))
<1>. DEFINE x == [s.state.search EXCEPT !.status = "searching"]
<1>1. s.state.search \in SearchState
  BY DEF Sound, Worlds, State
<1>2. x \in SearchState /\ x.page = s.state.search.page
  BY <1>1 DEF SearchState
<1>3. search_query(s) = Rendered(Searching(s, x))
  BY DEF search_query, Searching
<1>4. Settled(s) => Container(s, x.page)
  BY <1>2 DEF Settled, Known
<1>. HIDE DEF x
<1>. QED  BY <1>2, <1>3, <1>4, OtherSearch

(* An answer: the page is shown, the search goes on, or it has failed. *)
LEMMA SearchFound ==
  ASSUME NEW s, Sound(s)
  PROVE  /\ Sound(search_result(s, TRUE))
         /\ Settled(s) => Settled(search_result(s, TRUE))
<1>. DEFINE page == s.state.search.page
            v == [s EXCEPT !.pages.search_seen = FALSE]
            x == [v.state.search EXCEPT !.status = "done", !.found = TRUE]
            st == [v.state EXCEPT !.search = x, !.current = page,
                                  !.history = "pushState", !.highlight = s.state.search.regexp]
            u == [v EXCEPT !.state = st]
<1>1. s.state.search \in SearchState /\ s.state \in State
  BY DEF Sound, Worlds, State
<1>2. /\ Sound(v) /\ v.state = s.state /\ v.history = s.history
      /\ v.pages.prev_id = s.pages.prev_id
  BY SearchNotSeen
<1>0. v \in Worlds /\ v.state \in State /\ v.state.search \in SearchState
  BY <1>1, <1>2 DEF Sound
<1>. DEFINE w == [v EXCEPT !.state.search.status = "done", !.state.search.found = TRUE,
                           !.state.current = page, !.state.history = "pushState",
                           !.state.highlight = s.state.search.regexp]
<1>3. search_result(s, TRUE) = Rendered(w)
  BY DEF search_result
<1>. HIDE DEF v
<1>9. w = u
  <2>. DEFINE y == [v.state EXCEPT !.search.status = "done", !.search.found = TRUE,
                                   !.current = page, !.history = "pushState",
                                   !.highlight = s.state.search.regexp]
  <2>1. w = [v EXCEPT !.state = y]
    OBVIOUS
  <2>2. y = st
    OBVIOUS
  <2>. QED  BY <2>1, <2>2
<1>. HIDE DEF w
<1>4. /\ x \in SearchState /\ x.page = page /\ page \in Linkids /\ page \in AllPages
      /\ s.state.search.regexp \in Expressions
  BY <1>1, <1>2 DEF SearchState, Linkids
<1>. HIDE DEF x, page
<1>5. /\ st \in State /\ st.current = page /\ st.history = "pushState" /\ st.search = x
      /\ st.loaded_nodes = s.state.loaded_nodes
  BY <1>1, <1>2, <1>4 DEF State, Modes
<1>. HIDE DEF st
<1>6. Sound(u) /\ u.state = st /\ u.history = s.history /\ u.pages.prev_id = s.pages.prev_id
  BY <1>2, <1>5, OtherState
<1>7. PageOf[page] = page
  BY <1>4, InfoJsAssumption
<1>8. Settled(s) => Ready(u)
  BY <1>4, <1>5, <1>6, <1>7 DEF Ready, Settled, InStep, Known, Container, page
<1>. HIDE DEF u
<1>. QED  BY <1>3, <1>6, <1>8, <1>9, RenderedSettled

LEMMA SearchNotFound ==
  ASSUME NEW s, Sound(s)
  PROVE  /\ Sound(search_result(s, FALSE))
         /\ Settled(s) => Settled(search_result(s, FALSE))
<1>. DEFINE fwd == forward_pageid(s.state.search.page)
<1>1. s.state.search \in SearchState /\ s.state \in State
  BY DEF Sound, Worlds, State
<1>2. CASE s.state.search.page \notin s.state.loaded_nodes
  BY <1>2 DEF search_result
<1>3. CASE s.state.search.page \in s.state.loaded_nodes /\ fwd = None
  <2>. DEFINE x == [s.state.search EXCEPT !.status = "done"]
              st == [s.state EXCEPT !.search = x, !.highlight = None]
              t == [s EXCEPT !.state = st]
              u == [t EXCEPT !.pages.search_seen = FALSE]
  <2>1. x \in SearchState /\ x.page = s.state.search.page
    BY <1>1 DEF SearchState
  <2>2. search_result(s, FALSE) = Rendered(u)
    BY <1>3 DEF search_result
  <2>. HIDE DEF x
  <2>3. /\ st \in State /\ st.current = s.state.current /\ st.history = s.state.history
        /\ st.search = x /\ st.loaded_nodes = s.state.loaded_nodes
    BY <1>1, <2>1 DEF State, Expressions
  <2>. HIDE DEF st
  <2>4. Sound(t) /\ t.state = st /\ t.history = s.history /\ t.pages = s.pages
    BY <2>3, OtherState
  <2>. HIDE DEF t
  <2>5. Sound(u) /\ u.state = st /\ u.history = s.history /\ u.pages.prev_id = s.pages.prev_id
    BY <2>4, SearchNotSeen
  <2>6. Settled(s) => Ready(u)
    BY <2>1, <2>3, <2>5 DEF Ready, Settled, InStep, Known, Container
  <2>. HIDE DEF u
  <2>. QED  BY <2>2, <2>5, <2>6, RenderedSettled
<1>4. CASE s.state.search.page \in s.state.loaded_nodes /\ fwd # None
  <2>. DEFINE x == [s.state.search EXCEPT !.status = "ready", !.page = fwd]
  <2>1. PICK k \in DOMAIN Toc : Toc[k] = fwd /\ Toc[k] \in Pages
    BY <1>4, ForwardPage
  <2>. HIDE DEF fwd
  <2>2. x \in SearchState /\ x.page = fwd
    BY <1>1, <2>1 DEF SearchState, AllPages
  <2>3. search_result(s, FALSE) = Rendered(Searching(s, x))
    BY <1>4 DEF search_result, Searching, fwd
  <2>4. PageOf[fwd] = fwd
    BY <2>1, InfoJsAssumption DEF AllPages
  <2>5. Settled(s) => Container(s, x.page)
    BY <2>1, <2>2, <2>4 DEF Settled, Known, Container
  <2>. HIDE DEF x
  <2>. QED  BY <2>2, <2>3, <2>5, OtherSearch
<1>. QED  BY <1>2, <1>3, <1>4

LEMMA SearchResult ==
  ASSUME NEW s, Sound(s), NEW found \in BOOLEAN
  PROVE  /\ Sound(search_result(s, found))
         /\ Settled(s) => Settled(search_result(s, found))
<1>1. CASE found = TRUE
  BY <1>1, SearchFound
<1>2. CASE found = FALSE
  BY <1>2, SearchNotFound
<1>. QED  BY <1>1, <1>2

-----------------------------------------------------------------------------
(* Changes of what is on its way, and of highlights.                       *)

LEMMA StillSettled ==
  ASSUME NEW s, NEW t, Sound(t), t.state = s.state, t.history = s.history, t.pages = s.pages
  PROVE  Settled(s) => Settled(t)
BY DEF Settled, Known, Container, InStep

LEMMA OtherInbox ==
  ASSUME NEW s, Sound(s), NEW q \in Seq(Answer)
  PROVE  LET t == [s EXCEPT !.inbox = q]
         IN Sound(t) /\ (Settled(s) => Settled(t))
<1>. DEFINE t == [s EXCEPT !.inbox = q]
<1>1. /\ t \in Worlds /\ t.state = s.state /\ t.history = s.history /\ t.pages = s.pages
      /\ t.frame = s.frame
  BY DEF Sound, Worlds
<1>2. Sound(t)
  BY <1>1 DEF Sound
<1>. HIDE DEF t
<1>3. Settled(s) => Settled(t)
  BY <1>1, <1>2, StillSettled
<1>. QED  BY <1>2, <1>3 DEF t

LEMMA OtherTimers ==
  ASSUME NEW s, Sound(s), NEW q \in Seq(Timer)
  PROVE  LET t == [s EXCEPT !.timers = q]
         IN Sound(t) /\ (Settled(s) => Settled(t))
<1>. DEFINE t == [s EXCEPT !.timers = q]
<1>1. /\ t \in Worlds /\ t.state = s.state /\ t.history = s.history /\ t.pages = s.pages
      /\ t.frame = s.frame
  BY DEF Sound, Worlds
<1>2. Sound(t)
  BY <1>1 DEF Sound
<1>. HIDE DEF t
<1>3. Settled(s) => Settled(t)
  BY <1>1, <1>2, StillSettled
<1>. QED  BY <1>2, <1>3 DEF t

LEMMA SettledFrames ==
  ASSUME NEW s, Sound(s), NEW t, Sound(t), SameButFrames(s, t)
  PROVE  Settled(s) => Settled(t)
BY FramesKept, StillSettled DEF Keeps

LEMMA ScannedSound ==
  ASSUME NEW s, Sound(s), NEW p \in AllPages, NEW r \in Expressions
  PROVE  /\ Sound(Scanned(s, p, r))
         /\ Settled(s) => Settled(Scanned(s, p, r))
<1>. DEFINE mark == s.frame[p].mark
            nth == IF mark # None /\ mark.regexp = r THEN mark.nth + 1 ELSE 1
            new == IF nth <= Matches[p][r] THEN [regexp |-> r, nth |-> nth] ELSE None
            f == [s.frame EXCEPT ![p].mark = new]
<1>1. s.frame \in [AllPages -> Frame] /\ Delivering(s.frame)
  BY DEF Sound, Worlds
<1>2. mark \in Mark
  BY <1>1 DEF Frame
<1>. HIDE DEF mark
<1>3. nth \in Nat
  BY <1>2 DEF Mark
<1>. HIDE DEF nth
<1>4. new \in Mark
  BY <1>3 DEF Mark
<1>5. Scanned(s, p, r) = [s EXCEPT !.frame = f]
  BY DEF Scanned, mark, nth
<1>. HIDE DEF new
<1>6. f \in [AllPages -> Frame]
  BY <1>1, <1>4, FrameField
<1>7. Delivering(f) /\ StillReady(s.frame, f)
  <2>1. \A q \in Pages : f[q].phase = s.frame[q].phase /\ f[q].mail = s.frame[q].mail
    BY <1>1 DEF Frame
  <2>. QED  BY <1>1, <2>1 DEF Delivering, StillReady
<1>. HIDE DEF f
<1>. QED  BY <1>5, <1>6, <1>7, OtherFrames, SettledFrames

-----------------------------------------------------------------------------
(* The steps.                                                              *)

StepHolds == Sound(World') /\ (NavInToc /\ Settled(World) => Settled(World'))

LEMMA BecomesWorld ==
  ASSUME NEW s, Sound(s), Becomes(s)
  PROVE  World' = s
BY DEF Sound, Worlds, Becomes, World

LEMMA WorldFields ==
  /\ World.state = state /\ World.pages = pages /\ World.history = history
  /\ World.frame = frame /\ World.inbox = inbox /\ World.timers = timers
BY DEF World

(* A message that has arrived at a page is taken from its mail. *)
LEMMA MailTaken ==
  ASSUME NEW s, Sound(s), NEW p \in AllPages, s.frame[p].mail # << >>
  PROVE  LET t == [s EXCEPT !.frame[p].mail = Tail(@)]
         IN /\ Sound(t) /\ (Settled(s) => Settled(t))
            /\ Head(s.frame[p].mail) \in Message
<1>. DEFINE q == s.frame[p].mail
            f == [s.frame EXCEPT ![p].mail = Tail(@)]
<1>1. s.frame \in [AllPages -> Frame] /\ Delivering(s.frame)
  BY DEF Sound, Worlds
<1>2. q \in Seq(Message)
  BY <1>1 DEF Frame
<1>. HIDE DEF q
<1>3. Tail(q) \in Seq(Message) /\ Head(q) \in Message
  BY <1>2 DEF q
<1>4. f \in [AllPages -> Frame]
  <2>1. [s.frame EXCEPT ![p].mail = Tail(q)] \in [AllPages -> Frame]
    BY <1>1, <1>3, FrameField
  <2>. QED  BY <2>1 DEF q
<1>5. Delivering(f) /\ StillReady(s.frame, f)
  <2>1. \A i \in Pages : f[i].phase = s.frame[i].phase /\ (i # p => f[i].mail = s.frame[i].mail)
    BY <1>1 DEF Frame
  <2>. QED  BY <1>1, <2>1 DEF Delivering, StillReady
<1>6. [s EXCEPT !.frame[p].mail = Tail(@)] = [s EXCEPT !.frame = f]
  OBVIOUS
<1>. HIDE DEF f
<1>7. Sound([s EXCEPT !.frame = f]) /\ (Settled(s) => Settled([s EXCEPT !.frame = f]))
  BY <1>4, <1>5, OtherFrames, SettledFrames
<1>. QED  BY <1>3, <1>6, <1>7 DEF q

LEMMA ContentLoadedStep ==
  ASSUME NEW p \in Pages, Sound(World), FrameContentLoaded(p)
  PROVE  StepHolds
<1>. DEFINE f == [frame EXCEPT ![p].phase = "dom"]
            t == [World EXCEPT !.frame = f]
            q == Append(inbox, CacheLinks(p))
<1>1. /\ frame \in [AllPages -> Frame] /\ inbox \in Seq(Answer) /\ Delivering(frame)
      /\ p \in AllPages
  BY WorldFields DEF Sound, Worlds, AllPages
<1>2. f \in [AllPages -> Frame]
  BY <1>1, FrameField
<1>3. Delivering(f) /\ StillReady(frame, f)
  <2>1. \A i \in Pages : f[i].mail = frame[i].mail /\ (i # p => f[i].phase = frame[i].phase)
    BY <1>1 DEF Frame
  <2>2. frame[p].phase = "loading"
    BY DEF FrameContentLoaded
  <2>. QED  BY <1>1, <2>1, <2>2 DEF Delivering, StillReady
<1>4. CacheLinks(p) \in Answer
  BY DEF Answer
<1>5. q \in Seq(Answer)
  BY <1>1, <1>4, AppendType
<1>6. World' = [t EXCEPT !.inbox = q]
  <2>1. /\ frame' = f /\ inbox' = q /\ state' = state /\ pages' = pages
        /\ history' = history /\ timers' = timers
    BY DEF FrameContentLoaded
  <2>. HIDE DEF f, q
  <2>2. [t EXCEPT !.inbox = q] = [state |-> state, pages |-> pages, history |-> history,
                                  frame |-> f, inbox |-> q, timers |-> timers]
    <3>1. t = [state |-> state, pages |-> pages, history |-> history,
               frame |-> f, inbox |-> inbox, timers |-> timers]
      BY DEF World
    <3>. HIDE DEF t
    <3>. QED  BY <3>1
  <2>3. World' = [state |-> state, pages |-> pages, history |-> history,
                  frame |-> f, inbox |-> q, timers |-> timers]
    <3>. HIDE DEF t
    <3>. QED  BY <2>1 DEF World
  <2>. QED  BY <2>2, <2>3, Zenon
<1>. HIDE DEF f, q
<1>7. Sound(t) /\ (Settled(World) => Settled(t))
  BY <1>2, <1>3, WorldFields, OtherFrames, SettledFrames
<1>. HIDE DEF t
<1>8. Sound([t EXCEPT !.inbox = q]) /\ (Settled(t) => Settled([t EXCEPT !.inbox = q]))
  BY <1>5, <1>7, OtherInbox
<1>. QED  BY <1>6, <1>7, <1>8 DEF StepHolds

LEMMA LoadedStep ==
  ASSUME NEW p \in Pages, Sound(World), FrameLoaded(p)
  PROVE  StepHolds
<1>. DEFINE f == [frame EXCEPT ![p].phase = "ready"]
            t == [World EXCEPT !.frame = f]
            s == Rendered(t)
            g == [s.frame EXCEPT ![p].mail = @ \o s.frame[p].waiting]
            h == [g EXCEPT ![p].waiting = << >>]
            u == [s EXCEPT !.frame = h]
<1>1. /\ frame \in [AllPages -> Frame] /\ Delivering(frame) /\ p \in AllPages
  BY WorldFields DEF Sound, Worlds, AllPages
<1>2. f \in [AllPages -> Frame] /\ f[p].phase = "ready"
  <2>1. f \in [AllPages -> Frame]
    BY <1>1, FrameField
  <2>2. f[p].phase = "ready"
    BY <1>1 DEF Frame
  <2>. QED  BY <2>1, <2>2
<1>3. Delivering(f) /\ StillReady(frame, f)
  <2>1. \A i \in Pages : i # p => f[i].phase = frame[i].phase /\ f[i].mail = frame[i].mail
    BY <1>1 DEF Frame
  <2>. QED  BY <1>1, <1>2, <2>1 DEF Delivering, StillReady
<1>4. Becomes(u)
  <2>1. [s EXCEPT !.frame[p].mail = @ \o s.frame[p].waiting, !.frame[p].waiting = << >>] = u
    OBVIOUS
  <2>2. t = [World EXCEPT !.frame[p].phase = "ready"]
    BY WorldFields
  <2>. HIDE DEF t, u
  <2>3. Becomes([s EXCEPT !.frame[p].mail = @ \o s.frame[p].waiting, !.frame[p].waiting = << >>])
    BY <2>2 DEF FrameLoaded
  <2>. QED  BY <2>1, <2>3
<1>. HIDE DEF f
<1>5. Sound(t) /\ (Settled(World) => Settled(t)) /\ t.frame = f
  BY <1>2, <1>3, WorldFields, OtherFrames, SettledFrames DEF World
<1>. HIDE DEF t
<1>6. Sound(s) /\ (Settled(t) => Settled(s)) /\ StillReady(t.frame, s.frame)
  BY <1>5, RenderedSettled, RenderedSound, SettledReady
<1>. HIDE DEF s
<1>7. /\ s.frame \in [AllPages -> Frame] /\ Delivering(s.frame) /\ s.frame[p].phase = "ready"
  BY <1>2, <1>5, <1>6 DEF Sound, Worlds, StillReady
<1>8. g \in [AllPages -> Frame] /\ h \in [AllPages -> Frame]
  <2>. DEFINE m == s.frame[p].mail \o s.frame[p].waiting
  <2>1. s.frame[p].mail \in Seq(Message) /\ s.frame[p].waiting \in Seq(Message)
    BY <1>1, <1>7 DEF Frame
  <2>2. m \in Seq(Message)
    BY <2>1, ConcatProperties
  <2>3. g = [s.frame EXCEPT ![p].mail = m]
    OBVIOUS
  <2>. HIDE DEF m, g
  <2>4. g \in [AllPages -> Frame]
    BY <1>1, <1>7, <2>2, <2>3, FrameField
  <2>5. << >> \in Seq(Message)
    OBVIOUS
  <2>. QED  BY <1>1, <2>4, <2>5, FrameField
<1>9. Delivering(h) /\ StillReady(s.frame, h)
  <2>1. \A i \in Pages : /\ g[i].phase = s.frame[i].phase
                         /\ i # p => g[i].mail = s.frame[i].mail
    <3>. DEFINE m == s.frame[p].mail \o s.frame[p].waiting
    <3>1. g = [s.frame EXCEPT ![p].mail = m]
      OBVIOUS
    <3>. HIDE DEF m, g
    <3>. QED  BY <1>1, <1>7, <3>1 DEF Frame
  <2>. HIDE DEF g
  <2>2. \A i \in Pages : h[i].phase = g[i].phase /\ h[i].mail = g[i].mail
    BY <1>1, <1>8 DEF Frame
  <2>. HIDE DEF h
  <2>. QED  BY <1>7, <2>1, <2>2 DEF Delivering, StillReady
<1>. HIDE DEF h
<1>10. Sound(u) /\ (Settled(s) => Settled(u))
  BY <1>6, <1>8, <1>9, OtherFrames, SettledFrames
<1>. HIDE DEF u
<1>11. World' = u
  BY <1>4, <1>10, BecomesWorld
<1>. QED  BY <1>5, <1>6, <1>10, <1>11 DEF StepHolds

LEMMA FrameMessageStep ==
  ASSUME NEW p \in Pages, Sound(World), FrameMessage(p)
  PROVE  StepHolds
<1>. DEFINE m == Head(frame[p].mail)
            s == [World EXCEPT !.frame[p].mail = Tail(@)]
            t == Scanned(s, p, m.regexp)
            r == Result(IsMarked(t, p))
            f == [s.frame EXCEPT ![p].mark = None]
<1>0. p \in AllPages
  BY DEF AllPages
<1>1. frame[p].mail # << >>
  BY DEF FrameMessage
<1>2. Sound(s) /\ (Settled(World) => Settled(s)) /\ m \in Message
  BY <1>0, <1>1, WorldFields, MailTaken
<1>3. CASE m.kind = "highlight"
  <2>1. Becomes([s EXCEPT !.frame[p].mark = None])
    BY <1>3 DEF FrameMessage
  <2>. HIDE DEF s
  <2>2. [s EXCEPT !.frame[p].mark = None] = [s EXCEPT !.frame = f]
    OBVIOUS
  <2>3. s.frame \in [AllPages -> Frame] /\ Delivering(s.frame)
    BY <1>2 DEF Sound, Worlds
  <2>4. f \in [AllPages -> Frame]
    BY <1>0, <2>3, FrameField DEF Mark
  <2>5. Delivering(f) /\ StillReady(s.frame, f)
    <3>1. \A i \in Pages : f[i].phase = s.frame[i].phase /\ f[i].mail = s.frame[i].mail
      BY <2>3 DEF Frame
    <3>. QED  BY <2>3, <3>1 DEF Delivering, StillReady
  <2>. HIDE DEF f
  <2>6. Sound([s EXCEPT !.frame = f]) /\ (Settled(s) => Settled([s EXCEPT !.frame = f]))
    BY <1>2, <2>4, <2>5, OtherFrames, SettledFrames
  <2>7. World' = [s EXCEPT !.frame = f]
    BY <2>1, <2>2, <2>6, BecomesWorld
  <2>. QED  BY <1>2, <2>6, <2>7 DEF StepHolds
<1>4. CASE m.kind = "search"
  <2>1. m.regexp \in Expressions
    BY <1>2, <1>4 DEF Message, Unmark, ScrollToResult, SearchFor
  <2>. HIDE DEF m
  <2>2. Becomes([t EXCEPT !.inbox = Append(@, r)])
    BY <1>4 DEF FrameMessage, m
  <2>. HIDE DEF s
  <2>3. Sound(t) /\ (Settled(s) => Settled(t))
    BY <1>0, <1>2, <2>1, ScannedSound
  <2>4. IsMarked(t, p) \in BOOLEAN
    BY DEF IsMarked
  <2>. HIDE DEF t
  <2>5. r \in Answer
    BY <2>4 DEF Answer
  <2>. HIDE DEF r
  <2>6. Append(t.inbox, r) \in Seq(Answer)
    BY <2>3, <2>5, AppendType DEF Sound, Worlds
  <2>7. /\ Sound([t EXCEPT !.inbox = Append(t.inbox, r)])
        /\ Settled(t) => Settled([t EXCEPT !.inbox = Append(t.inbox, r)])
    BY <2>3, <2>6, OtherInbox
  <2>8. World' = [t EXCEPT !.inbox = Append(t.inbox, r)]
    BY <2>2, <2>7, BecomesWorld
  <2>. QED  BY <1>2, <2>3, <2>7, <2>8 DEF StepHolds
<1>5. CASE m.kind # "highlight" /\ m.kind # "search"
  <2>1. Becomes(s)
    BY <1>5 DEF FrameMessage
  <2>. HIDE DEF s
  <2>. QED  BY <1>2, <2>1, BecomesWorld DEF StepHolds
<1>. QED  BY <1>3, <1>4, <1>5

LEMMA TopMessageStep ==
  ASSUME Sound(World), TopMessage
  PROVE  StepHolds
<1>. DEFINE m == Head(inbox)
            s == [World EXCEPT !.inbox = Tail(@)]
<1>1. inbox \in Seq(Answer) /\ inbox # << >>
  BY WorldFields DEF Sound, Worlds, TopMessage
<1>2. Tail(inbox) \in Seq(Answer) /\ m \in Answer
  BY <1>1
<1>3. s = [World EXCEPT !.inbox = Tail(inbox)]
  BY WorldFields
<1>4. Becomes(IF m.kind = "cache-links" THEN cache_links(s, m.page) ELSE search_result(s, m.found))
  BY DEF TopMessage
<1>. HIDE DEF s, m
<1>5. Sound(s) /\ (Settled(World) => Settled(s))
  BY <1>2, <1>3, OtherInbox
<1>6. CASE \E p \in Pages : m = CacheLinks(p)
  <2>1. PICK p \in Pages : m = CacheLinks(p)
    BY <1>6
  <2>2. m.kind = "cache-links" /\ m.page = p
    BY <2>1 DEF CacheLinks
  <2>3. Becomes(cache_links(s, p))
    BY <1>4, <2>2
  <2>4. Sound(cache_links(s, p)) /\ (Settled(s) => Settled(cache_links(s, p)))
    BY <1>5, CachedLinks
  <2>. QED  BY <1>5, <2>3, <2>4, BecomesWorld DEF StepHolds
<1>7. CASE \E b \in BOOLEAN : m = Result(b)
  <2>1. PICK b \in BOOLEAN : m = Result(b)
    BY <1>7
  <2>2. m.kind # "cache-links" /\ m.found = b
    BY <2>1 DEF Result
  <2>3. Becomes(search_result(s, b))
    BY <1>4, <2>2
  <2>4. Sound(search_result(s, b)) /\ (Settled(s) => Settled(search_result(s, b)))
    BY <1>5, SearchResult
  <2>. QED  BY <1>5, <2>3, <2>4, BecomesWorld DEF StepHolds
<1>. QED  BY <1>2, <1>6, <1>7 DEF Answer

LEMMA SearchTimerStep ==
  ASSUME Sound(World), SearchTimer
  PROVE  StepHolds
<1>. DEFINE t == Head(timers)
            w == [World EXCEPT !.timers = Tail(@)]
            s == search_query(w)
            top == Scanned(s, TOP_ID, t.regexp)
            found == IsMarked(top, TOP_ID)
            r == search_result(top, found)
            m == SearchFor(t.regexp)
            q == post_message(s, t.page, m)
<1>1. timers \in Seq(Timer) /\ timers # << >>
  BY WorldFields DEF Sound, Worlds, SearchTimer
<1>2. Tail(timers) \in Seq(Timer) /\ t \in Timer
  BY <1>1
<1>3. t.page \in AllPages /\ t.regexp \in Expressions
  BY <1>2 DEF Timer
<1>4. w = [World EXCEPT !.timers = Tail(timers)]
  BY WorldFields
<1>5. Becomes(IF t.page = TOP_ID THEN r ELSE q)
  BY DEF SearchTimer
<1>. HIDE DEF t, w
<1>6. Sound(w) /\ (Settled(World) => Settled(w))
  BY <1>2, <1>4, OtherTimers
<1>7. Sound(s) /\ (Settled(w) => Settled(s))
  BY <1>6, SearchQuery
<1>. HIDE DEF s
<1>8. CASE t.page = TOP_ID
  <2>1. Sound(top) /\ (Settled(s) => Settled(top))
    BY <1>3, <1>7, ScannedSound DEF AllPages
  <2>2. found \in BOOLEAN
    BY DEF IsMarked
  <2>. HIDE DEF top, found
  <2>3. Sound(r) /\ (Settled(top) => Settled(r))
    BY <2>1, <2>2, SearchResult
  <2>. HIDE DEF r
  <2>4. World' = r
    BY <1>5, <1>8, <2>3, BecomesWorld
  <2>. QED  BY <1>6, <1>7, <2>1, <2>3, <2>4 DEF StepHolds
<1>9. CASE t.page # TOP_ID
  <2>1. m \in Message
    BY <1>3 DEF Message
  <2>. HIDE DEF m
  <2>2. Sound(q) /\ SameButFrames(s, q)
    BY <1>3, <1>7, <2>1, PostSound
  <2>. HIDE DEF q
  <2>3. Settled(s) => Settled(q)
    BY <1>7, <2>2, SettledFrames
  <2>4. World' = q
    BY <1>5, <1>9, <2>2, BecomesWorld
  <2>. QED  BY <1>6, <1>7, <2>2, <2>3, <2>4 DEF StepHolds
<1>. QED  BY <1>8, <1>9

LEMMA OtherActionStep ==
  ASSUME Sound(World), OtherAction
  PROVE  StepHolds
<1>1. Sound(Rendered(World)) /\ (Settled(World) => Settled(Rendered(World)))
  BY RenderedSettled, SettledReady
<1>2. World' = Rendered(World)
  BY <1>1, BecomesWorld DEF OtherAction
<1>. QED  BY <1>1, <1>2 DEF StepHolds

LEMMA ClickStep ==
  ASSUME NEW l \in Linkids, Sound(World), Click(l)
  PROVE  StepHolds
<1>. DEFINE r == current_url(World, l, "pushState")
<1>1. Sound(r) /\ (Settled(World) => Settled(r))
  <2>1. Settled(World) =>
          Known(World) /\ (World.pages.prev_id = l => World.history.entries[World.history.at] = l)
    BY DEF Settled, InStep
  <2>2. "pushState" \in Modes
    BY DEF Modes
  <2>. QED  BY <2>1, <2>2, CurrentUrl
<1>2. Becomes(r)
  BY DEF Click
<1>. HIDE DEF r
<1>. QED  BY <1>1, <1>2, BecomesWorld DEF StepHolds

LEMMA NavigateStep ==
  ASSUME NEW l \in Linkids, Sound(World), Navigate(l)
  PROVE  StepHolds
<1>. DEFINE current == IF PageOf[state.current] = TOP_ID THEN TOP_ID ELSE state.current
            r == navigated(World, l)
<1>1. /\ \/ current \in state.linked /\ l \in Nav[current]
         \/ l \in Neighbours(current)
      /\ Becomes(r)
  BY DEF Navigate
<1>. HIDE DEF current
<1>2. state.linked \in SUBSET AllPages
  BY WorldFields DEF Sound, Worlds, State
<1>3. ASSUME NavInToc, Settled(World)
      PROVE  Container(World, PageOf[l])
  <2>1. \A k \in DOMAIN Toc : Toc[k] \in state.loaded_nodes
    BY <1>3, WorldFields DEF Settled, Known
  <2>2. CASE current \in state.linked /\ l \in Nav[current]
    <3>1. PageOf[l] = TOP_ID \/ \E k \in DOMAIN Toc : PageOf[Toc[k]] = PageOf[l]
      BY <1>2, <1>3, <2>2 DEF NavInToc
    <3>. QED  BY <2>1, <3>1, WorldFields DEF Container
  <2>3. CASE l \in Neighbours(current)
    <3>1. PICK k \in DOMAIN Toc : l = Toc[k]
      BY <2>3 DEF Neighbours
    <3>. QED  BY <2>1, <3>1, WorldFields DEF Container
  <2>. QED  BY <1>1, <2>2, <2>3
<1>4. Sound(r) /\ (NavInToc /\ Settled(World) => Settled(r))
  BY <1>3, Navigated
<1>. HIDE DEF r
<1>. QED  BY <1>1, <1>4, BecomesWorld DEF StepHolds

LEMMA TraverseStep ==
  ASSUME NEW step \in {-1, 1}, Sound(World), Traverse(step)
  PROVE  StepHolds
<1>. DEFINE at == history.at + step
            h == [history EXCEPT !.at = at]
            s == [World EXCEPT !.history.at = at]
            l == history.entries[at]
            r == current_url(s, l, "none")
<1>1. /\ history.entries \in Seq(Linkids) /\ history \in [entries : Seq(Linkids), at : Nat]
      /\ World \in Worlds /\ Delivering(frame)
  BY WorldFields DEF Sound, Worlds
<1>2. at \in 1 .. Len(history.entries) /\ Becomes(r)
  BY <1>1 DEF Traverse
<1>3. l \in Linkids
  BY <1>1, <1>2
<1>. HIDE DEF at
<1>4. /\ h \in [entries : Seq(Linkids), at : Nat]
      /\ h.at = at /\ h.entries = history.entries
  BY <1>1, <1>2
<1>5. s = [World EXCEPT !.history = h]
  BY WorldFields
<1>. HIDE DEF h, s, l
<1>6. /\ s \in Worlds /\ s.history = h /\ s.state = World.state /\ s.frame = frame
  BY <1>1, <1>4, <1>5 DEF Worlds, World
<1>7. Sound(s) /\ s.history.entries[s.history.at] = l
  BY <1>1, <1>2, <1>4, <1>6 DEF Sound, l
<1>8. Known(World) => Known(s)
  BY <1>6 DEF Known, Container
<1>9. Sound(r) /\ (Settled(World) => Settled(r))
  <2>1. "none" \in Modes
    BY DEF Modes
  <2>. QED  BY <1>3, <1>7, <1>8, <2>1, CurrentUrl DEF Settled
<1>. HIDE DEF r
<1>. QED  BY <1>2, <1>9, BecomesWorld DEF StepHolds

LEMMA SearchStep ==
  ASSUME NEW e \in Regexps, Sound(World), Search(e)
  PROVE  StepHolds
<1>. DEFINE r == search_init(World, e)
<1>1. Sound(r) /\ (Settled(World) => Settled(r))
  BY SearchInit
<1>2. Becomes(r)
  BY DEF Search
<1>. HIDE DEF r
<1>. QED  BY <1>1, <1>2, BecomesWorld DEF StepHolds

-----------------------------------------------------------------------------
(* The theorems.                                                           *)

(* A manual is opened at a sound state, and at the page of the state. *)
LEMMA OpenedSound ==
  ASSUME Init
  PROVE  Sound(World) /\ Settled(World)
<1>1. PICK linkid \in Starts :
        /\ state = [current |-> linkid, history |-> "replaceState", highlight |-> None,
                    loaded_nodes |-> {TOP_ID, linkid} \union {Toc[k] : k \in DOMAIN Toc},
                    linked |-> {TOP_ID},
                    search |-> [regexp |-> None, status |-> "done", found |-> FALSE,
                                page |-> TOP_ID]]
        /\ pages = [prev_id |-> linkid, search_seen |-> TRUE]
        /\ history = [entries |-> <<linkid>>, at |-> 1]
        /\ frame = [p \in AllPages |->
                      [phase |-> IF p = TOP_ID THEN "ready"
                                 ELSE IF p = PageOf[linkid] THEN "loading" ELSE "none",
                       waiting |-> IF p # TOP_ID /\ p = PageOf[linkid] THEN <<Unmark>> ELSE << >>,
                       mail |-> << >>,
                       mark |-> None]]
        /\ inbox = << >> /\ timers = << >>
  BY DEF Init
<1>2. linkid \in Linkids /\ TOP_ID \in Linkids /\ TOP_ID \in AllPages
  BY InfoJsAssumption DEF Linkids, AllPages
<1>3. state \in State
  <2>1. \A k \in DOMAIN Toc : Toc[k] \in Linkids
    BY InfoJsAssumption
  <2>2. {TOP_ID, linkid} \union {Toc[k] : k \in DOMAIN Toc} \in SUBSET Linkids
    BY <1>2, <2>1
  <2>3. state.search \in SearchState
    BY <1>1, <1>2 DEF SearchState, Expressions
  <2>. QED  BY <1>1, <1>2, <2>2, <2>3 DEF State, Modes, Expressions
<1>4. pages \in Remembered
  BY <1>1, <1>2 DEF Remembered
<1>5. /\ history \in [entries : Seq(Linkids), at : Nat]
      /\ history.at \in 1 .. Len(history.entries)
      /\ history.entries[history.at] = linkid
  BY <1>1, <1>2
<1>6. frame \in [AllPages -> Frame]
  <2>1. <<Unmark>> \in Seq(Message) /\ << >> \in Seq(Message)
    BY MessageTypes
  <2>2. None \in Mark
    BY DEF Mark
  <2>. QED  BY <1>1, <2>1, <2>2 DEF Frame
<1>7. Delivering(frame)
  BY <1>1 DEF Delivering, AllPages
<1>8. inbox \in Seq(Answer) /\ timers \in Seq(Timer)
  BY <1>1
<1>9. World \in Worlds
  BY <1>3, <1>4, <1>5, <1>6, <1>8 DEF Worlds, World
<1>10. Sound(World)
  BY <1>5, <1>7, <1>9, WorldFields DEF Sound
<1>11. Known(World)
  <2>1. /\ World.state.current = linkid /\ World.state.search.page = TOP_ID
        /\ World.state.loaded_nodes = {TOP_ID, linkid} \union {Toc[k] : k \in DOMAIN Toc}
    BY <1>1, WorldFields
  <2>. QED  BY <2>1 DEF Known, Container
<1>12. InStep(World)
  BY <1>1, <1>5, WorldFields DEF InStep
<1>. QED  BY <1>10, <1>11, <1>12 DEF Settled

(* One step of the program. *)
LEMMA NextStep ==
  ASSUME Sound(World), [Next]_vars
  PROVE  StepHolds
<1>1. ASSUME NEW p \in Pages, FrameContentLoaded(p)
      PROVE  StepHolds
  BY <1>1, ContentLoadedStep
<1>2. ASSUME NEW p \in Pages, FrameLoaded(p)
      PROVE  StepHolds
  BY <1>2, LoadedStep
<1>3. ASSUME NEW p \in Pages, FrameMessage(p)
      PROVE  StepHolds
  BY <1>3, FrameMessageStep
<1>4. CASE TopMessage
  BY <1>4, TopMessageStep
<1>5. CASE SearchTimer
  BY <1>5, SearchTimerStep
<1>6. CASE OtherAction
  BY <1>6, OtherActionStep
<1>7. ASSUME NEW l \in Linkids, Click(l)
      PROVE  StepHolds
  BY <1>7, ClickStep
<1>8. ASSUME NEW l \in Linkids, Navigate(l)
      PROVE  StepHolds
  BY <1>8, NavigateStep
<1>9. ASSUME NEW step \in {-1, 1}, Traverse(step)
      PROVE  StepHolds
  BY <1>9, TraverseStep
<1>10. ASSUME NEW r \in Regexps, Search(r)
       PROVE  StepHolds
  BY <1>10, SearchStep
<1>11. CASE UNCHANGED vars
  BY <1>11 DEF vars, World, StepHolds
<1>. QED  BY <1>1, <1>2, <1>3, <1>4, <1>5, <1>6, <1>7, <1>8, <1>9, <1>10, <1>11 DEF Next


LEMMA SoundTypes ==
  ASSUME Sound(World)
  PROVE  TypeOK
<1>1. /\ state \in State /\ pages \in Remembered /\ frame \in [AllPages -> Frame]
      /\ history \in [entries : Seq(Linkids), at : Nat]
      /\ history.at \in 1 .. Len(history.entries) /\ Delivering(frame)
  BY WorldFields DEF Sound, Worlds
<1>2. state.search \in SearchState
  BY <1>1 DEF State
<1>3. history.at \in DOMAIN history.entries
  BY <1>1
<1>. QED  BY <1>1, <1>2, <1>3 DEF TypeOK, State, SearchState, Remembered, Delivering

LEMMA Invariant ==
  Spec => [](Sound(World) /\ (NavInToc => Settled(World)))
<1>. DEFINE I == Sound(World) /\ (NavInToc => Settled(World))
<1>1. Init => I
  BY OpenedSound
<1>2. I /\ [Next]_vars => I'
  <2>1. NavInToc' = NavInToc
    BY DEF NavInToc
  <2>. HIDE DEF NavInToc
  <2>. SUFFICES ASSUME I, [Next]_vars
                PROVE  Sound(World') /\ (NavInToc => Settled(World'))
    BY <2>1
  <2>. QED  BY NextStep DEF StepHolds
<1>. HIDE DEF I
<1>3. Spec => []I
  BY <1>1, <1>2, PTL DEF Spec
<1>. QED  BY <1>3 DEF I

(* In every manual, whatever its pages and its links, the state of the     *)
(* store, what is remembered of the last rendering and the history of the  *)
(* browser have their types, and no message is on its way to an iframe     *)
(* that has not loaded (info.js:1300).                                     *)
THEOREM TypeCorrect == Spec => []TypeOK
<1>1. Sound(World) /\ (NavInToc => Settled(World)) => TypeOK
  BY SoundTypes
<1>. QED  BY <1>1, Invariant, PTL

(* When the next, prev and up links of the pages lead to pages in the      *)
(* table of contents, resolve_page finds a container for the page that is  *)
(* shown, whatever the user does and whatever answers overlap              *)
(* (info.js:1044).                                                         *)
THEOREM PageHasContainerCorrect ==
  ASSUME NavInToc
  PROVE  Spec => []PageHasContainer
<1>1. Sound(World) /\ (NavInToc => Settled(World)) => PageHasContainer
  BY WorldFields DEF Settled, Known, PageHasContainer
<1>. QED  BY <1>1, Invariant, PTL

(* Under the same condition the entry of the browser's history is the page *)
(* that is shown, however it was reached (info.js:1096).                   *)
THEOREM HistoryInStepCorrect ==
  ASSUME NavInToc
  PROVE  Spec => []HistoryInStep
<1>1. Sound(World) /\ (NavInToc => Settled(World)) => HistoryInStep
  BY WorldFields DEF Settled, InStep, HistoryInStep
<1>. QED  BY <1>1, Invariant, PTL

-----------------------------------------------------------------------------
(***************************************************************************)
(* A search over the pages of a manual: it passes over no match and leaves *)
(* no highlight behind.                                                    *)
(***************************************************************************)

(* In the table of contents the link of a page comes before those of its   *)
(* anchors.                                                                *)
PageLinksFirst ==
  \A j, k \in DOMAIN Toc : j < k /\ Toc[k] \in Pages => PageOf[Toc[j]] # Toc[k]

-----------------------------------------------------------------------------
(***************************************************************************)
(* The invariant, for searches of which each has waited for the one before.*)
(***************************************************************************)
(* What is in a queue. *)
NoneOf(q, kind) == \A k \in DOMAIN q : q[k].kind # kind
OneOf(q, m) ==
  \E k \in DOMAIN q : q[k] = m /\ \A j \in DOMAIN q : q[j].kind = m.kind => j = k
UnmarkFirst(q) ==
  \E k \in DOMAIN q : q[k] = Unmark /\ \A j \in DOMAIN q : j < k => q[j].kind # "search"
UnmarkIn(q) == \E k \in DOMAIN q : q[k] = Unmark

NoSearch(g) == NoneOf(g.mail, "search") /\ NoneOf(g.waiting, "search")
OneSearch(g, m) ==
  \/ OneOf(g.mail, m) /\ NoneOf(g.waiting, "search")
  \/ NoneOf(g.mail, "search") /\ OneOf(g.waiting, m)

(* Where the one search that is under way may be: nowhere, in a timer, on  *)
(* its way to the page that is searched or in the answer of that page.     *)
NoAnswer(s) == NoneOf(s.inbox, "search-result")

AtRest(s) == /\ s.timers = << >> /\ NoAnswer(s)
             /\ \A p \in Pages : NoSearch(s.frame[p])

AtTimer(s) == /\ s.timers = <<[page |-> s.state.search.page, regexp |-> s.state.search.regexp]>>
              /\ NoAnswer(s)
              /\ \A p \in Pages : NoSearch(s.frame[p])

AtPage(s) == LET page == s.state.search.page
             IN /\ s.timers = << >> /\ NoAnswer(s)
                /\ page \in Pages
                /\ OneSearch(s.frame[page], SearchFor(s.state.search.regexp))
                /\ \A p \in Pages \ {page} : NoSearch(s.frame[p])

Searched(s, page, asked) ==
  page = asked \/ Matches[page][s.state.search.regexp] = 0

AtAnswer(s, asked) ==
  LET page == s.state.search.page
  IN /\ s.timers = << >> /\ \A p \in Pages : NoSearch(s.frame[p])
     /\ page \in Pages
     /\ \/ OneOf(s.inbox, Result(TRUE))
        \/ /\ OneOf(s.inbox, Result(FALSE))
           /\ s.frame[page].mark = None /\ Searched(s, page, asked)

OneAtATime(s, asked) ==
  \/ AtRest(s)
  \/ s.state.search.status # "done" /\ (AtTimer(s) \/ AtPage(s) \/ AtAnswer(s, asked))

(* A search has come to its page past pages without a match only, when the *)
(* table of contents is in order.                                          *)
NoMatchBefore(s, asked, j) ==
  PageLinksFirst =>
    \A k \in After(asked) : k < j /\ Toc[k] \in Pages => Matches[Toc[k]][s.state.search.regexp] = 0

Passed(s, asked) ==
  LET search == s.state.search
  IN /\ search.status # "done" =>
          /\ search.regexp \in Regexps
          /\ asked \in AllPages
          /\ ~search.found
          /\ \/ search.page = asked
             \/ \E j \in After(asked) : Toc[j] = search.page /\ search.page \in Pages
                                        /\ NoMatchBefore(s, asked, j)
     /\ search.status = "done" /\ asked # None =>
          \/ search.found /\ search.page = asked
          \/ search.found /\ \E j \in DOMAIN Toc : Toc[j] = search.page /\ NoMatchBefore(s, asked, j)
          \/ ~search.found /\ NoMatchBefore(s, asked, Len(Toc) + 1)

(* A page with a highlight is the one that has been found, the one that is *)
(* shown, or one whose highlight will be taken away before it is searched. *)
JustFound(s, p) == p = s.state.search.page /\ OneOf(s.inbox, Result(TRUE))
Shown(s, p) == p = PageOf[s.state.current]

MarkEnds(s, p, asked) ==
  /\ \/ UnmarkFirst(s.frame[p].mail)
     \/ JustFound(s, p)
     \/ IF s.state.search.status = "done" THEN Shown(s, p)
        ELSE p = asked /\ p = s.state.search.page
  /\ Shown(s, p) \/ JustFound(s, p) \/ UnmarkIn(s.frame[p].mail)

MarksEnd(s, asked) == \A p \in Pages : s.frame[p].mark # None => MarkEnds(s, p, asked)

(* A page that has not loaded has no highlight and gets no mail, one that  *)
(* has loaded waits for nothing; a search is seen when it has been started.*)
Loading(f) == \A p \in Pages : IF f[p].phase = "ready" THEN f[p].waiting = << >>
                               ELSE f[p].mark = None /\ f[p].mail = << >>
Seen(s) == s.state.search.status = "ready" => s.pages.search_seen

Follows(s, asked) == OneAtATime(s, asked) /\ Passed(s, asked) /\ MarksEnd(s, asked)

-----------------------------------------------------------------------------
(* Queues of messages.                                                     *)

(* What is put behind the messages of q is no search. *)
Grows(q, r) ==
  /\ Len(q) <= Len(r)
  /\ \A i \in 1 .. Len(q) : r[i] = q[i]
  /\ \A i \in Len(q) + 1 .. Len(r) : r[i].kind # "search"

LEMMA MessageKinds ==
  ASSUME NEW m \in Message
  PROVE  /\ m.kind = "highlight" => m = Unmark
         /\ \/ m = Unmark \/ m = ScrollToResult
            \/ m.kind = "search" /\ \E r \in Expressions : m = SearchFor(r)
BY DEF Message, Unmark, ScrollToResult, SearchFor

LEMMA KindsDiffer ==
  /\ Unmark.kind = "highlight" /\ ScrollToResult.kind # "search"
  /\ ScrollToResult # Unmark
  /\ \A r : SearchFor(r).kind = "search" /\ SearchFor(r) # Unmark
  /\ \A b : Result(b).kind = "search-result"
  /\ \A p : CacheLinks(p).kind # "search-result"
BY DEF Unmark, ScrollToResult, SearchFor, Result, CacheLinks

LEMMA QueuedGrows ==
  ASSUME NEW q \in Seq(Message), NEW m \in Message, m.kind # "search"
  PROVE  Grows(q, Queued(q, m)) /\ (m = Unmark => UnmarkIn(Queued(q, m)))
<1>1. CASE m = Unmark /\ q # << >> /\ q[Len(q)] = Unmark
  <2>1. Queued(q, m) = q
    BY <1>1 DEF Queued
  <2>2. Len(q) \in DOMAIN q
    BY <1>1
  <2>. QED  BY <1>1, <2>1, <2>2 DEF Grows, UnmarkIn
<1>2. CASE ~(m = Unmark /\ q # << >> /\ q[Len(q)] = Unmark)
  <2>. DEFINE r == Append(q, m)
  <2>1. Queued(q, m) = r
    BY <1>2 DEF Queued
  <2>2. /\ Len(r) = Len(q) + 1 /\ r[Len(q) + 1] = m /\ Len(q) \in Nat
        /\ \A i \in 1 .. Len(q) : r[i] = q[i]
        /\ DOMAIN r = 1 .. Len(q) + 1
    OBVIOUS
  <2>. HIDE DEF r
  <2>3. Grows(q, r)
    BY <2>2 DEF Grows
  <2>4. m = Unmark => UnmarkIn(r)
    BY <2>2 DEF UnmarkIn
  <2>. QED  BY <2>1, <2>3, <2>4
<1>. QED  BY <1>1, <1>2

LEMMA GrowsTwice ==
  ASSUME NEW q \in Seq(Message), NEW r \in Seq(Message), NEW t \in Seq(Message),
         Grows(q, r), Grows(r, t)
  PROVE  Grows(q, t)
<1>1. Len(q) \in Nat /\ Len(r) \in Nat /\ Len(t) \in Nat
  OBVIOUS
<1>2. Len(q) <= Len(r) /\ Len(r) <= Len(t)
  BY DEF Grows
<1>3. ASSUME NEW i \in 1 .. Len(q)
      PROVE  t[i] = q[i]
  <2>1. i \in 1 .. Len(r)
    BY <1>1, <1>2
  <2>2. r[i] = q[i]
    BY DEF Grows
  <2>3. t[i] = r[i]
    BY <2>1 DEF Grows
  <2>. QED  BY ONLY <2>2, <2>3
<1>4. ASSUME NEW i \in Len(q) + 1 .. Len(t)
      PROVE  t[i].kind # "search"
  <2>1. CASE i \in Len(r) + 1 .. Len(t)
    BY <2>1 DEF Grows
  <2>2. CASE i \in Len(q) + 1 .. Len(r)
    <3>1. i \in 1 .. Len(r)
      BY <1>1, <2>2
    <3>2. r[i].kind # "search"
      BY <2>2 DEF Grows
    <3>3. t[i] = r[i]
      BY <3>1 DEF Grows
    <3>. QED  BY ONLY <3>2, <3>3
  <2>. QED  BY <1>1, <1>2, <2>1, <2>2
<1>5. Len(q) <= Len(t)
  BY <1>1, <1>2
<1>. QED  BY <1>3, <1>4, <1>5 DEF Grows

LEMMA GrowsNot ==
  ASSUME NEW q \in Seq(Message)
  PROVE  Grows(q, q)
BY DEF Grows

LEMMA GrownQueue ==
  ASSUME NEW q \in Seq(Message), NEW r \in Seq(Message), Grows(q, r)
  PROVE  /\ NoneOf(q, "search") => NoneOf(r, "search")
         /\ \A m : m.kind = "search" /\ OneOf(q, m) => OneOf(r, m)
         /\ UnmarkFirst(q) => UnmarkFirst(r)
         /\ UnmarkIn(q) => UnmarkIn(r)
<1>1. /\ DOMAIN q = 1 .. Len(q) /\ DOMAIN r = 1 .. Len(r) /\ Len(q) \in Nat /\ Len(r) \in Nat
      /\ \A i \in DOMAIN q : i \in DOMAIN r /\ r[i] = q[i]
      /\ \A i \in DOMAIN r : i \in DOMAIN q \/ r[i].kind # "search"
  BY DEF Grows
<1>2. NoneOf(q, "search") => NoneOf(r, "search")
  BY <1>1 DEF NoneOf
<1>3. ASSUME NEW m, m.kind = "search", OneOf(q, m)
      PROVE  OneOf(r, m)
  <2>1. PICK k \in DOMAIN q : q[k] = m /\ \A j \in DOMAIN q : q[j].kind = m.kind => j = k
    BY <1>3 DEF OneOf
  <2>. QED  BY <1>1, <1>3, <2>1 DEF OneOf
<1>4. UnmarkFirst(q) => UnmarkFirst(r)
  <2>. SUFFICES ASSUME UnmarkFirst(q)
                PROVE  UnmarkFirst(r)
    OBVIOUS
  <2>1. PICK k \in DOMAIN q : q[k] = Unmark /\ \A j \in DOMAIN q : j < k => q[j].kind # "search"
    BY DEF UnmarkFirst
  <2>2. \A j \in DOMAIN r : j < k => j \in DOMAIN q
    BY <1>1
  <2>. QED  BY <1>1, <2>1, <2>2 DEF UnmarkFirst
<1>5. UnmarkIn(q) => UnmarkIn(r)
  BY <1>1 DEF UnmarkIn
<1>. QED  BY <1>2, <1>3, <1>4, <1>5

LEMMA FirstOfNone ==
  ASSUME NEW q, NoneOf(q, "search"), UnmarkIn(q)
  PROVE  UnmarkFirst(q)
BY DEF NoneOf, UnmarkIn, UnmarkFirst

(* The first message is taken. *)
LEMMA TailOf ==
  ASSUME NEW S, NEW q \in Seq(S), q # << >>
  PROVE  /\ Tail(q) \in Seq(S) /\ Len(Tail(q)) = Len(q) - 1 /\ Len(q) \in Nat /\ Len(q) > 0
         /\ DOMAIN Tail(q) = 1 .. Len(q) - 1 /\ DOMAIN q = 1 .. Len(q)
         /\ \A i \in 1 .. Len(q) - 1 : Tail(q)[i] = q[i + 1]
         /\ Head(q) = q[1] /\ Head(q) \in S
OBVIOUS

LEMMA TakenNone ==
  ASSUME NEW S, NEW q \in Seq(S), q # << >>, NEW kind, NoneOf(q, kind)
  PROVE  NoneOf(Tail(q), kind) /\ Head(q).kind # kind
<1>1. \A i \in 1 .. Len(q) - 1 : i + 1 \in DOMAIN q
  BY TailOf
<1>. QED  BY <1>1, TailOf DEF NoneOf

LEMMA TakenOne ==
  ASSUME NEW S, NEW q \in Seq(S), q # << >>, NEW m, OneOf(q, m)
  PROVE  /\ Head(q).kind = m.kind => Head(q) = m /\ NoneOf(Tail(q), m.kind)
         /\ Head(q).kind # m.kind => OneOf(Tail(q), m)
<1>1. PICK k \in DOMAIN q : q[k] = m /\ \A j \in DOMAIN q : q[j].kind = m.kind => j = k
  BY DEF OneOf
<1>2. k \in 1 .. Len(q) /\ Len(q) \in Nat /\ 1 \in DOMAIN q
  BY TailOf
<1>3. \A i \in DOMAIN Tail(q) : i + 1 \in DOMAIN q /\ i \in Nat /\ i >= 1 /\ Tail(q)[i] = q[i + 1]
  BY TailOf
<1>4. CASE Head(q).kind = m.kind
  <2>1. k = 1
    BY <1>1, <1>2, <1>4, TailOf
  <2>2. \A i \in DOMAIN Tail(q) : Tail(q)[i].kind # m.kind
    BY <1>1, <1>3, <2>1
  <2>. QED  BY <1>1, <1>4, <2>1, <2>2, TailOf DEF NoneOf
<1>5. CASE Head(q).kind # m.kind
  <2>1. k # 1
    BY <1>1, <1>5, TailOf
  <2>2. k - 1 \in DOMAIN Tail(q) /\ Tail(q)[k - 1] = m
    BY <1>1, <1>2, <2>1, TailOf
  <2>3. \A i \in DOMAIN Tail(q) : Tail(q)[i].kind = m.kind => i = k - 1
    BY <1>1, <1>2, <1>3
  <2>. QED  BY <1>5, <2>2, <2>3 DEF OneOf
<1>. QED  BY <1>4, <1>5

LEMMA TakenUnmark ==
  ASSUME NEW S, NEW q \in Seq(S), q # << >>, Head(q) # Unmark
  PROVE  /\ UnmarkFirst(q) => Head(q).kind # "search" /\ UnmarkFirst(Tail(q))
         /\ UnmarkIn(q) => UnmarkIn(Tail(q))
<1>1. ASSUME NEW k \in DOMAIN q, q[k] = Unmark
      PROVE  /\ k \in 1 .. Len(q) /\ k > 1 /\ 1 \in DOMAIN q
             /\ k - 1 \in DOMAIN Tail(q) /\ Tail(q)[k - 1] = Unmark
  BY <1>1, TailOf
<1>2. \A i \in DOMAIN Tail(q) : i + 1 \in DOMAIN q /\ i \in Nat /\ Tail(q)[i] = q[i + 1]
  BY TailOf
<1>3. ASSUME UnmarkFirst(q)
      PROVE  Head(q).kind # "search" /\ UnmarkFirst(Tail(q))
  <2>1. PICK k \in DOMAIN q : q[k] = Unmark /\ \A j \in DOMAIN q : j < k => q[j].kind # "search"
    BY <1>3 DEF UnmarkFirst
  <2>2. \A i \in DOMAIN Tail(q) : i < k - 1 => Tail(q)[i].kind # "search"
    BY <1>1, <1>2, <2>1
  <2>. QED  BY <1>1, <2>1, <2>2, TailOf DEF UnmarkFirst
<1>4. UnmarkIn(q) => UnmarkIn(Tail(q))
  BY <1>1 DEF UnmarkIn
<1>. QED  BY <1>3, <1>4

(* A message is put behind others. *)
LEMMA AppendOf ==
  ASSUME NEW S, NEW q \in Seq(S), NEW m \in S
  PROVE  /\ DOMAIN Append(q, m) = DOMAIN q \union {Len(q) + 1} /\ Len(q) + 1 \notin DOMAIN q
         /\ \A i \in DOMAIN q : Append(q, m)[i] = q[i]
         /\ Append(q, m)[Len(q) + 1] = m
         /\ \A i \in DOMAIN q : i \in Nat /\ i < Len(q) + 1
OBVIOUS

LEMMA AppendedQueue ==
  ASSUME NEW S, NEW q \in Seq(S), NEW m \in S
  PROVE  /\ \A kind : NoneOf(q, kind) /\ m.kind # kind => NoneOf(Append(q, m), kind)
         /\ NoneOf(q, m.kind) => OneOf(Append(q, m), m)
         /\ \A n : OneOf(q, n) /\ m.kind # n.kind => OneOf(Append(q, m), n)
<1>. DEFINE r == Append(q, m)
            l == Len(q) + 1
<1>1. /\ DOMAIN r = DOMAIN q \union {l} /\ l \notin DOMAIN q
      /\ \A i \in DOMAIN q : r[i] = q[i]
      /\ r[l] = m
  BY AppendOf
<1>. HIDE DEF r, l
<1>2. \A kind : NoneOf(q, kind) /\ m.kind # kind => NoneOf(r, kind)
  BY <1>1 DEF NoneOf
<1>3. NoneOf(q, m.kind) => OneOf(r, m)
  BY <1>1 DEF NoneOf, OneOf
<1>4. ASSUME NEW n, OneOf(q, n), m.kind # n.kind
      PROVE  OneOf(r, n)
  <2>1. PICK k \in DOMAIN q : q[k] = n /\ \A j \in DOMAIN q : q[j].kind = n.kind => j = k
    BY <1>4 DEF OneOf
  <2>. QED  BY <1>1, <1>4, <2>1 DEF OneOf
<1>. QED  BY <1>2, <1>3, <1>4 DEF r

LEMMA UnmarkKept ==
  ASSUME NEW q \in Seq(Message), NEW m \in Message
  PROVE  /\ UnmarkFirst(q) => UnmarkFirst(Append(q, m))
         /\ UnmarkIn(q) => UnmarkIn(Append(q, m))
<1>. DEFINE r == Append(q, m)
            l == Len(q) + 1
<1>1. /\ DOMAIN r = DOMAIN q \union {l} /\ l \notin DOMAIN q
      /\ \A i \in DOMAIN q : r[i] = q[i] /\ i \in Nat /\ i < l
      /\ l \in Nat
  BY AppendOf
<1>. HIDE DEF r, l
<1>2. ASSUME UnmarkFirst(q)
      PROVE  UnmarkFirst(r)
  <2>1. PICK k \in DOMAIN q : q[k] = Unmark /\ \A j \in DOMAIN q : j < k => q[j].kind # "search"
    BY <1>2 DEF UnmarkFirst
  <2>2. \A j \in DOMAIN r : j < k => j \in DOMAIN q
    BY <1>1
  <2>. QED  BY <1>1, <2>1, <2>2 DEF UnmarkFirst
<1>3. UnmarkIn(q) => UnmarkIn(r)
  BY <1>1 DEF UnmarkIn
<1>. QED  BY <1>2, <1>3 DEF r

(* What a page has waited for is put behind its mail. *)
LEMMA JoinedQueue ==
  ASSUME NEW q \in Seq(Message), NEW r \in Seq(Message)
  PROVE  /\ \A kind : NoneOf(q, kind) /\ NoneOf(r, kind) => NoneOf(q \o r, kind)
         /\ \A m : OneOf(q, m) /\ NoneOf(r, m.kind) => OneOf(q \o r, m)
         /\ \A m : NoneOf(q, m.kind) /\ OneOf(r, m) => OneOf(q \o r, m)
<1>. DEFINE t == q \o r
            n == Len(q)
<1>1. /\ n \in Nat /\ DOMAIN q = 1 .. n /\ DOMAIN r = 1 .. Len(r) /\ Len(r) \in Nat
      /\ DOMAIN t = 1 .. n + Len(r)
      /\ \A i \in 1 .. n : t[i] = q[i]
      /\ \A i \in n + 1 .. n + Len(r) : t[i] = r[i - n]
  OBVIOUS
<1>. HIDE DEF t, n
<1>2. \A i \in DOMAIN t : \/ i \in DOMAIN q /\ t[i] = q[i]
                          \/ i - n \in DOMAIN r /\ t[i] = r[i - n] /\ i \in Nat /\ i > n
  BY <1>1
<1>3. /\ \A i \in DOMAIN q : i \in DOMAIN t /\ t[i] = q[i]
      /\ \A i \in DOMAIN r : i + n \in DOMAIN t /\ t[i + n] = r[i]
  BY <1>1
<1>4. \A kind : NoneOf(q, kind) /\ NoneOf(r, kind) => NoneOf(t, kind)
  BY <1>2 DEF NoneOf
<1>5. ASSUME NEW m, OneOf(q, m), NoneOf(r, m.kind)
      PROVE  OneOf(t, m)
  <2>1. PICK k \in DOMAIN q : q[k] = m /\ \A j \in DOMAIN q : q[j].kind = m.kind => j = k
    BY <1>5 DEF OneOf
  <2>2. \A i \in DOMAIN t : t[i].kind = m.kind => i \in DOMAIN q
    BY <1>2, <1>5 DEF NoneOf
  <2>. QED  BY <1>3, <2>1, <2>2 DEF OneOf
<1>6. ASSUME NEW m, NoneOf(q, m.kind), OneOf(r, m)
      PROVE  OneOf(t, m)
  <2>1. PICK k \in DOMAIN r : r[k] = m /\ \A j \in DOMAIN r : r[j].kind = m.kind => j = k
    BY <1>6 DEF OneOf
  <2>2. \A i \in DOMAIN t : t[i].kind = m.kind => i - n = k /\ i \in Nat
    BY <1>2, <1>6, <2>1 DEF NoneOf
  <2>3. k + n \in DOMAIN t /\ t[k + n] = m
    BY <1>3, <2>1
  <2>4. \A i \in DOMAIN t : t[i].kind = m.kind => i = k + n
    BY <1>1, <2>2
  <2>. QED  BY <2>3, <2>4 DEF OneOf
<1>. QED  BY <1>4, <1>5, <1>6 DEF t

-----------------------------------------------------------------------------
(* What a rendering does to the frames: highlights stay, and what is put   *)
(* behind their mail is no search.                                         *)

FrameGrows(f, g) ==
  /\ g.mark = f.mark
  /\ Grows(f.mail, g.mail) /\ Grows(f.waiting, g.waiting)
  /\ f.phase = "ready" => g.phase = "ready" /\ g.waiting = f.waiting
  /\ f.phase # "ready" => g.phase # "ready" /\ g.mail = f.mail

FramesGrow(f, g) == \A p \in Pages : FrameGrows(f[p], g[p])

Frames == [AllPages -> Frame]

LEMMA FrameFields ==
  ASSUME NEW f \in Frames, NEW p \in AllPages
  PROVE  /\ f[p].mail \in Seq(Message) /\ f[p].waiting \in Seq(Message) /\ f[p].mark \in Mark
BY DEF Frames, Frame

LEMMA FrameGrowsNot ==
  ASSUME NEW f \in Frames
  PROVE  FramesGrow(f, f)
<1>1. \A p \in Pages : f[p].mail \in Seq(Message) /\ f[p].waiting \in Seq(Message)
  BY FrameFields DEF AllPages
<1>. QED  BY <1>1, GrowsNot DEF FramesGrow, FrameGrows

LEMMA FramesGrowTwice ==
  ASSUME NEW f \in Frames, NEW g \in Frames, NEW h \in Frames,
         FramesGrow(f, g), FramesGrow(g, h)
  PROVE  FramesGrow(f, h)
<1>. SUFFICES ASSUME NEW p \in Pages
              PROVE  FrameGrows(f[p], h[p])
  BY DEF FramesGrow
<1>1. /\ f[p].mail \in Seq(Message) /\ f[p].waiting \in Seq(Message)
      /\ g[p].mail \in Seq(Message) /\ g[p].waiting \in Seq(Message)
      /\ h[p].mail \in Seq(Message) /\ h[p].waiting \in Seq(Message)
  BY FrameFields DEF AllPages
<1>2. FrameGrows(f[p], g[p]) /\ FrameGrows(g[p], h[p])
  BY DEF FramesGrow
<1>3. Grows(f[p].mail, h[p].mail) /\ Grows(f[p].waiting, h[p].waiting)
  BY <1>1, <1>2, GrowsTwice DEF FrameGrows
<1>. QED  BY <1>2, <1>3 DEF FrameGrows

LEMMA SoundFields ==
  ASSUME NEW s, Sound(s)
  PROVE  /\ s.frame \in Frames /\ s.inbox \in Seq(Answer) /\ s.timers \in Seq(Timer)
         /\ s.state \in State /\ s.state.search \in SearchState /\ s.pages \in Remembered
         /\ PageOf[s.state.current] \in AllPages
BY PageTypes DEF Sound, Worlds, Frames, State

LEMMA FramedGrows ==
  ASSUME NEW s, Sound(s), NEW p \in AllPages
  PROVE  /\ FramesGrow(s.frame, Framed(s, p).frame)
         /\ \A q \in AllPages : /\ Framed(s, p).frame[q].mail = s.frame[q].mail
                                /\ Framed(s, p).frame[q].waiting = s.frame[q].waiting
<1>. DEFINE f == [s.frame EXCEPT ![p].phase = "loading"]
<1>1. s.frame \in Frames /\ s \in Worlds
  BY DEF Sound, Worlds, Frames
<1>2. CASE s.frame[p].phase = "none"
  <2>1. Framed(s, p) = [s EXCEPT !.frame = f]
    BY <1>2 DEF Framed
  <2>2. Framed(s, p).frame = f
    BY <1>1, <2>1 DEF Worlds
  <2>3. /\ \A q \in AllPages : q # p => f[q] = s.frame[q]
        /\ f[p].phase = "loading" /\ f[p].mail = s.frame[p].mail
        /\ f[p].waiting = s.frame[p].waiting /\ f[p].mark = s.frame[p].mark
    BY <1>1 DEF Frames, Frame
  <2>. HIDE DEF f
  <2>4. \A q \in AllPages : f[q].mail = s.frame[q].mail /\ f[q].waiting = s.frame[q].waiting
    BY <2>3
  <2>5. \A q \in Pages : FrameGrows(s.frame[q], f[q])
    <3>. SUFFICES ASSUME NEW q \in Pages
                  PROVE  FrameGrows(s.frame[q], f[q])
      OBVIOUS
    <3>1. q \in AllPages /\ FrameGrows(s.frame[q], s.frame[q])
      BY <1>1, FrameGrowsNot DEF FramesGrow, AllPages
    <3>2. CASE q = p
      BY <1>2, <2>3, <3>1, <3>2 DEF FrameGrows
    <3>. QED  BY <2>3, <3>1, <3>2
  <2>. QED  BY <2>2, <2>4, <2>5 DEF FramesGrow
<1>3. CASE s.frame[p].phase # "none"
  BY <1>1, <1>3, FrameGrowsNot DEF Framed
<1>. QED  BY <1>2, <1>3

(* A message that is posted: what it changes at its page. *)
Posted(f, g, p, m) ==
  /\ g[p].mark = f[p].mark
  /\ f[p].phase = "ready" => /\ g[p].phase = "ready" /\ g[p].waiting = f[p].waiting
                             /\ g[p].mail = Queued(f[p].mail, m)
  /\ f[p].phase # "ready" => /\ g[p].phase # "ready" /\ g[p].mail = f[p].mail
                             /\ g[p].waiting = Queued(f[p].waiting, m)
  /\ \A q \in Pages : q # p => FrameGrows(f[q], g[q])

LEMMA PostPosted ==
  ASSUME NEW s, Sound(s), NEW p \in Pages, NEW m \in Message
  PROVE  Posted(s.frame, post_message(s, p, m).frame, p, m)
<1>. DEFINE t == Framed(s, p)
            f == [t.frame EXCEPT ![p].mail = Queued(@, m)]
            g == [t.frame EXCEPT ![p].waiting = Queued(@, m)]
<1>0. p \in AllPages /\ p # TOP_ID
  BY InfoJsAssumption DEF AllPages
<1>1. Sound(t) /\ FramesGrow(s.frame, t.frame)
      /\ t.frame[p].mail = s.frame[p].mail /\ t.frame[p].waiting = s.frame[p].waiting
  BY <1>0, FramedSound, FramedGrows
<1>2. post_message(s, p, m) = IF t.frame[p].phase = "ready" THEN [t EXCEPT !.frame = f]
                              ELSE [t EXCEPT !.frame = g]
  BY <1>0 DEF post_message, t
<1>. HIDE DEF t
<1>3. t.frame \in Frames /\ t \in Worlds
  BY <1>1 DEF Sound, Worlds, Frames
<1>4. FrameGrows(s.frame[p], t.frame[p])
  BY <1>1 DEF FramesGrow
<1>5. \A q \in Pages : q # p => FrameGrows(s.frame[q], t.frame[q])
  BY <1>1 DEF FramesGrow
<1>6. CASE t.frame[p].phase = "ready"
  <2>1. post_message(s, p, m).frame = f
    BY <1>2, <1>3, <1>6 DEF Worlds
  <2>2. /\ \A q \in AllPages : q # p => f[q] = t.frame[q]
        /\ f[p].mail = Queued(t.frame[p].mail, m) /\ f[p].phase = t.frame[p].phase
        /\ f[p].waiting = t.frame[p].waiting /\ f[p].mark = t.frame[p].mark
    BY <1>0, <1>3 DEF Frames, Frame
  <2>. HIDE DEF f
  <2>3. \A q \in Pages : q # p => FrameGrows(s.frame[q], f[q])
    BY <1>5, <2>2 DEF AllPages
  <2>4. s.frame[p].phase = "ready"
    BY <1>4, <1>6 DEF FrameGrows
  <2>. QED  BY <1>1, <1>4, <1>6, <2>1, <2>2, <2>3, <2>4 DEF Posted, FrameGrows
<1>7. CASE t.frame[p].phase # "ready"
  <2>1. post_message(s, p, m).frame = g
    BY <1>2, <1>3, <1>7 DEF Worlds
  <2>2. /\ \A q \in AllPages : q # p => g[q] = t.frame[q]
        /\ g[p].waiting = Queued(t.frame[p].waiting, m) /\ g[p].phase = t.frame[p].phase
        /\ g[p].mail = t.frame[p].mail /\ g[p].mark = t.frame[p].mark
    BY <1>0, <1>3 DEF Frames, Frame
  <2>. HIDE DEF g
  <2>3. \A q \in Pages : q # p => FrameGrows(s.frame[q], g[q])
    BY <1>5, <2>2 DEF AllPages
  <2>4. s.frame[p].phase # "ready"
    BY <1>4, <1>7 DEF FrameGrows
  <2>. QED  BY <1>1, <1>4, <1>7, <2>1, <2>2, <2>3, <2>4 DEF Posted, FrameGrows
<1>. QED  BY <1>6, <1>7

UnmarkSent(f, g, p) == p \in Pages /\ f[p].phase = "ready" => UnmarkIn(g[p].mail)

LEMMA PostGrows ==
  ASSUME NEW s, Sound(s), NEW p \in AllPages, NEW m \in Message, m.kind # "search"
  PROVE  /\ FramesGrow(s.frame, post_message(s, p, m).frame)
         /\ m = Unmark => UnmarkSent(s.frame, post_message(s, p, m).frame, p)
<1>1. CASE p = TOP_ID
  <2>1. post_message(s, p, m) = s /\ p \notin Pages
    BY <1>1, InfoJsAssumption DEF post_message
  <2>. QED  BY <2>1, SoundFields, FrameGrowsNot DEF UnmarkSent
<1>2. CASE p \in Pages
  <2>. DEFINE f == s.frame
              g == post_message(s, p, m).frame
  <2>1. Posted(f, g, p, m)
    BY <1>2, PostPosted
  <2>2. f \in Frames
    BY SoundFields
  <2>. HIDE DEF f, g
  <2>3. f[p].mail \in Seq(Message) /\ f[p].waiting \in Seq(Message)
    BY <2>2, FrameFields
  <2>4. /\ Grows(f[p].mail, Queued(f[p].mail, m)) /\ Grows(f[p].waiting, Queued(f[p].waiting, m))
        /\ Grows(f[p].mail, f[p].mail) /\ Grows(f[p].waiting, f[p].waiting)
        /\ m = Unmark => UnmarkIn(Queued(f[p].mail, m))
    BY <2>3, QueuedGrows, GrowsNot
  <2>5. FrameGrows(f[p], g[p])
    BY <2>1, <2>4 DEF Posted, FrameGrows
  <2>6. FramesGrow(f, g)
    BY <2>1, <2>5 DEF Posted, FramesGrow
  <2>7. m = Unmark => UnmarkSent(f, g, p)
    BY <2>1, <2>4 DEF Posted, UnmarkSent
  <2>. QED  BY <2>6, <2>7 DEF f, g
<1>. QED  BY <1>1, <1>2 DEF AllPages

-----------------------------------------------------------------------------
(* The parts of a rendering.                                               *)

SameSearch(s, t) == t.inbox = s.inbox /\ t.timers = s.timers /\ t.state = s.state
                    /\ t.pages.search_seen = s.pages.search_seen

LEMMA FramesOnly ==
  ASSUME NEW s, Sound(s), NEW t, SameButFrames(s, t)
  PROVE  SameSearch(s, t)
BY FramesKept DEF SameSearch, Keeps

LEMMA LeavePageGrows ==
  ASSUME NEW s, Sound(s)
  PROVE  /\ FramesGrow(s.frame, LeavePage(s).frame) /\ SameSearch(s, LeavePage(s))
         /\ UnmarkSent(s.frame, LeavePage(s).frame, PageOf[s.pages.prev_id])
<1>1. s.pages.prev_id # None
  BY InfoJsAssumption DEF Sound, Worlds, Remembered
<1>2. LeavePage(s) = post_message(s, PageOf[s.pages.prev_id], Unmark)
  BY <1>1 DEF LeavePage
<1>3. PageOf[s.pages.prev_id] \in AllPages /\ Unmark.kind # "search"
  BY PageTypes, KindsDiffer
<1>4. Unmark \in Message
  BY MessageTypes
<1>5. SameSearch(s, LeavePage(s))
  BY LeavePageSound, FramesOnly
<1>. QED  BY <1>2, <1>3, <1>4, <1>5, PostGrows

LEMMA UnmarkStays ==
  ASSUME NEW f, NEW g \in Frames, NEW h \in Frames, NEW p,
         UnmarkSent(f, g, p), FramesGrow(g, h)
  PROVE  UnmarkSent(f, h, p)
<1>. SUFFICES ASSUME p \in Pages, f[p].phase = "ready"
              PROVE  UnmarkIn(h[p].mail)
  BY DEF UnmarkSent
<1>1. UnmarkIn(g[p].mail) /\ Grows(g[p].mail, h[p].mail)
  BY DEF UnmarkSent, FramesGrow, FrameGrows
<1>2. g[p].mail \in Seq(Message) /\ h[p].mail \in Seq(Message)
  BY FrameFields DEF AllPages
<1>. QED  BY <1>1, <1>2, GrownQueue

LEMMA ShowPageGrows ==
  ASSUME NEW s, Sound(s)
  PROVE  /\ FramesGrow(s.frame, ShowPage(s).frame) /\ SameSearch(s, ShowPage(s))
         /\ UnmarkSent(s.frame, ShowPage(s).frame, PageOf[s.pages.prev_id])
<1>. DEFINE l == s.state.current
            r == LeavePage(s)
            q == Framed(r, PageOf[l])
            h == update_history(q.history, l, s.state.history)
            t == [q EXCEPT !.history = h, !.pages.prev_id = l]
<1>1. Sound(r) /\ FramesGrow(s.frame, r.frame) /\ SameSearch(s, r)
      /\ UnmarkSent(s.frame, r.frame, PageOf[s.pages.prev_id])
  BY LeavePageSound, LeavePageGrows
<1>2. PageOf[l] \in AllPages
  BY PageTypes
<1>3. ShowPage(s) = t
  BY DEF ShowPage
<1>. HIDE DEF r
<1>4. Sound(q) /\ SameSearch(r, q) /\ FramesGrow(r.frame, q.frame)
  BY <1>1, <1>2, FramedSound, FramedGrows, FramesOnly
<1>. HIDE DEF q, h, l
<1>5. t.frame = q.frame /\ SameSearch(q, t)
  <2>1. q \in Worlds /\ q.pages \in Remembered
    BY <1>4 DEF Sound, Worlds
  <2>. QED  BY <2>1 DEF Worlds, Remembered, SameSearch
<1>6. s.frame \in Frames /\ r.frame \in Frames /\ q.frame \in Frames
  BY <1>1, <1>4, SoundFields
<1>7. FramesGrow(s.frame, q.frame)
  BY <1>1, <1>4, <1>6, FramesGrowTwice
<1>8. UnmarkSent(s.frame, q.frame, PageOf[s.pages.prev_id])
  BY <1>1, <1>4, <1>6, UnmarkStays
<1>9. SameSearch(s, t)
  BY <1>1, <1>4, <1>5 DEF SameSearch
<1>. QED  BY <1>3, <1>5, <1>7, <1>8, <1>9

(* The timer of a search that is ready. *)
Started(s) ==
  IF s.state.search.status = "ready" /\ ~s.pages.search_seen
  THEN Append(s.timers, [page |-> s.state.search.page, regexp |-> s.state.search.regexp])
  ELSE s.timers

LEMMA StartSearchStarts ==
  ASSUME NEW s, Sound(s)
  PROVE  LET t == StartSearch(s)
         IN /\ t.frame = s.frame /\ t.inbox = s.inbox /\ t.state = s.state
            /\ t.timers = Started(s)
            /\ s.state.search.status = "ready" => t.pages.search_seen
<1>1. s \in Worlds /\ s.pages \in Remembered
  BY DEF Sound, Worlds
<1>. QED  BY <1>1 DEF StartSearch, Started, Worlds, Remembered

LEMMA RemoveHighlightGrows ==
  ASSUME NEW s, Sound(s)
  PROVE  FramesGrow(s.frame, RemoveHighlight(s).frame) /\ SameSearch(s, RemoveHighlight(s))
<1>. DEFINE p == PageOf[s.state.current]
            f == [s.frame EXCEPT ![TOP_ID].mark = None]
            t == [s EXCEPT !.frame = f]
            u == post_message(s, p, Unmark)
<1>1. p \in AllPages /\ s.frame \in Frames /\ s \in Worlds
  BY PageTypes, SoundFields DEF Sound
<1>2. \/ RemoveHighlight(s) = s
      \/ RemoveHighlight(s) = t
      \/ RemoveHighlight(s) = u
  BY DEF RemoveHighlight
<1>. HIDE DEF p
<1>3. FramesGrow(s.frame, s.frame) /\ SameSearch(s, s)
  BY <1>1, FrameGrowsNot DEF SameSearch
<1>4. FramesGrow(s.frame, t.frame) /\ SameSearch(s, t)
  <2>1. \A q \in AllPages : q # TOP_ID => f[q] = s.frame[q]
    BY <1>1 DEF Frames
  <2>2. t.frame = f /\ SameSearch(s, t)
    BY <1>1 DEF Worlds, SameSearch
  <2>3. \A q \in Pages : q # TOP_ID /\ q \in AllPages
    BY InfoJsAssumption DEF AllPages
  <2>4. \A q \in Pages : f[q] = s.frame[q]
    BY <2>1, <2>3
  <2>. HIDE DEF f, t
  <2>. QED  BY <1>3, <2>2, <2>4 DEF FramesGrow
<1>5. FramesGrow(s.frame, u.frame) /\ SameSearch(s, u)
  BY <1>1, MessageTypes, KindsDiffer, PostGrows, PostSound, FramesOnly
<1>. QED  BY <1>2, <1>3, <1>4, <1>5

LEMMA ScrollToFoundGrows ==
  ASSUME NEW s, Sound(s)
  PROVE  LET t == ScrollToFound(s)
         IN /\ FramesGrow(s.frame, t.frame)
            /\ t.inbox = s.inbox /\ t.timers = s.timers /\ t.state = s.state
            /\ s.state.search.status = "ready" => t.pages = s.pages
<1>. DEFINE q == post_message(s, PageOf[s.state.current], ScrollToResult)
            t == [q EXCEPT !.pages.search_seen = TRUE]
<1>1. Sound(q) /\ FramesGrow(s.frame, q.frame) /\ SameSearch(s, q)
  BY PageTypes, MessageTypes, KindsDiffer, PostGrows, PostSound, FramesOnly
<1>2. \/ ScrollToFound(s) = s
      \/ s.state.search.status = "done" /\ ScrollToFound(s) = t
  BY DEF ScrollToFound
<1>. HIDE DEF q
<1>3. t.frame = q.frame /\ t.inbox = q.inbox /\ t.timers = q.timers /\ t.state = q.state
  BY <1>1 DEF Sound, Worlds
<1>4. FramesGrow(s.frame, s.frame)
  BY SoundFields, FrameGrowsNot
<1>. QED  BY <1>1, <1>2, <1>3, <1>4 DEF SameSearch

(* The rendering of a state whose page has a container. *)
RenderedFrom(s, t) ==
  /\ FramesGrow(s.frame, t.frame) /\ t.inbox = s.inbox /\ t.state = s.state
  /\ t.timers = Started(s)
  /\ Seen(t)
  /\ s.state.current # s.pages.prev_id =>
       UnmarkSent(s.frame, t.frame, PageOf[s.pages.prev_id])

LEMMA RenderedGrows ==
  ASSUME NEW s, Sound(s), Container(s, PageOf[s.state.current])
  PROVE  RenderedFrom(s, Rendered(s))
<1>. DEFINE moved == s.state.current # s.pages.prev_id
            shown == IF moved THEN ShowPage(s) ELSE s
            a == StartSearch(shown)
            b == RemoveHighlight(a)
            c == ScrollToFound(b)
<1>1. /\ Sound(shown) /\ SameSearch(s, shown) /\ FramesGrow(s.frame, shown.frame)
      /\ moved => UnmarkSent(s.frame, shown.frame, PageOf[s.pages.prev_id])
  <2>1. SameSearch(s, s) /\ FramesGrow(s.frame, s.frame)
    BY SoundFields, FrameGrowsNot DEF SameSearch
  <2>. QED  BY <2>1, ShowPageSound, ShowPageGrows
<1>2. Rendered(s) = c
  BY DEF Rendered
<1>3. Started(shown) = Started(s)
  BY <1>1 DEF SameSearch, Started
<1>. HIDE DEF shown
<1>4. /\ Sound(a) /\ a.frame = shown.frame /\ a.inbox = s.inbox /\ a.state = s.state
      /\ a.timers = Started(s) /\ Seen(a)
  BY <1>1, <1>3, StartSearchSound, StartSearchStarts DEF SameSearch, Seen
<1>. HIDE DEF a
<1>5. Sound(b) /\ FramesGrow(a.frame, b.frame) /\ SameSearch(a, b)
  BY <1>4, RemoveHighlightSound, RemoveHighlightGrows
<1>. HIDE DEF b
<1>6. /\ Sound(c) /\ FramesGrow(b.frame, c.frame)
      /\ c.inbox = b.inbox /\ c.timers = b.timers /\ c.state = b.state
      /\ b.state.search.status = "ready" => c.pages = b.pages
  BY <1>5, ScrollToFoundSound, ScrollToFoundGrows
<1>. HIDE DEF c
<1>7. /\ s.frame \in Frames /\ shown.frame \in Frames
      /\ b.frame \in Frames /\ c.frame \in Frames
  BY <1>1, <1>5, <1>6, SoundFields
<1>8. FramesGrow(shown.frame, c.frame)
  BY <1>4, <1>5, <1>6, <1>7, FramesGrowTwice
<1>9. FramesGrow(s.frame, c.frame)
  BY <1>1, <1>7, <1>8, FramesGrowTwice
<1>10. moved => UnmarkSent(s.frame, c.frame, PageOf[s.pages.prev_id])
  BY <1>1, <1>7, <1>8, UnmarkStays
<1>11. /\ c.inbox = s.inbox /\ c.state = s.state /\ c.timers = Started(s) /\ Seen(c)
  BY <1>4, <1>5, <1>6 DEF SameSearch, Seen
<1>. QED  BY <1>2, <1>9, <1>10, <1>11 DEF RenderedFrom

-----------------------------------------------------------------------------
(* What a step that has no part in the search may do to what is under way. *)

FrameFollows(f, g) ==
  /\ NoSearch(f) => NoSearch(g)
  /\ \A r \in Expressions : OneSearch(f, SearchFor(r)) => OneSearch(g, SearchFor(r))
  /\ g.mark # None => /\ f.mark = g.mark
                      /\ UnmarkFirst(f.mail) => UnmarkFirst(g.mail)
                      /\ UnmarkIn(f.mail) => UnmarkIn(g.mail)

SameAnswers(q, r) ==
  /\ NoneOf(q, "search-result") => NoneOf(r, "search-result")
  /\ \A b \in BOOLEAN : OneOf(q, Result(b)) => OneOf(r, Result(b))

(* The page that is no longer shown will lose its highlight. *)
LeftUnmarked(s, t) ==
  \A p \in Pages : Shown(s, p) /\ ~Shown(t, p) /\ t.frame[p].mark # None
                   => UnmarkIn(t.frame[p].mail)

LEMMA DoneAtRest ==
  ASSUME NEW s, NEW asked, OneAtATime(s, asked), s.state.search.status = "done"
  PROVE  AtRest(s)
BY DEF OneAtATime

LEMMA OneAtATimeKept ==
  ASSUME NEW s, NEW t, NEW asked, OneAtATime(s, asked),
         t.state.search = s.state.search, t.timers = s.timers,
         s.state.search.regexp \in Expressions,
         SameAnswers(s.inbox, t.inbox),
         \A p \in Pages : FrameFollows(s.frame[p], t.frame[p])
  PROVE  OneAtATime(t, asked) /\ (AtRest(s) => AtRest(t))
<1>1. NoAnswer(s) => NoAnswer(t)
  BY DEF NoAnswer, SameAnswers
<1>2. \A p \in Pages : NoSearch(s.frame[p]) => NoSearch(t.frame[p])
  BY DEF FrameFollows
<1>3. AtRest(s) => AtRest(t)
  BY <1>1, <1>2 DEF AtRest
<1>4. AtTimer(s) => AtTimer(t)
  BY <1>1, <1>2 DEF AtTimer
<1>5. AtPage(s) => AtPage(t)
  BY <1>1, <1>2 DEF AtPage, FrameFollows
<1>6. AtAnswer(s, asked) => AtAnswer(t, asked)
  <2>1. \A p \in Pages : s.frame[p].mark = None => t.frame[p].mark = None
    BY DEF FrameFollows
  <2>2. \A p : Searched(s, p, asked) => Searched(t, p, asked)
    BY DEF Searched
  <2>3. \A b \in BOOLEAN : OneOf(s.inbox, Result(b)) => OneOf(t.inbox, Result(b))
    BY DEF SameAnswers
  <2>. QED  BY <1>2, <2>1, <2>2, <2>3 DEF AtAnswer
<1>. QED  BY <1>3, <1>4, <1>5, <1>6 DEF OneAtATime

LEMMA PassedKept ==
  ASSUME NEW s, NEW t, NEW asked, Passed(s, asked), t.state.search = s.state.search
  PROVE  Passed(t, asked)
BY DEF Passed, NoMatchBefore

LEMMA MarksEndKept ==
  ASSUME NEW s, NEW t, NEW asked, OneAtATime(s, asked), MarksEnd(s, asked),
         t.state.search = s.state.search,
         SameAnswers(s.inbox, t.inbox),
         \A p \in Pages : FrameFollows(s.frame[p], t.frame[p]),
         LeftUnmarked(s, t)
  PROVE  MarksEnd(t, asked)
<1>. SUFFICES ASSUME NEW p \in Pages, t.frame[p].mark # None
              PROVE  MarkEnds(t, p, asked)
  BY DEF MarksEnd
<1>1. /\ s.frame[p].mark # None
      /\ UnmarkFirst(s.frame[p].mail) => UnmarkFirst(t.frame[p].mail)
      /\ UnmarkIn(s.frame[p].mail) => UnmarkIn(t.frame[p].mail)
  BY DEF FrameFollows
<1>2. MarkEnds(s, p, asked)
  BY <1>1 DEF MarksEnd
<1>3. JustFound(s, p) => JustFound(t, p)
  BY DEF JustFound, SameAnswers
<1>4. Shown(t, p) \/ JustFound(t, p) \/ UnmarkIn(t.frame[p].mail)
  BY <1>1, <1>2, <1>3 DEF MarkEnds, LeftUnmarked
<1>5. CASE UnmarkFirst(s.frame[p].mail) \/ JustFound(s, p)
  BY <1>1, <1>3, <1>4, <1>5 DEF MarkEnds
<1>6. CASE s.state.search.status # "done" /\ p = asked /\ p = s.state.search.page
  BY <1>4, <1>6 DEF MarkEnds
<1>7. CASE s.state.search.status = "done" /\ Shown(s, p)
  <2>1. CASE Shown(t, p)
    BY <1>7, <2>1 DEF MarkEnds
  <2>2. CASE ~Shown(t, p)
    <3>1. UnmarkIn(t.frame[p].mail)
      BY <1>7, <2>2 DEF LeftUnmarked
    <3>2. NoSearch(t.frame[p])
      BY <1>7, DoneAtRest DEF AtRest, FrameFollows
    <3>3. UnmarkFirst(t.frame[p].mail)
      BY <3>1, <3>2, FirstOfNone DEF NoSearch
    <3>. QED  BY <3>1, <3>3 DEF MarkEnds
  <2>. QED  BY <2>1, <2>2
<1>. QED  BY <1>2, <1>5, <1>6, <1>7 DEF MarkEnds

LEMMA FollowsKept ==
  ASSUME NEW s, NEW t, NEW asked, Follows(s, asked),
         t.state.search = s.state.search, t.timers = s.timers,
         s.state.search.regexp \in Expressions,
         SameAnswers(s.inbox, t.inbox),
         \A p \in Pages : FrameFollows(s.frame[p], t.frame[p]),
         LeftUnmarked(s, t)
  PROVE  Follows(t, asked)
BY OneAtATimeKept, PassedKept, MarksEndKept DEF Follows

(* A rendering is such a step. *)
LEMMA GrowsFollows ==
  ASSUME NEW f \in Frame, NEW g \in Frame, FrameGrows(f, g)
  PROVE  FrameFollows(f, g)
<1>1. /\ f.mail \in Seq(Message) /\ f.waiting \in Seq(Message)
      /\ g.mail \in Seq(Message) /\ g.waiting \in Seq(Message)
  BY DEF Frame
<1>2. Grows(f.mail, g.mail) /\ Grows(f.waiting, g.waiting) /\ g.mark = f.mark
  BY DEF FrameGrows
<1>3. /\ NoneOf(f.mail, "search") => NoneOf(g.mail, "search")
      /\ NoneOf(f.waiting, "search") => NoneOf(g.waiting, "search")
      /\ \A m : m.kind = "search" /\ OneOf(f.mail, m) => OneOf(g.mail, m)
      /\ \A m : m.kind = "search" /\ OneOf(f.waiting, m) => OneOf(g.waiting, m)
      /\ UnmarkFirst(f.mail) => UnmarkFirst(g.mail)
      /\ UnmarkIn(f.mail) => UnmarkIn(g.mail)
  BY <1>1, <1>2, GrownQueue
<1>4. NoSearch(f) => NoSearch(g)
  BY <1>3 DEF NoSearch
<1>5. ASSUME NEW r \in Expressions, OneSearch(f, SearchFor(r))
      PROVE  OneSearch(g, SearchFor(r))
  BY <1>3, <1>5, KindsDiffer DEF OneSearch
<1>. QED  BY <1>2, <1>3, <1>4, <1>5 DEF FrameFollows

LEMMA FramesGrowFollow ==
  ASSUME NEW f \in Frames, NEW g \in Frames, FramesGrow(f, g)
  PROVE  \A p \in Pages : FrameFollows(f[p], g[p])
BY GrowsFollows DEF FramesGrow, Frames, AllPages

LEMMA LoadingGrown ==
  ASSUME NEW f, NEW g, FramesGrow(f, g), Loading(f)
  PROVE  Loading(g)
BY DEF Loading, FramesGrow, FrameGrows

LEMMA AnswersSame ==
  ASSUME NEW q
  PROVE  SameAnswers(q, q)
BY DEF SameAnswers

(* What holds of a search in a world that has been rendered. *)
Going(s, asked, overlapped) ==
  Loading(s.frame) /\ Seen(s) /\ (~overlapped => Follows(s, asked))

(* The rendering of a state with another page that is shown, another       *)
(* history or other links.                                                 *)
LEMMA RenderedFollows ==
  ASSUME NEW s, Settled(s), NEW asked, NEW overlapped, Going(s, asked, overlapped),
         NEW t, Sound(t), Sound(Rendered(t)), Container(t, PageOf[t.state.current]),
         t.state.search = s.state.search, t.pages = s.pages, t.frame = s.frame,
         t.inbox = s.inbox, t.timers = s.timers
  PROVE  Going(Rendered(t), asked, overlapped)
<1>. DEFINE r == Rendered(t)
<1>1. RenderedFrom(t, r)
  BY RenderedGrows
<1>. HIDE DEF r
<1>2. FramesGrow(s.frame, r.frame) /\ Seen(r) /\ r.state = t.state /\ r.inbox = s.inbox
  BY <1>1 DEF RenderedFrom
<1>3. r.timers = s.timers
  BY <1>1 DEF RenderedFrom, Started, Going, Seen
<1>4. s.frame \in Frames /\ r.frame \in Frames /\ s.state.search.regexp \in Expressions
  BY SoundFields DEF Settled, SearchState, r
<1>5. Loading(r.frame)
  BY <1>2, LoadingGrown DEF Going
<1>6. LeftUnmarked(s, r)
  <2>. SUFFICES ASSUME NEW p \in Pages, Shown(s, p), ~Shown(r, p), r.frame[p].mark # None
                PROVE  UnmarkIn(r.frame[p].mail)
    BY DEF LeftUnmarked
  <2>1. t.state.current # t.pages.prev_id /\ p = PageOf[t.pages.prev_id]
    BY <1>2 DEF Shown, Settled, InStep
  <2>2. s.frame[p].mark # None
    BY <1>2 DEF FramesGrow, FrameGrows
  <2>3. t.frame[p].phase = "ready"
    BY <2>2 DEF Going, Loading
  <2>. QED  BY <1>1, <2>1, <2>3 DEF RenderedFrom, UnmarkSent
<1>7. SameAnswers(s.inbox, r.inbox)
  BY <1>2, AnswersSame
<1>8. \A p \in Pages : FrameFollows(s.frame[p], r.frame[p])
  BY <1>2, <1>4, FramesGrowFollow
<1>9. Follows(s, asked) => Follows(r, asked)
  BY <1>2, <1>3, <1>4, <1>6, <1>7, <1>8, FollowsKept
<1>. QED  BY <1>2, <1>5, <1>9 DEF Going, r

LEMMA CurrentUrlGoing ==
  ASSUME NEW s, Settled(s), NEW asked, NEW overlapped, Going(s, asked, overlapped),
         NEW h, NEW l \in Linkids, NEW mode \in Modes, Sound([s EXCEPT !.history = h])
  PROVE  Going(current_url([s EXCEPT !.history = h], l, mode), asked, overlapped)
<1>. DEFINE w == [s EXCEPT !.history = h]
            st == [w.state EXCEPT !.current = l, !.history = mode, !.highlight = None,
                                  !.loaded_nodes = @ \union {l}]
            t == [w EXCEPT !.state = st]
<1>1. w.state \in State /\ w \in Worlds
  BY DEF Sound, Worlds
<1>0. s \in Worlds
  BY DEF Settled, Sound
<1>2. /\ st \in State /\ st.current = l /\ st.search = w.state.search
      /\ l \in st.loaded_nodes
  BY <1>1 DEF State, Expressions
<1>3. current_url(w, l, mode) = Rendered(t)
  BY DEF current_url
<1>4. w.state = s.state /\ w.pages = s.pages /\ w.frame = s.frame /\ w.inbox = s.inbox
      /\ w.timers = s.timers
  BY <1>0 DEF Worlds
<1>. HIDE DEF st, w
<1>5. Sound(t) /\ t.state = st
  BY <1>2, OtherState DEF w
<1>6. t.pages = w.pages /\ t.frame = w.frame /\ t.inbox = w.inbox /\ t.timers = w.timers
  BY <1>1 DEF Worlds
<1>. HIDE DEF t
<1>7. Sound(Rendered(t)) /\ Container(t, PageOf[t.state.current])
  BY <1>2, <1>5, RenderedSettled DEF Container
<1>8. t.state.search = s.state.search
  BY <1>2, <1>4, <1>5
<1>9. Going(Rendered(t), asked, overlapped)
  BY <1>4, <1>5, <1>6, <1>7, <1>8, RenderedFollows
<1>. QED  BY <1>3, <1>9 DEF w

LEMMA NavigatedGoing ==
  ASSUME NEW s, Settled(s), NEW asked, NEW overlapped, Going(s, asked, overlapped),
         NEW l \in Linkids, Container(s, PageOf[l])
  PROVE  Going(navigated(s, l), asked, overlapped)
<1>. DEFINE st == [s.state EXCEPT !.current = l, !.history = "pushState", !.highlight = None]
            t == [s EXCEPT !.state = st]
<1>1. s.state \in State /\ s \in Worlds /\ Sound(s)
  BY DEF Settled, Sound, Worlds
<1>2. /\ st \in State /\ st.current = l /\ st.search = s.state.search
      /\ st.loaded_nodes = s.state.loaded_nodes
  BY <1>1 DEF State, Expressions, Modes
<1>3. navigated(s, l) = Rendered(t)
  BY DEF navigated
<1>. HIDE DEF st
<1>5. Sound(t) /\ t.state = st
  BY <1>1, <1>2, OtherState
<1>6. t.pages = s.pages /\ t.frame = s.frame /\ t.inbox = s.inbox /\ t.timers = s.timers
  BY <1>1 DEF Worlds
<1>. HIDE DEF t
<1>7. Sound(Rendered(t)) /\ Container(t, PageOf[t.state.current])
  BY <1>2, <1>5, RenderedSettled DEF Container
<1>8. t.state.search = s.state.search
  BY <1>2, <1>5
<1>9. Going(Rendered(t), asked, overlapped)
  BY <1>5, <1>6, <1>7, <1>8, RenderedFollows
<1>. QED  BY <1>3, <1>9

LEMMA CacheLinksGoing ==
  ASSUME NEW s, Settled(s), NEW asked, NEW overlapped, Going(s, asked, overlapped),
         NEW p \in Pages
  PROVE  Going(cache_links(s, p), asked, overlapped)
<1>. DEFINE st == [s.state EXCEPT !.loaded_nodes = @ \union {p}, !.linked = @ \union {p}]
            t == [s EXCEPT !.state = st]
<1>1. s.state \in State /\ s \in Worlds /\ Sound(s) /\ p \in Linkids /\ p \in AllPages
  BY DEF Settled, Sound, Worlds, Linkids, AllPages
<1>2. /\ st \in State /\ st.current = s.state.current /\ st.search = s.state.search
      /\ st.loaded_nodes = s.state.loaded_nodes \union {p}
  BY <1>1 DEF State
<1>3. cache_links(s, p) = Rendered(t)
  BY DEF cache_links
<1>. HIDE DEF st
<1>5. Sound(t) /\ t.state = st
  BY <1>1, <1>2, OtherState
<1>6. t.pages = s.pages /\ t.frame = s.frame /\ t.inbox = s.inbox /\ t.timers = s.timers
  BY <1>1 DEF Worlds
<1>. HIDE DEF t
<1>7. Sound(Rendered(t)) /\ Container(t, PageOf[t.state.current])
  BY <1>2, <1>5, RenderedSettled DEF Container, Settled, Known
<1>8. t.state.search = s.state.search
  BY <1>2, <1>5
<1>9. Going(Rendered(t), asked, overlapped)
  BY <1>5, <1>6, <1>7, <1>8, RenderedFollows
<1>. QED  BY <1>3, <1>9

-----------------------------------------------------------------------------
(* The table of contents.                                                  *)

LEMMA FirstForward ==
  ASSUME NEW page
  PROVE  LET fwd == forward_pageid(page)
         IN /\ fwd = None /\ PageLinksFirst => \A k \in After(page) : Toc[k] \notin Pages
            /\ fwd # None => \E j \in After(page) :
                 /\ Toc[j] = fwd /\ fwd \in Pages
                 /\ PageLinksFirst => \A k \in After(page) : k < j => Toc[k] \notin Pages
<1>. DEFINE S == {k \in After(page) :
                    Toc[k] \in Pages /\ PageOf[Toc[k]] # (IF k = 1 THEN TOP_ID ELSE PageOf[Toc[k - 1]])}
            fwd == forward_pageid(page)
<1>1. DOMAIN Toc = 1 .. Len(Toc) /\ Len(Toc) \in Nat /\ After(page) \in SUBSET (DOMAIN Toc)
  BY InfoJsAssumption DEF After
<1>2. ASSUME PageLinksFirst, NEW k \in After(page), Toc[k] \in Pages
      PROVE  k \in S
  <2>1. k \in DOMAIN Toc /\ Toc[k] \in Pages /\ PageOf[Toc[k]] = Toc[k] /\ Toc[k] # TOP_ID
    BY <1>1, <1>2, InfoJsAssumption DEF AllPages
  <2>2. k # 1 => k - 1 \in DOMAIN Toc /\ k - 1 < k
    BY <1>1, <2>1
  <2>3. k # 1 => PageOf[Toc[k - 1]] # Toc[k]
    BY <1>2, <2>1, <2>2 DEF PageLinksFirst
  <2>. QED  BY <2>1, <2>3
<1>3. fwd = IF S = {} THEN None ELSE Toc[CHOOSE k \in S : \A j \in S : k <= j]
  BY DEF forward_pageid
<1>4. S \in SUBSET Nat
  BY <1>1
<1>5. \A k \in S : k \in After(page) /\ Toc[k] \in Pages
  OBVIOUS
<1>. HIDE DEF S, fwd
<1>6. CASE S = {}
  <2>1. fwd = None
    BY <1>3, <1>6
  <2>2. PageLinksFirst => \A k \in After(page) : Toc[k] \notin Pages
    BY <1>2, <1>6
  <2>. QED  BY <2>1, <2>2 DEF fwd
<1>7. CASE S # {}
  <2>4. \E m \in S : \A j \in S : m <= j
    BY <1>4, <1>7, LeastElement
  <2>. DEFINE m == CHOOSE k \in S : \A j \in S : k <= j
  <2>5. m \in S /\ \A j \in S : m <= j
    BY <2>4
  <2>6. fwd = Toc[m]
    BY <1>3, <1>7
  <2>. HIDE DEF m
  <2>7. fwd \in Pages /\ fwd # None
    BY <1>5, <2>5, <2>6, InfoJsAssumption DEF Linkids, AllPages
  <2>8. ASSUME PageLinksFirst, NEW k \in After(page), k < m, Toc[k] \in Pages
        PROVE  FALSE
    <3>1. k \in S /\ k \in Nat /\ m \in Nat
      BY <1>2, <1>4, <2>5, <2>8
    <3>. QED  BY <2>5, <2>8, <3>1
  <2>. QED  BY <1>5, <2>5, <2>6, <2>7, <2>8 DEF fwd
<1>. QED  BY <1>6, <1>7

(* The next page of a search that has passed no match before. *)
Reached(s, page, asked) ==
  \/ page = asked
  \/ \E j \in After(asked) : Toc[j] = page /\ page \in Pages /\ NoMatchBefore(s, asked, j)

LEMMA NextPage ==
  ASSUME NEW s, NEW asked, NEW page, Reached(s, page, asked), Searched(s, page, asked)
  PROVE  LET fwd == forward_pageid(page)
         IN /\ fwd = None => NoMatchBefore(s, asked, Len(Toc) + 1)
            /\ fwd # None => \E j \in After(asked) :
                 Toc[j] = fwd /\ fwd \in Pages /\ NoMatchBefore(s, asked, j)
<1>. DEFINE fwd == forward_pageid(page)
            regexp == s.state.search.regexp
<1>1. /\ DOMAIN Toc = 1 .. Len(Toc) /\ Len(Toc) \in Nat
      /\ After(asked) \in SUBSET (DOMAIN Toc) /\ After(page) \in SUBSET (DOMAIN Toc)
  BY InfoJsAssumption DEF After
(* What comes after the page comes after the one that was asked for, and   *)
(* what lies between the two has no match.                                 *)
<1>2. /\ After(page) \in SUBSET After(asked)
      /\ PageLinksFirst =>
           \A k \in After(asked) :
             k \in After(page) \/ Toc[k] \notin Pages \/ Matches[Toc[k]][regexp] = 0
  <2>1. CASE page = asked
    BY <2>1
  <2>2. CASE page # asked
    <3>1. PICK j \in After(asked) : Toc[j] = page /\ page \in Pages /\ NoMatchBefore(s, asked, j)
      BY <2>2 DEF Reached
    <3>2. Matches[page][regexp] = 0
      BY <2>2 DEF Searched
    <3>3. page # TOP_ID
      BY <3>1, InfoJsAssumption
    <3>4. j \in DOMAIN Toc /\ \A i \in DOMAIN Toc : Toc[i] = page => i = j
      BY <1>1, <3>1, InfoJsAssumption
    <3>5. After(page) = {k \in DOMAIN Toc : j < k}
      BY <3>1, <3>3, <3>4 DEF After
    <3>6. asked = TOP_ID \/ \E i \in DOMAIN Toc : i < j /\ Toc[i] = asked
      BY <3>1 DEF After
    <3>7. \A k \in DOMAIN Toc : j < k => k \in After(asked)
      BY <1>1, <3>4, <3>6 DEF After
    <3>8. ASSUME PageLinksFirst, NEW k \in After(asked), k \notin After(page), Toc[k] \in Pages
          PROVE  Matches[Toc[k]][regexp] = 0
      <4>1. k < j \/ k = j
        BY <1>1, <3>4, <3>5, <3>8
      <4>. QED  BY <3>1, <3>2, <3>8, <4>1 DEF NoMatchBefore
    <3>. QED  BY <3>5, <3>7, <3>8
  <2>. QED  BY <2>1, <2>2
<1>3. /\ fwd = None /\ PageLinksFirst => \A k \in After(page) : Toc[k] \notin Pages
      /\ fwd # None => \E j \in After(page) :
           /\ Toc[j] = fwd /\ fwd \in Pages
           /\ PageLinksFirst => \A k \in After(page) : k < j => Toc[k] \notin Pages
  BY FirstForward
<1>. HIDE DEF fwd
<1>4. fwd = None => NoMatchBefore(s, asked, Len(Toc) + 1)
  BY <1>2, <1>3 DEF NoMatchBefore
<1>5. ASSUME fwd # None
      PROVE  \E j \in After(asked) : Toc[j] = fwd /\ fwd \in Pages /\ NoMatchBefore(s, asked, j)
  <2>1. PICK j \in After(page) : /\ Toc[j] = fwd /\ fwd \in Pages
                                 /\ PageLinksFirst =>
                                      \A k \in After(page) : k < j => Toc[k] \notin Pages
    BY <1>3, <1>5
  <2>2. NoMatchBefore(s, asked, j)
    BY <1>2, <2>1 DEF NoMatchBefore
  <2>. QED  BY <1>2, <2>1, <2>2
<1>. QED  BY <1>4, <1>5 DEF fwd

-----------------------------------------------------------------------------
(* The search itself.                                                      *)

(* A state with another search, rendered: a timer is set when the search   *)
(* is ready, and a page that is left will lose its highlight.              *)
Changed(s, st) == [[s EXCEPT !.state = st] EXCEPT !.pages.search_seen = FALSE]

LEMMA ChangedRendered ==
  ASSUME NEW s, Settled(s), Loading(s.frame), NEW st \in State,
         st.loaded_nodes = s.state.loaded_nodes, Container(s, PageOf[st.current])
  PROVE  LET r == Rendered(Changed(s, st))
         IN /\ r.state = st /\ r.inbox = s.inbox
            /\ FramesGrow(s.frame, r.frame) /\ s.frame \in Frames /\ r.frame \in Frames
            /\ r.timers = IF st.search.status = "ready"
                          THEN Append(s.timers, [page |-> st.search.page,
                                                 regexp |-> st.search.regexp])
                          ELSE s.timers
            /\ Loading(r.frame) /\ Seen(r)
            /\ st.current # s.state.current =>
                 UnmarkSent(s.frame, r.frame, PageOf[s.state.current])
<1>. DEFINE t == [s EXCEPT !.state = st]
            u == Changed(s, st)
            r == Rendered(u)
<1>1. s.state \in State /\ s \in Worlds /\ Sound(s) /\ s.pages \in Remembered
  BY DEF Settled, Sound, Worlds
<1>3. u = [t EXCEPT !.pages.search_seen = FALSE]
  BY DEF Changed
<1>4. Sound(t) /\ t.state = st
  BY <1>1, OtherState
<1>5. t.pages = s.pages /\ t.frame = s.frame /\ t.inbox = s.inbox /\ t.timers = s.timers
  BY <1>1 DEF Worlds
<1>. HIDE DEF t, u
<1>6. Sound(u) /\ u.state = st
  BY <1>3, <1>4, SearchNotSeen
<1>7. /\ u.frame = s.frame /\ u.inbox = s.inbox /\ u.timers = s.timers /\ ~u.pages.search_seen
      /\ u.pages.prev_id = s.state.current
  <2>1. t \in Worlds
    BY <1>4 DEF Sound
  <2>. QED  BY <1>1, <1>3, <1>5, <2>1 DEF Worlds, Remembered, Settled, InStep
<1>8. Sound(r) /\ Container(u, PageOf[u.state.current])
  BY <1>6, RenderedSettled DEF Container
<1>9. RenderedFrom(u, r)
  BY <1>6, <1>8, RenderedGrows
<1>. HIDE DEF r
<1>10. Started(u) = IF st.search.status = "ready"
                    THEN Append(s.timers, [page |-> st.search.page, regexp |-> st.search.regexp])
                    ELSE s.timers
  BY <1>6, <1>7 DEF Started
<1>11. /\ s.frame \in Frames /\ r.frame \in Frames
       /\ FramesGrow(s.frame, r.frame) /\ r.state = st /\ r.inbox = s.inbox
       /\ r.timers = Started(u) /\ Seen(r)
       /\ st.current # s.state.current =>
            UnmarkSent(s.frame, r.frame, PageOf[s.state.current])
  BY <1>1, <1>6, <1>7, <1>8, <1>9, SoundFields DEF RenderedFrom
<1>12. Loading(r.frame)
  BY <1>11, LoadingGrown
<1>. QED  BY <1>10, <1>11, <1>12 DEF r, u

LEMMA SearchingRendered ==
  ASSUME NEW s, Settled(s), Loading(s.frame), NEW x \in SearchState
  PROVE  LET r == Rendered(Searching(s, x))
         IN /\ r.state = [s.state EXCEPT !.search = x] /\ r.inbox = s.inbox
            /\ FramesGrow(s.frame, r.frame) /\ s.frame \in Frames /\ r.frame \in Frames
            /\ r.timers = IF x.status = "ready"
                          THEN Append(s.timers, [page |-> x.page, regexp |-> x.regexp])
                          ELSE s.timers
            /\ Loading(r.frame) /\ Seen(r)
<1>. DEFINE st == [s.state EXCEPT !.search = x]
<1>1. s.state \in State
  BY DEF Settled, Sound, Worlds
<1>2. /\ st \in State /\ st.current = s.state.current /\ st.search = x
      /\ st.loaded_nodes = s.state.loaded_nodes
  BY <1>1 DEF State
<1>3. Searching(s, x) = Changed(s, st)
  BY DEF Searching, Changed
<1>4. Container(s, PageOf[st.current])
  BY <1>2 DEF Settled, Known
<1>. HIDE DEF st
<1>5. LET r == Rendered(Changed(s, st))
      IN /\ r.state = st /\ r.inbox = s.inbox
         /\ FramesGrow(s.frame, r.frame) /\ s.frame \in Frames /\ r.frame \in Frames
         /\ r.timers = IF st.search.status = "ready"
                       THEN Append(s.timers, [page |-> st.search.page,
                                              regexp |-> st.search.regexp])
                       ELSE s.timers
         /\ Loading(r.frame) /\ Seen(r)
  BY <1>2, <1>4, ChangedRendered
<1>. QED  BY <1>2, <1>3, <1>5 DEF st

LEMMA NoSearchGrown ==
  ASSUME NEW f \in Frames, NEW g \in Frames, FramesGrow(f, g),
         \A p \in Pages : NoSearch(f[p])
  PROVE  \A p \in Pages : NoSearch(g[p])
BY FramesGrowFollow DEF FrameFollows

LEMMA SearchInitGoing ==
  ASSUME NEW s, Settled(s), NEW asked, NEW o, NEW overlapped, Going(s, asked, o),
         ~overlapped => ~o /\ s.state.search.status = "done",
         NEW e \in Regexps
  PROVE  Going(search_init(s, e), PageOf[s.state.current], overlapped)
<1>. DEFINE page == PageOf[s.state.current]
            x == [regexp |-> e, status |-> "ready", found |-> FALSE, page |-> page]
            r == Rendered(Searching(s, x))
<1>1. s.frame \in Frames /\ page \in AllPages /\ s.state \in State
  BY SoundFields DEF Settled
<1>. HIDE DEF page
<1>2. x \in SearchState
  BY <1>1 DEF SearchState, Expressions
<1>3. search_init(s, e) = r
  BY DEF search_init, Searching, page
<1>5. /\ x.status = "ready" /\ x.page = page /\ x.regexp = e /\ ~x.found
  OBVIOUS
<1>. HIDE DEF x
<1>6. /\ r.state = [s.state EXCEPT !.search = x] /\ r.inbox = s.inbox
      /\ FramesGrow(s.frame, r.frame) /\ r.frame \in Frames
      /\ r.timers = Append(s.timers, [page |-> page, regexp |-> e])
      /\ Loading(r.frame) /\ Seen(r)
  BY <1>2, <1>5, SearchingRendered DEF Going
<1>. HIDE DEF r
<1>7. r.state.search = x /\ r.state.current = s.state.current
  BY <1>1, <1>6 DEF State
<1>8. ASSUME ~overlapped
      PROVE  Follows(r, page)
  <2>1. AtRest(s) /\ MarksEnd(s, asked)
    BY <1>8, DoneAtRest DEF Going, Follows
  <2>2. \A p \in Pages : NoSearch(r.frame[p]) /\ FrameFollows(s.frame[p], r.frame[p])
    BY <1>1, <1>6, <2>1, NoSearchGrown, FramesGrowFollow DEF AtRest
  <2>3. AtTimer(r)
    BY <1>5, <1>6, <1>7, <2>1, <2>2 DEF AtTimer, AtRest, NoAnswer
  <2>4. OneAtATime(r, page)
    BY <1>5, <1>7, <2>3 DEF OneAtATime
  <2>5. Passed(r, page)
    BY <1>1, <1>5, <1>7 DEF Passed
  <2>6. ASSUME NEW p \in Pages, r.frame[p].mark # None
        PROVE  MarkEnds(r, p, page)
    <3>1. /\ MarkEnds(s, p, asked)
          /\ UnmarkFirst(s.frame[p].mail) => UnmarkFirst(r.frame[p].mail)
          /\ UnmarkIn(s.frame[p].mail) => UnmarkIn(r.frame[p].mail)
      BY <2>1, <2>2, <2>6 DEF FrameFollows, MarksEnd
    <3>2. ~JustFound(s, p)
      BY <2>1, KindsDiffer DEF JustFound, OneOf, AtRest, NoAnswer, NoneOf
    <3>3. Shown(r, p) \/ UnmarkIn(r.frame[p].mail)
      BY <1>7, <3>1, <3>2 DEF MarkEnds, Shown
    <3>4. UnmarkFirst(r.frame[p].mail) \/ p = page
      BY <1>8, <3>1, <3>2 DEF MarkEnds, Shown, page
    <3>. QED  BY <1>5, <1>7, <3>3, <3>4 DEF MarkEnds
  <2>. QED  BY <2>4, <2>5, <2>6 DEF Follows, MarksEnd
<1>. QED  BY <1>3, <1>6, <1>8 DEF Going, page

(* An answer has come: what holds when it has been taken from the inbox. *)
Answered(s, found, asked) ==
  LET page == s.state.search.page
  IN /\ AtRest(s) /\ s.state.search.status # "done" /\ Passed(s, asked)
     /\ ~found => Searched(s, page, asked)
     /\ \A p \in Pages : s.frame[p].mark # None =>
          /\ UnmarkFirst(s.frame[p].mail) \/ (found /\ p = page)
          /\ Shown(s, p) \/ UnmarkIn(s.frame[p].mail) \/ (found /\ p = page)

LEMMA FoundGoing ==
  ASSUME NEW s, Settled(s), Loading(s.frame), NEW asked, NEW overlapped,
         ~overlapped => Answered(s, TRUE, asked)
  PROVE  Going(search_result(s, TRUE), asked, overlapped)
<1>. DEFINE page == s.state.search.page
            x == [s.state.search EXCEPT !.status = "done", !.found = TRUE]
            st == [s.state EXCEPT !.search = x, !.current = page, !.history = "pushState",
                                  !.highlight = s.state.search.regexp]
            v == [s EXCEPT !.pages.search_seen = FALSE]
            w == [v EXCEPT !.state.search.status = "done", !.state.search.found = TRUE,
                           !.state.current = page, !.state.history = "pushState",
                           !.state.highlight = s.state.search.regexp]
            u == Changed(s, st)
            r == Rendered(u)
<1>1. s \in Worlds /\ Sound(s) /\ s.state \in State /\ s.state.search \in SearchState
  BY SoundFields DEF Settled, Sound
<1>2. search_result(s, TRUE) = Rendered(w)
  BY DEF search_result
<1>3. w = u
  <2>. DEFINE y == [s.state EXCEPT !.search.status = "done", !.search.found = TRUE,
                                   !.current = page, !.history = "pushState",
                                   !.highlight = s.state.search.regexp]
  <2>1. y = st
    OBVIOUS
  <2>2. v.state = s.state /\ v \in Worlds
    BY <1>1, SearchNotSeen DEF Sound
  <2>3. w = [v EXCEPT !.state = y]
    <3>. DEFINE z == [v.state EXCEPT !.search.status = "done", !.search.found = TRUE,
                                     !.current = page, !.history = "pushState",
                                     !.highlight = s.state.search.regexp]
    <3>. HIDE DEF v, page
    <3>1. w = [v EXCEPT !.state = z]
      OBVIOUS
    <3>2. z = y
      BY <2>2
    <3>. QED  BY <3>1, <3>2
  <2>4. u = [v EXCEPT !.state = st]
    BY DEF Changed
  <2>. QED  BY <2>1, <2>3, <2>4
<1>4. /\ x \in SearchState /\ x.page = page /\ x.status = "done" /\ x.found
      /\ x.regexp = s.state.search.regexp
      /\ page \in Linkids /\ page \in AllPages /\ s.state.search.regexp \in Expressions
  BY <1>1 DEF SearchState, Linkids
<1>. HIDE DEF x, w
<1>5. /\ st \in State /\ st.current = page /\ st.search = x
      /\ st.loaded_nodes = s.state.loaded_nodes
  BY <1>1, <1>4 DEF State, Modes
<1>6. PageOf[page] = page
  BY <1>4, InfoJsAssumption
<1>7. Container(s, PageOf[st.current])
  BY <1>5, <1>6 DEF Settled, Known
<1>. HIDE DEF st
<1>8. /\ r.state = st /\ r.inbox = s.inbox
      /\ FramesGrow(s.frame, r.frame) /\ s.frame \in Frames /\ r.frame \in Frames
      /\ r.timers = s.timers
      /\ Loading(r.frame) /\ Seen(r)
      /\ st.current # s.state.current =>
           UnmarkSent(s.frame, r.frame, PageOf[s.state.current])
  BY <1>4, <1>5, <1>7, ChangedRendered
<1>. HIDE DEF r
<1>9. ASSUME ~overlapped
      PROVE  Follows(r, asked)
  <2>1. Answered(s, TRUE, asked)
    BY <1>9
  <2>2. \A p \in Pages : NoSearch(r.frame[p]) /\ FrameFollows(s.frame[p], r.frame[p])
    BY <1>8, <2>1, NoSearchGrown, FramesGrowFollow DEF Answered, AtRest
  <2>3. AtRest(r)
    BY <1>8, <2>1, <2>2 DEF Answered, AtRest, NoAnswer
  <2>4. Passed(r, asked)
    <3>1. /\ Passed(s, asked) /\ s.state.search.status # "done"
          /\ r.state.search.status = "done" /\ r.state.search.page = page
          /\ r.state.search.regexp = s.state.search.regexp /\ r.state.search.found
      BY <1>4, <1>5, <1>8, <2>1 DEF Answered
    <3>2. page # asked => \E j \in After(asked) : Toc[j] = page /\ NoMatchBefore(s, asked, j)
      BY <3>1 DEF Passed
    <3>3. \A j \in After(asked) : j \in DOMAIN Toc
      BY DEF After
    <3>4. \A j : NoMatchBefore(s, asked, j) => NoMatchBefore(r, asked, j)
      BY <3>1 DEF NoMatchBefore
    <3>. QED  BY <3>1, <3>2, <3>3, <3>4 DEF Passed
  <2>5. ASSUME NEW p \in Pages, r.frame[p].mark # None
        PROVE  MarkEnds(r, p, asked)
    <3>1. /\ s.frame[p].mark # None
          /\ UnmarkFirst(s.frame[p].mail) => UnmarkFirst(r.frame[p].mail)
          /\ UnmarkIn(s.frame[p].mail) => UnmarkIn(r.frame[p].mail)
      BY <2>2, <2>5 DEF FrameFollows
    <3>2. /\ UnmarkFirst(s.frame[p].mail) \/ p = page
          /\ Shown(s, p) \/ UnmarkIn(s.frame[p].mail) \/ p = page
      BY <2>1, <3>1 DEF Answered
    <3>3. p = page => Shown(r, p)
      BY <1>5, <1>6, <1>8 DEF Shown
    <3>4. Shown(s, p) /\ ~Shown(r, p) => UnmarkIn(r.frame[p].mail)
      <4>1. s.frame[p].phase = "ready"
        BY <3>1 DEF Loading
      <4>. QED  BY <1>8, <4>1 DEF UnmarkSent, Shown
    <3>5. Shown(r, p) \/ UnmarkIn(r.frame[p].mail)
      BY <3>1, <3>2, <3>3, <3>4
    <3>6. UnmarkFirst(r.frame[p].mail) \/ Shown(r, p)
      BY <3>1, <3>2, <3>3
    <3>7. r.state.search.status = "done"
      BY <1>4, <1>5, <1>8
    <3>. QED  BY <3>5, <3>6, <3>7 DEF MarkEnds
  <2>. QED  BY <2>3, <2>4, <2>5 DEF Follows, OneAtATime, MarksEnd
<1>. QED  BY <1>2, <1>3, <1>8, <1>9 DEF Going, r

(* The search has failed in a page: highlights, when another is searched   *)
(* or none.                                                                *)
LEMMA NotFoundMarks ==
  ASSUME NEW s, NEW r, NEW asked, Answered(s, FALSE, asked),
         \A p \in Pages : NoSearch(r.frame[p]) /\ FrameFollows(s.frame[p], r.frame[p]),
         r.state.current = s.state.current
  PROVE  MarksEnd(r, asked)
<1>. SUFFICES ASSUME NEW p \in Pages, r.frame[p].mark # None
              PROVE  MarkEnds(r, p, asked)
  BY DEF MarksEnd
<1>1. /\ s.frame[p].mark # None
      /\ UnmarkFirst(s.frame[p].mail) => UnmarkFirst(r.frame[p].mail)
      /\ UnmarkIn(s.frame[p].mail) => UnmarkIn(r.frame[p].mail)
  BY DEF FrameFollows
<1>2. UnmarkFirst(s.frame[p].mail) /\ UnmarkIn(s.frame[p].mail)
  BY <1>1 DEF Answered, UnmarkFirst, UnmarkIn
<1>. QED  BY <1>1, <1>2 DEF MarkEnds

LEMMA NotFoundGoing ==
  ASSUME NEW s, Settled(s), Loading(s.frame), Seen(s),
         NEW asked, NEW overlapped,
         ~overlapped => Answered(s, FALSE, asked)
  PROVE  Going(search_result(s, FALSE), asked, overlapped)
<1>. DEFINE page == s.state.search.page
            fwd == forward_pageid(page)
<1>1. /\ s \in Worlds /\ Sound(s) /\ s.state \in State /\ s.state.search \in SearchState
      /\ s.frame \in Frames
  BY SoundFields DEF Settled, Sound
<1>2. ASSUME ~overlapped
      PROVE  /\ fwd = None => NoMatchBefore(s, asked, Len(Toc) + 1)
             /\ fwd # None => \E j \in After(asked) :
                  Toc[j] = fwd /\ fwd \in Pages /\ NoMatchBefore(s, asked, j)
  <2>1. Reached(s, page, asked) /\ Searched(s, page, asked)
    BY <1>2 DEF Answered, Passed, Reached
  <2>. QED  BY <2>1, NextPage
<1>3. CASE page \notin s.state.loaded_nodes
  <2>1. search_result(s, FALSE) = s
    BY <1>3 DEF search_result
  <2>2. ASSUME ~overlapped
        PROVE  Follows(s, asked)
    <3>1. Answered(s, FALSE, asked)
      BY <2>2
    <3>2. \A p \in Pages : NoSearch(s.frame[p]) /\ FrameFollows(s.frame[p], s.frame[p])
      BY <3>1 DEF Answered, AtRest, FrameFollows
    <3>. QED  BY <3>1, <3>2, NotFoundMarks DEF Answered, Follows, OneAtATime
  <2>. QED  BY <2>1, <2>2 DEF Going
<1>4. CASE page \in s.state.loaded_nodes /\ fwd = None
  <2>. DEFINE x == [s.state.search EXCEPT !.status = "done"]
              st == [s.state EXCEPT !.search = x, !.highlight = None]
              r == Rendered(Changed(s, st))
  <2>1. /\ x \in SearchState /\ x.status = "done" /\ x.page = page
        /\ x.found = s.state.search.found /\ x.regexp = s.state.search.regexp
    BY <1>1 DEF SearchState
  <2>2. search_result(s, FALSE) = r
    BY <1>4 DEF search_result, Changed
  <2>. HIDE DEF x
  <2>3. /\ st \in State /\ st.current = s.state.current /\ st.search = x
        /\ st.loaded_nodes = s.state.loaded_nodes
    BY <1>1, <2>1 DEF State, Expressions
  <2>. HIDE DEF st
  <2>4. Container(s, PageOf[st.current])
    BY <2>3 DEF Settled, Known
  <2>5. /\ r.state = st /\ r.inbox = s.inbox
        /\ FramesGrow(s.frame, r.frame) /\ s.frame \in Frames /\ r.frame \in Frames
        /\ r.timers = s.timers
        /\ Loading(r.frame) /\ Seen(r)
    BY <2>1, <2>3, <2>4, ChangedRendered
  <2>. HIDE DEF r
  <2>6. ASSUME ~overlapped
        PROVE  Follows(r, asked)
    <3>1. Answered(s, FALSE, asked)
      BY <2>6
    <3>2. \A p \in Pages : NoSearch(r.frame[p]) /\ FrameFollows(s.frame[p], r.frame[p])
      BY <2>5, <3>1, NoSearchGrown, FramesGrowFollow DEF Answered, AtRest
    <3>3. AtRest(r)
      BY <2>5, <3>1, <3>2 DEF Answered, AtRest, NoAnswer
    <3>4. MarksEnd(r, asked)
      BY <2>3, <2>5, <3>1, <3>2, NotFoundMarks
    <3>5. NoMatchBefore(r, asked, Len(Toc) + 1)
      BY <1>2, <1>4, <2>1, <2>3, <2>5, <2>6 DEF NoMatchBefore
    <3>6. ~r.state.search.found
      BY <2>1, <2>3, <2>5, <3>1 DEF Answered, Passed
    <3>7. Passed(r, asked)
      BY <2>1, <2>3, <2>5, <3>5, <3>6 DEF Passed
    <3>. QED  BY <3>3, <3>4, <3>7 DEF Follows, OneAtATime
  <2>. QED  BY <2>2, <2>5, <2>6 DEF Going
<1>5. CASE page \in s.state.loaded_nodes /\ fwd # None
  <2>. DEFINE x == [s.state.search EXCEPT !.status = "ready", !.page = fwd]
              r == Rendered(Searching(s, x))
  <2>1. \E k \in DOMAIN Toc : Toc[k] = fwd /\ Toc[k] \in Pages
    BY <1>5, ForwardPage
  <2>2. search_result(s, FALSE) = r
    BY <1>5 DEF search_result, Searching
  <2>. HIDE DEF fwd
  <2>3. /\ x \in SearchState /\ x.status = "ready" /\ x.page = fwd
        /\ x.found = s.state.search.found /\ x.regexp = s.state.search.regexp
    BY <1>1, <2>1 DEF SearchState, AllPages
  <2>. HIDE DEF x
  <2>4. /\ r.state = [s.state EXCEPT !.search = x] /\ r.inbox = s.inbox
        /\ FramesGrow(s.frame, r.frame) /\ r.frame \in Frames
        /\ r.timers = Append(s.timers, [page |-> x.page, regexp |-> x.regexp])
        /\ Loading(r.frame) /\ Seen(r)
    <3>1. x \in SearchState
      BY <2>3
    <3>2. /\ r.state = [s.state EXCEPT !.search = x] /\ r.inbox = s.inbox
          /\ FramesGrow(s.frame, r.frame) /\ r.frame \in Frames
          /\ r.timers = IF x.status = "ready"
                        THEN Append(s.timers, [page |-> x.page, regexp |-> x.regexp])
                        ELSE s.timers
          /\ Loading(r.frame) /\ Seen(r)
      BY <3>1, SearchingRendered
    <3>. QED  BY <2>3, <3>2
  <2>. HIDE DEF r
  <2>5. r.state.search = x /\ r.state.current = s.state.current
    BY <1>1, <2>4 DEF State
  <2>6. ASSUME ~overlapped
        PROVE  Follows(r, asked)
    <3>1. Answered(s, FALSE, asked)
      BY <2>6
    <3>2. \A p \in Pages : NoSearch(r.frame[p]) /\ FrameFollows(s.frame[p], r.frame[p])
      BY <1>1, <2>4, <3>1, NoSearchGrown, FramesGrowFollow DEF Answered, AtRest
    <3>3. AtTimer(r)
      BY <2>4, <2>5, <3>1, <3>2 DEF Answered, AtRest, AtTimer, NoAnswer
    <3>4. MarksEnd(r, asked)
      BY <2>5, <3>1, <3>2, NotFoundMarks
    <3>5. /\ s.state.search.regexp \in Regexps /\ asked \in AllPages
          /\ ~s.state.search.found
      BY <3>1 DEF Answered, Passed
    <3>6. \E j \in After(asked) : Toc[j] = fwd /\ fwd \in Pages /\ NoMatchBefore(s, asked, j)
      BY <1>2, <1>5, <2>6
    <3>7. \A j : NoMatchBefore(s, asked, j) => NoMatchBefore(r, asked, j)
      BY <2>3, <2>5 DEF NoMatchBefore
    <3>8. Passed(r, asked)
      BY <2>3, <2>5, <3>5, <3>6, <3>7 DEF Passed
    <3>. QED  BY <2>3, <2>5, <3>3, <3>4, <3>8 DEF Follows, OneAtATime
  <2>. QED  BY <2>2, <2>4, <2>6 DEF Going
<1>. QED  BY <1>3, <1>4, <1>5

LEMMA SearchResultGoing ==
  ASSUME NEW s, Settled(s), Loading(s.frame), Seen(s),
         NEW asked, NEW overlapped, NEW found \in BOOLEAN,
         ~overlapped => Answered(s, found, asked)
  PROVE  Going(search_result(s, found), asked, overlapped)
<1>1. CASE found = TRUE
  BY <1>1, FoundGoing
<1>2. CASE found = FALSE
  BY <1>2, NotFoundGoing
<1>. QED  BY <1>1, <1>2

-----------------------------------------------------------------------------
(* The steps.                                                              *)

GoingOn == Going(World, user.asked, user.overlapped)

LEMMA ContentLoadedGoing ==
  ASSUME NEW p \in Pages, Sound(World), Settled(World), GoingOn, FrameContentLoaded(p)
  PROVE  GoingOn'
<1>1. /\ frame \in Frames /\ inbox \in Seq(Answer) /\ p \in AllPages
      /\ state.search.regexp \in Expressions
  BY WorldFields, SoundFields DEF AllPages, SearchState
<1>2. /\ frame[p].phase = "loading" /\ frame' = [frame EXCEPT ![p].phase = "dom"]
      /\ inbox' = Append(inbox, CacheLinks(p))
      /\ state' = state /\ pages' = pages /\ timers' = timers /\ user' = user
  BY DEF FrameContentLoaded
<1>3. /\ \A q \in AllPages : q # p => frame'[q] = frame[q]
      /\ frame'[p].phase = "dom" /\ frame'[p].mail = frame[p].mail
      /\ frame'[p].waiting = frame[p].waiting /\ frame'[p].mark = frame[p].mark
  BY <1>1, <1>2 DEF Frames, Frame
<1>4. \A q \in Pages : FrameFollows(frame[q], frame'[q])
  BY <1>3 DEF FrameFollows, NoSearch, OneSearch, AllPages
<1>5. Loading(frame')
  BY <1>2, <1>3, WorldFields DEF GoingOn, Going, Loading, AllPages
<1>6. SameAnswers(inbox, inbox')
  <2>1. CacheLinks(p) \in Answer /\ CacheLinks(p).kind # "search-result"
        /\ \A b : Result(b).kind = "search-result"
    BY KindsDiffer DEF Answer
  <2>. QED  BY <1>1, <1>2, <2>1, AppendedQueue DEF SameAnswers
<1>7. /\ World.state = state /\ World.pages = pages /\ World.frame = frame
      /\ World.inbox = inbox /\ World.timers = timers
      /\ World'.state = state /\ World'.pages = pages /\ World'.frame = frame'
      /\ World'.inbox = inbox' /\ World'.timers = timers
  BY <1>2 DEF World
<1>8. LeftUnmarked(World, World')
  BY <1>7 DEF LeftUnmarked, Shown
<1>9. ASSUME ~user.overlapped
      PROVE  Follows(World', user.asked)
  BY <1>1, <1>4, <1>6, <1>7, <1>8, <1>9, FollowsKept DEF GoingOn, Going
<1>. QED  BY <1>2, <1>5, <1>7, <1>9 DEF GoingOn, Going, Seen

LEMMA OtherActionGoing ==
  ASSUME Sound(World), Settled(World), GoingOn, OtherAction
  PROVE  GoingOn'
<1>1. Sound(Rendered(World)) /\ Container(World, PageOf[World.state.current])
  BY RenderedSettled DEF Settled, Known
<1>2. World' = Rendered(World) /\ user' = user
  BY <1>1, BecomesWorld DEF OtherAction
<1>3. Going(Rendered(World), user.asked, user.overlapped)
  BY <1>1, RenderedFollows DEF GoingOn
<1>. QED  BY <1>2, <1>3 DEF GoingOn

LEMMA ClickGoing ==
  ASSUME NEW l \in Linkids, Sound(World), Settled(World), GoingOn, Click(l)
  PROVE  GoingOn'
<1>. DEFINE r == current_url(World, l, "pushState")
            w == [World EXCEPT !.history = history]
<1>1. w = World
  BY DEF World
<1>2. "pushState" \in Modes
  BY DEF Modes
<1>3. Sound(r)
  BY <1>2, CurrentUrl
<1>. HIDE DEF w
<1>4. Going(current_url(w, l, "pushState"), user.asked, user.overlapped)
  BY <1>1, <1>2, CurrentUrlGoing DEF GoingOn, w
<1>5. Becomes(r) /\ user'.asked = user.asked /\ user'.overlapped = user.overlapped
  <2>1. Becomes(r) /\ user' = [user EXCEPT !.commands = @ + 1]
    BY DEF Click, Command
  <2>. HIDE DEF r
  <2>. QED  BY <2>1
<1>. HIDE DEF r
<1>6. World' = r
  BY <1>3, <1>5, BecomesWorld
<1>. QED  BY <1>1, <1>4, <1>5, <1>6 DEF GoingOn, r

LEMMA NavigateGoing ==
  ASSUME NavInToc, NEW l \in Linkids, Sound(World), Settled(World), GoingOn, Navigate(l)
  PROVE  GoingOn'
<1>. DEFINE current == IF PageOf[state.current] = TOP_ID THEN TOP_ID ELSE state.current
            r == navigated(World, l)
<1>1. /\ \/ current \in state.linked /\ l \in Nav[current]
         \/ l \in Neighbours(current)
      /\ Becomes(r) /\ user' = [user EXCEPT !.commands = @ + 1]
  BY DEF Navigate, Command
<1>. HIDE DEF current
<1>2. state.linked \in SUBSET AllPages
  BY WorldFields DEF Sound, Worlds, State
<1>3. Container(World, PageOf[l])
  <2>1. \A k \in DOMAIN Toc : Toc[k] \in state.loaded_nodes
    BY WorldFields DEF Settled, Known
  <2>2. CASE current \in state.linked /\ l \in Nav[current]
    <3>1. PageOf[l] = TOP_ID \/ \E k \in DOMAIN Toc : PageOf[Toc[k]] = PageOf[l]
      BY <1>2, <2>2 DEF NavInToc
    <3>. QED  BY <2>1, <3>1, WorldFields DEF Container
  <2>3. CASE l \in Neighbours(current)
    <3>1. PICK k \in DOMAIN Toc : l = Toc[k]
      BY <2>3 DEF Neighbours
    <3>. QED  BY <2>1, <3>1, WorldFields DEF Container
  <2>. QED  BY <1>1, <2>2, <2>3
<1>4. Sound(r) /\ Going(r, user.asked, user.overlapped)
  BY <1>3, Navigated, NavigatedGoing DEF GoingOn
<1>. HIDE DEF r
<1>5. user'.asked = user.asked /\ user'.overlapped = user.overlapped
  BY <1>1
<1>6. World' = r
  BY <1>1, <1>4, BecomesWorld
<1>. QED  BY <1>4, <1>5, <1>6 DEF GoingOn

LEMMA TraverseGoing ==
  ASSUME NEW step \in {-1, 1}, Sound(World), Settled(World), GoingOn, Traverse(step)
  PROVE  GoingOn'
<1>. DEFINE at == history.at + step
            h == [history EXCEPT !.at = at]
            s == [World EXCEPT !.history.at = at]
            w == [World EXCEPT !.history = h]
            l == history.entries[at]
            r == current_url(s, l, "none")
<1>1. /\ history.entries \in Seq(Linkids) /\ history \in [entries : Seq(Linkids), at : Nat]
      /\ World \in Worlds /\ Delivering(frame)
  BY WorldFields DEF Sound, Worlds
<1>2. at \in 1 .. Len(history.entries) /\ Becomes(r)
      /\ user' = [user EXCEPT !.commands = @ + 1]
  BY <1>1 DEF Traverse, Command
<1>3. l \in Linkids /\ "none" \in Modes
  BY <1>1, <1>2 DEF Modes
<1>. HIDE DEF at
<1>4. h \in [entries : Seq(Linkids), at : Nat] /\ h.at = at /\ h.entries = history.entries
  BY <1>1, <1>2
<1>5. s = w
  BY WorldFields
<1>. HIDE DEF h, s, l
<1>6. w \in Worlds /\ w.history = h /\ w.frame = frame
  BY <1>1, <1>4 DEF Worlds, World
<1>7. Sound(w)
  BY <1>1, <1>2, <1>4, <1>6 DEF Sound
<1>8. Going(current_url(w, l, "none"), user.asked, user.overlapped)
  BY <1>3, <1>7, CurrentUrlGoing DEF GoingOn
<1>9. Sound(r)
  BY <1>3, <1>5, <1>7, CurrentUrl
<1>. HIDE DEF w
<1>10. Going(r, user.asked, user.overlapped)
  BY <1>5, <1>8
<1>. HIDE DEF r
<1>11. user'.asked = user.asked /\ user'.overlapped = user.overlapped
  BY <1>2
<1>12. World' = r
  BY <1>2, <1>9, BecomesWorld
<1>. QED  BY <1>10, <1>11, <1>12 DEF GoingOn

LEMMA SearchGoing ==
  ASSUME NEW e \in Regexps, Sound(World), Settled(World), GoingOn, Search(e)
  PROVE  GoingOn'
<1>. DEFINE r == search_init(World, e)
<1>1. Sound(r)
  BY SearchInit
<1>2. /\ Becomes(r)
      /\ user' = [commands |-> user.commands + 1, asked |-> PageOf[state.current],
                  overlapped |-> user.overlapped \/ UnderWay]
  BY DEF Search
<1>. HIDE DEF r
<1>3. World' = r
  BY <1>1, <1>2, BecomesWorld
<1>4. user'.asked = PageOf[state.current] /\ user'.overlapped = (user.overlapped \/ UnderWay)
  BY <1>2
<1>5. ~(user.overlapped \/ UnderWay) => ~user.overlapped /\ World.state.search.status = "done"
  BY WorldFields DEF UnderWay
<1>6. Going(r, PageOf[World.state.current], user.overlapped \/ UnderWay)
  BY <1>5, SearchInitGoing DEF GoingOn, r
<1>. QED  BY <1>3, <1>4, <1>6, WorldFields DEF GoingOn

(* The page has loaded: what has waited for it becomes its mail. *)
LEMMA LoadedFollows ==
  ASSUME NEW f \in Frame, NEW r \in Frame, NEW g \in Frame,
         f.mark = None, f.mail = << >>,
         r.mark = f.mark, r.waiting = f.waiting, Grows(f.mail, r.mail),
         g.mark = r.mark, g.mail = r.mail \o r.waiting, g.waiting = << >>
  PROVE  FrameFollows(f, g)
<1>1. /\ f.waiting \in Seq(Message) /\ r.mail \in Seq(Message) /\ f.mail \in Seq(Message)
  BY DEF Frame
<1>2. \A kind : NoneOf(<< >>, kind)
  BY DEF NoneOf
<1>3. NoneOf(r.mail, "search")
  BY <1>1, <1>2, GrownQueue
<1>4. \A m : ~OneOf(f.mail, m)
  BY DEF OneOf
<1>5. NoSearch(f) => NoSearch(g)
  BY <1>1, <1>2, <1>3, JoinedQueue DEF NoSearch
<1>6. ASSUME NEW e \in Expressions, OneSearch(f, SearchFor(e))
      PROVE  OneSearch(g, SearchFor(e))
  <2>. DEFINE m == SearchFor(e)
  <2>1. m.kind = "search"
    BY KindsDiffer
  <2>2. OneOf(r.waiting, m)
    BY <1>4, <1>6 DEF OneSearch
  <2>. HIDE DEF m
  <2>3. OneOf(g.mail, m)
    BY <1>1, <1>3, <2>1, <2>2, JoinedQueue
  <2>4. NoneOf(g.waiting, "search")
    BY <1>2
  <2>. QED  BY <2>3, <2>4 DEF OneSearch, m
<1>. QED  BY <1>5, <1>6 DEF FrameFollows

LEMMA LoadedGoing ==
  ASSUME NEW p \in Pages, Sound(World), Settled(World), GoingOn, FrameLoaded(p)
  PROVE  GoingOn'
<1>. DEFINE f == [frame EXCEPT ![p].phase = "ready"]
            t == [World EXCEPT !.frame = f]
            s == Rendered(t)
            m == s.frame[p].mail \o s.frame[p].waiting
            g == [s.frame EXCEPT ![p].mail = m]
            h == [g EXCEPT ![p].waiting = << >>]
            u == [s EXCEPT !.frame = h]
<1>1. /\ frame \in Frames /\ p \in AllPages /\ Delivering(frame) /\ World \in Worlds
      /\ state.search.regexp \in Expressions
      /\ frame[p].phase = "dom" /\ user' = user
  BY WorldFields, SoundFields DEF Sound, AllPages, FrameLoaded, SearchState
<1>2. /\ f \in Frames /\ f[p].phase = "ready" /\ f[p].mail = frame[p].mail
      /\ f[p].waiting = frame[p].waiting /\ f[p].mark = frame[p].mark
      /\ \A q \in AllPages : q # p => f[q] = frame[q]
  <2>1. f \in Frames
    BY <1>1, FrameField DEF Frames
  <2>2. /\ f[p].phase = "ready" /\ f[p].mail = frame[p].mail
        /\ f[p].waiting = frame[p].waiting /\ f[p].mark = frame[p].mark
        /\ \A q \in AllPages : q # p => f[q] = frame[q]
    BY <1>1 DEF Frames, Frame
  <2>. HIDE DEF f
  <2>. QED  BY <2>1, <2>2
<1>3. Becomes(u)
  <2>1. [s EXCEPT !.frame[p].mail = @ \o s.frame[p].waiting, !.frame[p].waiting = << >>] = u
    OBVIOUS
  <2>2. t = [World EXCEPT !.frame[p].phase = "ready"]
    BY WorldFields
  <2>. HIDE DEF t, u
  <2>3. Becomes([s EXCEPT !.frame[p].mail = @ \o s.frame[p].waiting, !.frame[p].waiting = << >>])
    BY <2>2 DEF FrameLoaded
  <2>. QED  BY <2>1, <2>3
<1>. HIDE DEF f
<1>4. Delivering(f) /\ StillReady(frame, f)
  BY <1>1, <1>2 DEF Delivering, StillReady, AllPages
<1>5. Sound(t) /\ Settled(t)
  BY <1>2, <1>4, WorldFields, OtherFrames, SettledFrames DEF Frames
<1>6. /\ t.frame = f /\ t.state = state /\ t.inbox = inbox /\ t.timers = timers
      /\ t.pages = pages
  BY <1>1, WorldFields DEF Worlds
<1>. HIDE DEF t
<1>7. RenderedFrom(t, s) /\ Sound(s)
  BY <1>5, RenderedGrows, RenderedSettled DEF Settled, Known
<1>. HIDE DEF s
<1>8. /\ FramesGrow(f, s.frame) /\ s.inbox = inbox /\ s.state = state /\ Seen(s)
      /\ s.timers = timers
  <2>1. FramesGrow(f, s.frame) /\ s.inbox = inbox /\ s.state = state /\ Seen(s)
        /\ s.timers = Started(t)
    BY <1>6, <1>7 DEF RenderedFrom
  <2>2. Started(t) = timers
    BY <1>6, WorldFields DEF Started, GoingOn, Going, Seen
  <2>. QED  BY <2>1, <2>2
<1>9. s.frame \in Frames /\ s \in Worlds
  BY <1>7, SoundFields DEF Sound
<1>10. m \in Seq(Message)
  BY <1>1, <1>9, FrameFields, ConcatProperties
<1>11. /\ h \in Frames
       /\ h[p].mail = m /\ h[p].waiting = << >> /\ h[p].mark = s.frame[p].mark
       /\ h[p].phase = s.frame[p].phase
       /\ \A q \in AllPages : q # p => h[q] = s.frame[q]
  <2>. HIDE DEF m
  <2>1. g \in Frames
    BY <1>1, <1>9, <1>10, FrameField DEF Frames
  <2>2. /\ g[p].mail = m /\ g[p].mark = s.frame[p].mark /\ g[p].phase = s.frame[p].phase
        /\ \A q \in AllPages : q # p => g[q] = s.frame[q]
    BY <1>1, <1>9 DEF Frames, Frame
  <2>. HIDE DEF g
  <2>3. << >> \in Seq(Message)
    OBVIOUS
  <2>4. h \in Frames
    BY <1>1, <2>1, <2>3, FrameField DEF Frames
  <2>5. /\ h[p].mail = g[p].mail /\ h[p].waiting = << >> /\ h[p].mark = g[p].mark
        /\ h[p].phase = g[p].phase
        /\ \A q \in AllPages : q # p => h[q] = g[q]
    BY <1>1, <2>1 DEF Frames, Frame
  <2>. HIDE DEF h
  <2>. QED  BY <2>2, <2>4, <2>5
<1>. HIDE DEF h
<1>12. /\ state' = state /\ inbox' = inbox /\ timers' = timers /\ frame' = h
       /\ pages' = s.pages
  <2>1. u.state = s.state /\ u.inbox = s.inbox /\ u.timers = s.timers /\ u.frame = h
        /\ u.pages = s.pages
    BY <1>9 DEF Worlds
  <2>. HIDE DEF u
  <2>. QED  BY <1>3, <1>8, <2>1 DEF Becomes
<1>13. /\ FrameGrows(f[p], s.frame[p])
       /\ frame[p].mark = None /\ frame[p].mail = << >>
  BY <1>1, <1>8, WorldFields DEF FramesGrow, GoingOn, Going, Loading
<1>14. FrameFollows(frame[p], h[p])
  <2>1. frame[p] \in Frame /\ s.frame[p] \in Frame /\ h[p] \in Frame
    BY <1>1, <1>9, <1>11 DEF Frames
  <2>2. /\ s.frame[p].mark = frame[p].mark /\ s.frame[p].waiting = frame[p].waiting
        /\ Grows(frame[p].mail, s.frame[p].mail)
    BY <1>2, <1>13 DEF FrameGrows
  <2>. QED  BY <1>11, <1>13, <2>1, <2>2, LoadedFollows
<1>15. \A q \in Pages : FrameFollows(frame[q], h[q])
  <2>. SUFFICES ASSUME NEW q \in Pages, q # p
                PROVE  FrameFollows(frame[q], h[q])
    BY <1>14
  <2>1. q \in AllPages /\ h[q] = s.frame[q] /\ f[q] = frame[q]
    BY <1>2, <1>11 DEF AllPages
  <2>. QED  BY <1>2, <1>8, <1>9, <2>1, FramesGrowFollow
<1>16. Loading(h)
  <2>. SUFFICES ASSUME NEW q \in Pages
                PROVE  IF h[q].phase = "ready" THEN h[q].waiting = << >>
                       ELSE h[q].mark = None /\ h[q].mail = << >>
    BY DEF Loading
  <2>1. CASE q = p
    BY <1>2, <1>11, <1>13, <2>1 DEF FrameGrows
  <2>2. CASE q # p
    <3>1. q \in AllPages /\ h[q] = s.frame[q] /\ f[q] = frame[q]
      BY <1>2, <1>11, <2>2 DEF AllPages
    <3>. QED  BY <1>8, <3>1, WorldFields DEF FramesGrow, FrameGrows, GoingOn, Going, Loading
  <2>. QED  BY <2>1, <2>2
<1>17. /\ World'.state = state /\ World'.pages = s.pages /\ World'.frame = h
       /\ World'.inbox = inbox /\ World'.timers = timers
  BY <1>12 DEF World
<1>18. Seen(World')
  BY <1>8, <1>17 DEF Seen
<1>19. LeftUnmarked(World, World') /\ SameAnswers(World.inbox, World'.inbox)
  BY <1>17, WorldFields, AnswersSame DEF LeftUnmarked, Shown
<1>20. ASSUME ~user.overlapped
       PROVE  Follows(World', user.asked)
  BY <1>1, <1>15, <1>17, <1>19, <1>20, WorldFields, FollowsKept DEF GoingOn, Going
<1>. QED  BY <1>1, <1>16, <1>17, <1>18, <1>20 DEF GoingOn, Going

(* A page takes a message that is no search. *)
LEMMA TakenFollows ==
  ASSUME NEW f \in Frame, NEW g \in Frame, f.mail # << >>, Head(f.mail).kind # "search",
         g.mail = Tail(f.mail), g.waiting = f.waiting,
         g.mark = None \/ (g.mark = f.mark /\ Head(f.mail) # Unmark)
  PROVE  FrameFollows(f, g)
<1>1. f.mail \in Seq(Message)
  BY DEF Frame
<1>2. NoSearch(f) => NoSearch(g)
  BY <1>1, TakenNone DEF NoSearch
<1>3. ASSUME NEW e \in Expressions, OneSearch(f, SearchFor(e))
      PROVE  OneSearch(g, SearchFor(e))
  <2>1. /\ NoneOf(f.mail, "search") => NoneOf(g.mail, "search")
        /\ OneOf(f.mail, SearchFor(e)) => OneOf(g.mail, SearchFor(e))
    BY <1>1, TakenNone, TakenOne, KindsDiffer
  <2>. QED  BY <1>3, <2>1 DEF OneSearch
<1>4. g.mark # None => /\ f.mark = g.mark
                       /\ UnmarkFirst(f.mail) => UnmarkFirst(g.mail)
                       /\ UnmarkIn(f.mail) => UnmarkIn(g.mail)
  BY <1>1, TakenUnmark
<1>. QED  BY <1>2, <1>3, <1>4 DEF FrameFollows

(* What FrameMessage does to the frames, the inbox and the rest. *)
LEMMA MessageTaken ==
  ASSUME NEW p \in Pages, Sound(World), FrameMessage(p)
  PROVE  LET m == Head(frame[p].mail)
             old == frame[p].mark
             nth == IF old # None /\ old.regexp = m.regexp THEN old.nth + 1 ELSE 1
         IN /\ frame[p].mail # << >> /\ m \in Message
            /\ frame' \in Frames
            /\ \A q \in AllPages : q # p => frame'[q] = frame[q]
            /\ frame'[p].phase = frame[p].phase /\ frame'[p].waiting = frame[p].waiting
            /\ frame'[p].mail = Tail(frame[p].mail)
            /\ m.kind = "highlight" => frame'[p].mark = None /\ inbox' = inbox
            /\ m.kind = "search" =>
                 /\ frame'[p].mark = IF nth <= Matches[p][m.regexp]
                                     THEN [regexp |-> m.regexp, nth |-> nth] ELSE None
                 /\ inbox' = Append(inbox, Result(frame'[p].mark # None))
            /\ m.kind \notin {"highlight", "search"} =>
                 frame'[p].mark = frame[p].mark /\ inbox' = inbox
            /\ state' = state /\ pages' = pages /\ timers' = timers /\ user' = user
<1>. DEFINE m == Head(frame[p].mail)
            old == frame[p].mark
            nth == IF old # None /\ old.regexp = m.regexp THEN old.nth + 1 ELSE 1
            new == IF nth <= Matches[p][m.regexp] THEN [regexp |-> m.regexp, nth |-> nth]
                   ELSE None
            f == [frame EXCEPT ![p].mail = Tail(@)]
            s == [World EXCEPT !.frame = f]
            t == Scanned(s, p, m.regexp)
            g == [f EXCEPT ![p].mark = None]
            h == [f EXCEPT ![p].mark = new]
<1>1. /\ p \in AllPages /\ frame \in Frames /\ World \in Worlds
      /\ frame[p].mail # << >> /\ user' = user
      /\ frame[p].mail \in Seq(Message)
  BY WorldFields, SoundFields, FrameFields DEF AllPages, Sound, FrameMessage
<1>2. /\ \A q \in AllPages : q # p => f[q] = frame[q]
      /\ f[p].phase = frame[p].phase /\ f[p].waiting = frame[p].waiting
      /\ f[p].mail = Tail(frame[p].mail) /\ f[p].mark = old
      /\ f \in [AllPages -> Frame] /\ m \in Message
  <2>. DEFINE q == frame[p].mail
              n == Tail(q)
              k == [frame EXCEPT ![p].mail = n]
  <2>1. n \in Seq(Message) /\ m \in Message
    BY <1>1
  <2>2. f = k
    OBVIOUS
  <2>. HIDE DEF n, f
  <2>3. k \in [AllPages -> Frame]
    BY <1>1, <2>1, FrameField DEF Frames
  <2>4. /\ \A i \in AllPages : i # p => k[i] = frame[i]
        /\ k[p].phase = frame[p].phase /\ k[p].waiting = frame[p].waiting
        /\ k[p].mail = n /\ k[p].mark = old
    BY <1>1 DEF Frames, Frame
  <2>. QED  BY <2>1, <2>2, <2>3, <2>4 DEF n
<1>3. s = [World EXCEPT !.frame[p].mail = Tail(@)]
  BY WorldFields
<1>. HIDE DEF f
<1>4. s.frame = f /\ s.state = state /\ s.pages = pages /\ s.inbox = inbox /\ s.timers = timers
  BY <1>1, WorldFields DEF Worlds
<1>5. /\ \A q \in AllPages : q # p => g[q] = f[q]
      /\ g[p].phase = f[p].phase /\ g[p].waiting = f[p].waiting
      /\ g[p].mail = f[p].mail /\ g[p].mark = None
      /\ g \in [AllPages -> Frame]
  <2>1. g \in [AllPages -> Frame]
    BY <1>1, <1>2, FrameField DEF Mark
  <2>2. /\ \A q \in AllPages : q # p => g[q] = f[q]
        /\ g[p].phase = f[p].phase /\ g[p].waiting = f[p].waiting
        /\ g[p].mail = f[p].mail /\ g[p].mark = None
    BY <1>1, <1>2 DEF Frame
  <2>. HIDE DEF g
  <2>. QED  BY <2>1, <2>2
<1>6. CASE m.kind = "highlight"
  <2>. DEFINE v == [s EXCEPT !.frame = g]
  <2>1. v = [s EXCEPT !.frame[p].mark = None]
    BY <1>4
  <2>. HIDE DEF s
  <2>2. Becomes(v)
    BY <1>3, <1>6, <2>1 DEF FrameMessage
  <2>. HIDE DEF g
  <2>3. v.frame = g /\ v.state = state /\ v.pages = pages /\ v.inbox = inbox /\ v.timers = timers
    BY <1>1, <1>4 DEF Worlds, s
  <2>. HIDE DEF v
  <2>4. frame' = g /\ state' = state /\ pages' = pages /\ inbox' = inbox /\ timers' = timers
    BY <2>2, <2>3 DEF Becomes
  <2>. QED  BY <1>1, <1>2, <1>5, <1>6, <2>4 DEF Frames
<1>7. CASE m.kind = "search"
  <2>. DEFINE b == h[p].mark # None
              v == [t EXCEPT !.inbox = Append(@, Result(IsMarked(t, p)))]
  <2>1. m.regexp \in Expressions
    BY <1>2, <1>7 DEF Message, Unmark, ScrollToResult, SearchFor
  <2>2. new \in Mark
    <3>1. old \in Mark
      BY <1>1, FrameFields
    <3>. HIDE DEF old
    <3>2. nth \in Nat
      BY <3>1 DEF Mark
    <3>. HIDE DEF nth
    <3>. QED  BY <2>1, <3>2 DEF Mark
  <2>3. t = [s EXCEPT !.frame = h]
    BY <1>2, <1>4 DEF Scanned
  <2>. HIDE DEF new, t, s
  <2>4. /\ h \in [AllPages -> Frame]
    BY <1>1, <1>2, <2>2, FrameField
  <2>5. /\ \A q \in AllPages : q # p => h[q] = f[q]
        /\ h[p].phase = f[p].phase /\ h[p].waiting = f[p].waiting
        /\ h[p].mail = f[p].mail /\ h[p].mark = new
    BY <1>1, <1>2 DEF Frame
  <2>. HIDE DEF h
  <2>6. t.frame = h /\ t.state = state /\ t.pages = pages /\ t.inbox = inbox /\ t.timers = timers
        /\ IsMarked(t, p) = b
    BY <1>1, <1>4, <2>3 DEF Worlds, s, IsMarked
  <2>7. Becomes(v)
    BY <1>3, <1>7 DEF FrameMessage, t
  <2>8. v.frame = h /\ v.state = state /\ v.pages = pages /\ v.timers = timers
        /\ v.inbox = Append(inbox, Result(b))
    BY <1>1, <2>3, <2>6 DEF Worlds, s
  <2>. HIDE DEF v
  <2>9. /\ frame' = h /\ state' = state /\ pages' = pages /\ timers' = timers
        /\ inbox' = Append(inbox, Result(b))
    BY <2>7, <2>8 DEF Becomes
  <2>. QED  BY <1>1, <1>2, <1>7, <2>4, <2>5, <2>9 DEF Frames, new
<1>8. CASE m.kind \notin {"highlight", "search"}
  <2>1. Becomes(s)
    BY <1>3, <1>8 DEF FrameMessage
  <2>. HIDE DEF s
  <2>2. frame' = f /\ state' = state /\ pages' = pages /\ inbox' = inbox /\ timers' = timers
    BY <1>4, <2>1 DEF Becomes
  <2>. QED  BY <1>1, <1>2, <1>8, <2>2 DEF Frames
<1>. QED  BY <1>6, <1>7, <1>8

(* A page that is searched answers; nothing else is under way then. *)
LEMMA SearchTaken ==
  ASSUME NEW s, Sound(s), NEW asked, Follows(s, asked), NEW p \in Pages,
         s.frame[p].mail # << >>, Head(s.frame[p].mail).kind = "search"
  PROVE  /\ s.state.search.status # "done" /\ AtPage(s) /\ p = s.state.search.page
         /\ Head(s.frame[p].mail) = SearchFor(s.state.search.regexp)
         /\ NoneOf(Tail(s.frame[p].mail), "search") /\ NoneOf(s.frame[p].waiting, "search")
<1>1. s.frame[p].mail \in Seq(Message)
  BY SoundFields, FrameFields DEF AllPages
<1>2. ~NoSearch(s.frame[p])
  BY <1>1, TakenNone DEF NoSearch
<1>3. s.state.search.status # "done" /\ AtPage(s) /\ p = s.state.search.page
  BY <1>2 DEF Follows, OneAtATime, AtRest, AtTimer, AtPage, AtAnswer
<1>. DEFINE m == SearchFor(s.state.search.regexp)
<1>4. m.kind = "search"
  BY KindsDiffer
<1>5. OneSearch(s.frame[p], m)
  BY <1>3 DEF AtPage
<1>. HIDE DEF m
<1>6. OneOf(s.frame[p].mail, m) /\ NoneOf(s.frame[p].waiting, "search")
  BY <1>1, <1>5, TakenNone DEF OneSearch
<1>7. Head(s.frame[p].mail) = m /\ NoneOf(Tail(s.frame[p].mail), "search")
  BY <1>1, <1>4, <1>6, TakenOne
<1>. QED  BY <1>3, <1>6, <1>7 DEF m

(* The highlight in the page that is searched would be that of an earlier  *)
(* search in the page that was shown; in the pages after it the first      *)
(* match is looked for.                                                    *)
LEMMA SearchedUnmarked ==
  ASSUME NEW s, Sound(s), NEW asked, Follows(s, asked), NEW p \in Pages,
         s.frame[p].mail # << >>, Head(s.frame[p].mail).kind = "search", p # asked
  PROVE  s.frame[p].mark = None
<1>. SUFFICES ASSUME s.frame[p].mark # None
              PROVE  FALSE
  OBVIOUS
<1>1. s.frame[p].mail \in Seq(Message)
  BY SoundFields, FrameFields DEF AllPages
<1>2. s.state.search.status # "done" /\ AtPage(s)
  BY SearchTaken
<1>3. MarkEnds(s, p, asked)
  BY DEF Follows, MarksEnd
<1>4. ~JustFound(s, p)
  BY <1>2, KindsDiffer DEF JustFound, OneOf, AtPage, NoAnswer, NoneOf
<1>5. UnmarkFirst(s.frame[p].mail)
  BY <1>2, <1>3, <1>4 DEF MarkEnds
<1>6. Head(s.frame[p].mail) # Unmark
  BY KindsDiffer
<1>. QED  BY <1>1, <1>5, <1>6, TakenUnmark

LEMMA FrameMessageGoing ==
  ASSUME NEW p \in Pages, Sound(World), Settled(World), GoingOn, FrameMessage(p)
  PROVE  GoingOn'
<1>. DEFINE m == Head(frame[p].mail)
            asked == user.asked
<1>1. /\ p \in AllPages /\ frame \in Frames /\ inbox \in Seq(Answer)
      /\ state.search.regexp \in Expressions
  BY WorldFields, SoundFields DEF AllPages, SearchState
<1>2. /\ frame[p].mail # << >> /\ m \in Message /\ frame' \in Frames
      /\ \A q \in AllPages : q # p => frame'[q] = frame[q]
      /\ frame'[p].phase = frame[p].phase /\ frame'[p].waiting = frame[p].waiting
      /\ frame'[p].mail = Tail(frame[p].mail)
      /\ m.kind = "highlight" => frame'[p].mark = None /\ inbox' = inbox
      /\ m.kind = "search" => inbox' = Append(inbox, Result(frame'[p].mark # None))
      /\ m.kind \notin {"highlight", "search"} => frame'[p].mark = frame[p].mark /\ inbox' = inbox
      /\ state' = state /\ pages' = pages /\ timers' = timers /\ user' = user
  BY MessageTaken
<1>3. /\ World'.state = state /\ World'.pages = pages /\ World'.frame = frame'
      /\ World'.inbox = inbox' /\ World'.timers = timers
  BY <1>2 DEF World
<1>4. Loading(frame')
  <2>1. Loading(frame) /\ Delivering(frame) /\ frame[p].phase = "ready"
    BY <1>2, WorldFields DEF GoingOn, Going, Sound, Delivering
  <2>. QED  BY <1>2, <2>1 DEF Loading, AllPages
<1>5. Seen(World')
  BY <1>3, WorldFields DEF GoingOn, Going, Seen
<1>6. ASSUME ~user.overlapped
      PROVE  Follows(World', asked)
  <2>1. Follows(World, asked)
    BY <1>6 DEF GoingOn, Going
  <2>2. CASE m.kind # "search"
    <3>1. inbox' = inbox /\ (frame'[p].mark = None \/ (frame'[p].mark = frame[p].mark /\ m # Unmark))
      BY <1>2, <2>2, KindsDiffer
    <3>2. frame[p] \in Frame /\ frame'[p] \in Frame
      BY <1>1, <1>2 DEF Frames
    <3>3. FrameFollows(frame[p], frame'[p])
      BY <1>2, <2>2, <3>1, <3>2, TakenFollows
    <3>4. \A q \in Pages : FrameFollows(frame[q], frame'[q])
      BY <1>2, <3>3 DEF FrameFollows, AllPages
    <3>5. LeftUnmarked(World, World') /\ SameAnswers(World.inbox, World'.inbox)
      BY <1>3, <3>1, WorldFields, AnswersSame DEF LeftUnmarked, Shown
    <3>. QED  BY <1>1, <1>3, <2>1, <3>4, <3>5, WorldFields, FollowsKept
  <2>3. CASE m.kind = "search"
    <3>. DEFINE b == frame'[p].mark # None
                regexp == state.search.regexp
    <3>1. /\ state.search.status # "done" /\ AtPage(World) /\ p = state.search.page
          /\ m = SearchFor(regexp)
          /\ NoneOf(frame'[p].mail, "search") /\ NoneOf(frame'[p].waiting, "search")
      BY <1>2, <2>1, <2>3, WorldFields, SearchTaken
    <3>2. p # asked => frame[p].mark = None
      BY <1>2, <2>1, <2>3, WorldFields, SearchedUnmarked
    <3>3. inbox' = Append(inbox, Result(b)) /\ b \in BOOLEAN
      BY <1>2, <2>3
    <3>4. ~b => Searched(World', p, asked)
      <4>. SUFFICES ASSUME ~b, p # asked
                    PROVE  Matches[p][regexp] = 0
        BY <1>3 DEF Searched
      <4>1. frame'[p].mark = IF 1 <= Matches[p][m.regexp]
                             THEN [regexp |-> m.regexp, nth |-> 1] ELSE None
        BY <2>3, <3>2, MessageTaken
      <4>2. m.regexp = regexp
        BY <3>1 DEF SearchFor
      <4>3. regexp \in Regexps
        BY <2>1, <3>1, WorldFields DEF Follows, Passed
      <4>4. [regexp |-> regexp, nth |-> 1] # None
        BY <4>3, NullAssumption
      <4>5. Matches[p][regexp] \in Nat
        BY <1>1, <4>3, InfoJsAssumption
      <4>. QED  BY <4>1, <4>2, <4>4, <4>5
    <3>. HIDE DEF b
    <3>5. NoAnswer(World) /\ timers = << >>
      BY <3>1, WorldFields DEF AtPage
    <3>6. OneOf(inbox', Result(b))
      <4>1. Result(b) \in Answer /\ Result(b).kind = "search-result"
        BY <3>3, KindsDiffer DEF Answer
      <4>. HIDE DEF b
      <4>. QED  BY <1>1, <3>3, <3>5, <4>1, WorldFields, AppendedQueue DEF NoAnswer
    <3>7. \A q \in Pages : NoSearch(frame'[q])
      <4>1. \A q \in Pages : q # p => NoSearch(frame[q])
        BY <3>1, WorldFields DEF AtPage
      <4>. QED  BY <1>2, <3>1, <4>1 DEF NoSearch, AllPages
    <3>8. AtAnswer(World', asked)
      <4>1. CASE b
        BY <1>3, <3>1, <3>5, <3>6, <3>7, <4>1 DEF AtAnswer
      <4>2. CASE ~b
        <5>1. b = FALSE /\ frame'[p].mark = None
          BY <3>3, <4>2 DEF b
        <5>. QED  BY <1>3, <3>1, <3>4, <3>5, <3>6, <3>7, <5>1 DEF AtAnswer, b
      <4>. QED  BY <4>1, <4>2
    <3>9. OneAtATime(World', asked)
      BY <1>3, <3>1, <3>8 DEF OneAtATime
    <3>10. Passed(World', asked)
      BY <1>3, <2>1, WorldFields, PassedKept DEF Follows
    <3>11. ASSUME NEW q \in Pages, frame'[q].mark # None
           PROVE  MarkEnds(World', q, asked)
      <4>1. CASE q = p
        <5>1. b = TRUE
          BY <3>3, <3>11, <4>1 DEF b
        <5>2. JustFound(World', p)
          BY <1>3, <3>1, <3>6, <5>1 DEF JustFound
        <5>. QED  BY <4>1, <5>2 DEF MarkEnds
      <4>2. CASE q # p
        <5>1. frame'[q] = frame[q]
          BY <1>2, <4>2 DEF AllPages
        <5>2. MarkEnds(World, q, asked)
          BY <2>1, <3>11, <5>1, WorldFields DEF Follows, MarksEnd
        <5>3. ~JustFound(World, q)
          BY <3>1, <4>2, WorldFields DEF JustFound
        <5>. QED  BY <1>3, <5>1, <5>2, <5>3, WorldFields DEF MarkEnds, Shown
      <4>. QED  BY <4>1, <4>2
    <3>12. MarksEnd(World', asked)
      BY <1>3, <3>11 DEF MarksEnd
    <3>. QED  BY <3>9, <3>10, <3>12 DEF Follows
  <2>. QED  BY <2>2, <2>3
<1>. QED  BY <1>2, <1>3, <1>4, <1>5, <1>6 DEF GoingOn, Going

(* The answer of the page that has been searched is taken. *)
LEMMA AnswerTaken ==
  ASSUME NEW s, Sound(s), NEW asked, Follows(s, asked), NEW b \in BOOLEAN,
         s.inbox # << >>, Head(s.inbox) = Result(b)
  PROVE  Answered([s EXCEPT !.inbox = Tail(s.inbox)], b, asked)
<1>. DEFINE q == s.inbox
            t == [s EXCEPT !.inbox = Tail(q)]
            page == s.state.search.page
<1>1. /\ q \in Seq(Answer) /\ q # << >> /\ Head(q) = Result(b) /\ Result(b).kind = "search-result"
      /\ \A c : Result(c).kind = "search-result" /\ (Result(b) = Result(c) => b = c)
  BY SoundFields, KindsDiffer DEF Result
<1>2. ~NoAnswer(s)
  BY <1>1, TakenNone DEF NoAnswer
<1>3. s.state.search.status # "done" /\ AtAnswer(s, asked)
  BY <1>2 DEF Follows, OneAtATime, AtRest, AtTimer, AtPage
<1>4. \A c \in BOOLEAN : OneOf(q, Result(c)) => b = c /\ NoneOf(Tail(q), "search-result")
  BY <1>1, TakenOne
<1>5. /\ b = TRUE \/ b = FALSE
      /\ NoneOf(Tail(q), "search-result")
      /\ b = FALSE => s.frame[page].mark = None /\ Searched(s, page, asked)
  BY <1>3, <1>4 DEF AtAnswer
<1>6. /\ t.state = s.state /\ t.frame = s.frame /\ t.timers = s.timers /\ t.inbox = Tail(q)
  BY DEF Sound, Worlds
<1>. HIDE DEF t
<1>7. AtRest(t)
  BY <1>3, <1>5, <1>6 DEF AtRest, AtAnswer, NoAnswer
<1>8. Passed(t, asked)
  BY <1>6, PassedKept DEF Follows
<1>9. ~b => Searched(t, page, asked)
  BY <1>5, <1>6 DEF Searched
<1>10. ASSUME NEW p \in Pages, t.frame[p].mark # None
       PROVE  /\ UnmarkFirst(t.frame[p].mail) \/ (b /\ p = page)
              /\ Shown(t, p) \/ UnmarkIn(t.frame[p].mail) \/ (b /\ p = page)
  <2>1. MarkEnds(s, p, asked)
    BY <1>6, <1>10 DEF Follows, MarksEnd
  <2>2. JustFound(s, p) => b /\ p = page
    BY <1>4 DEF JustFound
  <2>3. p = page => b
    BY <1>5, <1>6, <1>10
  <2>. QED  BY <1>3, <1>6, <2>1, <2>2, <2>3 DEF MarkEnds, Shown
<1>. QED  BY <1>3, <1>6, <1>7, <1>8, <1>9, <1>10 DEF Answered, t

LEMMA TopMessageGoing ==
  ASSUME Sound(World), Settled(World), GoingOn, TopMessage
  PROVE  GoingOn'
<1>. DEFINE m == Head(inbox)
            s == [World EXCEPT !.inbox = Tail(inbox)]
            asked == user.asked
<1>1. /\ inbox \in Seq(Answer) /\ inbox # << >> /\ user' = user
      /\ World \in Worlds /\ state.search.regexp \in Expressions
  BY WorldFields, SoundFields DEF TopMessage, Sound, SearchState
<1>2. Tail(inbox) \in Seq(Answer) /\ m \in Answer
  BY <1>1
<1>3. s = [World EXCEPT !.inbox = Tail(@)]
  BY WorldFields
<1>4. Becomes(IF m.kind = "cache-links" THEN cache_links(s, m.page) ELSE search_result(s, m.found))
  BY <1>3 DEF TopMessage
<1>5. Sound(s) /\ Settled(s)
  BY <1>2, OtherInbox
<1>6. /\ s.state = state /\ s.pages = pages /\ s.frame = frame /\ s.timers = timers
      /\ s.inbox = Tail(inbox)
  BY <1>1, WorldFields DEF Worlds
<1>7. Loading(s.frame) /\ Seen(s)
  BY <1>6, WorldFields DEF GoingOn, Going, Seen
<1>8. ASSUME NEW r, Sound(r), Becomes(r), Going(r, asked, user.overlapped)
      PROVE  GoingOn'
  BY <1>1, <1>8, BecomesWorld DEF GoingOn
<1>9. CASE \E p \in Pages : m = CacheLinks(p)
  <2>1. PICK p \in Pages : m = CacheLinks(p)
    BY <1>9
  <2>2. m.kind = "cache-links" /\ m.page = p /\ m.kind # "search-result"
    BY <2>1 DEF CacheLinks
  <2>3. Becomes(cache_links(s, p))
    BY <1>4, <2>2
  <2>4. ASSUME ~user.overlapped
        PROVE  Follows(s, asked)
    <3>1. SameAnswers(inbox, Tail(inbox))
      BY <1>1, <2>2, TakenNone, TakenOne, KindsDiffer DEF SameAnswers
    <3>2. \A q \in Pages : FrameFollows(frame[q], frame[q])
      BY DEF FrameFollows
    <3>3. LeftUnmarked(World, s)
      BY <1>6, WorldFields DEF LeftUnmarked, Shown
    <3>4. Follows(World, asked)
      BY <2>4 DEF GoingOn, Going
    <3>. QED  BY <1>1, <1>6, <3>1, <3>2, <3>3, <3>4, WorldFields, FollowsKept
  <2>. HIDE DEF s
  <2>5. Going(s, asked, user.overlapped)
    BY <1>7, <2>4 DEF Going
  <2>6. Sound(cache_links(s, p)) /\ Going(cache_links(s, p), asked, user.overlapped)
    BY <1>5, <2>5, CachedLinks, CacheLinksGoing
  <2>. QED  BY <1>8, <2>3, <2>6
<1>10. CASE \E b \in BOOLEAN : m = Result(b)
  <2>1. PICK b \in BOOLEAN : m = Result(b)
    BY <1>10
  <2>2. m.kind # "cache-links" /\ m.found = b
    BY <2>1 DEF Result
  <2>3. Becomes(search_result(s, b))
    BY <1>4, <2>2
  <2>4. ASSUME ~user.overlapped
        PROVE  Answered(s, b, asked)
    BY <1>1, <2>1, <2>4, WorldFields, AnswerTaken DEF GoingOn, Going
  <2>. HIDE DEF s
  <2>5. Sound(search_result(s, b)) /\ Going(search_result(s, b), asked, user.overlapped)
    BY <1>5, <1>7, <2>4, SearchResult, SearchResultGoing
  <2>. QED  BY <1>8, <2>3, <2>5
<1>. QED  BY <1>2, <1>9, <1>10 DEF Answer

(* The search that a timer has started: its page is known, and the page    *)
(* has not been asked yet.                                                 *)
Querying(s, asked) ==
  /\ AtRest(s) /\ s.state.search.status # "done"
  /\ Passed(s, asked) /\ MarksEnd(s, asked)

LEMMA TimerTaken ==
  ASSUME NEW s, Settled(s), Loading(s.frame), NEW asked, s.timers # << >>,
         NEW overlapped, ~overlapped => Follows(s, asked)
  PROVE  LET t == Head(s.timers)
             r == search_query([s EXCEPT !.timers = Tail(s.timers)])
         IN /\ Sound(r) /\ Settled(r) /\ Loading(r.frame) /\ Seen(r)
            /\ ~overlapped => /\ Querying(r, asked)
                              /\ t = [page |-> r.state.search.page,
                                      regexp |-> r.state.search.regexp]
<1>. DEFINE t == Head(s.timers)
            w == [s EXCEPT !.timers = Tail(s.timers)]
            x == [w.state.search EXCEPT !.status = "searching"]
            r == Rendered(Searching(w, x))
<1>1. s \in Worlds /\ Sound(s) /\ s.timers \in Seq(Timer)
  BY SoundFields DEF Settled, Sound
<1>2. Tail(s.timers) \in Seq(Timer)
  BY <1>1
<1>3. Sound(w) /\ Settled(w)
  BY <1>1, <1>2, OtherTimers
<1>4. /\ w.state = s.state /\ w.frame = s.frame /\ w.inbox = s.inbox
      /\ w.timers = Tail(s.timers)
  BY <1>1 DEF Worlds
<1>5. search_query(w) = r
  BY DEF search_query, Searching
<1>. HIDE DEF w
<1>6. w.state.search \in SearchState /\ w.state \in State
  BY <1>3, SoundFields
<1>7. /\ x \in SearchState /\ x.status = "searching" /\ x.page = s.state.search.page
      /\ x.regexp = s.state.search.regexp /\ x.found = s.state.search.found
  BY <1>4, <1>6 DEF SearchState
<1>. HIDE DEF x
<1>8. /\ r.state = [w.state EXCEPT !.search = x] /\ r.inbox = w.inbox
      /\ FramesGrow(w.frame, r.frame) /\ w.frame \in Frames /\ r.frame \in Frames
      /\ r.timers = w.timers
      /\ Loading(r.frame) /\ Seen(r)
  BY <1>3, <1>4, <1>7, SearchingRendered
<1>9. Sound(r) /\ Settled(r)
  BY <1>3, <1>5, SearchQuery
<1>. HIDE DEF r
<1>10. r.state.search = x /\ r.state.current = s.state.current
  BY <1>4, <1>6, <1>8 DEF State
<1>11. ASSUME ~overlapped
       PROVE  /\ Querying(r, asked)
              /\ t = [page |-> x.page, regexp |-> x.regexp]
  <2>1. Follows(s, asked)
    BY <1>11
  <2>2. AtTimer(s) /\ s.state.search.status # "done"
    BY <2>1 DEF Follows, OneAtATime, AtRest, AtPage, AtAnswer
  <2>3. Tail(s.timers) = << >> /\ t = [page |-> x.page, regexp |-> x.regexp]
    BY <1>7, <2>2 DEF AtTimer
  <2>4. \A p \in Pages : NoSearch(r.frame[p]) /\ FrameFollows(s.frame[p], r.frame[p])
    BY <1>4, <1>8, <2>2, NoSearchGrown, FramesGrowFollow DEF AtTimer
  <2>5. AtRest(r)
    BY <1>4, <1>8, <2>2, <2>3, <2>4 DEF AtTimer, AtRest, NoAnswer
  <2>6. Passed(r, asked)
    BY <1>7, <1>10, <2>1, <2>2 DEF Follows, Passed, NoMatchBefore
  <2>7. ASSUME NEW p \in Pages, r.frame[p].mark # None
        PROVE  MarkEnds(r, p, asked)
    <3>1. /\ MarkEnds(s, p, asked)
          /\ UnmarkFirst(s.frame[p].mail) => UnmarkFirst(r.frame[p].mail)
          /\ UnmarkIn(s.frame[p].mail) => UnmarkIn(r.frame[p].mail)
      BY <2>1, <2>4, <2>7 DEF FrameFollows, Follows, MarksEnd
    <3>2. JustFound(s, p) => JustFound(r, p)
      BY <1>4, <1>7, <1>8, <1>10 DEF JustFound
    <3>. QED  BY <1>7, <1>10, <2>2, <3>1, <3>2 DEF MarkEnds, Shown
  <2>. QED  BY <1>7, <1>10, <2>2, <2>3, <2>5, <2>6, <2>7 DEF Querying, MarksEnd
<1>. QED  BY <1>5, <1>8, <1>9, <1>10, <1>11 DEF w

(* The top page is searched at once. *)
LEMMA TopSearched ==
  ASSUME NEW s, Settled(s), Loading(s.frame), Seen(s), NEW asked,
         NEW overlapped, NEW regexp \in Expressions,
         ~overlapped => Querying(s, asked) /\ s.state.search.page = TOP_ID
  PROVE  LET top == Scanned(s, TOP_ID, regexp)
         IN Going(search_result(top, IsMarked(top, TOP_ID)), asked, overlapped)
<1>. DEFINE top == Scanned(s, TOP_ID, regexp)
            found == IsMarked(top, TOP_ID)
            f == top.frame
<1>1. Sound(top) /\ Settled(top)
  BY ScannedSound DEF Settled, AllPages
<1>2. /\ top.state = s.state /\ top.inbox = s.inbox /\ top.timers = s.timers
      /\ top.pages = s.pages
      /\ \A p \in Pages : top.frame[p] = s.frame[p]
  <2>1. s \in Worlds /\ s.frame \in Frames /\ TOP_ID \notin Pages
    BY SoundFields, InfoJsAssumption DEF Settled, Sound
  <2>2. \A p \in Pages : p \in AllPages /\ p # TOP_ID
    BY <2>1 DEF AllPages
  <2>. DEFINE v == IF (IF s.frame[TOP_ID].mark # None /\ s.frame[TOP_ID].mark.regexp = regexp
                       THEN s.frame[TOP_ID].mark.nth + 1 ELSE 1) <= Matches[TOP_ID][regexp]
                   THEN [regexp |-> regexp,
                         nth |-> IF s.frame[TOP_ID].mark # None /\ s.frame[TOP_ID].mark.regexp = regexp
                                 THEN s.frame[TOP_ID].mark.nth + 1 ELSE 1]
                   ELSE None
              g == [s.frame EXCEPT ![TOP_ID].mark = v]
  <2>3. top = [s EXCEPT !.frame = g]
    BY DEF Scanned
  <2>. HIDE DEF v, top
  <2>4. \A p \in Pages : g[p] = s.frame[p]
    BY <2>1, <2>2 DEF Frames
  <2>. HIDE DEF g
  <2>. QED  BY <2>1, <2>3, <2>4 DEF Worlds
<1>3. found \in BOOLEAN
  BY DEF IsMarked
<1>. HIDE DEF top, found
<1>4. Loading(top.frame) /\ Seen(top)
  BY <1>2 DEF Loading, Seen
<1>5. ASSUME ~overlapped
      PROVE  Answered(top, found, asked)
  <2>1. Querying(s, asked) /\ s.state.search.page = TOP_ID /\ TOP_ID \notin Pages
    BY <1>5, InfoJsAssumption
  <2>2. AtRest(top) /\ top.state.search.status # "done"
    BY <1>2, <2>1 DEF Querying, AtRest, NoAnswer
  <2>3. Passed(top, asked)
    BY <1>2, <2>1, PassedKept DEF Querying
  <2>4. Searched(top, TOP_ID, asked)
    BY <1>2, <2>1, <2>2, <2>3 DEF Passed, Searched
  <2>5. ASSUME NEW p \in Pages, top.frame[p].mark # None
        PROVE  /\ UnmarkFirst(top.frame[p].mail)
               /\ Shown(top, p) \/ UnmarkIn(top.frame[p].mail)
    <3>1. MarkEnds(s, p, asked)
      BY <1>2, <2>1, <2>5 DEF Querying, MarksEnd
    <3>2. p # s.state.search.page /\ s.state.search.status # "done"
      BY <1>2, <2>1, <2>2
    <3>. QED  BY <1>2, <3>1, <3>2 DEF MarkEnds, JustFound, Shown
  <2>. QED  BY <1>2, <2>1, <2>2, <2>3, <2>4, <2>5 DEF Answered
<1>6. Going(search_result(top, found), asked, overlapped)
  BY <1>1, <1>3, <1>4, <1>5, SearchResultGoing
<1>. QED  BY <1>6 DEF top, found

(* Another page is sent the search. *)
LEMMA PageAsked ==
  ASSUME NEW s, Settled(s), Loading(s.frame), Seen(s), NEW asked, NEW overlapped,
         NEW page \in Pages, NEW regexp \in Expressions,
         ~overlapped => /\ Querying(s, asked) /\ s.state.search.page = page
                        /\ s.state.search.regexp = regexp
  PROVE  Going(post_message(s, page, SearchFor(regexp)), asked, overlapped)
<1>. DEFINE m == SearchFor(regexp)
            q == post_message(s, page, m)
            f == s.frame
            g == q.frame
<1>1. /\ m \in Message /\ m # Unmark /\ m.kind = "search" /\ Sound(s) /\ page \in AllPages
      /\ m = SearchFor(regexp)
  BY MessageTypes, KindsDiffer DEF Settled, AllPages
<1>. HIDE DEF m
<1>2. Posted(f, g, page, m)
  BY <1>1, PostPosted
<1>3. /\ Sound(q) /\ q.state = s.state /\ q.inbox = s.inbox /\ q.timers = s.timers
      /\ q.pages.search_seen = s.pages.search_seen
  BY <1>1, PostSound, FramesOnly DEF SameSearch
<1>4. f \in Frames /\ g \in Frames
  BY <1>1, <1>3, SoundFields
<1>. HIDE DEF q, f, g
<1>5. \A r : Queued(r, m) = Append(r, m)
  BY <1>1 DEF Queued
<1>6. f[page].mail \in Seq(Message) /\ f[page].waiting \in Seq(Message)
  BY <1>1, <1>4, FrameFields
<1>7. \A p \in Pages : p # page => FrameFollows(f[p], g[p])
  BY <1>2, <1>4, GrowsFollows DEF Posted, Frames, AllPages
<1>8. Loading(g)
  <2>1. Loading(f)
    BY DEF f
  <2>. QED  BY <1>2, <2>1 DEF Posted, FrameGrows, Loading
<1>9. Seen(q)
  BY <1>3 DEF Seen
<1>10. ASSUME ~overlapped
       PROVE  Follows(q, asked)
  <2>1. /\ Querying(s, asked) /\ s.state.search.page = page
        /\ s.state.search.regexp = regexp
    BY <1>10
  <2>2. \A p \in Pages : NoSearch(f[p])
    BY <2>1 DEF Querying, AtRest, f
  <2>3. OneSearch(g[page], m)
    <3>1. /\ OneOf(Append(f[page].mail, m), m) /\ OneOf(Append(f[page].waiting, m), m)
          /\ NoneOf(f[page].mail, "search") /\ NoneOf(f[page].waiting, "search")
      BY <1>1, <1>6, <2>2, AppendedQueue DEF NoSearch
    <3>. QED  BY <1>2, <1>5, <3>1 DEF Posted, OneSearch
  <2>4. AtPage(q)
    <3>1. \A p \in Pages \ {page} : NoSearch(g[p])
      BY <1>7, <2>2 DEF FrameFollows
    <3>2. s.timers = << >> /\ NoAnswer(q)
      BY <1>3, <2>1 DEF Querying, AtRest, NoAnswer
    <3>. QED  BY <1>1, <1>3, <2>1, <2>3, <3>1, <3>2 DEF AtPage, g
  <2>5. OneAtATime(q, asked)
    BY <1>3, <2>1, <2>4 DEF OneAtATime, Querying
  <2>6. Passed(q, asked)
    BY <1>3, <2>1, PassedKept DEF Querying
  <2>7. ASSUME NEW p \in Pages, g[p].mark # None
        PROVE  MarkEnds(q, p, asked)
    <3>1. /\ f[p].mark # None
          /\ UnmarkFirst(f[p].mail) => UnmarkFirst(g[p].mail)
          /\ UnmarkIn(f[p].mail) => UnmarkIn(g[p].mail)
      <4>1. CASE p = page
        BY <1>1, <1>2, <1>5, <1>6, <2>7, <4>1, UnmarkKept DEF Posted
      <4>2. CASE p # page
        BY <1>7, <2>7, <4>2 DEF FrameFollows
      <4>. QED  BY <4>1, <4>2
    <3>2. MarkEnds(s, p, asked)
      BY <2>1, <3>1 DEF Querying, MarksEnd, f
    <3>. QED  BY <1>3, <3>1, <3>2 DEF MarkEnds, JustFound, Shown, f, g
  <2>. QED  BY <2>5, <2>6, <2>7 DEF Follows, MarksEnd, g
<1>. QED  BY <1>1, <1>8, <1>9, <1>10 DEF Going, q, g

LEMMA SearchTimerGoing ==
  ASSUME Sound(World), Settled(World), GoingOn, SearchTimer
  PROVE  GoingOn'
<1>. DEFINE t == Head(timers)
            w == [World EXCEPT !.timers = Tail(timers)]
            s == search_query(w)
            top == Scanned(s, TOP_ID, t.regexp)
            r == search_result(top, IsMarked(top, TOP_ID))
            q == post_message(s, t.page, SearchFor(t.regexp))
            asked == user.asked
<1>1. timers \in Seq(Timer) /\ timers # << >> /\ user' = user
  BY WorldFields, SoundFields DEF SearchTimer
<1>2. t.page \in AllPages /\ t.regexp \in Expressions
  <2>1. t \in Timer
    BY <1>1
  <2>. QED  BY <2>1 DEF Timer
<1>3. w = [World EXCEPT !.timers = Tail(@)]
  BY WorldFields
<1>4. Becomes(IF t.page = TOP_ID THEN r ELSE q)
  BY <1>3 DEF SearchTimer
<1>5. /\ Sound(s) /\ Settled(s) /\ Loading(s.frame) /\ Seen(s)
      /\ ~user.overlapped => /\ Querying(s, asked)
                             /\ t = [page |-> s.state.search.page,
                                     regexp |-> s.state.search.regexp]
  BY <1>1, WorldFields, TimerTaken DEF GoingOn, Going
<1>. HIDE DEF t, s
<1>6. ASSUME NEW v, Sound(v), Becomes(v), Going(v, asked, user.overlapped)
      PROVE  GoingOn'
  BY <1>1, <1>6, BecomesWorld DEF GoingOn
<1>7. ~user.overlapped => /\ Querying(s, asked) /\ s.state.search.page = t.page
                          /\ s.state.search.regexp = t.regexp
  BY <1>5
<1>8. CASE t.page = TOP_ID
  <2>1. Going(r, asked, user.overlapped)
    BY <1>2, <1>5, <1>7, <1>8, TopSearched
  <2>2. Sound(top)
    BY <1>2, <1>5, ScannedSound DEF AllPages
  <2>3. IsMarked(top, TOP_ID) \in BOOLEAN
    BY DEF IsMarked
  <2>. HIDE DEF top
  <2>4. Sound(r)
    BY <2>2, <2>3, SearchResult
  <2>. HIDE DEF r
  <2>. QED  BY <1>4, <1>6, <1>8, <2>1, <2>4
<1>9. CASE t.page # TOP_ID
  <2>1. t.page \in Pages
    BY <1>2, <1>9 DEF AllPages
  <2>2. Going(q, asked, user.overlapped)
    BY <1>2, <1>5, <1>7, <2>1, PageAsked
  <2>3. Sound(q)
    BY <1>2, <1>5, MessageTypes, PostSound
  <2>. HIDE DEF q
  <2>. QED  BY <1>4, <1>6, <1>9, <2>2, <2>3
<1>. QED  BY <1>8, <1>9

-----------------------------------------------------------------------------
(* The theorems.                                                           *)

LEMMA OpenedGoing ==
  ASSUME Init
  PROVE  GoingOn
<1>1. PICK linkid \in Starts :
        /\ state = [current |-> linkid, history |-> "replaceState", highlight |-> None,
                    loaded_nodes |-> {TOP_ID, linkid} \union {Toc[k] : k \in DOMAIN Toc},
                    linked |-> {TOP_ID},
                    search |-> [regexp |-> None, status |-> "done", found |-> FALSE,
                                page |-> TOP_ID]]
        /\ frame = [p \in AllPages |->
                      [phase |-> IF p = TOP_ID THEN "ready"
                                 ELSE IF p = PageOf[linkid] THEN "loading" ELSE "none",
                       waiting |-> IF p # TOP_ID /\ p = PageOf[linkid] THEN <<Unmark>> ELSE << >>,
                       mail |-> << >>,
                       mark |-> None]]
        /\ inbox = << >> /\ timers = << >>
        /\ user = [commands |-> 0, asked |-> None, overlapped |-> FALSE]
  BY DEF Init
<1>2. /\ state.search.status = "done" /\ user.asked = None
  BY <1>1
<1>3. \A p \in Pages : /\ p \in AllPages /\ p # TOP_ID
                       /\ frame[p].phase # "ready" /\ frame[p].mark = None
                       /\ frame[p].mail = << >>
                       /\ frame[p].waiting = << >> \/ frame[p].waiting = <<Unmark>>
  BY <1>1, InfoJsAssumption DEF AllPages
<1>4. NoneOf(<< >>, "search") /\ NoneOf(<<Unmark>>, "search")
      /\ NoneOf(<< >>, "search-result")
  <2>1. Unmark.kind # "search"
    BY KindsDiffer
  <2>. QED  BY <2>1 DEF NoneOf
<1>5. AtRest(World)
  BY <1>1, <1>3, <1>4, WorldFields DEF AtRest, NoAnswer, NoSearch
<1>6. Passed(World, user.asked)
  BY <1>2, WorldFields DEF Passed
<1>7. MarksEnd(World, user.asked)
  BY <1>3, WorldFields DEF MarksEnd
<1>. QED  BY <1>2, <1>3, <1>5, <1>6, <1>7, WorldFields
          DEF GoingOn, Going, Loading, Seen, Follows, OneAtATime

LEMMA NextGoing ==
  ASSUME NavInToc, Sound(World), Settled(World), GoingOn, [Next]_vars
  PROVE  GoingOn'
<1>1. ASSUME NEW p \in Pages, FrameContentLoaded(p)
      PROVE  GoingOn'
  BY <1>1, ContentLoadedGoing
<1>2. ASSUME NEW p \in Pages, FrameLoaded(p)
      PROVE  GoingOn'
  BY <1>2, LoadedGoing
<1>3. ASSUME NEW p \in Pages, FrameMessage(p)
      PROVE  GoingOn'
  BY <1>3, FrameMessageGoing
<1>4. CASE TopMessage
  BY <1>4, TopMessageGoing
<1>5. CASE SearchTimer
  BY <1>5, SearchTimerGoing
<1>6. CASE OtherAction
  BY <1>6, OtherActionGoing
<1>7. ASSUME NEW l \in Linkids, Click(l)
      PROVE  GoingOn'
  BY <1>7, ClickGoing
<1>8. ASSUME NEW l \in Linkids, Navigate(l)
      PROVE  GoingOn'
  BY <1>8, NavigateGoing
<1>9. ASSUME NEW step \in {-1, 1}, Traverse(step)
      PROVE  GoingOn'
  BY <1>9, TraverseGoing
<1>10. ASSUME NEW r \in Regexps, Search(r)
       PROVE  GoingOn'
  BY <1>10, SearchGoing
<1>11. CASE UNCHANGED vars
  <2>1. World' = World /\ user' = user
    BY <1>11 DEF vars, World
  <2>. QED  BY <2>1 DEF GoingOn
<1>. QED  BY <1>1, <1>2, <1>3, <1>4, <1>5, <1>6, <1>7, <1>8, <1>9, <1>10, <1>11 DEF Next

LEMMA SearchInvariant ==
  ASSUME NavInToc
  PROVE  Spec => [](Sound(World) /\ Settled(World) /\ GoingOn)
<1>. DEFINE I == Sound(World) /\ Settled(World) /\ GoingOn
<1>1. Init => I
  BY OpenedSound, OpenedGoing
<1>2. I /\ [Next]_vars => I'
  <2>. SUFFICES ASSUME I, [Next]_vars
                PROVE  Sound(World') /\ Settled(World') /\ GoingOn'
    OBVIOUS
  <2>1. StepHolds
    BY NextStep
  <2>2. GoingOn'
    BY NextGoing
  <2>. QED  BY <2>1, <2>2 DEF StepHolds
<1>. HIDE DEF I
<1>3. Spec => []I
  BY <1>1, <1>2, PTL DEF Spec
<1>. QED  BY <1>3 DEF I

LEMMA NothingSkipped ==
  ASSUME PageLinksFirst, GoingOn
  PROVE  SkipsNoMatch
<1>. DEFINE search == state.search
            passed == {k \in After(user.asked) :
                         search.found => \E j \in DOMAIN Toc : k < j /\ Toc[j] = search.page}
<1>. SUFFICES ASSUME search.status = "done", user.asked # None, ~user.overlapped,
                     NEW k \in passed, Toc[k] \in Pages
              PROVE  \/ search.found /\ search.page = user.asked
                     \/ Matches[Toc[k]][search.regexp] = 0
  BY DEF SkipsNoMatch
<1>1. /\ k \in After(user.asked) /\ k \in DOMAIN Toc /\ k \in Nat /\ k < Len(Toc) + 1
      /\ search.found => \E j \in DOMAIN Toc : k < j /\ Toc[j] = search.page
  BY InfoJsAssumption DEF After
<1>2. \/ search.found /\ search.page = user.asked
      \/ search.found /\ \E j \in DOMAIN Toc :
           Toc[j] = search.page /\ NoMatchBefore(World, user.asked, j)
      \/ ~search.found /\ NoMatchBefore(World, user.asked, Len(Toc) + 1)
  BY WorldFields DEF GoingOn, Going, Follows, Passed
<1>3. ASSUME NEW j \in DOMAIN Toc, Toc[j] = search.page, search.found,
             NoMatchBefore(World, user.asked, j)
      PROVE  Matches[Toc[k]][search.regexp] = 0
  <2>1. k < j
    BY <1>1, <1>3, InfoJsAssumption
  <2>. QED  BY <1>1, <1>3, <2>1, WorldFields DEF NoMatchBefore
<1>. QED  BY <1>1, <1>2, <1>3, WorldFields DEF NoMatchBefore

LEMMA NothingLeftMarked ==
  ASSUME GoingOn
  PROVE  OnlyShownMarked
<1>. SUFFICES ASSUME Quiet, ~user.overlapped, NEW p \in Pages, frame[p].mark # None
              PROVE  p = PageOf[state.current]
  BY DEF OnlyShownMarked
<1>1. MarkEnds(World, p, user.asked)
  BY WorldFields DEF GoingOn, Going, Follows, MarksEnd
<1>2. ~JustFound(World, p) /\ ~UnmarkIn(frame[p].mail)
  BY WorldFields DEF Quiet, JustFound, OneOf, UnmarkIn
<1>. QED  BY <1>1, <1>2, WorldFields DEF MarkEnds, Shown

(* In every manual whose navigation links lead to pages of the table of    *)
(* contents and whose table of contents has the link of each page before   *)
(* those of its anchors, a search that has waited for the one before       *)
(* passes over no page with a match: the page it has found is the first    *)
(* one after the page it was started in, and it fails only when there is   *)
(* none, in whatever order pages load and messages come and whatever else  *)
(* the user does meanwhile (info.js:395).                                  *)
THEOREM SkipsNoMatchCorrect ==
  ASSUME NavInToc, PageLinksFirst
  PROVE  Spec => []SkipsNoMatch
<1>1. GoingOn => SkipsNoMatch
  BY NothingSkipped
<1>. QED  BY <1>1, SearchInvariant, PTL

(* In every manual whose navigation links lead to pages of the table of    *)
(* contents, no page but the one that is shown has a highlight when        *)
(* nothing is on its way: a page that is left, and a page that was found   *)
(* and left again, has been told to take its highlights away               *)
(* (info.js:931).                                                          *)
THEOREM OnlyShownMarkedCorrect ==
  ASSUME NavInToc
  PROVE  Spec => []OnlyShownMarked
<1>1. GoingOn => OnlyShownMarked
  BY NothingLeftMarked
<1>. QED  BY <1>1, SearchInvariant, PTL

=============================================================================
