------------------------------- MODULE InfoJs -------------------------------
(***************************************************************************)
(* The reader of HTML manuals in a browser (js/info.js).                   *)
(*                                                                         *)
(* The top page keeps the state of the application in a store.  Every      *)
(* other page of the manual is in an iframe, which is made when the page   *)
(* is first needed, loads in its own time and speaks with the top page in  *)
(* messages.  An action given to the store makes a new state, which is     *)
(* rendered at once: the rendering makes iframes, posts messages to them   *)
(* and sets a timer for a search.                                          *)
(*                                                                         *)
(* A text search goes from page to page, one message and one answer for    *)
(* each.  Nothing in an answer says which search or page it is about.      *)
(***************************************************************************)
EXTENDS Integers, Sequences

CONSTANTS
  Pages,        \* the pages of the manual that are shown in an iframe
  TOP_ID,       \* the top page
  Anchors,      \* link identifiers of the form page.anchor
  PageOf,       \* the page of each link identifier
  Toc,          \* the links of the table of contents, in their order
  Nav,          \* what the next, prev and up links of a page lead to
  Regexps,      \* what the user searches for
  Matches,      \* how often an expression matches in a page
  Starts,       \* the links at which the manual is opened
  None,         \* null and undefined
  MaxCommands   \* bound: the commands that the user gives

AllPages == Pages \union {TOP_ID}
Linkids == AllPages \union Anchors

ASSUME InfoJsAssumption ==
  /\ TOP_ID \notin Pages /\ Anchors \intersect AllPages = {}
  /\ None \notin Linkids \union Regexps
  /\ PageOf \in [Linkids -> AllPages] /\ \A p \in AllPages : PageOf[p] = p
  /\ Toc \in Seq(Linkids)
  /\ \A j, k \in DOMAIN Toc : Toc[j] = Toc[k] => j = k
  /\ Starts \subseteq Linkids
  /\ Nav \in [AllPages -> SUBSET Linkids]
  /\ Matches \in [AllPages -> [Regexps -> Nat]]
  /\ MaxCommands \in Nat

(* null is no highlight *)
ASSUME NullAssumption == None \notin [regexp : Regexps, nth : Nat]

VARIABLES
  state,     \* the state of the store
  pages,     \* what the component for the pages remembers of its last rendering
  history,   \* the session history of the browser
  frame,     \* the page in each iframe, and what is on its way to it
  inbox,     \* the messages posted to the top page
  timers,    \* the searches that a timer will start
  user       \* what the user has done

vars == <<state, pages, history, frame, inbox, timers, user>>

World == [state |-> state, pages |-> pages, history |-> history, frame |-> frame,
          inbox |-> inbox, timers |-> timers]

Becomes(s) ==
  /\ state' = s.state /\ pages' = s.pages /\ history' = s.history
  /\ frame' = s.frame /\ inbox' = s.inbox /\ timers' = s.timers

-----------------------------------------------------------------------------
(* Messages between the pages *)

Unmark == [kind |-> "highlight"]
SearchFor(r) == [kind |-> "search", regexp |-> r]
ScrollToResult == [kind |-> "scroll-to"]
CacheLinks(p) == [kind |-> "cache-links", page |-> p]
Result(found) == [kind |-> "search-result", found |-> found]

(* Taking the highlights away twice is as good as once. *)
Queued(q, m) == IF m = Unmark /\ q # << >> /\ q[Len(q)] = Unmark THEN q ELSE Append(q, m)

(* resolve_page makes the iframe of a page that has none. *)
Framed(s, p) ==
  IF s.frame[p].phase = "none" THEN [s EXCEPT !.frame[p].phase = "loading"] ELSE s

(* Mutant: a message is posted to a page that may still be loading. *)
PostAtOnce(s, p, m) ==
  LET t == Framed(s, p)
  IN IF p = TOP_ID THEN s
     ELSE IF t.frame[p].phase \in {"dom", "ready"}
     THEN [t EXCEPT !.frame[p].mail = Queued(@, m)] ELSE t

(* post_message: a message waits until the page is loaded.  What is posted *)
(* to the top page itself is no action, and on_message ignores it.         *)
post_message(s, p, m) ==
  LET t == Framed(s, p)
  IN IF p = TOP_ID THEN s
     ELSE IF t.frame[p].phase = "ready" THEN [t EXCEPT !.frame[p].mail = Queued(@, m)]
     ELSE [t EXCEPT !.frame[p].waiting = Queued(@, m)]

-----------------------------------------------------------------------------
(* Pages.prototype.render, after an action has made the state of s.  A     *)
(* page has a container when the state knows a link to it.                 *)

Container(s, p) == p = TOP_ID \/ \E l \in s.state.loaded_nodes : PageOf[l] = p

(* Mutant: the page that is left keeps its highlights. *)
LeaveHighlighted(s) == s

LeavePage(s) ==
  IF s.pages.prev_id = None THEN s
  ELSE post_message(s, PageOf[s.pages.prev_id], Unmark)

(* The browser's pushState and replaceState. *)
update_history(h, linkid, mode) ==
  CASE mode = "pushState" -> [entries |-> Append(SubSeq(h.entries, 1, h.at), linkid),
                              at |-> h.at + 1]
    [] mode = "replaceState" -> [h EXCEPT !.entries[h.at] = linkid]
    [] OTHER -> h

ShowPage(s) ==
  LET linkid == s.state.current
      t == Framed(LeavePage(s), PageOf[linkid])
  IN [t EXCEPT !.history = update_history(@, linkid, s.state.history),
               !.pages.prev_id = linkid]

StartSearch(s) ==
  IF s.state.search.status = "ready" /\ ~s.pages.search_seen
  THEN [s EXCEPT !.pages.search_seen = TRUE,
                 !.timers = Append(@, [page |-> s.state.search.page,
                                       regexp |-> s.state.search.regexp])]
  ELSE s

RemoveHighlight(s) ==
  IF s.state.highlight # None THEN s
  ELSE IF s.state.current = TOP_ID THEN [s EXCEPT !.frame[TOP_ID].mark = None]
  ELSE post_message(s, PageOf[s.state.current], Unmark)

ScrollToFound(s) ==
  IF s.state.search.status = "done" /\ s.state.search.found /\ ~s.pages.search_seen
  THEN [post_message(s, PageOf[s.state.current], ScrollToResult)
          EXCEPT !.pages.search_seen = TRUE]
  ELSE s

(* Without a container for the page, resolve_page throws an error. *)
Rendered(s) ==
  LET moved == s.state.current # s.pages.prev_id
      shown == IF moved THEN ShowPage(s) ELSE s
  IN IF moved /\ ~Container(s, PageOf[s.state.current]) THEN LeavePage(s)
     ELSE ScrollToFound(RemoveHighlight(StartSearch(shown)))

-----------------------------------------------------------------------------
(* The actions of the updater, each with the rendering of its state *)

(* Mutant: as navigated, a link is followed and not added to loaded_nodes. *)
UrlNotLoaded(s, linkid, mode) ==
  Rendered([s EXCEPT !.state.current = linkid, !.state.history = mode,
                     !.state.highlight = None])

current_url(s, linkid, mode) ==
  Rendered([s EXCEPT !.state.current = linkid, !.state.history = mode,
                     !.state.highlight = None,
                     !.state.loaded_nodes = @ \union {linkid}])

(* Mutant: the mode of the action before is kept. *)
NavigatedSameMode(s, linkid) ==
  Rendered([s EXCEPT !.state.current = linkid, !.state.highlight = None])

(* The link that is followed is not added to loaded_nodes. *)
navigated(s, linkid) ==
  Rendered([s EXCEPT !.state.current = linkid, !.state.history = "pushState",
                     !.state.highlight = None])

cache_links(s, p) ==
  Rendered([s EXCEPT !.state.loaded_nodes = @ \union {p},
                     !.state.linked = @ \union {p}])

search_init(s, r) ==
  Rendered([s EXCEPT !.state.search = [regexp |-> r, status |-> "ready", found |-> FALSE,
                                       page |-> PageOf[s.state.current]],
                     !.pages.search_seen = FALSE])

search_query(s) ==
  Rendered([s EXCEPT !.state.search.status = "searching", !.pages.search_seen = FALSE])

(* The places in the table of contents after a link.  The top page is      *)
(* before all of them.                                                     *)
After(linkid) == {k \in DOMAIN Toc :
                    \/ linkid = TOP_ID
                    \/ \E j \in DOMAIN Toc : j < k /\ Toc[j] = linkid}

(* Mutant: only the page next to a page is found. *)
ForwardSibling(linkid) ==
  LET S == {k \in After(linkid) : Toc[k] \in Pages /\ (k > 1 => Toc[k - 1] \in Pages)}
  IN IF S = {} THEN None ELSE Toc[CHOOSE k \in S : \A j \in S : k <= j]

(* The next link that is a page, and not the one before it. *)
forward_pageid(linkid) ==
  LET S == {k \in After(linkid) :
              Toc[k] \in Pages /\ PageOf[Toc[k]] # (IF k = 1 THEN TOP_ID ELSE PageOf[Toc[k - 1]])}
  IN IF S = {} THEN None ELSE Toc[CHOOSE k \in S : \A j \in S : k <= j]

search_result(s, found) ==
  LET search == s.state.search
      fwd == forward_pageid(search.page)
      t == [s EXCEPT !.pages.search_seen = FALSE]
  IN IF found
     THEN Rendered([t EXCEPT !.state.search.status = "done", !.state.search.found = TRUE,
                             !.state.current = search.page,
                             !.state.history = "pushState",
                             !.state.highlight = search.regexp])
     ELSE IF search.page \notin s.state.loaded_nodes THEN s
     ELSE IF fwd = None
     THEN Rendered([t EXCEPT !.state.search.status = "done", !.state.highlight = None])
     ELSE Rendered([t EXCEPT !.state.search.status = "ready", !.state.search.page = fwd])


-----------------------------------------------------------------------------
(* search: the match after the one that is highlighted, in page p *)

Scanned(s, p, r) ==
  LET mark == s.frame[p].mark
      nth == IF mark # None /\ mark.regexp = r THEN mark.nth + 1 ELSE 1
  IN [s EXCEPT !.frame[p].mark =
        IF nth <= Matches[p][r] THEN [regexp |-> r, nth |-> nth] ELSE None]

IsMarked(s, p) == s.frame[p].mark # None

-----------------------------------------------------------------------------
(* What happens in the iframe of a page *)

(* DOMContentLoaded: on_load sends the links of the page. *)
FrameContentLoaded(p) ==
  /\ frame[p].phase = "loading"
  /\ frame' = [frame EXCEPT ![p].phase = "dom"]
  /\ inbox' = Append(inbox, CacheLinks(p))
  /\ UNCHANGED <<state, pages, history, timers, user>>

(* The load event: iframe-ready is rendered before the handlers of         *)
(* post_message send what was waiting.                                     *)
FrameLoaded(p) ==
  LET s == Rendered([World EXCEPT !.frame[p].phase = "ready"])
  IN /\ frame[p].phase = "dom"
     /\ Becomes([s EXCEPT !.frame[p].mail = @ \o s.frame[p].waiting,
                          !.frame[p].waiting = << >>])
     /\ UNCHANGED user

FrameMessage(p) ==
  LET m == Head(frame[p].mail)
      s == [World EXCEPT !.frame[p].mail = Tail(@)]
      t == Scanned(s, p, m.regexp)
  IN /\ frame[p].mail # << >>
     /\ CASE m.kind = "highlight" -> Becomes([s EXCEPT !.frame[p].mark = None])
          [] m.kind = "search" -> Becomes([t EXCEPT !.inbox = Append(@, Result(IsMarked(t, p)))])
          [] OTHER -> Becomes(s)
     /\ UNCHANGED user

-----------------------------------------------------------------------------
(* What happens in the top page *)

(* on_message *)
TopMessage ==
  LET m == Head(inbox)
      s == [World EXCEPT !.inbox = Tail(@)]
  IN /\ inbox # << >>
     /\ Becomes(IF m.kind = "cache-links" THEN cache_links(s, m.page)
                ELSE search_result(s, m.found))
     /\ UNCHANGED user

(* The timer set for a search: the top page is searched at once, another   *)
(* in its iframe.                                                          *)
SearchTimer ==
  LET t == Head(timers)
      s == search_query([World EXCEPT !.timers = Tail(@)])
      top == Scanned(s, TOP_ID, t.regexp)
  IN /\ timers # << >>
     /\ Becomes(IF t.page = TOP_ID THEN search_result(top, IsMarked(top, TOP_ID))
                ELSE post_message(s, t.page, SearchFor(t.regexp)))
     /\ UNCHANGED user

(* An action about something else: a title, a section, the sidebar, the    *)
(* end of a warning.  It is rendered like the others.                      *)
OtherAction == Becomes(Rendered(World)) /\ UNCHANGED user

-----------------------------------------------------------------------------
(* What the user does *)

Command == /\ user.commands < MaxCommands
           /\ user' = [user EXCEPT !.commands = @ + 1]

Click(linkid) == Command /\ Becomes(current_url(World, linkid, "pushState"))

(* The keys n, p, u, ] and [: a link of the page, when its iframe has sent *)
(* them, or a neighbour in the table of contents.                          *)
Neighbours(linkid) ==
  {Toc[k] : k \in {k \in DOMAIN Toc : \/ k = 1 /\ linkid = TOP_ID
                                      \/ k > 1 /\ Toc[k - 1] = linkid
                                      \/ k < Len(Toc) /\ Toc[k + 1] = linkid}}

Navigate(linkid) ==
  LET current == IF PageOf[state.current] = TOP_ID THEN TOP_ID ELSE state.current
  IN /\ current \in state.loaded_nodes
     /\ \/ current \in state.linked /\ linkid \in Nav[current]
        \/ linkid \in Neighbours(current)
     /\ Command
     /\ Becomes(navigated(World, linkid))

(* The keys l and r and the buttons of the browser: on_popstate. *)
Traverse(step) ==
  LET at == history.at + step
  IN /\ at \in DOMAIN history.entries
     /\ Command
     /\ Becomes(current_url([World EXCEPT !.history.at = at], history.entries[at], "none"))

(* Some search has been started and has not had its last answer. *)
UnderWay ==
  \/ state.search.status # "done"
  \/ timers # << >>
  \/ \E k \in DOMAIN inbox : inbox[k].kind = "search-result"
  \/ \E p \in Pages : \E k \in DOMAIN (frame[p].mail \o frame[p].waiting) :
       (frame[p].mail \o frame[p].waiting)[k].kind = "search"

Search(r) ==
  /\ user.commands < MaxCommands
  /\ user' = [commands |-> user.commands + 1, asked |-> PageOf[state.current],
              overlapped |-> user.overlapped \/ UnderWay]
  /\ Becomes(search_init(World, r))

-----------------------------------------------------------------------------
(* on_load of the top page, opened at a link, and of the sidebar *)
Init ==
  \E linkid \in Starts :
    /\ state = [current |-> linkid, history |-> "replaceState", highlight |-> None,
                loaded_nodes |-> {TOP_ID, linkid} \union {Toc[k] : k \in DOMAIN Toc},
                linked |-> {TOP_ID},
                search |-> [regexp |-> None, status |-> "done", found |-> FALSE,
                            page |-> TOP_ID]]
    /\ pages = [prev_id |-> linkid, search_seen |-> TRUE]
    /\ history = [entries |-> <<linkid>>, at |-> 1]
    /\ frame = [p \in AllPages |->
                  [phase |-> IF p = TOP_ID THEN "ready"
                             ELSE IF p = PageOf[linkid] THEN "loading" ELSE "none",
                   waiting |-> IF p # TOP_ID /\ p = PageOf[linkid] THEN <<Unmark>> ELSE << >>,
                   mail |-> << >>,
                   mark |-> None]]
    /\ inbox = << >>
    /\ timers = << >>
    /\ user = [commands |-> 0, asked |-> None, overlapped |-> FALSE]

Next ==
  \/ \E p \in Pages : FrameContentLoaded(p) \/ FrameLoaded(p) \/ FrameMessage(p)
  \/ TopMessage
  \/ SearchTimer
  \/ OtherAction
  \/ \E linkid \in Linkids : Click(linkid) \/ Navigate(linkid)
  \/ \E step \in {-1, 1} : Traverse(step)
  \/ \E r \in Regexps : Search(r)

(* Weak fairness of what the browser does: it loads every page and         *)
(* delivers every message and every timer.  What enables the actions that  *)
(* render is written out.                                                  *)
Loads(p) ==
  /\ WF_vars(FrameContentLoaded(p))
  /\ []<>(frame[p].phase # "dom") \/ []<><<FrameLoaded(p)>>_vars
Delivers(p) == []<>(frame[p].mail = << >>) \/ []<><<FrameMessage(p)>>_vars

Fairness ==
  /\ \A p \in Pages : Loads(p) /\ Delivers(p)
  /\ []<>(inbox = << >>) \/ []<><<TopMessage>>_vars
  /\ []<>(timers = << >>) \/ []<><<SearchTimer>>_vars

Spec == Init /\ [][Next]_vars /\ Fairness

-----------------------------------------------------------------------------
TypeOK ==
  /\ state.current \in Linkids /\ state.loaded_nodes \subseteq Linkids
  /\ state.linked \subseteq AllPages
  /\ state.search.page \in AllPages /\ state.search.status \in {"ready", "searching", "done"}
  /\ pages.prev_id \in Linkids
  /\ history.at \in DOMAIN history.entries
  /\ \A p \in Pages : frame[p].mail # << >> => frame[p].phase = "ready"

(* The entry of the browser's history is the page that is shown, however   *)
(* it was reached: by a link, by a search or by going back (info.js:1096). *)
HistoryInStep == history.entries[history.at] = state.current

(* A search passes over no page that has a match: one that has succeeded   *)
(* has found the first page of the table of contents with one after the    *)
(* page it was started in, and when it has failed there is none            *)
(* (info.js:395).  Not so when two searches overlap.                       *)
SkipsNoMatch ==
  LET search == state.search
      passed == {k \in After(user.asked) :
                   search.found => \E j \in DOMAIN Toc : k < j /\ Toc[j] = search.page}
  IN search.status = "done" /\ user.asked # None /\ ~user.overlapped
     => \A k \in passed : Toc[k] \in Pages =>
          (search.found /\ search.page = user.asked) \/ Matches[Toc[k]][search.regexp] = 0

(* When nothing is on its way, no page but the one that is shown has a     *)
(* highlight (info.js:931), unless searches have overlapped.  The top      *)
(* page, which messages do not reach, loses its own when it is shown       *)
(* again.                                                                  *)
Quiet == /\ inbox = << >> /\ timers = << >>
         /\ \A p \in Pages : frame[p].mail = << >> /\ frame[p].waiting = << >>
OnlyShownMarked ==
  Quiet /\ ~user.overlapped
  => \A p \in Pages : frame[p].mark # None => p = PageOf[state.current]

(* Every search comes to an end, whatever else is done meanwhile and       *)
(* however many searches overlap (info.js:380 to 428).                     *)
SearchEnds == state.search.status # "done" ~> state.search.status = "done"

(* resolve_page does not throw its ReferenceError (info.js:1044): there is *)
(* a container for the page that is shown, in the table of contents or     *)
(* not, when it is reached by a link, by a search or by going back.        *)
PageHasContainer == Container(World, PageOf[state.current])

(* "Scroll to highlighted search result." (info.js:988): the page that is  *)
(* scrolled to its result has one.                                         *)
ScrollFindsResult ==
  \A p \in Pages : frame[p].mail # << >> /\ Head(frame[p].mail) = ScrollToResult
                   => frame[p].mark # None

=============================================================================
