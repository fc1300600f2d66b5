----------------------------- MODULE InfoWindows -----------------------------
(***************************************************************************)
(* The windows of the Info reader (info/window.c) and the commands that    *)
(* change them (info/session-cmd.c, info/footnotes.c).                     *)
(*                                                                         *)
(* The windows are stacked on the screen, each with its modeline below it; *)
(* the echo area is the last line.  Nothing computes the layout from       *)
(* scratch: every operation takes lines from one window and gives them to  *)
(* another, and a change of the size of the screen is divided among them.  *)
(*                                                                         *)
(* A window is known by its place in the chain.  An operation takes a      *)
(* layout and returns one; a command is a composition of them.             *)
(***************************************************************************)
EXTENDS Integers, Sequences, FiniteSets

CONSTANTS
  ScreenHeights,      \* the heights that the terminal may have
  Amounts,            \* the arguments given to grow-window
  FootnoteLines,      \* the lines of the node that *Footnotes* shows
  auto_footnotes_p,   \* the variable automatic-footnotes
  auto_tiling_p,      \* the variable automatic-tiling
  MaxWindows,         \* bound: a window is split while there are fewer
  MaxResizes          \* bound: the changes of the size of the screen

ASSUME InfoWindowsAssumption ==
  /\ ScreenHeights \subseteq Nat \ {0}
  /\ Amounts \subseteq Int
  /\ FootnoteLines \in Nat
  /\ auto_footnotes_p \in BOOLEAN /\ auto_tiling_p \in BOOLEAN
  /\ MaxWindows \in Nat /\ MaxResizes \in Nat

VARIABLES
  windows,        \* the chain, from the top of the screen
  active_window,  \* its place in the chain
  the_screen,     \* the height of the screen
  resizes         \* how often it has changed

vars == <<windows, active_window, the_screen, resizes>>

WINDOW_MIN_HEIGHT == 2
WINDOW_MIN_SIZE == WINDOW_MIN_HEIGHT + 1
ECHO_AREA_HEIGHT == 1

(* A node has footnotes ("noted"), has none ("plain"), or is *Footnotes*.  *)
Nodes == {"plain", "noted", "footnotes"}
Window == [height : Int, first_row : Int, temp : BOOLEAN, node : Nodes]

(* held is the window that a command has a pointer to. *)
Layout == [windows |-> windows, active |-> active_window, held |-> active_window,
           screen |-> the_screen]

Becomes(s) == /\ windows' = s.windows
              /\ active_window' = s.active
              /\ the_screen' = s.screen

Least(S) == CHOOSE k \in S : \A j \in S : k <= j
Greatest(S) == CHOOSE k \in S : \A j \in S : j <= k

-----------------------------------------------------------------------------
(* window.c *)

(* The division of C. *)
Quotient(a, b) == IF a < 0 THEN -((-a) \div b) ELSE a \div b

(* The rows of the first k windows and their modelines. *)
Rows(ws) ==
  LET rows[k \in 0 .. Len(ws)] == IF k = 0 THEN 0 ELSE rows[k - 1] + ws[k].height + 1
  IN rows

(* Each window begins below the modeline of the one before it. *)
Restacked(ws) ==
  LET rows == Rows(ws)
  IN [k \in DOMAIN ws |-> [ws[k] EXCEPT !.first_row = ws[1].first_row + rows[k - 1]]]

(* Mutant: a window of which half would have no line is split. *)
CanSplitSmall(s, k) == s.windows[k].height >= WINDOW_MIN_SIZE

CanSplit(s, k) == s.windows[k].height \div 2 >= WINDOW_MIN_SIZE

(* w is linked into the chain below window k. *)
Linked(ws, k, w) == SubSeq(ws, 1, k) \o <<w>> \o SubSeq(ws, k + 1, Len(ws))

(* Window k is taken out of the chain. *)
Unlinked(ws, k) == SubSeq(ws, 1, k - 1) \o SubSeq(ws, k + 1, Len(ws))

(* window_make_window with window k active. *)
MakeWindow(s, k, node) ==
  LET ws == s.windows
      w == ws[k]
      height == (w.height \div 2) - 1
      new == [height |-> height, first_row |-> w.first_row + (w.height - height),
              temp |-> FALSE, node |-> node]
      Moved(j) == IF j > k THEN j + 1 ELSE j
  IN [s EXCEPT !.windows = Linked([ws EXCEPT ![k].height = @ - (height + 1)], k, new),
               !.active = Moved(@),
               !.held = Moved(@)]

(* Mutant: the active window is not replaced when it is deleted. *)
ActiveAnyway(s, k) == s.active

(* The window that becomes active when k is deleted: the next one that is  *)
(* not temporary, or else one before.                                      *)
ActiveWithout(s, k) ==
  LET ws == s.windows
      n == Len(ws)
      after == {j \in k + 1 .. n : ~ws[j].temp}
      before == {j \in 1 .. k - 1 : ~ws[j].temp}
  IN IF s.active # k THEN s.active
     ELSE IF after # {} THEN Least(after)
     ELSE IF k = 1 THEN n
     ELSE IF before # {} THEN Greatest(before)
     ELSE 1

(* window_delete_window: a neighbour gets its lines. *)
DeleteWindow(s, k) ==
  LET ws == s.windows
      n == Len(ws)
      a == ActiveWithout(s, k)
      fix == IF k < n /\ a = k + 1 THEN k + 1
             ELSE IF k > 1 /\ a = k - 1 THEN k - 1
             ELSE IF k < n THEN k + 1 ELSE k - 1
      Moved(j) == IF j > k THEN j - 1 ELSE IF j = k THEN 0 ELSE j
      w == ws[fix]
      grown == [w EXCEPT
                 !.first_row = IF w.first_row > ws[k].first_row THEN ws[k].first_row ELSE w.first_row,
                 !.height = w.height + ws[k].height + 1]
      fixed == [ws EXCEPT ![fix] = grown]
  IN IF n = 1 THEN s
     ELSE [s EXCEPT !.windows = Unlinked(fixed, k), !.active = Moved(a), !.held = Moved(@)]

(* Mutant: the window below is not moved. *)
MovingInPlace(ws, k, p, n) ==
  [j \in DOMAIN ws |->
     CASE j = k -> [ws[j] EXCEPT !.height = ws[j].height + p + n, !.first_row = ws[j].first_row - p]
       [] j = k - 1 -> [ws[j] EXCEPT !.height = ws[j].height - p]
       [] j = k + 1 -> [ws[j] EXCEPT !.height = ws[j].height - n]
       [] OTHER -> ws[j]]

(* p lines come to window k from the one above, n from the one below. *)
Moving(ws, k, p, n) ==
  [j \in DOMAIN ws |->
     CASE j = k -> [ws[j] EXCEPT !.height = ws[j].height + p + n, !.first_row = ws[j].first_row - p]
       [] j = k - 1 -> [ws[j] EXCEPT !.height = ws[j].height - p]
       [] j = k + 1 -> [ws[j] EXCEPT !.height = ws[j].height - n, !.first_row = ws[j].first_row + n]
       [] OTHER -> ws[j]]

(* window_change_window_height *)
ChangeHeight(ws, k, amount) ==
  LET n == Len(ws)
      next_avail == IF k < n THEN ws[k + 1].height - WINDOW_MIN_SIZE ELSE 0
      prev_avail == IF k > 1 THEN ws[k - 1].height - WINDOW_MIN_SIZE ELSE 0
      more == prev_avail - next_avail
      rest == amount - (IF more > 0 THEN more ELSE -more)
  IN IF n = 1 \/ amount = 0 THEN ws
     ELSE IF amount < 0
     THEN IF ws[k].height + amount < WINDOW_MIN_HEIGHT THEN ws
          ELSE IF k = n \/ (k > 1 /\ ws[k - 1].height < ws[k + 1].height)
          THEN Moving(ws, k, amount, 0)
          ELSE Moving(ws, k, 0, amount)
     ELSE IF amount > next_avail + prev_avail THEN ws
     ELSE IF next_avail - amount >= prev_avail THEN Moving(ws, k, 0, amount)
     ELSE IF prev_avail - amount >= next_avail THEN Moving(ws, k, amount, 0)
     ELSE IF more > 0 THEN Moving(ws, k, more + rest \div 2, (rest + 1) \div 2)
     ELSE Moving(ws, k, rest \div 2, (rest + 1) \div 2 - more)

(* The lines of those of the first k windows that are in S. *)
Lines(ws, S) ==
  LET lines[k \in 0 .. Len(ws)] ==
        IF k = 0 THEN 0
        ELSE IF k \in S THEN lines[k - 1] + ws[k].height ELSE lines[k - 1]
  IN lines

(* window_tile_windows: the windows that are not internal, or all of them, *)
(* get the same height.                                                    *)
Tile(ws, internals) ==
  LET S == {k \in DOMAIN ws : internals \/ ws[k].node # "footnotes"}
      numwins == Cardinality(S)
      avail == Lines(ws, S)[Len(ws)]
      each == Quotient(avail, numwins)
  IN IF numwins <= 1 THEN ws
     ELSE Restacked([k \in DOMAIN ws |->
            IF k \notin S THEN ws[k]
            ELSE [ws[k] EXCEPT !.height =
                    IF k = Greatest(S) THEN each + (avail - each * numwins) ELSE each]])

(* Mutant: the remainder of the division is lost. *)
GivenEvenly(d, k) == [d EXCEPT !.windows[k].height = IF @ + d.each >= 1 THEN @ + d.each ELSE @]

(* One turn of the distribution of a change of the screen's size. *)
Given(d, k) ==
  LET height == d.windows[k].height
      taken == height + d.each >= 1
      h == IF taken THEN height + d.each ELSE height
      over == IF taken THEN d.leftover ELSE d.leftover + d.each
      fits == over # 0 /\ h + over >= 1
  IN [d EXCEPT !.windows[k].height = IF fits THEN h + over ELSE h,
               !.leftover = IF fits THEN 0 ELSE over]

(* The first temporary window, or the first, is deleted until the rest     *)
(* have room for their lines, or one is left.                              *)
TooMany(s, ws) == s.screen - 1 <= WINDOW_MIN_SIZE * Len(ws)
Doomed(ws) == LET temps == {k \in DOMAIN ws : ws[k].temp}
              IN IF temps = {} THEN 1 ELSE Least(temps)
Fewer(s) == LET f[i \in 0 .. Len(s.windows) - 1] ==
                  IF i = 0 THEN s
                  ELSE IF TooMany(f[i - 1], f[i - 1].windows)
                       THEN DeleteWindow(f[i - 1], Doomed(f[i - 1].windows))
                       ELSE f[i - 1]
            IN f[Len(s.windows) - 1]

(* The shares of the change are those of the windows that there were. *)
Shared(s, delta, numwins) ==
  LET m == Len(s.windows)
      each == Quotient(delta, numwins)
      start == s.screen % m
      given[i \in 0 .. m] ==
        IF i = 0 THEN [windows |-> s.windows, each |-> each,
                       leftover |-> delta - each * numwins]
        ELSE Given(given[i - 1], ((start + i - 1) % m) + 1)
  IN given[m]

Even(ws, avail) ==
  LET m == Len(ws)
      each == avail \div m
  IN Restacked([k \in DOMAIN ws |->
       [ws[k] EXCEPT !.height = IF k = m THEN each + (avail - each * m) ELSE each]])

NewScreenSize(s, height) ==
  LET delta == height - s.screen
      few == Fewer([s EXCEPT !.screen = height])
      shared == Shared(few, delta, Len(s.windows))
      ws == Restacked(shared.windows)
      m == Len(ws)
      avail == height - (m + ECHO_AREA_HEIGHT)
      outside == \E k \in 1 .. m : ws[k].height < WINDOW_MIN_HEIGHT \/ ws[k].height > avail
      settled == IF shared.each < 0 /\ ws[1].height # 0 /\ m > 1 /\ outside
                 THEN Even(ws, avail) ELSE ws
  IN IF delta = 0 THEN s
     ELSE IF TooMany(few, few.windows)
     THEN [few EXCEPT !.windows[1].height = height - 2]
     ELSE [few EXCEPT !.windows = [k \in 1 .. m |->
             [settled[k] EXCEPT !.height = IF @ < 0 THEN 0 ELSE @]]]

-----------------------------------------------------------------------------
(* footnotes.c *)

(* The first window that shows *Footnotes*, or 0. *)
FootnotesWindow(s) ==
  LET S == {k \in DOMAIN s.windows : s.windows[k].node = "footnotes"}
  IN IF S = {} THEN 0 ELSE Least(S)

(* info_get_or_remove_footnotes for window k *)
GetOrRemoveFootnotes(s, k) ==
  LET f == FootnotesWindow(s)
      last == Len(s.windows)
      made == IF f # 0 THEN s ELSE MakeWindow(s, last, "footnotes")
      w == IF f # 0 THEN f ELSE last + 1
      shown == [made.windows EXCEPT ![w].temp = TRUE]
  IN IF f = k THEN s
     ELSE IF s.windows[k].node # "noted"
     THEN IF f # 0 THEN DeleteWindow(s, f) ELSE s
     ELSE IF f = 0 /\ ~CanSplit(s, last) THEN s
     ELSE [made EXCEPT !.windows = ChangeHeight(shown, w, FootnoteLines - shown[w].height)]

(* What automatic-footnotes does for window k. *)
Footnotes(s, k) == IF auto_footnotes_p THEN GetOrRemoveFootnotes(s, k) ELSE s

(* info_set_node_of_window *)
SetNode(s, k, node) ==
  LET t == [s EXCEPT !.windows[k].node = node]
  IN IF node = "footnotes" THEN t ELSE Footnotes(t, k)

-----------------------------------------------------------------------------
(* session-cmd.c: the commands of the active window *)

Tiled(s) == IF auto_tiling_p THEN [s EXCEPT !.windows = Tile(@, FALSE)] ELSE s

info_split_window ==
  LET node == windows[active_window].node
      split == MakeWindow(Layout, active_window, node)
  IN /\ CanSplit(Layout, active_window) /\ Len(windows) < MaxWindows
     /\ Becomes(Tiled(SetNode(split, active_window + 1, node)))

(* Mutant: the footnotes of the deleted window's node stay. *)
DeleteWindowOnly ==
  /\ Len(windows) > 1
  /\ Becomes(Tiled(DeleteWindow(Layout, active_window)))

info_delete_window ==
  LET s == DeleteWindow(Layout, active_window)
  IN /\ Len(windows) > 1
     /\ Becomes(Tiled(Footnotes(s, s.active)))

(* The first of the other windows is deleted, until there is none. *)
OneKept(s) ==
  LET f[i \in 0 .. Len(s.windows) - 1] ==
        IF i = 0 THEN s ELSE DeleteWindow(f[i - 1], IF f[i - 1].held = 1 THEN 2 ELSE 1)
  IN f[Len(s.windows) - 1]

info_keep_one_window ==
  /\ Len(windows) > 1
  /\ Becomes(OneKept(Layout))

(* info_next_window and info_prev_window, with any count *)
info_next_window(k) ==
  LET s == Footnotes([Layout EXCEPT !.held = k], k)
  IN /\ Len(windows) > 1 /\ k # active_window
     /\ Becomes([s EXCEPT !.active = s.held])

info_grow_window(amount) ==
  Becomes([Layout EXCEPT !.windows = ChangeHeight(@, active_window, amount)])

info_tile_windows == Becomes([Layout EXCEPT !.windows = Tile(@, TRUE)])

(* A command that shows another node in the window. *)
info_set_node_of_window(node) == Becomes(SetNode(Layout, active_window, node))

info_show_footnotes ==
  LET f == FootnotesWindow(Layout)
  IN Becomes(IF f # 0 /\ Len(windows) > 1 THEN DeleteWindow(Layout, f)
             ELSE GetOrRemoveFootnotes(Layout, active_window))

(* signals.c: the terminal has another size. *)
reset_info_window_sizes(height) ==
  LET s == NewScreenSize(Layout, height)
  IN /\ resizes < MaxResizes /\ height # the_screen
     /\ resizes' = resizes + 1
     /\ Becomes(Footnotes(s, s.active))

-----------------------------------------------------------------------------
Init ==
  /\ the_screen \in ScreenHeights
  /\ windows = << [height |-> the_screen - 1 - ECHO_AREA_HEIGHT, first_row |-> 0,
                   temp |-> FALSE, node |-> "plain"] >>
  /\ active_window = 1
  /\ resizes = 0

Command ==
  \/ info_split_window
  \/ info_delete_window
  \/ info_keep_one_window
  \/ \E k \in DOMAIN windows : info_next_window(k)
  \/ \E amount \in Amounts : info_grow_window(amount)
  \/ info_tile_windows
  \/ \E node \in {"plain", "noted"} : info_set_node_of_window(node)
  \/ info_show_footnotes

Next ==
  \/ Command /\ UNCHANGED resizes
  \/ \E height \in ScreenHeights : reset_info_window_sizes(height)

Spec == Init /\ [][Next]_vars

-----------------------------------------------------------------------------
TypeOK ==
  /\ windows \in Seq(Window) /\ windows # << >>
  /\ active_window \in DOMAIN windows
  /\ the_screen \in ScreenHeights /\ resizes \in 0 .. MaxResizes

(* Each window begins below the modeline of the one before it, the first   *)
(* at the top: the windows neither overlap nor leave rows between them,    *)
(* whatever was split, deleted, resized or tiled (window.c).               *)
Stacked == windows = Restacked([windows EXCEPT ![1].first_row = 0])

(* The windows, their modelines and the echo area are exactly the screen.  *)
Bottom(ws) == ws[Len(ws)].first_row + ws[Len(ws)].height + 1
Covers == Bottom(windows) + ECHO_AREA_HEIGHT = the_screen

(* Lines are moved between windows and never lost: only a smaller screen   *)
(* can make a layout that does not cover it (see CoversAlways).            *)
LinesKept == [][Covers /\ the_screen' >= the_screen => Covers']_vars

(* The comment of window_new_screen_size: "there is enough space for all   *)
(* of the windows" (window.c:218), which are "within bounds" afterwards.   *)
CoversAlways == Covers

(* "Don't resize a window to be smaller than one line." (window.c:172): a   *)
(* window that shares the screen can show a line of its node, and no split, *)
(* deletion or change of size leaves one without.                          *)
AtLeastALine == Len(windows) > 1 => \A k \in DOMAIN windows : windows[k].height >= 1

(* "If a node is selected which contains no footnotes, and a *Footnotes*   *)
(* window is on the screen, the *Footnotes* window is deleted."            *)
(* (info-stnd.texi:2003): so when the step to the node finds one.          *)
Shown(ws) == {k \in DOMAIN ws : ws[k].node = "footnotes"}
FootnotesLeave ==
  [][/\ auto_footnotes_p
     /\ \A j, k \in Shown(windows) : j = k
     /\ windows[active_window].node # "plain"
     /\ windows'[active_window'].node = "plain"
     => Shown(windows') = {}]_vars

=============================================================================
