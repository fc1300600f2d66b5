------------------------------- MODULE Infog -------------------------------
(***************************************************************************)
(* The graphical reader of HTML manuals (infog).                           *)
(*                                                                         *)
(* The main process (main.c) has the window: a web view for the page, the  *)
(* table of contents in the sidebar, and the index.  A second, hidden web  *)
(* view loads the top page of a manual for its table of contents, and then *)
(* the pages with indices one at a time.  Each web view has a process of   *)
(* its own, in which an extension (extension.c) looks at every request and *)
(* at every page that is loaded, and sends messages to the main process.   *)
(*                                                                         *)
(* What the main process asks of a view and what it hears from it are on   *)
(* their way for any time, in order; the two views are independent.        *)
(***************************************************************************)
EXTENDS Integers, Sequences

CONSTANTS
  Manuals,        \* the manuals that are installed
  Missing,        \* manuals to which there are links, not installed
  Nodes,          \* the nodes of a manual
  Top,            \* the one in index.html
  FIRST_MANUAL,
  WithContents,   \* the manuals with a table of contents in index.html
  Toc,            \* the nodes in the table of contents of each manual
  Indices,        \* the nodes with an index of each manual, in their order
  Pointers,       \* the next, prev and up links of each page
  None,           \* NULL
  MaxCommands     \* bound: the commands of a user who waits

Pages == [manual : Manuals, node : Nodes]
P(m, n) == [manual |-> m, node |-> n]

ASSUME InfogAssumption ==
  /\ Manuals \intersect Missing = {} /\ FIRST_MANUAL \in Manuals
  /\ Top \in Nodes
  /\ None \notin Manuals \union Missing \union Nodes \union Pages
  /\ None \notin [row : Nat, node : Nodes]    \* the rows of the sidebar
  /\ None \notin [page : Pages, query : {"send-index", "top-node"}]
  /\ WithContents \subseteq Manuals /\ Toc \in [Manuals -> SUBSET Nodes]
  /\ Indices \in [Manuals -> Seq(Nodes)]
  /\ Pointers \in [Pages -> Seq([rel : {"up", "next", "prev"}, node : Nodes])]
  /\ MaxCommands \in Nat

VARIABLES
  main,           \* the variables of the main process
  to_page,        \* what webView is asked to load
  page,           \* its process: the manual it is in, the page it loads and shows
  from_page,      \* its messages
  to_hidden,      \* what hiddenWebView is asked to load
  hidden,         \* its process: the request it is loading
  from_hidden,    \* its messages
  user            \* what the user has done

vars == <<main, to_page, page, from_page, to_hidden, hidden, from_hidden, user>>

Rels == {"up", "next", "prev"}
NoLinks == [r \in Rels |-> None]

(* What a callback of the main process changes. *)
World == [main |-> main, to_page |-> to_page, to_hidden |-> to_hidden]
Becomes(s) == main' = s.main /\ to_page' = s.to_page /\ to_hidden' = s.to_hidden

-----------------------------------------------------------------------------
(* main.c *)

(* webkit_web_view_load_uri: the view has the new address at once. *)
load_uri(s, p) == [s EXCEPT !.main.uri = p, !.to_page = Append(@, p)]

load_hidden(s, p, query) ==
  [s EXCEPT !.to_hidden = Append(@, [page |-> p, query |-> query])]

(* The address is taken relative to that of the view. *)
load_relative_url(s, n) == load_uri(s, P(s.main.uri.manual, n))

(* The row of the sidebar that toc_paths has for a node: the last one. *)
RowOf(toc, n) ==
  LET K == {k \in DOMAIN toc : n \in Toc[toc[k]]}
  IN IF K = {} THEN None
     ELSE [row |-> CHOOSE k \in K : \A j \in K : j <= k, node |-> n]

(* Mutant: a row that is selected already is loaded again. *)
SelectedAgain(s, row) ==
  load_relative_url([s EXCEPT !.main.selection = row], row.node)

(* A row that becomes the selection is loaded by toc_selected_cb, whoever  *)
(* selects it.                                                             *)
Selected(s, row) ==
  IF row = s.main.selection THEN s
  ELSE load_relative_url([s EXCEPT !.main.selection = row], row.node)

switch_node(s, n) ==
  LET row == RowOf(s.main.toc, n) IN IF row = None THEN s ELSE Selected(s, row)

(* A manual that is not found is reported in a dialog, and that is all.    *)
(* The list of index nodes and the pending node are those of the manual    *)
(* before.                                                                 *)
new_manual(s, m) ==
  IF m \notin Manuals THEN s
  ELSE [s EXCEPT !.main.current_manual = m, !.main.toc = << >>,
                 !.main.selection = None, !.main.index_store = << >>]

load_manual(s, m) ==
  IF m \notin Manuals THEN s ELSE load_uri(new_manual(s, m), P(m, Top))

continue_to_load_index_nodes(s) ==
  LET rest == s.main.index_list
  IN IF rest = << >> THEN s
     ELSE load_hidden([s EXCEPT !.main.index_list = Tail(@)],
                      P(s.main.current_manual, Head(rest)), "send-index")

(* The list of another manual that is being worked off is given up. *)
load_index_nodes(s, nodes) ==
  continue_to_load_index_nodes([s EXCEPT !.main.index_list = nodes])

(* Mutant: a node that is selected before the sidebar is there is lost. *)
PendingForgotten(s, n) ==
  [(IF s.main.toc # << >> THEN switch_node(s, n) ELSE s) EXCEPT !.main.links = NoLinks]

inform_new_node(s, n) ==
  [(IF s.main.toc # << >> THEN switch_node(s, n)
    ELSE [s EXCEPT !.main.pending_node = n]) EXCEPT !.main.links = NoLinks]

load_toc(s, m) ==
  LET t == [s EXCEPT !.main.toc = Append(@, m)]
  IN IF t.main.pending_node = None THEN t
     ELSE [switch_node(t, t.main.pending_node) EXCEPT !.main.pending_node = None]

save_completions(s, p) ==
  continue_to_load_index_nodes([s EXCEPT !.main.index_store = Append(@, p)])

(* In the manual of the main process, which may not be that of the link. *)
load_node(s, n) == load_uri(s, P(s.main.current_manual, n))

new_manual_message(s, m) ==
  IF m \notin Manuals THEN s
  ELSE load_hidden(new_manual(s, m), P(m, Top), "top-node")

(* The view's own report of the address that it loads comes with them. *)
handle_script_message(s, m) ==
  CASE m.kind = "uri" -> [s EXCEPT !.main.uri = m.page]
    [] m.kind = "pointer" -> [s EXCEPT !.main.links[m.rel] = m.page]
    [] m.kind = "inform-new-node" -> inform_new_node(s, m.node)
    [] m.kind = "new-node" -> load_node(s, m.node)
    [] m.kind = "new-manual" -> new_manual_message(s, m.manual)
    [] m.kind = "index-nodes" -> load_index_nodes(s, m.nodes)
    [] m.kind = "index" -> save_completions(s, m.page)
    [] m.kind = "toc" -> load_toc(s, m.manual)

-----------------------------------------------------------------------------
(* extension.c, in the process of each view *)

(* Mutant: the manual is not announced. *)
NeverAnnounced(m) == << >>

(* load_manual: the main process is told of another manual. *)
Announced(m) ==
  IF m = page.manual THEN << >> ELSE << [kind |-> "new-manual", manual |-> m] >>

(* request_callback for a page: a load under way is given up. *)
Request(p) ==
  /\ page' = [page EXCEPT !.manual = p.manual, !.loading = p]
  /\ from_page' = from_page \o << [kind |-> "uri", page |-> p] >> \o Announced(p.manual)
                            \o << [kind |-> "inform-new-node", node |-> p.node] >>

(* request_callback for a link that only has the name of a manual: the     *)
(* main process is asked to load it.                                       *)
PrivateRequest(m, n) ==
  /\ page' = [page EXCEPT !.manual = m, !.loading = None]
  /\ from_page' = from_page \o Announced(m) \o << [kind |-> "new-node", node |-> n] >>

SentPointers(p) ==
  [k \in DOMAIN Pointers[p] |->
     [kind |-> "pointer", rel |-> Pointers[p][k].rel,
      page |-> P(p.manual, Pointers[p][k].node)]]

(* Mutant: the message is sent without a table of contents too. *)
AlwaysSent(m) == << [kind |-> "toc", manual |-> m] >>

(* Nothing is sent of a top page without a table of contents. *)
send_toc(m) ==
  IF m \in WithContents THEN << [kind |-> "toc", manual |-> m] >> ELSE << >>
find_indices(m) == [kind |-> "index-nodes", nodes |-> Indices[m]]
send_index(p) == [kind |-> "index", page |-> p]

(* What document_loaded_callback sends of a page for the hidden view. *)
Answers(r) ==
  IF r.query = "send-index" THEN << send_index(r.page) >>
  ELSE send_toc(r.page.manual) \o << find_indices(r.page.manual) >>

-----------------------------------------------------------------------------
LoadPage ==
  /\ to_page # << >>
  /\ to_page' = Tail(to_page)
  /\ Request(Head(to_page))
  /\ UNCHANGED <<main, to_hidden, hidden, from_hidden, user>>

PageLoaded ==
  /\ page.loading # None
  /\ page' = [page EXCEPT !.shown = page.loading, !.loading = None]
  /\ from_page' = from_page \o SentPointers(page.loading)
  /\ UNCHANGED <<main, to_page, to_hidden, hidden, from_hidden, user>>

LoadHidden ==
  /\ to_hidden # << >>
  /\ to_hidden' = Tail(to_hidden)
  /\ hidden' = Head(to_hidden)
  /\ UNCHANGED <<main, to_page, page, from_page, from_hidden, user>>

HiddenLoaded ==
  /\ hidden # None
  /\ hidden' = None
  /\ from_hidden' = from_hidden \o Answers(hidden)
  /\ UNCHANGED <<main, to_page, page, from_page, to_hidden, user>>

PageMessage ==
  /\ from_page # << >>
  /\ from_page' = Tail(from_page)
  /\ Becomes(handle_script_message(World, Head(from_page)))
  /\ UNCHANGED <<page, hidden, from_hidden, user>>

HiddenMessage ==
  /\ from_hidden # << >>
  /\ from_hidden' = Tail(from_hidden)
  /\ Becomes(handle_script_message(World, Head(from_hidden)))
  /\ UNCHANGED <<page, from_page, hidden, user>>

-----------------------------------------------------------------------------
(* What the user does *)

(* Nothing is under way. *)
Quiet ==
  /\ to_page = << >> /\ from_page = << >> /\ page.loading = None
  /\ to_hidden = << >> /\ from_hidden = << >> /\ hidden = None

(* Bound: a user in a hurry gives one command, while the first manual is   *)
(* being loaded; one who waits gives MaxCommands.  The command leads to    *)
(* the manual m: a node that waits for the sidebar of a manual that has    *)
(* none is left to the next manual that has one.                           *)
Command(again, m) ==
  /\ user.commands < MaxCommands /\ ~user.hurried
  /\ Quiet \/ user.commands = 0
  /\ user' = [commands |-> user.commands + 1,
              hurried |-> user.hurried \/ ~Quiet,
              again |-> user.again \/ again,
              left |-> \/ user.left
                       \/ main.current_manual \notin WithContents /\ m \in WithContents]

InWindow(s) == Becomes(s) /\ UNCHANGED <<page, from_page, hidden, from_hidden>>
InPage == UNCHANGED <<main, to_page, to_hidden, hidden, from_hidden>>

(* The dialog for the name of a manual. *)
manual_entry(m) == Command(m = main.current_manual, m) /\ InWindow(load_manual(World, m))

(* The keys n, p and u. *)
key_press(r) ==
  /\ main.links[r] # None
  /\ Command(FALSE, main.current_manual)
  /\ InWindow(load_uri(World, main.links[r]))

toc_selected(k, n) ==
  /\ n \in Toc[main.toc[k]]
  /\ Command(FALSE, main.current_manual)
  /\ InWindow(Selected(World, [row |-> k, node |-> n]))

(* An entry of an index leads to any node of its manual. *)
index_match_selected(n) ==
  /\ main.index_store # << >>
  /\ Command(FALSE, main.current_manual)
  /\ InWindow(load_relative_url(World, n))

(* Links in the page that is shown. *)
FollowLink(p) == page.shown # None /\ Command(FALSE, p.manual) /\ Request(p) /\ InPage
FollowPrivate(m, n) ==
  page.shown # None /\ Command(FALSE, m) /\ PrivateRequest(m, n) /\ InPage

-----------------------------------------------------------------------------
(* The main process has asked for the first manual. *)
Init ==
  /\ main = [current_manual |-> FIRST_MANUAL, uri |-> P(FIRST_MANUAL, Top),
             toc |-> << >>, selection |-> None, pending_node |-> None,
             index_store |-> << >>, index_list |-> << >>, links |-> NoLinks]
  /\ to_page = << P(FIRST_MANUAL, Top) >>
  /\ page = [manual |-> None, loading |-> None, shown |-> None]
  /\ hidden = None
  /\ from_page = << >> /\ to_hidden = << >> /\ from_hidden = << >>
  /\ user = [commands |-> 0, hurried |-> FALSE, again |-> FALSE, left |-> FALSE]

Next ==
  \/ LoadPage \/ PageLoaded \/ LoadHidden \/ HiddenLoaded
  \/ PageMessage \/ HiddenMessage
  \/ \E m \in Manuals \union Missing : manual_entry(m)
  \/ \E r \in Rels : key_press(r)
  \/ \E n \in Nodes : \/ index_match_selected(n)
                      \/ \E k \in DOMAIN main.toc : toc_selected(k, n)
                      \/ \E m \in Manuals \union Missing : FollowPrivate(m, n)
  \/ \E p \in Pages : FollowLink(p)

(* Pages are loaded, messages delivered.  The user need do nothing. *)
Fairness ==
  /\ WF_vars(LoadPage) /\ WF_vars(PageLoaded) /\ WF_vars(PageMessage)
  /\ WF_vars(LoadHidden) /\ WF_vars(HiddenLoaded) /\ WF_vars(HiddenMessage)

Spec == Init /\ [][Next]_vars /\ Fairness

-----------------------------------------------------------------------------
(* What is on its way between the processes. *)
HiddenRequests == [page : Pages, query : {"send-index", "top-node"}]

PageMessages ==
  [kind : {"uri"}, page : Pages]
  \union [kind : {"pointer"}, rel : Rels, page : Pages]
  \union [kind : {"inform-new-node", "new-node"}, node : Nodes]
  \union [kind : {"new-manual"}, manual : Manuals \union Missing]

HiddenMessages ==
  [kind : {"toc"}, manual : WithContents]
  \union [kind : {"index-nodes"}, nodes : Seq(Nodes)]
  \union [kind : {"index"}, page : Pages]

(* The types of the variables, and the forms of what is on its way: the   *)
(* callbacks of main.c and extension.c take each message apart by its     *)
(* first line.                                                            *)
TypeOK ==
  /\ main.current_manual \in Manuals /\ main.uri \in Pages
  /\ main.toc \in Seq(WithContents) /\ main.index_store \in Seq(Pages)
  /\ main.pending_node \in Nodes \union {None} /\ main.index_list \in Seq(Nodes)
  /\ main.links \in [Rels -> Pages \union {None}]
  /\ to_page \in Seq(Pages) /\ from_page \in Seq(PageMessages)
  /\ page.manual \in Manuals \union Missing \union {None}
  /\ page.loading \in Pages \union {None} /\ page.shown \in Pages \union {None}
  /\ to_hidden \in Seq(HiddenRequests) /\ hidden \in HiddenRequests \union {None}
  /\ from_hidden \in Seq(HiddenMessages)

(* The main process and the extension each remember the current manual     *)
(* (main.c and extension.c): they agree, or the extension's is not         *)
(* installed, as soon as no page is asked for and no change is announced,  *)
(* whatever was done before the last change had been heard of.             *)
Announcing == \E k \in DOMAIN from_page : from_page[k].kind = "new-manual"
ManualsAgree ==
  to_page = << >> /\ ~Announcing
    => page.manual = main.current_manual \/ page.manual \in Missing

(* When a user who waits for each command to have its effect has waited,   *)
(* the sidebar, the index and the keys are those of the page that is shown *)
(* (main.c): however the two views loaded.  In a manual without contents   *)
(* the sidebar stays empty and the node waits for it.  Not so when the     *)
(* user hurries, or asks for the manual that is shown, or when the node    *)
(* that waits is left to the sidebar of the next manual.                   *)
SettledRight ==
  Quiet /\ ~user.hurried /\ ~user.again /\ ~user.left =>
    LET m == main.current_manual
        n == page.shown.node
    IN /\ page.shown.manual = m
       /\ main.toc = IF m \in WithContents THEN <<m>> ELSE << >>
       /\ main.index_store = [k \in DOMAIN Indices[m] |-> P(m, Indices[m][k])]
       /\ main.pending_node = IF m \in WithContents THEN None ELSE n
       /\ m \in WithContents /\ n \in Toc[m] =>
            main.selection = [row |-> 1, node |-> n]
       /\ \A r \in Rels : main.links[r] # None =>
            \E k \in DOMAIN Pointers[page.shown] :
              Pointers[page.shown][k] = [rel |-> r, node |-> main.links[r].node]

(* The processes come to rest after every command of such a user, though   *)
(* a selection in the sidebar loads a page and a loaded page selects       *)
(* (switch_node and toc_selected_cb, main.c).                              *)
Settles == []<>(Quiet \/ user.hurried \/ user.again \/ user.left)

(* "Inform the main process the manual has changed so that it can load the *)
(* TOC and indices." (extension.c:64): the table of contents comes, of a   *)
(* manual that has one.                                                    *)
TocComes ==
  [](~user.again) =>
    (main.toc = << >> /\ main.current_manual \in WithContents
       ~> main.toc # << >> \/ main.current_manual \notin WithContents)

=============================================================================
