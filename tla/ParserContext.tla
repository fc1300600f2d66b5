---------------------------- MODULE ParserContext ----------------------------
(***************************************************************************)
(* The element being parsed and the stacks that follow it.                 *)
(*                                                                         *)
(* The parser of tta/C/parsetexi adds to the element `current'.  Its path  *)
(* from the root is the state here; what is complete in the tree is not.   *)
(* Beside the tree the parser keeps a stack of contexts, stacks of the     *)
(* commands it is in and stacks of counters, each pushed and popped where  *)
(* an element is opened or closed, in different functions.  A pop that     *)
(* finds another context than it expects ends the program (fatal).         *)
(*                                                                         *)
(* The input is any sequence of tokens.  The functions that close elements *)
(* in a loop, and call one another to do it, are steps of an agenda.       *)
(***************************************************************************)
EXTENDS Integers, Sequences, FiniteSets

CONSTANTS
  Commands,     \* the @-commands of the input
  flags, data, args_number,   \* what command_data says of each
  Expanded,     \* the raw formats that are expanded
  MaxDepth,     \* bound: no command is read below this depth
  MaxConditionals, \* bound: conditionals open at once
  MaxItems,     \* bound: items of a list that are numbered
  MaxCounters   \* bound: counters of lists, those left behind included

CM_NONE == "none"
AllCommands == Commands \cup {CM_NONE}
ListCommands == {"itemize", "enumerate"}
CaptionCommands == {"caption", "shortcaption"}

Has(c, f) == f \in flags[c]

Contexts == {"ct_base", "ct_line", "ct_def", "ct_preformatted",
             "ct_rawpreformatted", "ct_math", "ct_inlineraw", "ct_paragraph"}
None == "no context"

(* Element types.  A brace command is "unbraced" until its { is read.  A   *)
(* container has the command it belongs to in cmd.                         *)
CommandTypes ==
  {"ET_block_command", "ET_line_command", "ET_nobrace_command",
   "ET_brace_command", "unbraced"}
Types == CommandTypes \cup
  {"ET_document_root", "ET_before_node_section", "ET_paragraph",
   "ET_preformatted", "ET_rawpreformatted", "ET_before_item",
   "ET_menu_comment", "ET_balanced_braces", "ET_bracketed_arg",
   "ET_arguments_line", "ET_def_line", "ET_line_arg", "ET_block_line_arg",
   "ET_brace_arg", "ET_brace_container", "ET_brace_command_context"}
Element == [type : Types, cmd : AllCommands]
E(t, c) == [type |-> t, cmd |-> c]

Procs == {"end_line", "end_empty_line", "still_opened", "close_to_line",
          "close_to_def", "close_brace", "close_styles", "end_paragraph",
          "end_paragraph_preformatted", "close_commands", "closing", "command",
          "root_command", "raw_line", "begin_preformatted", "finish", "end_of_parse"}
Task == [proc : Procs, cmd : AllCommands]
T(p, c) == [proc |-> p, cmd |-> c]

(***************************************************************************)
(* What the parser relies on in the table of commands: a flag that decides *)
(* a pop goes with the kind that decided the push.                         *)
(***************************************************************************)
Categories == {"CF_line", "CF_block", "CF_brace", "CF_nobrace"}

ASSUME CommandTable ==
  /\ CM_NONE \notin Commands
  /\ Commands \subseteq STRING
  /\ flags \in [AllCommands -> SUBSET STRING] /\ flags[CM_NONE] = {}
  /\ data \in [AllCommands -> STRING]
  /\ args_number \in [AllCommands -> Nat]
  /\ \A c \in Commands :
       /\ \E f \in Categories : flags[c] \cap Categories = {f}
       /\ Has(c, "CF_preformatted") <=> data[c] = "BLOCK_preformatted"
       /\ (\/ data[c] \in {"BLOCK_preformatted", "BLOCK_menu", "BLOCK_format_raw",
                            "BLOCK_region", "BLOCK_conditional", "BLOCK_raw"}
           \/ c \in ListCommands \cup {"displaymath"})
             => Has(c, "CF_block") /\ ~Has(c, "CF_def")
       /\ c = "displaymath" => data[c] = "BLOCK_math"
       /\ (Has(c, "CF_root") \/ c \in {"end", "bye", "item_LINE"}) => Has(c, "CF_line")
       /\ c \in {"footnote"} \cup CaptionCommands => data[c] = "BRACE_context"
       /\ data[c] = "BRACE_context" => Has(c, "CF_brace")
       /\ ((Has(c, "CF_brace") /\ Has(c, "CF_math")) \/ c = "inlineraw")
            => data[c] \in {"BRACE_arguments", "BRACE_inline"}
       /\ Has(c, "CF_variadic") => data[c] # "LINE_specific"
       /\ Has(c, "CF_root") => ~Has(c, "CF_def") /\ data[c] # "LINE_lineraw"
       /\ c = "end" => ~Has(c, "CF_def") /\ ~Has(c, "CF_root") /\ data[c] = "LINE_text"
       /\ c \in {"item", "tab"} => Has(c, "CF_nobrace")
       /\ c = "item" => "item_LINE" \in Commands
       /\ c = "bye" => data[c] = "LINE_lineraw"
       /\ c = "item_LINE" => data[c] = "LINE_line" /\ ~Has(c, "CF_root")
  /\ Expanded \subseteq Commands
  /\ MaxDepth \in Nat /\ MaxConditionals \in Nat
  /\ MaxItems \in Nat /\ MaxCounters \in Nat

VARIABLES
  path,                  \* from the root of the tree to current
  context_stack,         \* with command_stack; elt is the depth it is pushed at
  nesting_context,       \* the counters and stacks of commands
  count_remaining_args,  \* COUNTER: elt is the depth of the command, value
  count_items,           \* COUNTER: elt is 0 once its list is not open
  conditional_stack,     \* commands of the conditionals that are true
  agenda,                \* what is left to do before a token is read
  line_empty,            \* nothing but spaces is read on this line
  status

vars == <<path, context_stack, nesting_context, count_remaining_args,
          count_items, conditional_stack, agenda, line_empty, status>>
stacks == <<context_stack, nesting_context, count_remaining_args>>

ContextEntry == [elt : Nat, context : Contexts, command : AllCommands]
CommandEntry == [elt : Nat, command : AllCommands]
Counter == [elt : Nat, value : Int]
COUNTER_VARIADIC == 32767

NestingContext ==
  [footnote : Int, caption : Int,
   basic_inline_stack : Seq(CommandEntry),
   basic_inline_stack_on_line : Seq(CommandEntry),
   basic_inline_stack_block : Seq(CommandEntry),
   regions_stack : Seq(CommandEntry)]

-----------------------------------------------------------------------------
(* Reading the path and the stacks. *)

Last(s) == s[Len(s)]
Front(s) == SubSeq(s, 1, Len(s) - 1)
Drop(s, n) == SubSeq(s, 1, Len(s) - n)

current == Last(path)
parent == path[Len(path) - 1]

(* The command of an element, CM_NONE for a container. *)
Cmd(e) == IF e.type \in CommandTypes THEN e.cmd ELSE CM_NONE

IsRoot(e) == e.type = "ET_before_node_section" \/ Has(Cmd(e), "CF_root")

(* The block is read to its @end without looking at the commands in it. *)
IsRawBlock(e) ==
  /\ e.type = "ET_block_command"
  /\ data[e.cmd] \in {"BLOCK_raw", "BLOCK_conditional", "BLOCK_format_raw"}

EF_def_line(e) ==
  e.type = "ET_def_line" \/ (e.type = "ET_line_command" /\ Has(e.cmd, "CF_def"))

close_preformatted_command(c) == c # "sp" /\ Has(c, "CF_close_paragraph")

top_(s) == IF s = <<>> THEN None ELSE Last(s).context

current_context == top_(context_stack)

top_context_command == Last(context_stack).command

(* current_context_command is a menu. *)
InMenuContext(s) ==
  \E k \in 2..Len(s) : /\ data[s[k].command] = "BLOCK_menu"
                       /\ \A j \in (k + 1)..Len(s) : s[j].command = CM_NONE

in_begin_paragraph ==
  /\ current_context = "ct_base"
  /\ current.type \notin {"ET_brace_arg", "ET_brace_container"}

item_container_parent ==
  /\ current.type = "ET_before_item" \/ Cmd(current) = "item"
  /\ parent.type = "ET_block_command" /\ parent.cmd \in ListCommands

(* The path to the @table that an @item line belongs to. *)
ItemLinePath == IF current.type = "ET_before_item" THEN Front(path) ELSE path
item_line_parent ==
  /\ Last(ItemLinePath).type = "ET_block_command"
  /\ data[Last(ItemLinePath).cmd] = "BLOCK_item_line"

CounterValueOfTop(s, depth) == IF s # <<>> THEN Last(s).value ELSE -1

counter_value(s, depth) ==
  IF s # <<>> /\ Last(s).elt = depth THEN Last(s).value ELSE -1

-----------------------------------------------------------------------------
(* Pushing and popping. *)

PushedContext(s, depth, ct, c) ==
  Append(s, [elt |-> depth, context |-> ct, command |-> c])

Pushed(s, depth, c) == Append(s, [elt |-> depth, command |-> c])

PushedCounter(s, depth, n) == Append(s, [elt |-> depth, value |-> n])

(* The program goes on if ok holds, it ends with a fatal error if not. *)
Unless(ok) == status' = IF ok THEN status ELSE "fatal"

(* The arguments of a line or block command that are counted. *)
CountsArgs(c) ==
  \/ Has(c, "CF_variadic")
  \/ data[c] # "LINE_specific" /\ args_number[c] > 1

RemainingArgs(c) ==
  IF data[c] # "LINE_specific" /\ args_number[c] > 1
  THEN args_number[c] - 1 ELSE COUNTER_VARIADIC

(* The context of a block command; None when it has none of its own. *)
BlockContext(c) ==
  IF data[c] = "BLOCK_preformatted" THEN "ct_preformatted"
  ELSE IF c = "displaymath" THEN "ct_math"
  ELSE IF data[c] = "BLOCK_format_raw" THEN "ct_rawpreformatted"
  ELSE IF data[c] = "BLOCK_menu" THEN "ct_preformatted"
  ELSE None

(* The context that closing a block command pops. *)
PoppedBlockContextNoMenu(c) ==
  IF Has(c, "CF_preformatted") THEN "ct_preformatted"
  ELSE IF data[c] = "BLOCK_format_raw" THEN "ct_rawpreformatted"
  ELSE IF c = "displaymath" THEN "ct_math"
  ELSE None

PoppedBlockContext(c) ==
  IF Has(c, "CF_preformatted") \/ data[c] = "BLOCK_menu" THEN "ct_preformatted"
  ELSE IF data[c] = "BLOCK_format_raw" THEN "ct_rawpreformatted"
  ELSE IF c = "displaymath" THEN "ct_math"
  ELSE None

(* The context that the { of a brace command pushes. *)
BraceContext(c) ==
  IF data[c] = "BRACE_context" THEN "ct_base"
  ELSE IF data[c] \notin {"BRACE_arguments", "BRACE_inline"} THEN None
  ELSE IF c = "inlineraw" THEN "ct_inlineraw"
  ELSE IF Has(c, "CF_math") THEN "ct_math"
  ELSE None

(* Mutant: @inlineraw is forgotten. *)
PoppedBraceContextNoInlineraw(c) ==
  IF data[c] = "BRACE_context" THEN "ct_base"
  ELSE IF Has(c, "CF_math") THEN "ct_math"
  ELSE None

(* The context that closing a brace command pops. *)
PoppedBraceContext(c) ==
  IF data[c] = "BRACE_context" THEN "ct_base"
  ELSE IF c = "inlineraw" THEN "ct_inlineraw"
  ELSE IF Has(c, "CF_math") THEN "ct_math"
  ELSE None

PopContext(ct) ==
  context_stack' = IF ct = None THEN context_stack ELSE Front(context_stack)

Expects(ct) == ct = None \/ current_context = ct

(* What commands are open once the brace command c is closed. *)
NestingClosedNotFootnote(c) ==
  [nesting_context EXCEPT
    !.caption = IF c \in CaptionCommands THEN @ - 1 ELSE @,
    !.basic_inline_stack =
      IF Has(c, "CF_contain_basic_inline") THEN Front(@) ELSE @]

NestingClosed(c) ==
  [nesting_context EXCEPT
    !.footnote = IF c = "footnote" THEN @ - 1 ELSE @,
    !.caption = IF c \in CaptionCommands THEN @ - 1 ELSE @,
    !.basic_inline_stack =
      IF Has(c, "CF_contain_basic_inline") THEN Front(@) ELSE @]

(* close_brace_command, with the command at the end of p. *)
close_brace_command(p) ==
  LET c == Last(p).cmd IN
  /\ path' = Front(p)
  /\ PopContext(PoppedBraceContext(c))
  /\ count_remaining_args' = Front(count_remaining_args)
  /\ nesting_context' = NestingClosed(c)
  /\ Unless(/\ count_remaining_args # <<>>
            /\ Expects(PoppedBraceContext(c))
            /\ Has(c, "CF_contain_basic_inline")
                 => nesting_context.basic_inline_stack # <<>>)

(* current is in the argument of a brace command of one paragraph. *)
InStyleCommand ==
  /\ Len(path) > 1
  /\ parent.type = "ET_brace_command"
  /\ data[parent.cmd] # "BRACE_context"

(* close_container: an empty one is removed from the tree. *)
close_container ==
  /\ path' = Front(path)
  /\ IF current.type = "ET_paragraph"
     THEN PopContext("ct_paragraph") /\ Unless(Expects("ct_paragraph"))
     ELSE UNCHANGED <<context_stack, status>>
  /\ UNCHANGED <<nesting_context, count_remaining_args>>

(* The counters once the list at that depth is closed: one that is not     *)
(* popped is left behind.                                                  *)
LeftBehind(s, depth) ==
  [k \in DOMAIN s |-> IF s[k].elt = depth THEN [s[k] EXCEPT !.elt = 0] ELSE s[k]]

(* pop_block_command_contexts for the command c that ends path; the path   *)
(* is left to p.  cleanup says that close_command_cleanup comes first,     *)
(* which pops the counter of a list.                                       *)
CloseBlock(c, p, cleanup) ==
  /\ path' = p
  /\ count_items' =
       IF c \notin ListCommands THEN count_items
       ELSE LeftBehind(IF cleanup THEN Front(count_items) ELSE count_items, Len(path))
  /\ PopContext(PoppedBlockContext(c))
  /\ nesting_context' =
       [nesting_context EXCEPT !.regions_stack =
          IF data[c] = "BLOCK_region" THEN Front(@) ELSE @]
  /\ Unless(/\ Expects(PoppedBlockContext(c))
            /\ data[c] = "BLOCK_region" => nesting_context.regions_stack # <<>>
            /\ c \in ListCommands /\ cleanup => count_items # <<>>)
  /\ UNCHANGED count_remaining_args

-----------------------------------------------------------------------------
(* The end of a line. *)

(* end_line_def_line: back in the block, or beside the @def*x line. *)
EndDefLine(rest) ==
  /\ path' = Drop(path, 2)
  /\ PopContext("ct_def")
  /\ agenda' = <<T("begin_preformatted", CM_NONE)>> \o rest
  /\ UNCHANGED conditional_stack

(* The block commands that the @end line may name; a block that is read    *)
(* without looking is ended by its own name.                               *)
EndArgument(p) ==
  IF IsRawBlock(Last(p)) THEN {Last(p).cmd}
  ELSE {c \in Commands : Has(c, "CF_block")} \cup {CM_NONE}

(* What @end does when its line is complete, in the element at the end of p. *)
EndCommand(p, end_id, rest) ==
  IF end_id = CM_NONE
  THEN agenda' = rest /\ UNCHANGED conditional_stack
  ELSE IF \/ data[end_id] # "BLOCK_conditional"
          \/ Cmd(Last(p)) = end_id
          \/ conditional_stack = <<>>
          \/ Last(conditional_stack) # end_id
  THEN /\ agenda' = <<T("close_commands", end_id)>>
                    \o (IF close_preformatted_command(end_id)
                        THEN <<T("begin_preformatted", CM_NONE)>> ELSE <<>>)
                    \o rest
       /\ UNCHANGED conditional_stack
  ELSE /\ conditional_stack' = Front(conditional_stack)
       /\ agenda' = rest

(* end_line_misc_line: the line of a line command is complete. *)
end_line_misc_line(rest) ==
  LET c == current.cmd
      on_line == nesting_context.basic_inline_stack_on_line
      pops == Has(c, "CF_contain_basic_inline")
      p == IF parent.type = "ET_arguments_line" THEN Drop(path, 2) ELSE Front(path)
      ct == IF EF_def_line(parent) THEN "ct_def" ELSE "ct_line"
  IN /\ nesting_context' = [nesting_context EXCEPT
          !.basic_inline_stack_on_line = IF pops THEN Front(@) ELSE @]
     /\ count_remaining_args' = IF CountsArgs(c) THEN Front(count_remaining_args)
                                ELSE count_remaining_args
     /\ Unless(/\ Expects(ct)
               /\ CountsArgs(c) => count_remaining_args # <<>>
               /\ pops => on_line # <<>>)
     /\ IF EF_def_line(parent) THEN EndDefLine(rest)
        ELSE /\ PopContext("ct_line")
             /\ IF c = "end"
                THEN /\ path' = Front(p)
                     /\ \E end_id \in EndArgument(Front(p)) :
                          EndCommand(Front(p), end_id, rest)
                ELSE /\ path' = IF Has(c, "CF_root") THEN p ELSE Front(p)
                     /\ agenda' = (IF close_preformatted_command(c)
                                   THEN <<T("begin_preformatted", CM_NONE)>>
                                   ELSE <<>>) \o rest
                     /\ UNCHANGED conditional_stack

(* The element that a block opens after its line. *)
BlockContent(c) ==
  IF Has(c, "CF_blockitem") THEN <<E("ET_before_item", c)>>
  ELSE IF data[c] = "BLOCK_menu" THEN <<E("ET_menu_comment", c)>>
  ELSE IF data[c] = "BLOCK_format_raw" /\ c \in Expanded
       THEN <<E("ET_rawpreformatted", c)>>
  ELSE <<>>

(* end_line_starting_block: the line of a block command is complete.  The  *)
(* element of a conditional that is true leaves the tree.                  *)
end_line_starting_block(rest) ==
  LET c == current.cmd
      pops == Has(c, "CF_contain_basic_inline")
      p == Drop(path, 2)
      counted == counter_value(count_remaining_args, Len(p)) # -1
      ct == IF EF_def_line(parent) THEN "ct_def" ELSE "ct_line"
  IN /\ nesting_context' = [nesting_context EXCEPT
          !.basic_inline_stack_block = IF pops THEN Front(@) ELSE @]
     /\ Unless(/\ Expects(ct)
               /\ pops => nesting_context.basic_inline_stack_block # <<>>)
     /\ IF EF_def_line(parent)
        THEN EndDefLine(rest) /\ UNCHANGED count_remaining_args
        ELSE /\ PopContext("ct_line")
             /\ count_remaining_args' = IF counted THEN Front(count_remaining_args)
                                        ELSE count_remaining_args
             /\ IF data[c] = "BLOCK_conditional"
                THEN /\ agenda' = rest
                     /\ \/ path' = p /\ UNCHANGED conditional_stack
                        \/ /\ Len(conditional_stack) < MaxConditionals
                           /\ path' = Front(p)
                           /\ conditional_stack' = Append(conditional_stack, c)
                ELSE /\ path' = p \o BlockContent(c)
                     /\ agenda' = (IF data[c] = "BLOCK_raw" THEN <<>>
                                   ELSE <<T("begin_preformatted", CM_NONE)>>) \o rest
                     /\ UNCHANGED conditional_stack

-----------------------------------------------------------------------------
(* The steps of the agenda: one iteration of a loop or one part of a       *)
(* function each.                                                          *)

Running(procs) == /\ status = "parsing"
                  /\ agenda # <<>>
                  /\ Head(agenda).proc \in procs

task == Head(agenda)
rest == Tail(agenda)

(* close_current closes the element that is current. *)
close_current(cleanup) ==
  CASE current.type \in {"ET_brace_command", "unbraced"} ->
         /\ close_brace_command(path)
         /\ UNCHANGED <<agenda, conditional_stack, count_items>>
    [] current.type = "ET_block_command" ->
         /\ CloseBlock(current.cmd, Front(path), cleanup)
         /\ UNCHANGED <<agenda, conditional_stack>>
    [] current.type = "ET_line_arg" ->
         end_line_misc_line(agenda) /\ UNCHANGED count_items
    [] current.type = "ET_block_line_arg" ->
         end_line_starting_block(agenda) /\ UNCHANGED count_items
    [] OTHER ->
         close_container /\ UNCHANGED <<agenda, conditional_stack, count_items>>

(* close_all_style_commands, one command. *)
CloseStyle ==
  /\ Running({"close_styles", "end_paragraph", "end_paragraph_preformatted"})
  /\ InStyleCommand
  /\ close_brace_command(Front(path))
  /\ UNCHANGED <<count_items, conditional_stack, agenda, line_empty>>

(* end_paragraph and end_paragraph_preformatted once the styles are closed. *)
EndParagraph ==
  /\ Running({"close_styles", "end_paragraph", "end_paragraph_preformatted"})
  /\ ~InStyleCommand
  /\ agenda' = rest
  /\ IF \/ task.proc # "close_styles" /\ current.type = "ET_paragraph"
        \/ task.proc = "end_paragraph_preformatted" /\ current.type = "ET_preformatted"
     THEN close_container
     ELSE UNCHANGED <<path, stacks, status>>
  /\ UNCHANGED <<count_items, conditional_stack, line_empty>>

BeginPreformatted ==
  /\ Running({"begin_preformatted"})
  /\ agenda' = rest
  /\ path' = IF current_context = "ct_preformatted"
             THEN Append(path, E("ET_preformatted", CM_NONE)) ELSE path
  /\ UNCHANGED <<stacks, count_items, conditional_stack, line_empty, status>>

CloseCommands ==
  /\ Running({"close_commands"})
  /\ IF current.type = "unbraced"
     THEN path' = Front(path) /\ UNCHANGED agenda
     ELSE /\ agenda' = <<T("end_paragraph_preformatted", CM_NONE),
                         T("closing", task.cmd)>> \o rest
          /\ UNCHANGED path
  /\ UNCHANGED <<stacks, count_items, conditional_stack, line_empty, status>>

(* The loop of close_commands goes on below the command to close and below *)
(* the root commands.                                                      *)
KeepsClosingRoot ==
  /\ task.cmd = CM_NONE \/ Cmd(current) # task.cmd
  /\ ~IsRoot(current)

KeepsClosing ==
  /\ Len(path) > 1
  /\ task.cmd = CM_NONE \/ Cmd(current) # task.cmd
  /\ ~IsRoot(current)

Closing ==
  /\ Running({"closing"})
  /\ KeepsClosing
  /\ close_current(TRUE)
  /\ UNCHANGED line_empty

(* The block that @end names is found: it is closed, and when it is a menu *)
(* in a menu the text of the outer menu goes on.                           *)
Closed ==
  /\ Running({"closing"})
  /\ ~KeepsClosing
  /\ agenda' = rest
  /\ IF task.cmd # CM_NONE /\ Cmd(current) = task.cmd
     THEN LET c == task.cmd
              menu == /\ data[c] = "BLOCK_menu"
                      /\ InMenuContext(Front(context_stack))
          IN CloseBlock(c, IF menu THEN Append(Front(path), E("ET_menu_comment", CM_NONE))
                           ELSE Front(path), TRUE)
     ELSE UNCHANGED <<path, stacks, count_items, status>>
  /\ UNCHANGED <<conditional_stack, line_empty>>

(* end_line, up to the test for lines that are still opened. *)
StillOpened == T("still_opened", CM_NONE)

EndLine ==
  /\ Running({"end_line", "end_empty_line"})
  /\ \/ /\ task.proc = "end_empty_line"
        /\ current.type = "ET_paragraph"
        /\ close_container
        /\ agenda' = <<StillOpened>> \o rest
        /\ UNCHANGED conditional_stack
     \/ /\ task.proc = "end_empty_line"
        /\ current.type # "ET_paragraph"
        /\ agenda' = (CASE current_context = "ct_paragraph" ->
                             <<T("end_paragraph", CM_NONE)>>
                        [] current_context = "ct_base" ->
                             <<T("close_styles", CM_NONE)>>
                        [] OTHER -> <<>>) \o <<StillOpened>> \o rest
        /\ UNCHANGED <<path, stacks, conditional_stack, status>>
     \/ /\ task.proc = "end_line"
        /\ CASE current.type = "ET_block_line_arg" ->
                  end_line_starting_block(<<StillOpened>> \o rest)
             [] current.type = "ET_line_arg" ->
                  end_line_misc_line(<<StillOpened>> \o rest)
             [] OTHER -> /\ agenda' = <<StillOpened>> \o rest
                         /\ UNCHANGED <<path, stacks, conditional_stack, status>>
  /\ UNCHANGED <<count_items, line_empty>>

(* A line or def context at the top of the stack when the line is at its   *)
(* end: what is open on that line is closed, then end_line is called again. *)
Opened ==
  \/ current_context = "ct_line" /\ top_context_command # CM_NONE
  \/ current_context = "ct_def"

StillOpenedLine ==
  /\ Running({"still_opened"})
  /\ IF Opened
     THEN IF current.type = "unbraced"
          THEN path' = Front(path) /\ UNCHANGED agenda
          ELSE /\ agenda' = <<T(IF current_context = "ct_def" THEN "close_to_def"
                                ELSE "close_to_line", CM_NONE)>> \o rest
               /\ UNCHANGED path
     ELSE agenda' = rest /\ UNCHANGED path
  /\ UNCHANGED <<stacks, count_items, conditional_stack, line_empty, status>>

AtOpenedLineOrParagraph ==
  \/ Len(path) = 1
  \/ IF task.proc = "close_to_def" THEN EF_def_line(parent)
     ELSE current.type # "ET_paragraph"

AtOpenedLine ==
  \/ Len(path) = 1
  \/ IF task.proc = "close_to_def" THEN EF_def_line(parent)
     ELSE current.type \in {"ET_line_arg", "ET_block_line_arg"}

CloseToLine ==
  /\ Running({"close_to_line", "close_to_def"})
  /\ IF AtOpenedLine
     THEN /\ agenda' = <<T("end_line", CM_NONE)>> \o rest
          /\ UNCHANGED <<path, stacks, count_items, conditional_stack, status>>
     ELSE close_current(FALSE)
  /\ UNCHANGED line_empty

(* handle_close_brace: the braces, the argument or the command that the }  *)
(* closes; misplaced when there is none.                                   *)
HandleCloseBrace ==
  /\ Running({"close_brace"})
  /\ \/ /\ current.type \in {"ET_balanced_braces", "ET_bracketed_arg"}
        /\ path' = Front(path)
        /\ agenda' = rest
        /\ UNCHANGED <<stacks, status>>
     \/ /\ current.type \notin {"ET_balanced_braces", "ET_bracketed_arg"}
        /\ parent.type = "ET_brace_command"
        /\ close_brace_command(Front(path))
        /\ agenda' = (IF close_preformatted_command(parent.cmd)
                      THEN <<T("begin_preformatted", CM_NONE)>> ELSE <<>>) \o rest
     \/ /\ current.type \notin {"ET_balanced_braces", "ET_bracketed_arg"}
        /\ parent.type # "ET_brace_command"
        /\ agenda' = rest
        /\ UNCHANGED <<path, stacks, status>>
  /\ UNCHANGED <<count_items, conditional_stack, line_empty>>

(* The end of parse_texi: conditionals that are not ended are forgotten,   *)
(* what is open is closed.                                                 *)
Finish ==
  /\ Running({"finish"})
  /\ conditional_stack' = <<>>
  /\ agenda' = <<T("close_commands", CM_NONE), T("end_of_parse", CM_NONE)>>
  /\ UNCHANGED <<path, stacks, count_items, line_empty, status>>

(* The context that parsing began with is the last one. *)
EndOfParse ==
  /\ Running({"end_of_parse"})
  /\ agenda' = <<>>
  /\ path' = <<path[1]>>
  /\ context_stack' = Front(context_stack)
  /\ status' = IF /\ current_context \in {"ct_base", "ct_line"}
                  /\ Front(context_stack) = <<>>
               THEN "finished" ELSE "fatal"
  /\ UNCHANGED <<nesting_context, count_remaining_args, count_items,
                 conditional_stack, line_empty>>

-----------------------------------------------------------------------------
(* An @-command, once the paragraph it closes is closed. *)

(* handle_other_command: @item and @tab in a list, other commands have no  *)
(* effect on the path.  The number of the item is that of the counter at   *)
(* the top, which is assumed to be the one of the list.                    *)
NobraceCommand(c) ==
  /\ Has(c, "CF_nobrace")
  /\ ~(c = "item" /\ item_line_parent)
  /\ IF c = "item" /\ item_container_parent
     THEN /\ path' = Append(Front(path), E("ET_nobrace_command", c))
          /\ count_items' =
               [count_items EXCEPT ![Len(count_items)].value =
                  IF @ < MaxItems THEN @ + 1 ELSE @]
     ELSE UNCHANGED <<path, count_items>>
  /\ agenda' = (IF \/ c \in {"item", "headitem", "tab"}
                   \/ /\ data[c] = "NOBRACE_other"
                      /\ close_preformatted_command(c)
                THEN <<T("begin_preformatted", CM_NONE)>> ELSE <<>>) \o rest
  /\ UNCHANGED stacks

(* handle_line_command: the command c is added below the element at the    *)
(* end of p and its argument becomes current.                              *)
OpenLine(c, p) ==
  LET arg == E("ET_line_arg", c)
      opened == Append(p, E("ET_line_command", c))
      args == IF Has(c, "CF_root") THEN Append(opened, E("ET_arguments_line", c))
              ELSE opened
      depth == Len(args) + 1
  IN /\ path' = Append(args, arg)
     /\ context_stack' = PushedContext(context_stack, depth,
          IF Has(c, "CF_def") THEN "ct_def" ELSE "ct_line", c)
     /\ nesting_context' = [nesting_context EXCEPT
          !.basic_inline_stack_on_line =
            IF Has(c, "CF_contain_basic_inline") THEN Pushed(@, depth, c) ELSE @]
     /\ count_remaining_args' =
          IF CountsArgs(c)
          THEN PushedCounter(count_remaining_args, Len(p) + 1, RemainingArgs(c))
          ELSE count_remaining_args

LineCommand(c) ==
  /\ Has(c, "CF_line")
  /\ IF Has(c, "CF_root") \/ c = "bye"
     THEN /\ agenda' = <<T("close_commands", CM_NONE), T("root_command", c)>> \o rest
          /\ UNCHANGED <<path, stacks>>
     ELSE IF data[c] = "LINE_lineraw"
     THEN /\ agenda' = <<T("end_line", CM_NONE), T("raw_line", c)>> \o rest
          /\ UNCHANGED <<path, stacks>>
     ELSE /\ agenda' = rest
          /\ OpenLine(c, path)
  /\ UNCHANGED <<count_items, status>>

(* @item on the line of a @table. *)
ItemLine(c) ==
  /\ c = "item" /\ item_line_parent
  /\ agenda' = rest
  /\ OpenLine("item_LINE", ItemLinePath)
  /\ UNCHANGED <<count_items, status>>

(* A root command is added beside the one that was closed. *)
RootCommand ==
  /\ Running({"root_command"})
  /\ status' = IF Len(path) = 1 THEN "fatal" ELSE status
  /\ IF task.cmd = "bye"
     THEN /\ path' = Front(path)
          /\ agenda' = <<T("end_line", CM_NONE), T("raw_line", "bye")>> \o rest
          /\ UNCHANGED stacks
     ELSE agenda' = rest /\ OpenLine(task.cmd, Front(path))
  /\ UNCHANGED <<count_items, conditional_stack, line_empty>>

(* A command that takes its line as it is: @bye ends the parse. *)
RawLine ==
  /\ Running({"raw_line"})
  /\ agenda' = IF task.cmd = "bye" THEN <<T("finish", CM_NONE)>>
               ELSE IF close_preformatted_command(task.cmd)
               THEN <<T("begin_preformatted", CM_NONE)>> \o rest ELSE rest
  /\ line_empty' = TRUE
  /\ UNCHANGED <<path, stacks, count_items, conditional_stack, status>>

(* handle_block_command.  A menu in the text of a menu closes that text. *)
BlockCommand(c) ==
  LET p == IF data[c] = "BLOCK_menu" /\ current.type = "ET_menu_comment"
           THEN Front(path) ELSE path
      def == Has(c, "CF_def")
      block == Len(p) + 1
      ct == BlockContext(c)
      own == IF def \/ ct = None THEN context_stack
             ELSE PushedContext(context_stack, block, ct, c)
  IN
  /\ Has(c, "CF_block")
  /\ path' = Append(Append(Append(p, E("ET_block_command", c)),
                           E(IF def THEN "ET_def_line" ELSE "ET_arguments_line", c)),
                    E("ET_block_line_arg", c))
  /\ context_stack' =
       PushedContext(own, block + 2, IF def THEN "ct_def" ELSE "ct_line", c)
  /\ nesting_context' = [nesting_context EXCEPT
       !.regions_stack = IF ~def /\ data[c] = "BLOCK_region"
                         THEN Pushed(@, block, c) ELSE @,
       !.basic_inline_stack_block = IF Has(c, "CF_contain_basic_inline")
                                    THEN Pushed(@, block + 2, c) ELSE @]
  /\ count_items' = IF ~def /\ c \in ListCommands
                    THEN PushedCounter(count_items, block, 0) ELSE count_items
  /\ count_remaining_args' =
       IF def THEN count_remaining_args
       ELSE IF args_number[c] > 1
       THEN PushedCounter(count_remaining_args, block, args_number[c] - 1)
       ELSE IF Has(c, "CF_variadic")
       THEN PushedCounter(count_remaining_args, block, COUNTER_VARIADIC)
       ELSE count_remaining_args
  /\ agenda' = rest
  /\ UNCHANGED status

(* handle_brace_command: the { is yet to be read. *)
BraceCommand(c) ==
  /\ Has(c, "CF_brace")
  /\ path' = Append(path, E("unbraced", c))
  /\ agenda' = rest
  /\ UNCHANGED <<stacks, count_items, status>>

(* A command begins a paragraph unless it is one of those that do not. *)
BeginsParagraph(c) ==
  ~Has(c, "CF_no_paragraph") /\ in_begin_paragraph /\ ~(c = "item" /\ item_line_parent)

CommandBeginsParagraph ==
  /\ Running({"command"})
  /\ BeginsParagraph(task.cmd)
  /\ path' = Append(path, E("ET_paragraph", CM_NONE))
  /\ context_stack' = PushedContext(context_stack, Len(path) + 1, "ct_paragraph", CM_NONE)
  /\ UNCHANGED <<nesting_context, count_remaining_args, count_items,
                 conditional_stack, agenda, line_empty, status>>

Command ==
  /\ Running({"command"})
  /\ ~BeginsParagraph(task.cmd)
  /\ \/ NobraceCommand(task.cmd) /\ UNCHANGED status
     \/ ItemLine(task.cmd)
     \/ LineCommand(task.cmd)
     \/ BlockCommand(task.cmd)
     \/ BraceCommand(task.cmd)
  /\ UNCHANGED <<conditional_stack, line_empty>>

-----------------------------------------------------------------------------
(* The tokens of the input, read when the agenda is empty. *)

Reading == status = "parsing" /\ agenda = <<>>

(* In the ordinary text of an element, not between a brace command and its *)
(* { and not in a block that is read to its @end.                          *)
InText == Reading /\ current.type # "unbraced" /\ ~IsRawBlock(current)

(* merge_text of text that is not all spaces. *)
Text ==
  /\ InText
  /\ IF in_begin_paragraph
     THEN /\ Len(path) < MaxDepth
          /\ path' = Append(path, E("ET_paragraph", CM_NONE))
          /\ context_stack' =
               PushedContext(context_stack, Len(path) + 1, "ct_paragraph", CM_NONE)
     ELSE UNCHANGED <<path, context_stack>>
  /\ line_empty' = FALSE
  /\ UNCHANGED <<nesting_context, count_remaining_args, count_items,
                 conditional_stack, agenda, status>>

EndOfLine ==
  /\ InText
  /\ agenda' = <<T(IF line_empty THEN "end_empty_line" ELSE "end_line", CM_NONE)>>
  /\ line_empty' = TRUE
  /\ UNCHANGED <<path, stacks, count_items, conditional_stack, status>>

FormFeed ==
  /\ InText
  /\ current.type = "ET_paragraph"
  /\ close_container
  /\ line_empty' = TRUE
  /\ UNCHANGED <<count_items, conditional_stack, agenda>>

(* An @ that begins a command; in a raw block only its @end does. *)
At(c) ==
  /\ Reading
  /\ current.type # "unbraced"
  /\ IsRawBlock(current) => c = "end"
  /\ c # "item_LINE"
  /\ Len(path) < MaxDepth
  /\ c \in ListCommands => Len(count_items) < MaxCounters
  /\ agenda' = (IF c = "sp" THEN <<T("end_paragraph", CM_NONE)>>
                ELSE IF Has(c, "CF_close_paragraph")
                THEN <<T("end_paragraph_preformatted", CM_NONE)>>
                ELSE <<>>) \o <<T("command", c)>>
  /\ line_empty' = FALSE
  /\ UNCHANGED <<path, stacks, count_items, conditional_stack, status>>

(* A brace command that another character than { follows. *)
ExpectedBraces ==
  /\ Reading
  /\ current.type = "unbraced"
  /\ path' = Front(path)
  /\ UNCHANGED <<stacks, count_items, conditional_stack, agenda, line_empty, status>>

(* handle_open_brace after a brace command. *)
OpenBraceOfCommand ==
  LET c == current.cmd
      depth == Len(path)
      ct == BraceContext(c)
      arg == IF data[c] = "BRACE_context" THEN "ET_brace_command_context"
             ELSE IF data[c] \in {"BRACE_arguments", "BRACE_inline"} THEN "ET_brace_arg"
             ELSE "ET_brace_container"
  IN
  /\ Reading
  /\ current.type = "unbraced"
  /\ path' = Append(Append(Front(path), E("ET_brace_command", c)), E(arg, c))
  /\ context_stack' = IF ct = None THEN context_stack
                      ELSE PushedContext(context_stack, depth, ct, c)
  /\ count_remaining_args' =
       PushedCounter(count_remaining_args, depth, args_number[c] - 1)
  /\ nesting_context' =
       [nesting_context EXCEPT
         !.footnote = IF c = "footnote" THEN @ + 1 ELSE @,
         !.caption = IF c \in CaptionCommands THEN @ + 1 ELSE @,
         !.basic_inline_stack =
           IF Has(c, "CF_contain_basic_inline") THEN Pushed(@, depth, c) ELSE @]
  /\ line_empty' = FALSE
  /\ UNCHANGED <<count_items, conditional_stack, agenda, status>>

(* handle_open_brace elsewhere: an argument on a @def line, or a brace that *)
(* has to be matched in mathematics and in raw text; misplaced if not.     *)
OpenBrace ==
  /\ InText
  /\ Len(path) > 1
  /\ Len(path) < MaxDepth
  /\ \/ /\ EF_def_line(parent)
        /\ path' = Append(path, E("ET_bracketed_arg", CM_NONE))
     \/ /\ ~EF_def_line(parent)
        /\ current.type # "ET_rawpreformatted"
        /\ current_context \in {"ct_math", "ct_rawpreformatted", "ct_inlineraw"}
        /\ path' = Append(path, E("ET_balanced_braces", CM_NONE))
  /\ line_empty' = FALSE
  /\ UNCHANGED <<stacks, count_items, conditional_stack, agenda, status>>

(* handle_close_brace, first part: a paragraph right in a footnote or a    *)
(* caption ends with it.                                                   *)
CloseBrace ==
  /\ InText
  /\ Len(path) > 1
  /\ IF current.type = "ET_paragraph" /\ parent.type = "ET_brace_command_context"
     THEN close_container
     ELSE UNCHANGED <<path, stacks, status>>
  /\ agenda' = <<T("close_brace", CM_NONE)>>
  /\ line_empty' = FALSE
  /\ UNCHANGED <<count_items, conditional_stack>>

(* The depth of the parent of current and of the parent of that one. *)
CountedArgument ==
  \/ Len(path) > 1 /\ counter_value(count_remaining_args, Len(path) - 1) > 0
  \/ Len(path) > 2 /\ counter_value(count_remaining_args, Len(path) - 2) > 0

(* handle_comma: the next argument is current, at the same depth.  The     *)
(* counter of unlimited arguments is left as it is when it is that of the  *)
(* parent, or of the parent of an arguments_line.                          *)
Comma ==
  LET owner == IF parent.type = "ET_arguments_line" THEN Len(path) - 2
               ELSE Len(path) - 1
  IN
  /\ InText
  /\ CountedArgument
  /\ count_remaining_args' =
       IF counter_value(count_remaining_args, owner) = COUNTER_VARIADIC
       THEN count_remaining_args
       ELSE [count_remaining_args EXCEPT ![Len(count_remaining_args)].value = @ - 1]
  /\ line_empty' = FALSE
  /\ UNCHANGED <<path, context_stack, nesting_context, count_items,
                 conditional_stack, agenda, status>>

(* No more input: at the beginning of a line or within one. *)
EndOfInput ==
  /\ Reading
  /\ \/ line_empty /\ ~IsRawBlock(current) /\ agenda' = <<T("finish", CM_NONE)>>
     \/ agenda' = <<T(IF line_empty /\ ~IsRawBlock(current)
                      THEN "end_empty_line" ELSE "end_line", CM_NONE),
                    T("finish", CM_NONE)>>
  /\ UNCHANGED <<path, stacks, count_items, conditional_stack, line_empty, status>>

-----------------------------------------------------------------------------
Init ==
  /\ path = <<E("ET_document_root", CM_NONE), E("ET_before_node_section", CM_NONE)>>
  /\ context_stack = <<[elt |-> 1, context |-> "ct_base", command |-> CM_NONE]>>
  /\ nesting_context =
       [footnote |-> 0, caption |-> 0, basic_inline_stack |-> <<>>,
        basic_inline_stack_on_line |-> <<>>, basic_inline_stack_block |-> <<>>,
        regions_stack |-> <<>>]
  /\ count_remaining_args = <<>>
  /\ count_items = <<>>
  /\ conditional_stack = <<>>
  /\ agenda = <<>>
  /\ line_empty = TRUE
  /\ status = "parsing"

Step ==
  \/ CloseStyle \/ EndParagraph \/ BeginPreformatted \/ HandleCloseBrace
  \/ CloseCommands \/ Closing \/ Closed
  \/ EndLine \/ StillOpenedLine \/ CloseToLine
  \/ RootCommand \/ RawLine \/ CommandBeginsParagraph \/ Command
  \/ Finish \/ EndOfParse

Token ==
  \/ Text \/ EndOfLine \/ FormFeed \/ ExpectedBraces
  \/ OpenBraceOfCommand \/ OpenBrace \/ CloseBrace
  \/ Comma \/ EndOfInput
  \/ \E c \in Commands : At(c)

Next == Step \/ Token

(* The parser does what is on its agenda; the input may stop anywhere. *)
Spec == Init /\ [][Next]_vars /\ WF_vars(Step)

-----------------------------------------------------------------------------
TypeOK ==
  /\ path \in Seq(Element) /\ path # <<>>
  /\ context_stack \in Seq(ContextEntry)
  /\ nesting_context \in NestingContext
  /\ count_remaining_args \in Seq(Counter)
  /\ count_items \in Seq(Counter)
  /\ conditional_stack \in Seq(Commands)
  /\ agenda \in Seq(Task)
  /\ line_empty \in BOOLEAN
  /\ status \in {"parsing", "finished", "fatal"}

(* The depths of the elements of p that are in B. *)
Depths(p, B) == {i \in DOMAIN p : p[i] \in B}

(* The entries of s were pushed for the elements at the depths of D, the    *)
(* outermost first, and for no others.                                     *)
Follows(s, D) ==
  /\ \A k \in DOMAIN s : s[k].elt \in D
  /\ \A d \in D : \E k \in DOMAIN s : s[k].elt = d
  /\ \A j, k \in DOMAIN s : j < k => s[j].elt < s[k].elt

(* The context that the parser should be in directly below an element.     *)
ContextOf(e) ==
  IF e.type = "ET_document_root" THEN "ct_base"
  ELSE IF e.type = "ET_paragraph" THEN "ct_paragraph"
  ELSE IF e.type \in {"ET_line_arg", "ET_block_line_arg"}
  THEN IF Has(e.cmd, "CF_def") THEN "ct_def" ELSE "ct_line"
  ELSE IF e.type = "ET_brace_command" THEN BraceContext(e.cmd)
  ELSE IF e.type = "ET_block_command" /\ ~Has(e.cmd, "CF_def") THEN BlockContext(e.cmd)
  ELSE None

HasContext == {e \in Element : ContextOf(e) # None}

(* The stack of contexts is that of the elements that are open, whatever   *)
(* way they were opened and closed and however the input is broken.        *)
ContextsFollowPath ==
  status = "parsing" =>
    /\ Follows(context_stack, Depths(path, HasContext))
    /\ \A k \in DOMAIN context_stack :
         context_stack[k].context = ContextOf(path[context_stack[k].elt])

(* The part b of the command a is, or has in it, an argument of those that *)
(* are counted.                                                            *)
OpensArguments(a, b) ==
  \/ /\ a.type = "ET_line_command" /\ CountsArgs(a.cmd)
     /\ b.type \in {"ET_arguments_line", "ET_line_arg"}
  \/ /\ a.type = "ET_block_command" /\ ~Has(a.cmd, "CF_def")
     /\ args_number[a.cmd] > 1 \/ Has(a.cmd, "CF_variadic")
     /\ b.type = "ET_arguments_line"

(* The depths of the commands that have counted arguments of which one is  *)
(* open.                                                                   *)
ReadsArguments(p) ==
  {i \in DOMAIN p : \/ p[i].type = "ET_brace_command"
                    \/ i < Len(p) /\ OpensArguments(p[i], p[i + 1])}

(* A comma separates the arguments of the innermost command that still     *)
(* reads arguments, and of no command that is complete.                    *)
RemainingArgsFollowPath ==
  status = "parsing" => Follows(count_remaining_args, ReadsArguments(path))

BasicInline(t) == {e \in Element : e.type = t /\ Has(e.cmd, "CF_contain_basic_inline")}
Region == {e \in Element : e.type = "ET_block_command" /\ data[e.cmd] = "BLOCK_region"}
Brace(cmds) == {e \in Element : e.type = "ET_brace_command" /\ e.cmd \in cmds}

(* The commands in which some commands are not allowed are those that the  *)
(* parser is in: check_valid_nesting_context warns neither too much nor    *)
(* too little after an error.                                              *)
NestingFollowsPath ==
  status = "parsing" =>
    LET n == nesting_context
    IN /\ Follows(n.basic_inline_stack, Depths(path, BasicInline("ET_brace_command")))
       /\ Follows(n.basic_inline_stack_on_line, Depths(path, BasicInline("ET_line_arg")))
       /\ Follows(n.basic_inline_stack_block, Depths(path, BasicInline("ET_block_line_arg")))
       /\ Follows(n.regions_stack, Depths(path, Region))
       /\ n.footnote = Cardinality(Depths(path, Brace({"footnote"})))
       /\ n.caption = Cardinality(Depths(path, Brace(CaptionCommands)))

(* No pop finds another context than it expects, no counter is empty when  *)
(* it is popped, a root command has a parent, and the stack is empty when  *)
(* parsing ends: the program never ends with one of its fatal errors.      *)
NeverFatal == status # "fatal"

(* An @item is numbered by the counter of its list. *)
ItemsNumberedByTheirList ==
  InText /\ item_container_parent => counter_value(count_items, Len(path) - 1) # -1

(* Closing ends: no loop over the open elements runs for ever, although    *)
(* lines that are closed in it close others and open containers.           *)
ClosingEnds == agenda # <<>> ~> agenda = <<>>
=============================================================================
