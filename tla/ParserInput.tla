----------------------------- MODULE ParserInput -----------------------------
(***************************************************************************)
(* The input stack of the Texinfo parser (tta/C/parsetexi/input.c) driven  *)
(* by the callers that push on it: the line loop of parse_texi, the macro  *)
(* and @value expansions and @include.                                     *)
(*                                                                         *)
(* Text is a sequence of tokens; a line ends with a "nl" token.  Only the  *)
(* tokens that change the input stack are told apart, all other text is    *)
(* made of "word" tokens.                                                  *)
(***************************************************************************)
EXTENDS Integers, Sequences, FiniteSets

CONSTANTS
  None,           \* the null pointer
  Words,          \* ordinary text
  Macros,         \* user-defined macros
  RMacros,        \* those defined by @rmacro
  LineArgMacros,  \* those of one argument that are called without braces
  Values,         \* flags defined by @set
  Files,          \* files named by @include
  Readable,       \* those that fopen can open
  MainFile,       \* the file given to parse_file
  Body,           \* macro -> its body
  ValueText,      \* flag -> its value
  FileText,       \* included file -> its content
  MainTexts,      \* the documents to parse
  MaxNesting,     \* MAX_MACRO_CALL_NESTING, 0 to disable
  HashLine        \* the number in every #line directive

(* A token that names something names something that is defined. *)
Token ==
  [k : {"nl", "del", "setfilename", "hashline", "bye", "arg"}, n : {None}]
  \cup [k : {"word"}, n : Words] \cup [k : {"call"}, n : Macros]
  \cup [k : {"value"}, n : Values] \cup [k : {"include"}, n : Files]
Text == Seq(Token)

Nl == [k |-> "nl", n |-> None]

ASSUME ParserInputAssumption ==
  /\ RMacros \subseteq Macros
  /\ LineArgMacros \subseteq Macros
  /\ Readable \subseteq Files
  /\ None \notin Macros \cup Values \cup Files \cup {MainFile}
  /\ Body \in [Macros -> Text]
  /\ ValueText \in [Values -> Text]
  /\ FileText \in [Files -> Text]
  /\ MainTexts \subseteq Text
  /\ MaxNesting \in Nat
  /\ HashLine \in Nat \ {0}

FileNames  == Files \cup {MainFile, None}
SourceInfo == [file : FileNames, line_nr : Int, macro : Macros \cup {None}]

MarkTypes  == {"include", "setfilename", "delcomment", "line_directive",
               "macro_expansion", "value_expansion"}
MarkStatus == {"none", "start", "end"}
SourceMark == [type : MarkTypes, counter : Nat, status : MarkStatus]
ASSUME NoMarkAssumption == None \notin SourceMark

Frame == [type : {"IN_file", "IN_text"}, text : Text, source_info : SourceInfo,
          value_flag : Values \cup {None}, macro_name : Macros \cup {None},
          mark : SourceMark \cup {None}]

VARIABLES
  input_stack,         \* bottom first; input_number is its length
  macro_expansion_nr,
  value_expansion_nr,
  current_source_info,
  pushback,            \* input_pushback_string, a sequence of at most one line
  line,                \* what remains of the line being processed
  eof,                 \* TRUE when next_text returned a null pointer
  pc, ret,             \* where the parser is, where next_text returns to
  call,                \* the macro call whose argument is being read
  line_commands,       \* @include and @setfilename of the line, outermost first
  marks,               \* source marks in the order they enter the tree
  out,                 \* words of the tree
  setfilename          \* files whose @setfilename was taken

input_vars == <<input_stack, macro_expansion_nr, value_expansion_nr,
                current_source_info, pushback>>
vars == <<input_vars, line, eof, pc, ret, call, line_commands, marks, out, setfilename>>

Callers == {"preamble", "newline", "process", "line_arg", "bye_line", "after_bye"}

NoCall == [name |-> None, error |-> FALSE]

(* file is None when the argument is not, or not only, the name of a file. *)
LineCommand == [cmd : {"include", "setfilename"}, file : Files \cup {None}]

TypeOK ==
  /\ input_stack \in Seq(Frame)
  /\ macro_expansion_nr \in Int
  /\ value_expansion_nr \in Int
  /\ current_source_info \in SourceInfo
  /\ pushback \in Seq(Text)
  /\ line \in Text
  /\ eof \in BOOLEAN
  /\ pc \in Callers \cup {"next_text", "end_line", "finish", "done"}
  /\ ret \in Callers
  /\ call \in [name : Macros \cup {None}, error : BOOLEAN]
  /\ line_commands \in Seq(LineCommand)
  /\ marks \in Seq(SourceMark)
  /\ out \in Seq(Token)
  /\ setfilename \subseteq FileNames

-----------------------------------------------------------------------------
(***************************************************************************)
(* Text, frames and source marks.                                          *)
(***************************************************************************)
HasKind(t, k) == \E i \in DOMAIN t : t[i].k = k

(* The value of a flag is what @set finds on the rest of its line.  *)
ASSUME ValueAssumption == \A v \in Values : ~HasKind(ValueText[v], "nl")

FirstOf(t, k) ==
  CHOOSE i \in DOMAIN t : t[i].k = k /\ \A j \in 1 .. i - 1 : t[j].k # k

LineLen(t) == IF HasKind(t, "nl") THEN FirstOf(t, "nl") ELSE Len(t)

FirstLine(t)  == SubSeq(t, 1, LineLen(t))
AfterLine(t)  == SubSeq(t, LineLen(t) + 1, Len(t))
BeforeKind(t, k) == IF HasKind(t, k) THEN SubSeq(t, 1, FirstOf(t, k) - 1) ELSE t

(* The newline getline did not find at the end of the file is added.  *)
FileLine(t) == IF HasKind(t, "nl") THEN FirstLine(t) ELSE Append(t, Nl)

Top == input_stack[Len(input_stack)]
SetTop(frame) == [input_stack EXCEPT ![Len(input_stack)] = frame]

(* Mutant: value_flag and macro_name exchanged. *)
TextFrameSwapped(stack, text, line_nr, macro_name, value_flag, mark) ==
  [type |-> "IN_text", text |-> text,
   source_info |-> [file |-> None, line_nr |-> line_nr, macro |-> macro_name],
   value_flag |-> macro_name, macro_name |-> value_flag, mark |-> mark]

(* What goes on the stack for an expansion, or for the rest of a line when *)
(* macro_name and value_flag are null.  The line number of text that is    *)
(* read again is put back by one.                                          *)
TextFrame(stack, text, line_nr, macro_name, value_flag, mark) ==
  LET below    == IF stack = <<>> THEN [file |-> None, macro |-> None]
                  ELSE [file  |-> stack[Len(stack)].source_info.file,
                        macro |-> stack[Len(stack)].source_info.macro]
      in_macro == IF macro_name # None THEN macro_name ELSE below.macro
      nr       == IF in_macro = None /\ value_flag = None THEN line_nr - 1 ELSE line_nr
  IN  [type |-> "IN_text", text |-> text,
       source_info |-> [file |-> below.file, line_nr |-> nr, macro |-> in_macro],
       value_flag |-> value_flag, macro_name |-> macro_name, mark |-> mark]

(* Mutant: the line number is not put back. *)
PushTextLineAhead(stack, text, line_nr, macro_name, value_flag, mark) ==
  Append(stack, TextFrame(stack, text, line_nr + 1, macro_name, value_flag, mark))

PushText(stack, text, line_nr, macro_name, value_flag, mark) ==
  Append(stack, TextFrame(stack, text, line_nr, macro_name, value_flag, mark))

PushFile(stack, text, file, mark) ==
  Append(stack,
    [type |-> "IN_file", text |-> text,
     source_info |-> [file |-> file, line_nr |-> 0, macro |-> None],
     value_flag |-> None, macro_name |-> None, mark |-> mark])

(* Mutant: the innermost frame is not looked at. *)
ExpandingMacroOffByOne(m) ==
  \E i \in 1 .. Len(input_stack) - 1 : input_stack[i].source_info.macro = m

ExpandingMacro(m) == \E i \in DOMAIN input_stack : input_stack[i].source_info.macro = m

(* 0-based, -1 when no file is being read. *)
TopFileIndex ==
  LET files == {i \in DOMAIN input_stack : input_stack[i].type = "IN_file"}
  IN  IF files = {} THEN -1 ELSE (CHOOSE i \in files : \A j \in files : j <= i) - 1

(* The counter a mark of this type gets when it is registered.  *)
NewMark(type, status) ==
  [type |-> type, status |-> status,
   counter |-> Cardinality({i \in DOMAIN marks : marks[i].type = type
                                              /\ marks[i].status # "end"}) + 1]

(* \arg\ in a body of at most one argument, and the final newline dropped. *)
ExpandedBody(m, args) ==
  LET body == Body[m]
      text == IF HasKind(body, "arg")
              THEN BeforeKind(body, "arg") \o args
                   \o SubSeq(body, FirstOf(body, "arg") + 1, Len(body))
              ELSE body
  IN  IF text # <<>> /\ text[Len(text)].k = "nl"
      THEN SubSeq(text, 1, Len(text) - 1) ELSE text

-----------------------------------------------------------------------------
(***************************************************************************)
(* parse_file, parse_text and parse_piece.  parse_string differs from      *)
(* parse_piece only by the element the tree starts with.                   *)
(***************************************************************************)
Start(stack, first_caller) ==
  /\ input_stack = stack
  /\ ret = first_caller
  /\ pc = "next_text"
  /\ macro_expansion_nr = 0
  /\ value_expansion_nr = 0
  /\ current_source_info = [file |-> None, line_nr |-> 0, macro |-> None]
  /\ pushback = <<>>
  /\ line = <<>>
  /\ eof = FALSE
  /\ call = NoCall
  /\ line_commands = <<>>
  /\ marks = <<>>
  /\ out = <<>>
  /\ setfilename = {}

ParseFile(text)  == Start(PushFile(<<>>, text, MainFile, None), "preamble")
ParseText(text)  == Start(PushText(<<>>, text, 1, None, None, None), "preamble")
ParsePiece(text) == Start(PushText(<<>>, text, 1, None, None, None), "newline")

Init == \E text \in MainTexts : ParseFile(text) \/ ParseText(text) \/ ParsePiece(text)

-----------------------------------------------------------------------------
(***************************************************************************)
(* next_text, called from the place `caller`.  Each turn of its loop       *)
(* either returns a line or pops the exhausted frame on top.               *)
(***************************************************************************)
CallNextText(caller) == pc' = "next_text" /\ ret' = caller

Return(text) == line' = text /\ eof' = FALSE /\ pc' = ret

NextTextPushback ==
  /\ pc = "next_text"
  /\ pushback # <<>>
  /\ Return(pushback[1])
  /\ pushback' = <<>>
  /\ UNCHANGED <<input_stack, macro_expansion_nr, value_expansion_nr,
                 current_source_info, ret, call, line_commands, marks, out, setfilename>>

NextTextLine ==
  /\ pc = "next_text" /\ pushback = <<>>
  /\ input_stack # <<>>
  /\ Top.type = "IN_text" /\ Top.text # <<>>
  /\ LET counted == Top.source_info.macro = None /\ Top.value_flag = None
         info    == [Top.source_info EXCEPT !.line_nr = IF counted THEN @ + 1 ELSE @]
     IN  /\ input_stack' = SetTop([Top EXCEPT !.text = AfterLine(@), !.source_info = info])
         /\ current_source_info' = info
  /\ Return(FirstLine(Top.text))
  /\ UNCHANGED <<macro_expansion_nr, value_expansion_nr, pushback, ret, call,
                 line_commands, marks, out, setfilename>>

NextTextFileLine ==
  /\ pc = "next_text" /\ pushback = <<>>
  /\ input_stack # <<>>
  /\ Top.type = "IN_file" /\ Top.text # <<>>
  /\ LET read == FileLine(Top.text)
         info == [Top.source_info EXCEPT !.line_nr = @ + 1]
         file == SetTop([Top EXCEPT !.text = AfterLine(@), !.source_info = info])
     IN  /\ input_stack' =
              IF HasKind(read, "del")
              THEN PushText(file, <<>>, Top.source_info.line_nr, None, None,
                     [type |-> "delcomment", counter |-> 0, status |-> "none"])
              ELSE file
         /\ current_source_info' = info
         /\ Return(BeforeKind(read, "del"))
  /\ UNCHANGED <<macro_expansion_nr, value_expansion_nr, pushback, ret, call,
                 line_commands, marks, out, setfilename>>

ValueEnds == Top.value_flag # None
(* Mutant: the frames inside a macro are taken for the macro. *)
MacroEndsInside == Top.source_info.macro # None

MacroEnds == Top.value_flag = None /\ Top.macro_name # None

(* Mutant: the marks met while an argument is read are lost too. *)
LosesMarksInArgument == ret \in {"preamble", "line_arg"}

(* A caller that gives next_text no element loses the marks.  *)
LosesMarks == ret = "preamble"

NextTextPop ==
  /\ pc = "next_text" /\ pushback = <<>>
  /\ input_stack # <<>>
  /\ Top.text = <<>>
  /\ value_expansion_nr' = IF ValueEnds THEN value_expansion_nr - 1 ELSE value_expansion_nr
  /\ macro_expansion_nr' = IF MacroEnds THEN macro_expansion_nr - 1 ELSE macro_expansion_nr
  /\ marks' = IF Top.mark = None \/ LosesMarks THEN marks
              ELSE Append(marks, IF Top.mark.type = "delcomment"
                                 THEN NewMark("delcomment", "none")
                                 ELSE [Top.mark EXCEPT !.status = "end"])
  /\ input_stack' = SubSeq(input_stack, 1, Len(input_stack) - 1)
  /\ UNCHANGED <<current_source_info, pushback, line, eof, pc, ret, call,
                 line_commands, out, setfilename>>

(* Mutant: an empty line in place of the null pointer. *)
NextTextEndEmpty ==
  /\ pc = "next_text" /\ pushback = <<>>
  /\ input_stack = <<>>
  /\ line' = <<>> /\ eof' = FALSE /\ pc' = ret
  /\ UNCHANGED <<input_vars, ret, call, line_commands, marks, out, setfilename>>

NextTextEnd ==
  /\ pc = "next_text" /\ pushback = <<>>
  /\ input_stack = <<>>
  /\ line' = <<>> /\ eof' = TRUE /\ pc' = ret
  /\ UNCHANGED <<input_vars, ret, call, line_commands, marks, out, setfilename>>

-----------------------------------------------------------------------------
(***************************************************************************)
(* The callers.                                                            *)
(***************************************************************************)

(* parse_texi_document: blank lines, then the first other line is pushed back. *)
Preamble ==
  /\ pc = "preamble"
  /\ LET blank == ~eof /\ \A i \in DOMAIN line : line[i].k = "nl"
     IN  /\ pushback' = IF eof \/ blank THEN pushback ELSE Append(pushback, line)
         /\ CallNextText(IF blank THEN "preamble" ELSE "newline")
  /\ UNCHANGED <<input_stack, macro_expansion_nr, value_expansion_nr,
                 current_source_info, line, eof, call, line_commands, marks, out, setfilename>>

OutOfInput ==
  /\ pc = "newline" /\ eof
  /\ pc' = "done"
  /\ UNCHANGED <<input_vars, line, eof, ret, call, line_commands, marks, out, setfilename>>

(* check_line_directive *)
IsLineDirective ==
  /\ line # <<>>
  /\ line[1].k = "hashline"
  /\ \A i \in 2 .. Len(line) : line[i].k = "nl"
  /\ current_source_info.file # None
  /\ current_source_info.macro = None

NewLine ==
  /\ pc = "newline" /\ ~eof
  /\ ~IsLineDirective
  /\ pc' = "process"
  /\ UNCHANGED <<input_vars, line, eof, ret, call, line_commands, marks, out, setfilename>>

LineDirective ==
  /\ pc = "newline" /\ ~eof
  /\ IsLineDirective
  /\ input_stack' = SetTop([Top EXCEPT !.source_info.line_nr = HashLine])
  /\ marks' = Append(marks, NewMark("line_directive", "none"))
  /\ CallNextText("newline")
  /\ UNCHANGED <<macro_expansion_nr, value_expansion_nr, current_source_info,
                 pushback, line, eof, call, line_commands, out, setfilename>>

(* Text or an @-command in the argument of the innermost command.  *)
NameSpoilt(commands) ==
  IF commands = <<>> THEN <<>> ELSE [commands EXCEPT ![Len(commands)].file = None]

(***************************************************************************)
(* end_line.  The commands whose lines are still open end innermost first, *)
(* each with the newline it stands in, and the file of each @include goes  *)
(* on the stack as its command ends.                                       *)
(***************************************************************************)
EndLine(caller) == pc' = "end_line" /\ ret' = caller

Included(c) == c.cmd = "include" /\ c.file \in Readable

(* An @include that found its file is not kept in the tree, nor is the     *)
(* @setfilename of an included file.                                       *)
Removed(c) ==
  \/ Included(c)
  \/ c.cmd = "setfilename" /\ TopFileIndex > 0

Innermost == line_commands[Len(line_commands)]

Outer(commands) == SubSeq(commands, 1, Len(commands) - 1)

(* end_line_misc_line.  A command that is kept is part of the argument of  *)
(* the outer one, which then names no file.                                *)
EndCommand ==
  /\ pc = "end_line"
  /\ line_commands # <<>>
  /\ LET c    == Innermost
         mark == IF c.cmd = "include" THEN NewMark("include", "start")
                 ELSE NewMark("setfilename", "none")
     IN  /\ marks' = IF Removed(c) THEN Append(marks, mark) ELSE marks
         /\ input_stack' = IF Included(c)
                           THEN PushFile(input_stack, FileText[c.file], c.file, mark)
                           ELSE input_stack
         /\ line_commands' = IF Removed(c) THEN Outer(line_commands)
                             ELSE NameSpoilt(Outer(line_commands))
  /\ UNCHANGED <<macro_expansion_nr, value_expansion_nr, current_source_info,
                 pushback, line, eof, pc, ret, call, out, setfilename>>

(* The newline is left behind, or the rest of the line of @bye is read.    *)
LineEnded ==
  /\ pc = "end_line"
  /\ line_commands = <<>>
  /\ IF ret = "bye_line" /\ HasKind(line, "nl") THEN pc' = "finish" /\ UNCHANGED ret
     ELSE CallNextText(ret)
  /\ UNCHANGED <<input_vars, line, eof, call, line_commands, marks, out, setfilename>>

NoMoreLine ==
  /\ pc = "process" /\ eof
  /\ EndLine("newline")
  /\ UNCHANGED <<input_vars, line, eof, call, line_commands, marks, out, setfilename>>

EmptyText ==
  /\ pc = "process" /\ ~eof /\ line = <<>>
  /\ CallNextText("process")
  /\ UNCHANGED <<input_vars, line, eof, call, line_commands, marks, out, setfilename>>

(* process_remaining_on_line is at a token of kind k. *)
At(k) == pc = "process" /\ ~eof /\ line # <<>> /\ line[1].k = k

EndOfLine ==
  /\ At("nl")
  /\ line' = Tail(line)
  /\ EndLine("newline")
  /\ UNCHANGED <<input_vars, eof, call, line_commands, marks, out, setfilename>>

(* Text after the file name makes the name of a file that does not exist.  *)
Word ==
  /\ At("word") \/ At("del") \/ At("arg") \/ At("hashline")
  /\ out' = Append(out, line[1])
  /\ line_commands' = NameSpoilt(line_commands)
  /\ line' = Tail(line)
  /\ UNCHANGED <<input_vars, eof, pc, ret, call, marks, setfilename>>

Include ==
  /\ At("include")
  /\ line_commands' = Append(line_commands, [cmd |-> "include", file |-> line[1].n])
  /\ line' = Tail(line)
  /\ UNCHANGED <<input_vars, eof, pc, ret, call, marks, out, setfilename>>

Setfilename ==
  /\ At("setfilename")
  /\ setfilename' = IF TopFileIndex > 0 THEN setfilename
                    ELSE setfilename \cup {current_source_info.file}
  /\ line_commands' = Append(line_commands, [cmd |-> "setfilename", file |-> None])
  /\ line' = Tail(line)
  /\ UNCHANGED <<input_vars, eof, pc, ret, call, marks, out>>

(* Mutant: the rest of the line is read before the expansion. *)
ExpandAfterLine(rest, text, macro_name, value_flag, mark) ==
  LET nr == current_source_info.line_nr
  IN  PushText(PushText(input_stack, text, nr, macro_name, value_flag, mark),
               rest, nr, None, None, None)

(* The rest of the line goes below the text of the expansion.  *)
Expand(rest, text, macro_name, value_flag, mark) ==
  LET nr == current_source_info.line_nr
  IN  PushText(PushText(input_stack, rest, nr, None, None, None),
               text, nr, macro_name, value_flag, mark)

Value ==
  /\ At("value")
  /\ IF MaxNesting # 0 /\ value_expansion_nr >= MaxNesting
     THEN /\ line' = Tail(line)
          /\ UNCHANGED <<input_stack, value_expansion_nr, marks>>
     ELSE LET mark == NewMark("value_expansion", "start") IN
              /\ input_stack' = Expand(Tail(line), ValueText[line[1].n], None, line[1].n, mark)
              /\ value_expansion_nr' = value_expansion_nr + 1
              /\ marks' = Append(marks, mark)
              /\ line' = <<>>
  /\ UNCHANGED <<macro_expansion_nr, current_source_info, pushback, eof, pc, ret,
                 call, line_commands, out, setfilename>>

(***************************************************************************)
(* handle_macro.  entered is macro_expansion_nr once the call is counted;  *)
(* rest is the line after the call and its arguments.                      *)
(***************************************************************************)
(* Mutants: one expansion too many; the check of recursion dropped. *)
MacroErrorOffByOne(m, entered) ==
  \/ m \notin RMacros /\ ExpandingMacro(m)
  \/ MaxNesting # 0 /\ entered > MaxNesting + 1

MacroErrorNoRecursionCheck(m, entered) == MaxNesting # 0 /\ entered > MaxNesting

MacroError(m, entered) ==
  \/ m \notin RMacros /\ ExpandingMacro(m)
  \/ MaxNesting # 0 /\ entered > MaxNesting

FinishMacro(m, error, args, rest, entered) ==
  /\ IF error
     THEN /\ macro_expansion_nr' = entered - 1
          /\ marks' = Append(marks, NewMark("macro_expansion", "none"))
          /\ line' = rest
          /\ pc' = "process"
          /\ UNCHANGED <<input_stack, ret>>
     ELSE LET mark == NewMark("macro_expansion", "start") IN
              /\ macro_expansion_nr' = entered
              /\ marks' = Append(marks, mark)
              /\ input_stack' = Expand(rest, ExpandedBody(m, args), m, None, mark)
              /\ line' = <<>>
              /\ CallNextText("process")
  /\ eof' = FALSE
  /\ UNCHANGED <<value_expansion_nr, current_source_info, pushback, line_commands,
                 out, setfilename>>

MacroCall ==
  /\ At("call")
  /\ line[1].n \notin LineArgMacros
  /\ FinishMacro(line[1].n, MacroError(line[1].n, macro_expansion_nr + 1), <<>>,
                 Tail(line), macro_expansion_nr + 1)
  /\ UNCHANGED call

LineMacroCall ==
  /\ At("call")
  /\ line[1].n \in LineArgMacros
  /\ macro_expansion_nr' = macro_expansion_nr + 1
  /\ call' = [name |-> line[1].n, error |-> MacroError(line[1].n, macro_expansion_nr + 1)]
  /\ line' = Tail(line)
  /\ pc' = "line_arg"
  /\ UNCHANGED <<input_stack, value_expansion_nr, current_source_info, pushback, eof,
                 ret, line_commands, marks, out, setfilename>>

LineArgMore ==
  /\ pc = "line_arg" /\ ~eof /\ line = <<>>
  /\ CallNextText("line_arg")
  /\ UNCHANGED <<input_vars, line, eof, call, line_commands, marks, out, setfilename>>

LineArgEnd ==
  /\ pc = "line_arg"
  /\ eof \/ line # <<>>
  /\ FinishMacro(call.name, call.error, BeforeKind(line, "nl"),
                 IF eof THEN <<>> ELSE <<Nl>>, macro_expansion_nr)
  /\ call' = NoCall

(* The open commands are ended, files included, before the rest of the     *)
(* line of @bye is read, and that before the parser stops.                 *)
Bye ==
  /\ At("bye")
  /\ line' = Tail(line)
  /\ EndLine("bye_line")
  /\ UNCHANGED <<input_vars, eof, call, line_commands, marks, out, setfilename>>

(* Mutant: the end of the input is not looked for. *)
ByeLineEndsNoEof == {HasKind(line, "nl")}

(* t->text[t->end - 1] is read outside the text when nothing was gathered. *)
ByeLineEnds ==
  IF eof \/ HasKind(line, "nl") THEN {TRUE}
  ELSE IF line = <<>> THEN BOOLEAN ELSE {FALSE}

ByeLine ==
  /\ pc = "bye_line"
  /\ \E ends \in ByeLineEnds :
       IF ends THEN pc' = "finish" /\ UNCHANGED ret ELSE CallNextText("bye_line")
  /\ UNCHANGED <<input_vars, line, eof, call, line_commands, marks, out, setfilename>>

(* The text after @bye is gathered, which empties the input stack. *)
GatherAfterBye ==
  /\ \/ pc = "finish"
     \/ pc = "after_bye" /\ ~eof
  /\ CallNextText("after_bye")
  /\ UNCHANGED <<input_vars, line, eof, call, line_commands, marks, out, setfilename>>

AfterByeEnd ==
  /\ pc = "after_bye" /\ eof
  /\ pc' = "done"
  /\ UNCHANGED <<input_vars, line, eof, ret, call, line_commands, marks, out, setfilename>>

-----------------------------------------------------------------------------
NextText == NextTextPushback \/ NextTextLine \/ NextTextFileLine \/ NextTextPop \/ NextTextEnd

ProcessLine == NoMoreLine \/ EmptyText \/ EndOfLine \/ Word \/ Include \/ Setfilename
               \/ EndCommand \/ LineEnded \/ Value \/ MacroCall \/ LineMacroCall \/ Bye

Next == \/ NextText
        \/ Preamble \/ OutOfInput \/ NewLine \/ LineDirective
        \/ ProcessLine
        \/ LineArgMore \/ LineArgEnd
        \/ ByeLine \/ GatherAfterBye \/ AfterByeEnd

Fairness == WF_vars(Next)

Spec == Init /\ [][Next]_vars
FairSpec == Spec /\ Fairness

-----------------------------------------------------------------------------
(***************************************************************************)
(* Properties.                                                             *)
(***************************************************************************)
MacroFrames == {i \in DOMAIN input_stack : input_stack[i].macro_name # None}
ValueFrames == {i \in DOMAIN input_stack : input_stack[i].value_flag # None}
PendingCalls == IF call = NoCall THEN 0 ELSE 1

(* macro_expansion_nr and value_expansion_nr, on which the nesting limits  *)
(* rest, always count the expansions being read, also while the argument   *)
(* of a call is read across the end of other expansions.                   *)
CountersMatchFrames ==
  /\ macro_expansion_nr = Cardinality(MacroFrames) + PendingCalls
  /\ value_expansion_nr = Cardinality(ValueFrames)

(* MAX_MACRO_CALL_NESTING bounds how many expansions are open at once.     *)
NestingBounded ==
  MaxNesting # 0 => /\ Cardinality(MacroFrames) <= MaxNesting
                    /\ Cardinality(ValueFrames) <= MaxNesting

(* A macro that is not recursive is never being read twice at once,        *)
(* whatever values, files and other macros stand between the two calls.    *)
NoSelfNesting ==
  \A i, j \in MacroFrames :
    i # j /\ input_stack[i].macro_name = input_stack[j].macro_name
      => input_stack[i].macro_name \in RMacros

(* The tests made when a call is entered still hold when its argument has  *)
(* been read, for which the parser may have left files and expansions.     *)
PendingCallAllowed ==
  call # NoCall /\ ~call.error =>
    /\ call.name \notin RMacros => ~ExpandingMacro(call.name)
    /\ MaxNesting # 0 => macro_expansion_nr <= MaxNesting

(* save_line_directive writes to the top of the stack without a check: a   *)
(* line that was read and not yet processed always has its frame there.    *)
LineHasFrame ==
  (pc \in {"newline", "preamble"} /\ ~eof) \/ pushback # <<>> => input_stack # <<>>

(* The line number and the file given to messages are those of the file    *)
(* being read, however many expansions stand between it and the text.      *)
LineNumberOfFile ==
  pc = "process" /\ line # <<>> /\ TopFileIndex >= 0 =>
    LET file == input_stack[TopFileIndex + 1].source_info
    IN  /\ current_source_info.line_nr = file.line_nr
        /\ current_source_info.file = file.file

(* Each expansion or inclusion that starts in the tree ends in the tree:   *)
(* it is open exactly as long as its frame is on the stack, and the pairs  *)
(* of marks are properly nested.                                           *)
EndOf(i, j) ==
  /\ i < j
  /\ marks[j].status = "end"
  /\ marks[j].type = marks[i].type /\ marks[j].counter = marks[i].counter

MarksWellNested ==
  \A i \in {n \in DOMAIN marks : marks[n].status = "start"} :
    /\ Cardinality({j \in DOMAIN marks : EndOf(i, j)})
       + Cardinality({f \in DOMAIN input_stack : input_stack[f].mark = marks[i]}) = 1
    /\ \A j \in {n \in DOMAIN marks : EndOf(i, n)} :
         \A inner \in i + 1 .. j - 1 :
           marks[inner].status = "start" => \E e \in inner .. j - 1 : EndOf(inner, e)

(* Whatever the document, a runaway recursion included, parsing ends.      *)
ParsingEnds == <>(pc = "done")
=============================================================================
