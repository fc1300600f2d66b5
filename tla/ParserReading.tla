---------------------------- MODULE ParserReading ----------------------------
(***************************************************************************)
(* Reading through the stack of ParserInput is reading the flat text of    *)
(* ParserText: how what remains to be read follows from the stack.         *)
(***************************************************************************)
EXTENDS ParserInput

Comment == [k |-> "comment", n |-> None]

(* A line as it is read from a file, with the place where a comment cuts it. *)
ReadLine(t) ==
  BeforeKind(FileLine(t), "del") \o (IF HasKind(FileLine(t), "del") THEN <<Comment>> ELSE <<>>)

(* The text of a file, line by line. *)
Content[t \in Text] == IF t = <<>> THEN <<>> ELSE ReadLine(t) \o Content[AfterLine(t)]

FrameEnd(f) ==
  IF f.value_flag # None THEN <<[k |-> "endvalue", n |-> f.value_flag]>>
  ELSE IF f.macro_name # None THEN <<[k |-> "endmacro", n |-> f.macro_name]>>
  ELSE IF f.mark # None /\ f.mark.type = "delcomment" THEN <<Comment>>
  ELSE <<>>

FrameText(f) == (IF f.type = "IN_file" THEN Content[f.text] ELSE f.text) \o FrameEnd(f)

(* Top first. *)
StackText(s) ==
  LET Upto[i \in 0 .. Len(s)] == IF i = 0 THEN <<>> ELSE FrameText(s[i]) \o Upto[i - 1]
  IN  Upto[Len(s)]

AfterBye == \/ pc \in {"finish", "bye_line", "after_bye"}
            \/ pc \in {"next_text", "end_line", "done"} /\ ret \in {"bye_line", "after_bye"}

(* What is not yet handled of the line; next_text has none.  The newline   *)
(* stands as long as a command is open on the line.                        *)
Pending ==
  IF pc = "next_text" THEN IF pushback # <<>> THEN pushback[1] ELSE <<>>
  ELSE IF pc = "end_line" THEN IF line_commands # <<>> THEN <<Nl>> ELSE <<>>
  ELSE line

RemainingText == IF AfterBye THEN <<>> ELSE Pending \o StackText(input_stack)

(* The commands still open on the line being read. *)
OpenCommands == IF AfterBye THEN <<>> ELSE line_commands

(* A document is a file or a string. *)
Documents == MainTexts \cup {Content[t] : t \in MainTexts}

(* Reading through the stack of frames is reading the flat text: nothing   *)
(* is lost, repeated or reordered by the pushes and pops of input.c.       *)
Flat == INSTANCE ParserText WITH
          text      <- RemainingText,
          commands  <- OpenCommands,
          Expansion <- ExpandedBody,
          FileText  <- [f \in Files |-> Content[FileText[f]]],
          MainTexts <- Documents

ReadsFlatText == Flat!Spec
=============================================================================
