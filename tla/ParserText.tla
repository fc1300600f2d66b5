------------------------------ MODULE ParserText ------------------------------
(***************************************************************************)
(* What the input stack of the parser promises: the parser reads one flat  *)
(* text, in which a macro call or a @value is replaced by its expansion    *)
(* and an @include line by the content of the file.  The end of an         *)
(* expansion is marked in the text, so that an expansion is active as long *)
(* as its mark has not been passed; so is the end of a line of a file that *)
(* a comment has cut.                                                      *)
(***************************************************************************)
EXTENDS Integers, Sequences, FiniteSets

CONSTANTS
  None, RMacros, LineArgMacros, Readable,
  Expansion(_, _),  \* what a macro with its argument stands for
  ValueText, FileText, MainTexts, MaxNesting

VARIABLES
  text,     \* what remains to be read
  commands, \* the @include and @setfilename of the line, outermost first
  call,     \* the macro whose argument is being read, and if it is refused
  out

NoCall == [name |-> None, error |-> FALSE]
Nl == [k |-> "nl", n |-> None]

EndMacro(m) == [k |-> "endmacro", n |-> m]
EndValue(v) == [k |-> "endvalue", n |-> v]
Ends == {"endmacro", "endvalue", "comment"}

Active(k)  == {i \in DOMAIN text : text[i].k = k}
TooDeep(k) == MaxNesting # 0 /\ Cardinality(Active(k)) >= MaxNesting

Refused(m) ==
  \/ TooDeep("endmacro")
  \/ m \notin RMacros /\ \E i \in DOMAIN text : text[i] = EndMacro(m)

After(n) == SubSeq(text, n + 1, Len(text))
At(k) == call = NoCall /\ text # <<>> /\ text[1].k = k

Init == text \in MainTexts /\ commands = <<>> /\ call = NoCall /\ out = <<>>

(* Text after the name of a file makes it another name, of no file.        *)
NameSpoilt(cs) == IF cs = <<>> THEN <<>> ELSE [cs EXCEPT ![Len(cs)].file = None]

Word ==
  /\ At("word") \/ At("del") \/ At("arg") \/ At("hashline")
  /\ out' = Append(out, text[1])
  /\ text' = Tail(text)
  /\ commands' = NameSpoilt(commands)
  /\ UNCHANGED call

Include ==
  /\ At("include")
  /\ commands' = Append(commands, [cmd |-> "include", file |-> text[1].n])
  /\ text' = Tail(text)
  /\ UNCHANGED <<call, out>>

Setfilename ==
  /\ At("setfilename")
  /\ commands' = Append(commands, [cmd |-> "setfilename", file |-> None])
  /\ text' = Tail(text)
  /\ UNCHANGED <<call, out>>

Read(c) == c.cmd = "include" /\ c.file \in Readable

(* A newline ends the innermost command.  A file that is read comes after  *)
(* it, where the outer command ends; a command that names no file is text  *)
(* of the outer one, and a @setfilename is or is not, as its file decides. *)
EndCommand ==
  /\ At("nl") /\ commands # <<>>
  /\ LET c     == commands[Len(commands)]
         outer == SubSeq(commands, 1, Len(commands) - 1)
     IN  /\ text' = (IF outer = <<>> THEN <<>> ELSE <<Nl>>)
                    \o (IF Read(c) THEN FileText[c.file] ELSE <<>>) \o Tail(text)
         /\ \/ commands' = outer /\ (c.cmd = "include" => Read(c))
            \/ commands' = NameSpoilt(outer) /\ ~Read(c)
  /\ UNCHANGED <<call, out>>

EndOfLine ==
  /\ At("nl") /\ commands = <<>>
  /\ text' = Tail(text)
  /\ UNCHANGED <<commands, call, out>>

(* The commands of the last line end without a newline too. *)
EndOfText ==
  /\ text = <<>> /\ commands # <<>>
  /\ text' = <<Nl>>
  /\ UNCHANGED <<commands, call, out>>

(* A line directive goes with its line. *)
LineDirective ==
  /\ At("hashline") /\ commands = <<>>
  /\ text' = IF Len(text) > 1 /\ text[2].k = "nl" THEN After(2) ELSE After(1)
  /\ UNCHANGED <<commands, call, out>>

(* An end is also passed while an argument is read. *)
End ==
  /\ text # <<>> /\ text[1].k \in Ends
  /\ text' = Tail(text)
  /\ UNCHANGED <<commands, call, out>>

Value ==
  /\ At("value")
  /\ text' = IF TooDeep("endvalue") THEN Tail(text)
             ELSE ValueText[text[1].n] \o <<EndValue(text[1].n)>> \o Tail(text)
  /\ UNCHANGED <<commands, call, out>>

Expanded(m, arg, rest) == Expansion(m, arg) \o <<EndMacro(m)>> \o rest

Call ==
  /\ At("call") /\ text[1].n \notin LineArgMacros
  /\ text' = IF Refused(text[1].n) THEN Tail(text)
             ELSE Expanded(text[1].n, <<>>, Tail(text))
  /\ UNCHANGED <<commands, call, out>>

LineCall ==
  /\ At("call") /\ text[1].n \in LineArgMacros
  /\ call' = [name |-> text[1].n, error |-> Refused(text[1].n)]
  /\ text' = Tail(text)
  /\ UNCHANGED <<commands, out>>

(* The argument is what follows on the line, up to the end of what the     *)
(* line was read from.  A newline is put back even if there was none.      *)
Argument ==
  /\ call # NoCall
  /\ \E n \in 0 .. Len(text) :
       /\ \A i \in 1 .. n : text[i].k \notin Ends \cup {"nl"}
       /\ n < Len(text) => text[n + 1].k \in (IF n = 0 THEN {"nl"} ELSE {"nl"} \cup Ends)
       /\ LET newline == n < Len(text) /\ text[n + 1].k = "nl"
              rest == IF text = <<>> THEN <<>>
                      ELSE <<Nl>> \o After(IF newline THEN n + 1 ELSE n)
          IN  text' = IF call.error THEN rest
                      ELSE Expanded(call.name, SubSeq(text, 1, n), rest)
  /\ call' = NoCall
  /\ UNCHANGED <<commands, out>>

Bye ==
  /\ At("bye")
  /\ text' = <<>> /\ commands' = <<>>
  /\ UNCHANGED <<call, out>>

Next == \/ Word \/ Include \/ EndCommand \/ EndOfLine \/ EndOfText \/ Setfilename \/ LineDirective \/ End
        \/ Value \/ Call \/ LineCall \/ Argument \/ Bye

Spec == Init /\ [][Next]_<<text, commands, call, out>>
=============================================================================
