---------------------------- MODULE MCParserInput ----------------------------
(***************************************************************************)
(* Instances of ParserInput for TLC: a recursive macro that calls itself   *)
(* twice, a macro that calls itself although it may not, a value that      *)
(* calls a macro, an included file that expands and that lacks its last    *)
(* newline, and every document made of a few tokens.                       *)
(***************************************************************************)
EXTENDS ParserReading

W(n) == [k |-> "word", n |-> n]
Tok(kind) == [k |-> kind, n |-> None]
Call(m) == [k |-> "call", n |-> m]
Val(v) == [k |-> "value", n |-> v]
Inc(f) == [k |-> "include", n |-> f]

MCBody == [m \in Macros |->
  CASE m = "m" -> <<Val("v"), Nl, Call("m")>>
    [] m = "r" -> <<W("b"), Call("r"), Call("l")>>
    [] m = "l" -> <<Tok("arg"), Nl, W("b")>>]

MCValueText == [v \in Values |-> <<W("a"), Call("r")>>]

MCFileText == [f \in Files |->
  IF f = "f" THEN <<Call("m"), Nl, Tok("setfilename"), Nl, Val("v"), W("a")>> ELSE <<W("b")>>]

Starts  == {<<>>, <<W("a")>>, <<Call("m")>>, <<Call("r")>>, <<Val("v")>>}
LineArgStarts == {<<Call("l"), Call("l")>>, <<Call("l"), W("a"), Val("v")>>}
FirstStarts == {<<Tok("setfilename")>>, <<Tok("hashline")>>}
Ends    == {<<Nl>>, <<Val("v"), Nl>>, <<Call("m"), Nl>>, <<Inc("f"), Nl>>, <<Tok("del"), Nl>>}
LastEnds == {<<>>, <<Nl>>, <<Val("v")>>, <<Tok("bye")>>, <<Tok("bye"), Nl, W("a"), Nl>>,
             <<Tok("bye"), Tok("del"), Nl, Tok("del"), Nl>>, <<Inc("f"), Nl>>}

Lines(starts, ends) == {s \o e : s \in starts, e \in ends}

(* Documents of one line and a last one. *)
TwoLines ==
  {a \o b : a \in Lines(Starts \cup LineArgStarts \cup FirstStarts, Ends \ {<<Call("m"), Nl>>}),
            b \in Lines((Starts \ {<<W("a")>>}) \cup LineArgStarts, LastEnds \ {<<Nl>>})}

(* A @setfilename or an @include in the argument of an @include. *)
NestedCommands ==
  {<<Inc("f"), Inc("g")>>, <<Inc("g"), Inc("f"), W("a")>>, <<Inc("g"), Tok("setfilename")>>,
   <<Tok("setfilename"), Inc("g")>>, <<Inc("g"), Val("v"), Inc("f")>>,
   <<Inc("g"), Tok("setfilename"), Inc("f"), W("a")>>}

(* The same, and lines that name a file by a value or several files. *)
MCTexts == TwoLines
  \cup {a \o b \o c : a \in {<<Inc("f"), Val("v"), Nl>>, <<Inc("f"), Inc("f"), Nl>>,
                            <<Inc("f"), Call("l"), W("a")>>},
                      b \in Lines(Starts, Ends), c \in LastEnds}
  \cup Lines(NestedCommands, LastEnds)

=============================================================================
