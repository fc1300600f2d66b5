------------------------------- MODULE MCInfoJs -------------------------------
(* A manual of three pages: one with an anchor in the table of contents,   *)
(* one that is not in it and to which only links in the text lead, and an  *)
(* expression that matches three times.                                    *)
EXTENDS InfoJs, TLC

MCPageOf == "index" :> "index" @@ "a" :> "a" @@ "b" :> "b" @@ "c" :> "c" @@ "a.s" :> "a"
MCToc == <<"a", "a.s", "b">>
MCNav == "index" :> {"a"} @@ "a" :> {"index", "b"} @@ "b" :> {"index", "a"} @@ "c" :> {"b"}
MCMatches == "index" :> ("r" :> 0) @@ "a" :> ("r" :> 1) @@ "b" :> ("r" :> 2) @@ "c" :> ("r" :> 0)

===============================================================================
