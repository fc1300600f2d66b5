------------------------------ MODULE MCInfog ------------------------------
(* Two manuals with a table of contents, one of them with two pages of an   *)
(* index and links between its nodes, and one without.                      *)
EXTENDS Infog

MCToc == [m \in Manuals |-> CASE m = "texinfo" -> {"a", "i"}
                              [] m = "info" -> {"i"}
                              [] m = "plain" -> {}]
MCIndices ==
  [m \in Manuals |-> IF m = "texinfo" THEN <<"i", "a">> ELSE <<"i">>]
MCPointers ==
  [p \in Pages |-> IF p = P("texinfo", "Top") THEN <<[rel |-> "next", node |-> "a"]>>
                   ELSE IF p.node = "a" THEN <<[rel |-> "up", node |-> "Top"]>>
                   ELSE << >>]

=============================================================================
