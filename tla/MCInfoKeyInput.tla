--------------------------- MODULE MCInfoKeyInput ---------------------------
(***************************************************************************)
(* Instances of InfoKeyInput for TLC: a ring of four bytes, the mouse      *)
(* report and one key with the other prefix (ESC O M, Enter of a keypad),  *)
(* and bytes that start or continue sequences of no known key.             *)
(***************************************************************************)
EXTENDS InfoKeyInput

MCBytes == {"esc", "^g", "O", "[", "M", "1"}
MCMouseSeqs == {<<"esc", "[", "M">>}
MCKeySeqs == {<<"esc", "O", "M">>} \cup MCMouseSeqs

(* For the decoder: a longer key too, of the kind that rxvt sends, with a  *)
(* parameter byte and an intermediate byte.                                *)
MoreBytesTyped == MCBytes \cup {"$"}
MoreKeySeqs == {<<"esc", "[", "1", "$">>} \cup MCKeySeqs
=============================================================================
