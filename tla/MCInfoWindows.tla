---------------------------- MODULE MCInfoWindows ----------------------------
(* Small screens for TLC: one with no room for a window, one that holds    *)
(* two windows and the footnotes, one that holds three.                    *)
EXTENDS InfoWindows

MCScreenHeights == {1, 14, 19}
MCAmounts == {3}

=============================================================================
