SPECIFICATION Spec
CONSTANTS
  ScreenHeights <- MCScreenHeights
  Amounts <- MCAmounts
  FootnoteLines = 3
  auto_footnotes_p = TRUE
  auto_tiling_p = FALSE
  MaxWindows = 3
  MaxResizes = 2
INVARIANT CoversAlways
