SPECIFICATION Spec
CONSTANTS
  ScreenHeights <- MCScreenHeights
  Amounts <- MCAmounts
  FootnoteLines = 3
  auto_footnotes_p = TRUE
  auto_tiling_p = TRUE
  MaxWindows = 3
  MaxResizes = 2
INVARIANTS TypeOK Stacked AtLeastALine
PROPERTIES LinesKept FootnotesLeave
