SPECIFICATION Spec
CONSTANTS
  Pages = {"a", "b", "c"}
  TOP_ID = "index"
  Anchors = {"a.s"}
  PageOf <- MCPageOf
  Toc <- MCToc
  Nav <- MCNav
  Regexps = {"r"}
  Matches <- MCMatches
  Starts = {"index", "c"}
  None = None
  MaxCommands = 3
INVARIANTS TypeOK HistoryInStep SkipsNoMatch OnlyShownMarked PageHasContainer
PROPERTIES SearchEnds
CHECK_DEADLOCK FALSE
