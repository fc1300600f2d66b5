SPECIFICATION Spec
CONSTANTS
  Pages = {"a", "b", "c"}
  TOP_ID = "index"
  Anchors = {"a.s"}
  PageOf <- MCPageOf
  Toc <- MCToc
  Nav <- MCNav
  Regexps = {"r"}
  Matches <- MCMatches
  Starts = {"b"}
  None = None
  MaxCommands = 1
INVARIANT ScrollFindsResult
CHECK_DEADLOCK FALSE
