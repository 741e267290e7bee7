CONSTANTS
  Rows = 2
  Cols = 2
  Routing = "XY"
  RouterToks <- MCRouterToks
  DirToks <- MCDirToks
  MaxToks = 5
  TrailingWs = {TRUE, FALSE}
SPECIFICATION Spec
CHECK_DEADLOCK FALSE
INVARIANTS
  ParseAgrees
