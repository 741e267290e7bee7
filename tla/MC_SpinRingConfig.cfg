CONSTANTS
  Rows = 2
  Cols = 2
  Routing = "XY"
  RouterToks <- MCRouterToks
  DirToks <- MCDirToks
  MaxToks = 5
  TrailingWs = {FALSE}
SPECIFICATION Spec
CHECK_DEADLOCK FALSE
INVARIANTS
  TypeOK
  ParseAgrees
