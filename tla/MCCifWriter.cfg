CONSTANTS
  Values <- MCValues
  NKeys = 3
  line_len = 80
  multi_line_len = 70
  MaxRows = 2
  MaxLoops = 2
SPECIFICATION Spec
INVARIANT RowsReadBack LinesWithinWidth
CHECK_DEADLOCK FALSE
