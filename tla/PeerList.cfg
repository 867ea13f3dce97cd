SPECIFICATION Spec
CONSTANTS
  Me = me
  Others = {p1, p2}
  Blank = blank
  Garbage = garbage
  MaxRequests = 3
  ReplyLens = {0, 1, 2}
  Gap = 1
  FileSizes = {20, 100}
CHECK_DEADLOCK FALSE
INVARIANTS
  ReplyHashesSnapshot
  ListIsHistory
