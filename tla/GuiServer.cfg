SPECIFICATION Spec
CONSTANTS
  x = x  y = y  s = s
  Category <- MCCategory
  Name = {x, y}
  Source = {s}
  NoSource = NoSource
  Calls <- MCCalls
  MaxId = 2
  Rate = 2
  Toggles <- MCToggles
  MaxPub = 1
  MaxReq = 1
INVARIANT WellFormedTree
PROPERTIES RowsApart ViewCatchesUp DeadServerShowsNothing
