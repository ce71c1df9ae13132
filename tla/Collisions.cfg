CONSTANTS
  r = r  s = s  t = t  ab = ab  c = c  a = a  bc = bc
  RobotName = {r, s, t}
  Loaded <- MCLoaded
  Ends <- MCEnds
  Col <- MCCol
  KeyOf <- MCKeyOf
  Bodies <- MCBodies
  Configured = {}
  OwnPair <- MCOwnPair
  OwnCol <- MCOwnCol
  Own = Own
  Dead = Dead
  MaxId = 2
SPECIFICATION Spec
INVARIANTS OneManagerPerPair CollisionsAsAsked GuiCallbacksLive
  LogNamesItsCollision CollisionsEnforced
