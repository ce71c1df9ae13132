CONSTANTS
  A = A  B = B  C = C  p = p  q = q  r = r
  Ctl = {A, B, C}
  First = A
  NoCtl = NoCtl
  Plugin = {p, q, r}
  Global = {r}
  Plugins <- MCPlugins
  MaxSteps = 2
SPECIFICATION Spec
INVARIANTS RunsPrepared LogFollowsController NextIsAlive
PROPERTIES SwitchHappens ResetRestoresControls
CHECK_DEADLOCK FALSE
