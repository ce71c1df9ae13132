CONSTANTS
  a = a  b = b  p = p  d = d  m = m  y = y  z = z  x = x
  ok = ok  ko = ko  tb = tb  td = td  ty = ty  tz = tz  wPosture = wPosture
  State = {a, b, p, x}
  Loaded = {a, b, p}
  Requestable = {p, x}
  NoState = NoState
  Output = {ok, ko}
  DEFAULT = DEFAULT
  Map <- MCMap
  InitState = a
  Reentrancy = {TRUE, FALSE}
  PostureTask = PostureTask
  FreeFlyerTask = FreeFlyerTask
  OwnTasks <- MCOwnTasks
  RemovesPosture = {b, d, z}
  PostureWeight <- MCPostureWeight
  NoWeight = NoWeight
  DefaultWeight = DefaultWeight
  IdleWeight = IdleWeight
  Confs <- MCConfs
  Parallel = p
  Sub <- MCSub
  Delay <- MCDelay
  Meta = m
  Inner = {y, z}
  InnerMap <- MCInnerMap
  InnerInit = y
  InnerRequestable = {z}
  InnerStepByStep = {TRUE}
  HalfSitting = {d}
  DefaultStiffness = DefaultStiffness
  HalfSittingStiffness = HalfSittingStiffness
SPECIFICATION NestedSpec
INVARIANTS IdleWithoutState SolverMatchesStates PostureOutAsAsked StiffnessRestored
