CONSTANTS
  a = a
  b = b
  c = c
  x = x
  ok = ok
  ko = ko
  State = {a, b, c, x}
  Loaded = {a, b, c}
  Requestable = {a, b, c, NoState}
  NoState = NoState
  Output = {ok, ko}
  DEFAULT = DEFAULT
  Map <- MCMap
  InitState = a
  Reentrancy = {TRUE, FALSE}
SPECIFICATION Spec
INVARIANTS StateOrReady ButtonsFollowState
PROPERTIES StartJustified LifeCycle CompletionLatched ResumeHonoured
