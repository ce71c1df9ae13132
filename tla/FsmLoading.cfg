CONSTANTS
  lib = lib  gen = gen  a = a  b = b  c = c  ok = ok
  Name = {lib, gen, a, b, c}
  Library = {lib}
  Provided = {gen}
  NoBase = NoBase
  Defs <- MCDefs
  MaxDefs = 4
  Output = {ok, DEFAULT}
  DEFAULT = DEFAULT
  NoState = NoState
  Entries <- MCEntries
  MaxEntries = 2
SPECIFICATION Spec
INVARIANTS LoadsResolvable LoadedAsConfigured
CHECK_DEADLOCK FALSE
