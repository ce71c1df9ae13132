CONSTANTS
  Item = {i1, i2, i3}
  NoItem = NoItem
  Size = 3
SPECIFICATION Spec
INVARIANT SlotsDisjoint
PROPERTY ImplementsFifo
