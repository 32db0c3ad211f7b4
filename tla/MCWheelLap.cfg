SPECIFICATION WheelSpec
CONSTANTS
  Clients = {c1, c2}
  Objs = {o1, o2, o3}
  NSlots = 4
  MaxTicks = 9
  MaxID = 3
  NoObj = none
INVARIANTS
  FiresOnTick
CHECK_DEADLOCK FALSE
