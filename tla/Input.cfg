SPECIFICATION Spec
CONSTANTS
  Pointers = {p1, p2}
  Buttons = {0, 1}
  Points <- MCPoints
  Systems = {s1, s2}
  MaxCalls = 1
  Absent = Absent
  Older = Older
  None = None
SYMMETRY Symmetry
INVARIANTS
  TypeOK
  InputsInRange
  EventsMakeSense
  DownPosition
  Pollable
  HostAgrees
