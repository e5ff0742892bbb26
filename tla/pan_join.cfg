SPECIFICATION Spec
CONSTANTS
  Device = {c1, c2, d}
  NoDevice = NoDevice
  Coords = {c1, c2}
  Fixed = d
  MaxCoord = 3
  MaxDevices = 3
  MaxJoin = 2
  Sources <- AskedThrough
  MaxFails = 1
SYMMETRY Coordinators
INVARIANTS TypeOK DevicesDistinct RoutesAreListed FileIsTable ParentKept
