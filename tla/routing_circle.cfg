SPECIFICATION Spec
CONSTANTS
  Cids = {1, 2, 3}
  Ed = Ed
  NoEd = NoEd
  Home = 3
  Packets = {p}
  INVALID = INVALID
  Ordered = FALSE
  MaxBoots = 1
  MaxLosses = 0
PROPERTIES Settles
