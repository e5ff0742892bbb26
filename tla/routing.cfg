SPECIFICATION Spec
CONSTANTS
  Cids = {1, 2, 3}
  Ed = Ed
  NoEd = NoEd
  Home = 3
  Packets = {p}
  INVALID = INVALID
  Ordered = TRUE
  MaxBoots = 2
  MaxLosses = 1
INVARIANTS TypeOK TreesSound TablesComplete
PROPERTIES Settles CalmDelivers
