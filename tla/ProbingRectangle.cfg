\* Two items whose bounding areas lie in [0,3] x [0,3]: every shape of
\* bounding area and size up to 3, every relative position of the two.
CONSTANTS
  Items = {i1, i2}
  NoItem = NoItem
  MaxCoord = 3
  MinSize = 1
SYMMETRY ItemSymmetry
SPECIFICATION Spec
INVARIANTS
  TypeOK
  IndexOrder
  ProbeAvoidsBogusPoints
  EnergyMatchesRecount
  BookkeepingMatchesRecount
  CanConsumeEnergyIsExact
