SPECIFICATION Spec
CONSTANTS
  w1 = w1
  w2 = w2
  p1 = p1
  p2 = p2
  Weapons = {w1, w2}
  Players = {p1, p2}
  Ids <- MCIds
  DeviceIds = {1, 2}
  PlayerOf <- MCPlayerOf
  LaserSlots = 1
  PhotoSlots = 2
  RadioSlots = 1
  Window = 1
  MaxShots <- MCMaxShots
  MaxConfirms = 1
SYMMETRY Symmetry
INVARIANTS TypeOK TwoShotsPerHit KillsBacked KillsCostShots OneCreditPerHit
