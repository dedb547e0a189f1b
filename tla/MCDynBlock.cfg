SPECIFICATION Spec
CONSTANTS
  MAX_BITS = 4
  Descs <- MCDescs
  LitTrees <- MCLitTrees
  Asked <- MCAsked
  END_BLOCK = 3
  LAST = 1
  ENOUGH = 8
  Dist <- MCDist
  Roots = {2}
INVARIANTS
  TreeSound
  HeaderSound
  TableSound
  BlockDecodes
PROPERTIES
  BlockEnds
CHECK_DEADLOCK FALSE
