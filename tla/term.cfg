SPECIFICATION Spec
CONSTANTS
  Geoms <- MCGeoms
  TabStop = 2
  MaxParms = 5
  Parms = {0, 2}
  MaxX = 2
  MaxAddr = 7
INVARIANTS TypeOK ParmsInArray WrapAtMargin NoFossil
PROPERTIES LostOnlyAtEdges
