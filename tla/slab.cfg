SPECIFICATION Spec
CONSTANTS
  ByteBits = 2
  Pages = {p1, p2, p3}
  Requests = {0, 3, 4, 7, 8}
SYMMETRY MCSymmetry
INVARIANTS
  TypeOK BlocksApart PageOnce SlabsInUse BitmapsAgree
PROPERTIES HeadTried
