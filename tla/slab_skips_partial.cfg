SPECIFICATION Spec
CONSTANTS
  ByteBits = 2
  Pages = {p1, p2, p3}
  Requests = {3, 4, 7}
PROPERTIES NewOnlyIfPartialFull
