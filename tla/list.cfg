SPECIFICATION Spec
CONSTANTS
  Null = Null
  Nodes = {n1, n2, n3}
  Lists = {a, b}
INVARIANTS TypeOK Faithful Returned
