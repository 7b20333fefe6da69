SPECIFICATION Spec
CONSTANTS
  Null = Null
  Handlers = {h1, h2, h3}
  Levels = {1, 2}
  Kinds = {{"remove_self"}}
  MaxNest = 2
  MaxCount = 3
INVARIANTS DisablesCounted
