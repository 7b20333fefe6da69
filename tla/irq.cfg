SPECIFICATION FairSpec
CONSTANTS
  Null = Null
  Handlers = {h1, h2, h3}
  Levels = {1, 2}
  Kinds = {{"remove_self"}, {"register"}}
  MaxNest = 3
  MaxCount = 3
INVARIANTS TypeOK NoneSkipped
PROPERTIES CallsRegistered WalkEnds
