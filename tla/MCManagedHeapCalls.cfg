SPECIFICATION Spec
CONSTANTS
  Objects = {o1, o2, o3}
  Kinds = {"fixed", "scalars"}
  Globals = {}
  Regs = {1, 2}
  Nil = Nil
  Dead = Dead
  Junk = Junk
  MaxDepth = 2
  MaxCapacity = 2
  MinCapacity = 1
  GrowthFactor = 2
  RootsInitial = 2
  MinTarget = 70
  Slack = 20
SYMMETRY Symmetric
INVARIANTS TypeOK CallersRooted RootBufferFits
PROPERTIES CollectsOnlyGarbage
