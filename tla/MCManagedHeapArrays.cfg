SPECIFICATION Spec
CONSTANTS
  Objects = {o1, o2}
  Kinds = {"fixed", "array", "string"}
  Globals = {g}
  Regs = {1, 2}
  Nil = Nil
  Dead = Dead
  Junk = Junk
  MaxDepth = 1
  MaxCapacity = 2
  MinCapacity = 1
  GrowthFactor = 2
  RootsInitial = 2
  MinTarget = 70
  Slack = 20
SYMMETRY Symmetric
INVARIANTS NoDangling Accounted FinishReleasesAll
PROPERTIES PacedGrowth
