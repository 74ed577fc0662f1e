SPECIFICATION Spec
CONSTANTS
  Descriptors = {fd1, fd2}
  Detached = Detached
  MaxDepth = 9
  MaxOpens = 3
  MaxLive = 1
SYMMETRY Symmetry
INVARIANTS FramesExact FilesClosed NearestReports
PROPERTIES OuterUntouched
