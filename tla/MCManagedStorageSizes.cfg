SPECIFICATION Spec
CONSTANTS
  Chunks = {c1, c2}
  Null = Null
  Requests = {16, 64, 72, 300}
  PageSize = 16384
INVARIANT LargerObjectsAreDirect
