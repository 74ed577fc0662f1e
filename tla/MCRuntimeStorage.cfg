SPECIFICATION StorageSpec
CONSTANTS
  Null = Null
  NoBuffer = NoBuffer
  Chunks = {a1, a2, a3}
  Requests = {20, 24, 64, 300}
  PageSize = 160
  Arrays = {a1, a2, a3}
  Buffers = {b1, b2, b3}
  Element = Element
  Undefined = Undefined
  Small = 2
  CacheLimit = 2
  MaxLength = 3
  Tables = {s, t}
  Keys <- MCKeys
  MaxInteger = 3
  Values = {v, w}
  Code <- MCCode
  Smallest = 3
  Sparse = 3
  MaxEntries = 1
SYMMETRY Symmetric
INVARIANTS PagesExact BackingExact SlotsExact
PROPERTIES ImplementsAllocator ImplementsMaps
