SPECIFICATION AiSpec
CONSTANTS
  i1 = i1
  i2 = i2
  i3 = i3
  Id <- IdSet
  NoId = NoId
  Providers = {"openrouter", "ollama"}
  KeySources = {"ring", "file", "none"}
  r1 = r1
  r2 = r2
  Requests <- RequestSet
  Sessions = {"s1"}
SYMMETRY Symmetric
CONSTRAINT Bounded
INVARIANTS CacheIsCurrent NoKeyOutlivesItsRow
PROPERTIES RestartKeepsTheProvider
CHECK_DEADLOCK FALSE
