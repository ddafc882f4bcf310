SPECIFICATION Spec
CONSTANTS
  Build = {b1, b2}
  MaxCommit = 2
  MaxCrashes = 1
  Budget = 1
INVARIANTS ReadyIsOneCommit KnowledgeIsOneCommit DismissalIsEarned
PROPERTIES MutexIsReleased
