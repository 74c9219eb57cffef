SPECIFICATION Spec
CONSTANTS
  Contents = {a, b}
  Secretive = {a}
  Flags = {"pinned"}
  Life = 2
  Window = 1
  MaxHistory = 1
  MaxSealed = 1
PROPERTIES
  NewestAreKept
