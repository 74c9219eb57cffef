SPECIFICATION Spec
CONSTANTS
  Contents = {a, b, c}
  Secretive = {a}
  Flags = {"pinned", "held"}
  Life = 2
  Window = 1
  MaxHistory = 1
  MaxSealed = 1
INVARIANTS
  TypeOK
  SensitiveIsScrubbed
  FilterCoversRows
PROPERTIES
  PrivacyRatchet
  HeldOnlyExpires
  SealedIsRecoverable
