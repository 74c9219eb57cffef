SPECIFICATION Spec
CONSTANTS
  s1 = s1  s2 = s2  d1 = d1  d2 = d2
  Clips = {s1, s2, d1, d2}
  Secrets = {s1, s2}
  Mortal = {s1}
  Content <- TwinContent
  Capture = capture  UI = ui  Maintenance = maintenance
  Threads = {capture, ui, maintenance}
  NoClip = NoClip
  MaxVolatile = 1
  MaxOrigins = 2
  MaxHistory = 1
  MaxVersion = 2
  Failures = TRUE
INVARIANTS Converged HistorySafety
CHECK_DEADLOCK FALSE
SYMMETRY Symmetry
