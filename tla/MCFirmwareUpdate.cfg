SPECIFICATION Spec
CONSTANTS
  Old = "a"
  Bundles = {"b"}
  Files <- MCFiles
  Pages = 2
  PrepareTries = 2
  MaxUploads = 2
  MaxEvents = 2
  Blocks = 3
  MaxTries = 2
  MaxSessions = 1
INVARIANTS
  BootsWhole
  OneBundle
  LoaderAlone
  StreamInOrder
PROPERTIES
  LoaderReleased
CHECK_DEADLOCK FALSE
