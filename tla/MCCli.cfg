\* One run of the command, two generations by two processes.
CONSTANTS
  None = None
  model = model
  signing = signing
  pub = pub
  p1 = p1
  p2 = p2
  Processes = {p1, p2}
  Paths = {model, signing, pub}
  DefaultKey = model
  DefaultSigning = signing
  PublicOf <- MCPublicOf
  Requests <- MCRequests
  Installed <- MCInstalled
  ConsumerInstalled <- MCConsumerInstalled
  Environments <- MCEnvironments
  CommandLines <- MCCommandLines
  Typed <- MCTyped
  GoodNames = {"model.enc"}
  MaxKeys = 2
  MaxRuns = 1
SPECIFICATION CliSpec
INVARIANTS
  CliTypeOK
  ReportedKeysAreThere
  PublicHasPrivate
  EnterKeepsFlags
  OfferedKeysFit
  PublishedCanBeOpened
PROPERTY NeverOverwritten
SYMMETRY Symmetry
CHECK_DEADLOCK FALSE
