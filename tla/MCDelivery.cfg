\* Two commands, two commits, one run of the consumer.
CONSTANTS
  None = None
  m1 = m1
  m2 = m2
  enc = enc
  encsig = encsig
  config = config
  bin = bin
  Models = {m1, m2}
  Names = {enc}
  Stems = {encsig}
  StemOf <- MCStemOf
  Commands <- MCCommands
  MaxCommands = 2
  Name = enc
  FileNames = {config, bin}
  FilesOf <- MCFilesOf
  Foreign = {altered}
  Headed = {altered}
  Trusted = Trusted
  Others = {other}
  Keeps = {TRUE}
  MaxRuns = 1
  MaxCommits = 2
SPECIFICATION Spec
INVARIANTS
  TypeOK
  PublishedIsAccepted
PROPERTY DeliversTrusted
CHECK_DEADLOCK FALSE
