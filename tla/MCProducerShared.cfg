\* Signed runs for two artifacts that share one signature file.
CONSTANTS
  None = None
  v1 = v1
  v2 = v2
  enc = enc
  vsig = vsig
  encsig = encsig
  Models = {m1, m2}
  Names = {v1, v2, enc}
  Stems = {vsig, encsig}
  StemOf <- MCStemOf
  Commands <- SignedRuns
  MaxCommands = 3
SPECIFICATION Spec
PROPERTY OneSignaturePerArtifact
CHECK_DEADLOCK FALSE
