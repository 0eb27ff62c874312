\* Signed commands for one artifact.
CONSTANTS
  None = None
  v1 = v1
  v2 = v2
  enc = enc
  vsig = vsig
  encsig = encsig
  Models = {m1, m2}
  Names = {v1, v2, enc}
  Stems = {vsig, encsig}
  StemOf <- MCStemOf
  Commands <- SignedOne
  MaxCommands = 4
SPECIFICATION Spec
INVARIANT NoMismatchedPair
CHECK_DEADLOCK FALSE
