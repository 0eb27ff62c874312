\* Two runs, one change of a model file at any time.
CONSTANTS
  None = None
  Link = Link
  root = root
  sub = sub
  cache = cache
  config = config
  bin = bin
  safetensors = safetensors
  cached = cached
  Dirs = {root, sub, cache}
  Root = root
  Excluded = {cache}
  ParentOf <- MCParentOf
  Paths = {config, bin, safetensors, cached}
  DirOf <- MCDirOf
  Rank <- MCRank
  Allowed = {config, bin, safetensors, cached}
  Safetensors = {safetensors}
  Legacy = {bin}
  Contents <- MCContents
  Changing = {config, bin, safetensors}
  MaxChanges = 1
  MaxRuns = 2
SPECIFICATION Spec
INVARIANTS
  TypeOK
  NeverPartial
  SteadyIsExact
  RoundTrip
  NothingTorn
CHECK_DEADLOCK FALSE
