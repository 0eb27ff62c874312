\* Two runs over one work directory, with one commit to the branch at any time.
CONSTANTS
  None = None
  config = config
  safetensors = safetensors
  bin = bin
  p = p
  q = q
  extra = extra
  wrong = wrong
  odd = odd
  ap = ap
  aq = aq
  aextra = aextra
  awrong = awrong
  aodd = aodd
  altered = altered
  junk = junk
  trusted = trusted
  other = other
  Names = {config, safetensors, bin}
  Packages = {p, q, extra, wrong, odd}
  Members <- MCMembers
  Listed <- MCListed
  Matching <- MCMatching
  Safe = {p, q, extra, wrong}
  Artifacts = {ap, aq, aextra, awrong, aodd, altered, junk}
  Readable = {ap, aq, aextra, awrong, aodd, altered}
  Opens <- MCOpens
  Signers = {trusted, other}
  Commits <- MCCommits
  Publics = {trusted, None}
  Keeps = {TRUE, FALSE}
  MaxRuns = 2
  MaxCommits = 1
SPECIFICATION Spec
INVARIANTS
  TypeOK
  KeyOnlyAfterVerification
  RejectedLeavesNoTrace
  ListedFilesAreThePackage
  NothingLeftBehind
  SteadyPairIsAccepted
CHECK_DEADLOCK FALSE
