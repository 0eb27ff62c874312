\* Nothing but the scenario itself makes a consumer fail, and yet.
CONSTANTS
  None = None
  Mishaps = {}
  MaxRuns = 2
SPECIFICATION Spec
INVARIANT ReportedCodeIsTheJobs
CHECK_DEADLOCK FALSE
