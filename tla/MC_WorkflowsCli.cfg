SPECIFICATION Spec
CONSTANTS
    None = None
    Unparsed = Unparsed
    Procs = {p1, p2}
    Charts <- Rendered
    Rules <- RuleSet
    MaxFiles = 2
    MaxTokens = 3
    MaxRuns = 2
CONSTRAINT Unmixed
SYMMETRY Interchangeable
INVARIANT LintsOwn
INVARIANT LoginKept
CHECK_DEADLOCK FALSE
