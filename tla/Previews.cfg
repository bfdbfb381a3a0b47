CONSTANTS
    r1 = r1  r2 = r2  s1 = s1  p1 = p1
    None = None
    Runs <- MCRuns
    Sessions <- MCSessions
    Projects <- MCProjects
    SessionOf <- MCSessionOf
    ProjectOf <- MCProjectOf
    Workers = {w1}
    Calls = {q1}
    Answers = {yes}
    MaxLeases = 2
    Requests = {c1, c2}
    MaxPreviews = 2
    MaxRecords = 3
    Ends = {"succeeded"}
    MaxCrashes = 1
    MaxAsks = 3
SPECIFICATION PreviewSpec
INVARIANTS LastOwnerReleases
PROPERTIES StopStands
VIEW View
CHECK_DEADLOCK FALSE
SYMMETRY CallsAndTurns
