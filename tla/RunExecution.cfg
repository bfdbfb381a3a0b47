CONSTANTS
    r1 = r1  s1 = s1  p1 = p1
    None = None
    Runs <- MCRuns
    Sessions <- MCSessions
    Projects <- MCProjects
    SessionOf <- MCSessionOf
    ProjectOf <- MCProjectOf
    Workers = {w1, w2}
    Calls = {c1}
    Answers = {a1}
    MaxLeases = 6
    MaxOutcomes = 4
    Previews = {TRUE, FALSE}
    MaxFaults = 1
SPECIFICATION FairExecSpec
INVARIANTS NoRunningWithoutLease OutcomesAgree NoWorkLost
PROPERTIES CancelEnds AnsweredResumes Served
CHECK_DEADLOCK FALSE
