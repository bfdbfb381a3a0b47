CONSTANTS
    r1 = r1  r2 = r2  r3 = r3
    s1 = s1  s2 = s2  p1 = p1
    None = None
    Runs <- MCRuns
    Sessions <- MCSessions
    Projects <- MCProjects
    SessionOf <- MCSessionOf
    ProjectOf <- MCProjectOf
    Workers = {w1}
    Calls = {c1}
    Answers = {a1, a2}
    MaxLeases = 2
SPECIFICATION Spec
INVARIANTS IInv OneActivePerProject SessionTellsLatestRun
PROPERTIES LiveLeaseNotTaken FirstEndStands AcceptedAnswerStands RefinesLifecycle
CHECK_DEADLOCK FALSE
