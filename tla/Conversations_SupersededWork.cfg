CONSTANTS
    r1 = r1  r2 = r2  r3 = r3
    s1 = s1  s2 = s2  p1 = p1
    None = None
    Runs <- OneRuns
    Sessions <- OneSession
    Projects <- MCProjects
    SessionOf <- OneSessionOf
    ProjectOf <- OneProjectOf
    Workers = {w1}
    Calls = {}
    Answers = {}
    MaxLeases = 3
    MaxRestores = 0
SPECIFICATION ConvSpec
INVARIANT SupersededWorkStaysOut
CHECK_DEADLOCK FALSE
