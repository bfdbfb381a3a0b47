CONSTANTS
    r1 = r1  r2 = r2  r3 = r3
    s1 = s1  s2 = s2  p1 = p1
    None = None
    Runs <- MCRuns
    Sessions <- MCSessions
    Projects <- MCProjects
    SessionOf <- MCSessionOf
    ProjectOf <- MCProjectOf
    Workers = {w1}
    Calls = {}
    Answers = {}
    MaxLeases = 1
    MaxRestores = 0
    Requests = {q1, q2, q3}
    k1 = k1  k2 = k2
    Keys <- MCKeys
    RunsPerPeriod = 2
    MaxPeriods = 2
    MaxFaults = 1
SPECIFICATION AdmSpec
INVARIANTS OneResultPerKey EveryRunIsPaid UnitsMatchRuns WithinPlan
CHECK_DEADLOCK FALSE
CONSTRAINT AttemptsComplete
SYMMETRY RequestSymmetry
