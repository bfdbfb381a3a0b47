CONSTANTS
    r1 = r1  s1 = s1  p1 = p1
    None = None
    Runs <- MCRuns
    Sessions <- MCSessions
    Projects <- MCProjects
    SessionOf <- MCSessionOf
    ProjectOf <- MCProjectOf
    Workers = {w1}
    Calls = {}
    Answers = {}
    MaxLeases = 2
    Keys = {k1, k2, k3}
    Limit = 2
SPECIFICATION FairSteeringSpec
INVARIANTS SteeringInv HeardOnce DeliveredWasHeard
PROPERTY WaitingIsTaken
CHECK_DEADLOCK FALSE
