CONSTANTS
    r1 = r1  r2 = r2  r3 = r3
    s1 = s1  s2 = s2  p1 = p1
    None = None
    Runs <- MCRuns
    Sessions <- MCSessions
    Projects <- MCProjects
    SessionOf <- MCSessionOf
    ProjectOf <- MCProjectOf
    Workers = {w1}
    Calls = {}
    Answers = {}
    MaxLeases = 2
    MaxRestores = 1
SPECIFICATION ConvSpec
INVARIANTS TurnsFitHistory DiscardedWorkStaysOut
PROPERTIES OthersFilesStand TakenOverNeverPublishes
CHECK_DEADLOCK FALSE
SYMMETRY TurnSymmetry
