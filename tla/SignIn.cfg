CONSTANTS
    a = a  A = A  b = b  q1 = q1  q2 = q2  l1 = l1  o1 = o1  o2 = o2
    None = None
    Requests = {q1, q2}
    Links = {l1}
    States = {o1, o2}
    Subjects = {g1}
    Emails = {a, A, b}
    AddressOf <- MCAddressOf
    MaxSessions = 2
    MaxVisits = 2
    MaxFaults = 1
SPECIFICATION SignInSpec
INVARIANTS FirstTimesOnce SubjectKeepsAccount
PROPERTIES SpentStaysSpent
CHECK_DEADLOCK FALSE
