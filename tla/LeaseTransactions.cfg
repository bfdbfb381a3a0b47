CONSTANTS
    Clients = {c1, c2, c3}
    None = None
    MaxLeases = 2
SPECIFICATION TxSpec
PROPERTIES LiveRowKept GrantedClaimRuns TransactionsClose
CHECK_DEADLOCK FALSE
