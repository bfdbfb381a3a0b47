CONSTANTS
    Relays = {r1, r2}
    Followers = {f1}
    BatchSize = 2
    PageSize = 1
    MaxStream = 3
    MaxEvents = 2
    MaxFaults = 1
SPECIFICATION FairDeliverySpec
INVARIANTS StreamInOrder NoHoles
PROPERTIES Relayed FollowedToEnd
CHECK_DEADLOCK FALSE
