CONSTANTS
    Relays = {r1}
    Followers = {f1, f2}
    BatchSize = 2
    PageSize = 2
    MaxStream = 2
    MaxEvents = 2
    MaxFaults = 0
SPECIFICATION FairDeliverySpec
PROPERTIES FollowedToEnd
CHECK_DEADLOCK FALSE
