SPECIFICATION FairSpec
CONSTANTS
    Rank = {0, 1, 2}
    HeadRank = 0
    Order <- MCOrder
    Threshold = 2
    MaxFaults = 3
    MaxGen = 5
INVARIANTS NoStaleRendezvous
PROPERTIES FleetRecovers
