SPECIFICATION RQFairSpec
CONSTANTS
    Gives <- MCGives
    Topics <- MCTopics
    Status = "status"
    Rates <- MCRates
    NoChange = NoChange
    Cost <- MCCost
    Bandwidth = 15
    RcModes <- MCRcModes
    RcLimit = 0
    MaxFlight = 2
INVARIANTS
    RQIInv
    SuccessMeansCarried
    RatesAgree
PROPERTIES
    RequestsEnd
