SPECIFICATION FairSpec
CONSTANTS
    s1 = s1
    s2 = s2
    n1 = n1
    n2 = n2
    None = None
    Server <- MCServer
    StorageNode <- OneNode
    Fault = {"election", "restart", "outage", "lag", "death", "miss"}
    MaxFaults = 3
    MaxOwed = 4
INVARIANT TypeOK
PROPERTIES SuspectsAreSilent DeadGoesOffline LiveComesBack GrantsArrive
