SPECIFICATION Spec
CONSTANTS
    s1 = s1
    s2 = s2
    n1 = n1
    n2 = n2
    None = None
    Server <- MCServer
    StorageNode <- OneNode
    Fault = {"outage", "death"}
    MaxFaults = 2
    MaxOwed = 4
PROPERTY HealthyNotSuspected
