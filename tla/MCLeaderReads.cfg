SPECIFICATION FairSpec
CONSTANTS
    Server = {s1, s2}
    Client = {c1, c2}
    None = None
    Attempts = 2
    MaxWrites = 2
    MaxElections = 2
INVARIANT TypeOK
PROPERTIES ReadsAreFresh ReadsEnd
