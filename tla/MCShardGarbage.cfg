SPECIFICATION FairSpec
CONSTANTS
    alice = alice
    op = op
    n1 = n1
    n2 = n2
    h1 = h1
    h2 = h2
    None = None
    Bucket = {b1}
    Key = {k1}
    Ref = {}
    Credit = {}
    Default = {2}
    Attempts = 2
    MaxHashes = 2
    MaxLosses = 1
    FreshReads = FALSE
    Operator = op
    Account <- MCAccount
    Blob <- OneBlob
    Manifest <- OneManifest
    Node <- MCNode
    Writer <- MCWriter
    PutManifest <- OnePut
    Repairs <- OneRepairs
PROPERTY GarbageGoesAway
