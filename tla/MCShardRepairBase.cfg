SPECIFICATION Spec
CONSTANTS
    alice = alice
    op = op
    n1 = n1
    n2 = n2
    h1 = h1
    h2 = h2
    None = None
    Bucket = {b1}
    Key = {k1}
    Ref = {}
    Credit = {}
    Default = {2}
    Attempts = 1
    MaxHashes = 2
    MaxLosses = 0
    FreshReads = TRUE
    Operator = op
    Account <- MCAccount
    Blob <- MCBlob
    Manifest <- MCManifest
    Node <- MCNode
    Writer <- MCWriter
    PutManifest <- MCPutManifest
    Repairs <- MCRepairs
PROPERTY RepairMatchesBase
