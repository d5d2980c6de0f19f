SPECIFICATION Spec
CONSTANTS
    alice = alice
    bob = bob
    n1 = n1
    n2 = n2
    h1 = h1
    h2 = h2
    None = None
    Bucket = {b1, b2}
    Key = {k1, k2}
    Ref = {r1, r2}
    Credit = {3}
    Default = {1}
    Account <- MCAccount
    Blob <- MCBlob
    Manifest <- MCManifest
SYMMETRY Accounts
INVARIANTS TypeOK RefsExact LiveShardKept UsedExact UsedWithinTotal TotalIsGranted ObjectsAreBilled
PROPERTIES HoldersKeepRoles KeepsLedger
