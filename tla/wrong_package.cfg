SPECIFICATION Spec
CONSTANTS
    Sha = {s1, s2}
    Archive = {a1, a2}
    Client = {w1, w2}
    NoSha = NoSha
    NoInfo = NoInfo
    NoFile = NoFile
    Partial = Partial
    Package = {p1, p2}
    NoName = NoName
    RowSha <- MCRowSha
    PackageName <- MCPackageName
    PackageOf <- MCOwnPackage
    Bodies = {a1, a2}
    External = {}
    DryRun = FALSE
    DiskFaults = FALSE
    MaxDownloads = 0
    MaxInitialRows = 0
INVARIANTS SeparatePackages
