SPECIFICATION Spec
CONSTANTS
    Sha = {s1}
    Archive = {a1}
    Client = {w1, w2}
    NoSha = NoSha
    NoInfo = NoInfo
    NoFile = NoFile
    Partial = Partial
    Package = {p1}
    NoName = NoName
    RowSha <- MCRowSha
    PackageName <- MCPackageName
    PackageOf <- MCPackageOf
    Bodies <- MCContent
    External <- MCContent
    DryRun = FALSE
    DiskFaults = FALSE
    MaxDownloads = 1
    MaxInitialRows = 0
SYMMETRY Symmetry
INVARIANTS ServedIsCounted
