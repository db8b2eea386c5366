\* Two processes open the store, stage a file and leave it or not.
SPECIFICATION Spec
CONSTANTS
    None = None
    sum = sum
    otherSum = otherSum
    Procs = {p1, p2}
    Files = {f1, f2}
    Version = 1
    Checksum = sum
    Catalogs <- MCCatalogs
INVARIANTS
    TypeOK
    OpenMeansMigrated
    ClashesNeedCompany
    OpeningReapsOldStages
PROPERTY
    IncompatibleIsUntouched
SYMMETRY Symmetry
