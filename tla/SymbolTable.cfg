\* Four symbols in files and objects, one bucket at first, one link-once section.
CONSTANTS
    f = f
    g = g
    h = h
    Names = {f, g, h}
    HashOf <- Hashes
    Declared <- SomeDeclared
    ObjectFiles <- SomeObjects
    OnceSections <- OnlyOnce
    Ordinary <- Text
    Buckets = 1
    MaxSyms = 4
    MaxRelocs = 3
SPECIFICATION TableSpec
INVARIANTS
    RelocsFollow
    BestDefinition
    Findable
\* A sorted table is written, a failed link is over.
CHECK_DEADLOCK FALSE
