SPECIFICATION Spec
CONSTANTS
    x = x y = y z = z k1 = k1 k2 = k2 k3 = k3
    MacroNames = {x, y, z}
    Keywords <- MCKeywords
    Sum <- MCSum
    Contents <- MCContents
    r = r s = s
    MaxStrings = 3
    MAP_HASH_MAX = 8
    MAX_HASH = 8
    NoKey = NoKey NoValue = NoValue Empty = Empty
SYMMETRY Sym
CHECK_DEADLOCK FALSE
INVARIANTS TableImplemented RecordsReused
