SPECIFICATION Spec
SYMMETRY AnyId
CONSTANTS
    Ids = {x, y}
    Colls = {"papers", "notes"}
    Fields = {"year", "title"}
    Defs <- Evolving
    Supplied <- AllOrNone
    Kinds = {"json", "opaque", "sealed"}
    MaxVer = 3
    Faults = {"crash", "db"}
INVARIANTS
    IndexTypeOK
    MisfitsAreEvolved
    PutIsFound
    DeletedIsForgotten
    RebuildCatchesUp
PROPERTIES
    StaysVisible
