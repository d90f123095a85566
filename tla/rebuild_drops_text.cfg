SPECIFICATION Spec
CONSTANTS
    Ids = {x, y}
    Colls = {"papers"}
    Fields = {"year", "title"}
    Defs <- ReadmeDef
    Supplied <- AllOrNone
    Kinds = {"json", "sealed"}
    MaxVer = 3
    Faults = {}
INVARIANTS
    TextStaysFound
