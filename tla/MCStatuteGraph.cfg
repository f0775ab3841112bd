SPECIFICATION Spec
CONSTANTS
    Entities = {trucks, trailers, cars}
    Tiers = {1, 2}
    Dates = {1, 2}
    MaxStatutes = 3
SYMMETRY Symmetry
INVARIANTS
    PreemptionIsAcyclic
    SurvivorBeatsEveryRival
PROPERTIES
    LowerTiersNeverDisturb
CHECK_DEADLOCK FALSE
