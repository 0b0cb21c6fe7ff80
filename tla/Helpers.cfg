SPECIFICATION FairSpec
CONSTANTS
    Child = {c1, c2, c3}
    NoChild = none
    Options <- AllOptions
INVARIANTS
    TypeOK
    NoZombieForgotten
    OwnChildReapable
    SpawnBalanced
    RestBetweenKills
PROPERTIES
    ZombiesReaped
