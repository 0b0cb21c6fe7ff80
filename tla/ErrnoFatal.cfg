SPECIFICATION Spec
CONSTANTS
    Child = {c1, c2, c3}
    NoChild = none
    Options <- PrehookOption
INVARIANTS
    NeverExits
