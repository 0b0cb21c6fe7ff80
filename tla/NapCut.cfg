SPECIFICATION FairSpec
CONSTANTS
    Child = {c1, c2, c3}
    NoChild = none
    Options <- KernelOption
PROPERTIES
    KernelOomGetsTime
