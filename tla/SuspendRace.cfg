\* Two processes, without any fault.
CONSTANTS
    a1 = a1
    a2 = a2
    c1 = c1
    c2 = c2
    None = None
    Torn = Torn
    Unlimited = Unlimited
    Containers = {c1}
    Actors = {a1, a2}
    Cores <- TwoCores
    Configs <- BothKinds
    Faults = {}
SPECIFICATION Spec
SYMMETRY Symmetry
INVARIANTS OriginalKept
