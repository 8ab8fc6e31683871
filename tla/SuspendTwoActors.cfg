\* Two processes, which may fail or be killed anywhere.
CONSTANTS
    a1 = a1
    a2 = a2
    c1 = c1
    c2 = c2
    None = None
    Torn = Torn
    Unlimited = Unlimited
    Containers = {c1}
    Actors = {a1, a2}
    Cores <- TwoCores
    Configs <- BothKinds
    Faults <- Everywhere
SPECIFICATION Spec
SYMMETRY Symmetry
INVARIANTS TypeOK NoForeignCpu
