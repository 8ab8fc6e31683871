\* One process at a time, which may fail or be killed anywhere but
\* half-way through a write_text().
CONSTANTS
    a1 = a1
    a2 = a2
    c1 = c1
    c2 = c2
    None = None
    Torn = Torn
    Unlimited = Unlimited
    Containers = {c1, c2}
    Actors = {a1}
    Cores <- TwoCores
    Configs <- BothKinds
    Faults <- NotInWrites
SPECIFICATION Spec
INVARIANT OriginalKept
PROPERTIES ResumeRestores ThrottlesAndRestores
