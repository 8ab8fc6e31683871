\* One program at a time: containers end and are removed at any moment, any
\* step of a program may fail or be its last, and usage rises and falls.  Where
\* the code would go on without an answer, there is one (Unread): with
\* Unread = {c1, c2} SavedIsOriginal, EnlargedHasFile and PuffWithinBudget fail.
CONSTANTS
    p1 = p1
    p2 = p2
    c1 = c1
    c2 = c2
    c3 = c3
    cu = cu
    None = None
    Torn = Torn
    Callers = {p1}
    Containers = {c1, c2, cu}
    Uncapped = {cu}
    Mortal = {c1, c2}
    Operated = {cu}
    NameReuse = FALSE
    Faults <- Everywhere
    Unread = {}
    HostTotal = 900
    Requests = {300}
    Targets = {100}
    Amounts = {None}
    Growth = {200}
    Release = {200}
    MaxLaunch = 2
    MaxLimit = 1000
SPECIFICATION Spec
SYMMETRY ContainerSymmetry
INVARIANTS TypeOK FloorRespected SavedIsOriginal EnlargedHasFile
PROPERTIES PuffWithinBudget
