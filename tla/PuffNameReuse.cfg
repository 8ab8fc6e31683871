\* A removed container's name is launched again, with a larger request.
CONSTANTS
    p1 = p1
    p2 = p2
    c1 = c1
    c2 = c2
    c3 = c3
    cu = cu
    None = None
    Torn = Torn
    Callers = {p1}
    Containers = {c1}
    Uncapped = {}
    Mortal = {c1}
    Operated = {}
    NameReuse = TRUE
    Faults = {}
    Unread = {}
    HostTotal = 1000
    Requests = {200, 300}
    Targets = {100}
    Amounts = {None}
    Growth = {200}
    Release = {}
    MaxLaunch = 2
    MaxLimit = 1000
SPECIFICATION Spec
INVARIANTS FloorRespected
