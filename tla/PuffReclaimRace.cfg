\* The workload allocates while its container is reclaimed.
CONSTANTS
    p1 = p1
    p2 = p2
    c1 = c1
    c2 = c2
    c3 = c3
    cu = cu
    None = None
    Torn = Torn
    Callers = {p1}
    Containers = {c1, c2}
    Uncapped = {}
    Mortal = {}
    Operated = {}
    NameReuse = FALSE
    Faults = {}
    Unread = {}
    HostTotal = 1000
    Requests = {300}
    Targets = {100}
    Amounts = {None}
    Growth = {200}
    Release = {}
    MaxLaunch = 2
    MaxLimit = 1000
SPECIFICATION Spec
PROPERTIES ReclaimNeverKills
