SPECIFICATION Spec
CONSTANTS
    p1 = p1
    p2 = p2
    n1 = n1
    n2 = n2
    Processes = {p1, p2}
    Names = {n1, n2}
    MaxRoutes = 2
    MaxFailures = 1
    MaxCrashes = 1
SYMMETRY Symmetry
INVARIANTS
    TypeOK
    
    RoutesHaveFiles
    LoadedIsFiles
    NamesUnique
