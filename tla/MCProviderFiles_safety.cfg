SPECIFICATION Spec
CONSTANTS
    p = p
    q = q
    m = m
    n = n
    Processes = {p, q}
    Names = {m, n}
    MaxProviders = 3
    MaxFailures = 1
    MaxCrashes = 1
SYMMETRY Symmetry
INVARIANTS
    TypeOK
    MappingsHaveProviders
    ProvidersHaveFiles
    MappingsHaveGateways
