SPECIFICATION Spec
CONSTANTS
    t1 = t1
    t2 = t2
    t3 = t3
    s1 = s1
    s2 = s2
    local = local
    named = named
    wild = wild
    root = root
    api = api
    NoInstance = NoInstance
    NoServer = NoServer
    NoAddr = NoAddr
    Root = root
    Instances <- ThreeInstances
    Servers <- TwoServers
    Addrs <- ThreeAddrs
    Observed <- ObservedAt
    Routes <- TwoRoutes
    Managed <- Nobody
    Reregister = FALSE
    OverlapStop = TRUE
    Rebinds = "idle"
    Declarable <- LocalAndNamed
    LateClaims = TRUE
SYMMETRY Symmetry
INVARIANTS
    TypeOK
    CountIsAttached
    RoutesReachAttached
    NoOrphan
    KeyIsTrue
PROPERTIES
    NoHijack
