SPECIFICATION RoutingFairSpec
CONSTANTS
    Position <- MCPosition
    Maps <- MCMaps
    Stretch <- MCStretch
    Infinite = 1000
    Asks <- MCAsks
    Traces <- MCTraces
    Radius = 2
    MaxCandidates = 2
    MaxObservations = 3
    ExpansionLimits = {3, 20}
INVARIANTS
    RouteShortest
    RouteDrivable
    ExpandsOnce
    MatchLikeliest
PROPERTY
    RequestsAnswered
