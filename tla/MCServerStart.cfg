SPECIFICATION FairSpec
CONSTANTS
    one = one
    two = two
    broken = broken
    absent = absent
    badPort = badPort
    badPath = badPath
    etc = etc
    srv = srv
    abs = abs
    rel = rel
    CommandLines <- MCCommandLines
    Options <- MCOptions
    Content <- MCContent
    Parent <- MCParent
    Absolute = {abs}
    Missing = Missing
    Malformed = Malformed
    Bad = Bad
    NoFile = NoFile
    NoPath = NoPath
    NoPort = NoPort
    Workers = {w1, w2}
    MaxDeaths = 2
INVARIANTS
    SchemaComplete
    HelpHasNoEffect
    ConfigurationConsistent
    RequestsFindTheirObjects
PROPERTIES
    RestartKeepsTables
    InterruptEnds
