SPECIFICATION FairServeSpec
CONSTANTS
    n1 = n1
    n2 = n2
    h1 = h1
    h2 = h2
    Names = {n1, n2}
    Hosts = {h1, h2}
    MaxSeries = 32
    Unparsable = Unparsable
    Process = Process
    Environments <- MCEnvironments
    CollectGrace = 3
    WriteMargin = 3
    Scrapes = {1, 2}
    Slack = 1
    GracefulTimeout = 2
INVARIANTS
    ServeTypeOK
    FailsClosed
    NamesEveryCulprit
    RunsAsWritten
    AnsweredInTime
PROPERTIES
    StopsWhenAsked
