SPECIFICATION FairSpec
CONSTANTS
    p1 = p1
    p2 = p2
    p3 = p3
    sonarr = sonarr
    queue = queue
    NoOne = NoOne
    Scrapes = {p1, p2, p3}
    Collectors = {sonarr, queue}
    MaxScrapesInFlight = 2
INVARIANTS
    TypeOK
    OneWalkAtATime
    NobodyIsSkipped
    AnswerIsCurrent
PROPERTIES
    PlacesComeBack
