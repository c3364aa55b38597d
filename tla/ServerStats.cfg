SPECIFICATION StatsSpec
CONSTANTS
    s1 = s1
    Servers = {s1}
    MaxDay = 4
    MaxArticles = 2
INVARIANTS
    StatsTypeOK
    CountsEachDayOnce
PROPERTIES
    PublishedFollows
