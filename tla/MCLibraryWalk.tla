--------------------------- MODULE MCLibraryWalk ---------------------------
EXTENDS LibraryWalk

CONSTANTS i1, i2, i3

\* Configurations in which a walk is followed by at least one more fetch: every
\* Sonarr, and Lidarr with its wanted metrics.  Those without a walk are here too,
\* Radarr and the collectors of one fetch among them.
FetchesAfterWalk == {c \in ConfType : After(c) # <<>> \/ Lookups(c) = <<>>}

\* Lidarr with DISABLE_WANTED_METRICS: nothing follows the walk.
WalkIsLast == {c \in ConfType : c.app = "lidarr" /\ ~c.wanted /\ Lookups(c) # <<>>}
=============================================================================
