--------------------------- MODULE BazarrCollect ---------------------------
(***************************************************************************)
(* Collect of the Bazarr collector (arr/collector/bazarr.go): the badges    *)
(* first, then two goroutines, one for the system endpoints and one for the *)
(* subtitle totals, which starts one for the episodes (in batches of        *)
(* series, by a bounded group of workers) and one for the movies.           *)
(*                                                                         *)
(* A fetch is one call of a client (Transport).  It succeeds, ends with an  *)
(* error, or panics on its payload: a panic of a worker is an error of its  *)
(* group (goRecoverable), one of the other goroutines raises the gauge and  *)
(* ends the goroutine (recoverCollect).  The statistics are reduced to what *)
(* was counted in them.                                                    *)
(***************************************************************************)
EXTENDS Naturals, FiniteSets

CONSTANTS
    Batches,    \* the batches of series a library can need
    Limit,      \* SeriesBatchConcurrency
    Walks,      \* whether the episodes are walked: values of ~DisableEpisodeMetrics
    Faults      \* how a fetch may fail

EpisodeHistory == "episodes/history"
MovieHistory == "movies/history"
EpisodeWorkers == Batches \cup {EpisodeHistory}
Workers == EpisodeWorkers \cup {MovieHistory}

ASSUME BazarrAssumption ==
    /\ Limit \in Nat \ {0} /\ Walks \subseteq BOOLEAN /\ Faults \subseteq {"error", "panic"}
    /\ {EpisodeHistory, MovieHistory, "movies"} \cap Batches = {}

VARIABLES
    walks,          \* ~DisableEpisodeMetrics, fixed at start
    at,             \* where each of the five goroutines is
    badges,         \* they were fetched
    library,        \* the batches of the series listed
    pending,        \* the workers the episode loop has not started
    running,        \* the workers started and not done
    failed,         \* the groups with an error
    counted,        \* what is counted in the two stats
    episodeStats,   \* "new" as walk made it, "nil" or "full"
    movieStats,     \* "nil" or "full"
    gauge,          \* the error gauge is raised
    published       \* the groups of metrics sent

stats == <<counted, episodeStats, movieStats>>
group == <<library, pending, running, failed>>
vars == <<walks, at, badges, group, stats, gauge, published>>

Goroutines == {"main", "walk", "episode", "movie", "system"}
Places == {"idle", "badges", "join", "start", "health", "status", "series", "launch",
           "movies", "wait", "over"}

AllOver == [g \in Goroutines |-> "over"]
Goto(g, place) == at' = [at EXCEPT ![g] = place]

Init ==
    /\ walks \in Walks
    /\ at = [AllOver EXCEPT !["main"] = "idle"] /\ badges = FALSE
    /\ library = {} /\ pending = {} /\ running = {} /\ failed = {}
    /\ counted = {} /\ episodeStats = "new" /\ movieStats = "nil"
    /\ gauge = FALSE /\ published = {}

\* recoverCollect, or emitError and out.
GiveUp(g) == gauge' = TRUE /\ Goto(g, "over")

-----------------------------------------------------------------------------
(* Collect *)

\* The stats of a collection are its own: a worker left behind by the one
\* before shares nothing with it, and is waited for here.
Begin ==
    /\ at["main"] \in {"idle", "over"} /\ running = {}
    /\ at' = [AllOver EXCEPT !["main"] = "badges"] /\ badges' = FALSE
    /\ library' = {} /\ pending' = {} /\ failed' = {}
    /\ counted' = {} /\ episodeStats' = "new" /\ movieStats' = "nil"
    /\ gauge' = FALSE /\ published' = {}
    /\ UNCHANGED <<walks, running>>

Badges ==
    /\ at["main"] = "badges"
    /\ at' = [at EXCEPT !["main"] = "join", !["walk"] = "start", !["system"] = "health"]
    /\ \/ badges' = TRUE /\ UNCHANGED gauge
       \/ "error" \in Faults /\ gauge' = TRUE /\ UNCHANGED badges
    /\ UNCHANGED <<walks, group, stats, published>>

BadgesPanic ==
    /\ at["main"] = "badges" /\ "panic" \in Faults
    /\ GiveUp("main")
    /\ UNCHANGED <<walks, badges, group, stats, published>>

End ==
    /\ at["main"] = "join" /\ at["walk"] = "over" /\ at["system"] = "over"
    /\ Goto("main", "over")
    /\ UNCHANGED <<walks, badges, group, stats, gauge, published>>

Main == Begin \/ Badges \/ BadgesPanic \/ End

\* TryLock fails: the other collection raises a gauge of its own and is over.
Skip ==
    /\ at["main"] \notin {"idle", "over"}
    /\ UNCHANGED vars

-----------------------------------------------------------------------------
(* systemMetrics *)

Health ==
    /\ at["system"] = "health"
    /\ \/ Goto("system", "status") /\ published' = published \cup {"health"} /\ UNCHANGED gauge
       \/ Faults # {} /\ GiveUp("system") /\ UNCHANGED published
    /\ UNCHANGED <<walks, badges, group, stats>>

\* Answered or not, the status is told.
Status ==
    /\ at["system"] = "status"
    /\ \/ /\ Goto("system", "over") /\ UNCHANGED gauge
          /\ published' = published \cup {"status"} \cup (IF badges THEN {"badges"} ELSE {})
       \/ "panic" \in Faults /\ GiveUp("system") /\ UNCHANGED published
    /\ UNCHANGED <<walks, badges, group, stats>>

System == Health \/ Status

-----------------------------------------------------------------------------
(* episodeMovieMetrics *)

Start ==
    /\ at["walk"] = "start"
    /\ at' = [at EXCEPT !["walk"] = "join", !["movie"] = "movies",
                        !["episode"] = IF walks THEN "series" ELSE "over"]
    /\ running' = running \cup {MovieHistory}
    /\ published' = published \cup (IF ~walks /\ badges THEN {"missing"} ELSE {})
    /\ UNCHANGED <<walks, badges, library, pending, failed, stats, gauge>>

Publishes == episodeStats # "nil" /\ movieStats # "nil"

Publish ==
    /\ at["walk"] = "join" /\ at["episode"] = "over" /\ at["movie"] = "over"
    /\ Goto("walk", "over")
    /\ published' = published \cup
          (IF Publishes THEN {"movies", "totals"} \cup (IF walks THEN {"episodes"} ELSE {})
           ELSE {})
    /\ UNCHANGED <<walks, badges, group, stats, gauge>>

Walk == Start \/ Publish

-----------------------------------------------------------------------------
(* collectEpisodeStats *)

Series ==
    /\ at["episode"] = "series"
    /\ Goto("episode", "launch")
    /\ library' \in SUBSET Batches
    /\ pending' = library' \cup {EpisodeHistory}
    /\ UNCHANGED <<walks, badges, running, failed, stats, gauge, published>>

\* After a panic the assignment of the result is not reached.
SeriesFail(fault) ==
    /\ at["episode"] = "series"
    /\ GiveUp("episode")
    /\ episodeStats' = IF fault = "error" THEN "nil" ELSE episodeStats
    /\ UNCHANGED <<walks, badges, group, counted, movieStats, published>>

Mut_HasPlace_Lost == Cardinality(running \cap EpisodeWorkers) < Limit /\ "episodes" \notin failed
HasPlace == Cardinality(running \cap EpisodeWorkers) < Limit

\* The batches, then the history, whether or not one of them failed already.
Launch(w) ==
    /\ at["episode"] = "launch" /\ w \in pending
    /\ w = EpisodeHistory => pending = {EpisodeHistory}
    /\ HasPlace
    /\ pending' = pending \ {w}
    /\ running' = running \cup {w}
    /\ IF pending' = {} THEN Goto("episode", "wait") ELSE UNCHANGED at
    /\ UNCHANGED <<walks, badges, library, failed, stats, gauge, published>>

Mut_EpisodesJoined == TRUE
EpisodesJoined == running \cap EpisodeWorkers = {}

Mut_GroupFailed(g) == FALSE
GroupFailed(g) == g \in failed

EpisodesDone ==
    /\ at["episode"] = "wait" /\ EpisodesJoined
    /\ IF GroupFailed("episodes")
       THEN GiveUp("episode") /\ episodeStats' = "nil"
       ELSE Goto("episode", "over") /\ episodeStats' = "full" /\ UNCHANGED gauge
    /\ UNCHANGED <<walks, badges, group, counted, movieStats, published>>

Episode ==
    \/ Series \/ EpisodesDone
    \/ \E fault \in Faults : SeriesFail(fault)
    \/ \E w \in EpisodeWorkers : Launch(w)

-----------------------------------------------------------------------------
(* collectMovieStats *)

Movies ==
    /\ at["movie"] = "movies"
    /\ Goto("movie", "wait")
    /\ counted' = counted \cup {"movies"}
    /\ UNCHANGED <<walks, badges, group, episodeStats, movieStats, gauge, published>>

\* The history worker is not waited for.
MoviesFail ==
    /\ at["movie"] = "movies" /\ Faults # {}
    /\ GiveUp("movie")
    /\ UNCHANGED <<walks, badges, group, stats, published>>

Mut_MoviesJoined == TRUE
MoviesJoined == MovieHistory \notin running

MoviesDone ==
    /\ at["movie"] = "wait" /\ MoviesJoined
    /\ IF GroupFailed("movies")
       THEN GiveUp("movie") /\ UNCHANGED movieStats
       ELSE Goto("movie", "over") /\ movieStats' = "full" /\ UNCHANGED gauge
    /\ UNCHANGED <<walks, badges, group, counted, episodeStats, published>>

Movie == Movies \/ MoviesFail \/ MoviesDone

-----------------------------------------------------------------------------
(* A worker *)

GroupOf(w) == IF w = MovieHistory THEN "movies" ELSE "episodes"

\* Its place in the group is given back whatever happened.
Work(w, result) ==
    /\ w \in running
    /\ running' = running \ {w}
    /\ IF result = "ok"
       THEN counted' = counted \cup {w} /\ UNCHANGED failed
       ELSE failed' = failed \cup {GroupOf(w)} /\ UNCHANGED counted
    /\ UNCHANGED <<walks, at, badges, library, pending, episodeStats, movieStats, gauge, published>>

Worker(w) == \E result \in Faults \cup {"ok"} : Work(w, result)

-----------------------------------------------------------------------------
Next == Main \/ Skip \/ System \/ Walk \/ Episode \/ Movie \/ \E w \in Workers : Worker(w)

Spec == Init /\ [][Next]_vars

\* The goroutines are scheduled and calls end (Transport).
Fairness ==
    /\ WF_vars(Main) /\ WF_vars(System) /\ WF_vars(Walk)
    /\ WF_vars(Episode) /\ WF_vars(Movie)
    /\ \A w \in Workers : WF_vars(Worker(w))

FairSpec == Spec /\ Fairness

-----------------------------------------------------------------------------
(* Properties *)

TypeOK ==
    /\ walks \in Walks /\ badges \in BOOLEAN /\ gauge \in BOOLEAN
    /\ at \in [Goroutines -> Places]
    /\ library \subseteq Batches /\ pending \subseteq EpisodeWorkers
    /\ running \subseteq Workers /\ Cardinality(running \cap EpisodeWorkers) <= Limit
    /\ failed \subseteq {"episodes", "movies"}
    /\ counted \subseteq library \cup {EpisodeHistory, MovieHistory, "movies"}
    /\ episodeStats \in {"new", "nil", "full"} /\ movieStats \in {"nil", "full"}
    /\ published \subseteq {"episodes", "movies", "totals", "missing", "health", "status", "badges"}

EpisodesWhole == library \cup {EpisodeHistory} \subseteq counted
MoviesWhole == {"movies", MovieHistory} \subseteq counted

Promised ==
    {"movies", "totals", "health", "status", "badges"}
        \cup (IF walks THEN {"episodes"} ELSE {"missing"})

\* Whichever of its fetches failed or panicked, in whichever goroutine, a
\* collection without the error gauge published everything, complete
\* (README.md:376: "the gauge is absent while the collector is healthy").
UnflaggedIsComplete ==
    at["main"] = "over" /\ ~gauge =>
        published = Promised /\ MoviesWhole /\ (walks => EpisodesWhole)

\* When the totals are sent, nobody is writing to them any more, and they are
\* complete; the episodes can be missing only beside the error gauge, when their
\* goroutine panicked and left the stats it was to replace.
TotalsAreWhole ==
    "totals" \in published =>
        /\ running = {} /\ MoviesWhole
        /\ walks => EpisodesWhole \/ (episodeStats = "new" /\ gauge)

\* A worker that outlives its collection is the movie history's, of a collection
\* whose movie list failed: it says so by the gauge, and nothing reads its stats.
OnlyTheHistoryIsLeft ==
    at["main"] = "over" /\ running # {} =>
        running = {MovieHistory} /\ gauge /\ movieStats = "nil" /\ "totals" \notin published

\* Whatever fails or panics, a collection ends and the next can begin.
BazarrEnds == at["main"] = "badges" ~> at["main"] = "over" /\ running = {}

\* README.md:319: "`<app>_system_status` is `1` while the app answers its status
\* endpoint and `0` when it doesn't".
StatusIsTold == at["main"] = "over" => "status" \in published
=============================================================================
