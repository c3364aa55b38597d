------------------------ MODULE BazarrCollectProofs ------------------------
(***************************************************************************)
(* What a collection of Bazarr publishes, for any number of batches, any    *)
(* limit and any faults.                                                    *)
(*                                                                         *)
(* Each goroutine ends with its share published, counted or assigned, or    *)
(* with the gauge raised; the invariant has one part for each of them, and  *)
(* says who may run at all while another one is where it is.                *)
(***************************************************************************)
EXTENDS BazarrCollect, FiniteSetTheorems, TLAPS

Fresh ==
    /\ library = {} /\ pending = {} /\ running = {} /\ failed = {} /\ counted = {}
    /\ episodeStats = "new" /\ movieStats = "nil"

Begun == at["main"] \in {"join", "over"}

Types ==
    /\ walks \in BOOLEAN /\ walks \in Walks /\ badges \in BOOLEAN /\ gauge \in BOOLEAN
    /\ at \in [Goroutines -> Places]
    /\ library \subseteq Batches /\ pending \subseteq EpisodeWorkers /\ running \subseteq Workers
    /\ failed \subseteq {"episodes", "movies"}
    /\ counted \subseteq library \cup {EpisodeHistory, MovieHistory, "movies"}
    /\ episodeStats \in {"new", "nil", "full"} /\ movieStats \in {"nil", "full"}
    /\ published \subseteq {"episodes", "movies", "totals", "missing", "health", "status", "badges"}

Listed ==
    /\ pending \cap Batches \subseteq library
    /\ running \cap Batches \subseteq library

MainInv ==
    /\ at["main"] \in {"idle", "badges", "join", "over"}
    /\ ~Begun => /\ published = {} /\ ~gauge /\ Fresh
    /\ at["main"] # "join" => \A g \in Goroutines \ {"main"} : at[g] = "over"
    /\ at["main"] = "join" => badges \/ gauge

SystemInv ==
    /\ at["system"] \in {"health", "status", "over"}
    /\ at["system"] = "status" => "health" \in published
    /\ Begun /\ at["system"] = "over" => gauge \/ {"health", "status", "badges"} \subseteq published

WalkInv ==
    /\ at["walk"] \in {"start", "join", "over"}
    /\ at["walk"] = "start" => Fresh
    /\ at["walk"] # "join" => at["episode"] = "over" /\ at["movie"] = "over"
    /\ at["walk"] # "over" => published \cap {"episodes", "movies", "totals"} = {}
    /\ at["walk"] = "join" => gauge \/ walks \/ "missing" \in published
    /\ Begun /\ at["walk"] = "over" =>
          gauge \/ Promised \cap {"episodes", "movies", "totals", "missing"} \subseteq published
    /\ walks => "missing" \notin published
    /\ ~walks => "episodes" \notin published
    /\ "totals" \in published => Publishes

\* What the group was given is waiting, at work, counted, or has failed it.
EpisodesInHand ==
    "episodes" \notin failed => library \cup {EpisodeHistory} \subseteq pending \cup running \cup counted

EpisodeInv ==
    /\ at["episode"] \in {"series", "launch", "wait", "over"}
    /\ at["episode"] # "over" => walks /\ episodeStats = "new"
    /\ at["episode"] \in {"series", "over"} => running \cap EpisodeWorkers = {}
    /\ at["episode"] = "series" => "episodes" \notin failed /\ library = {}
    /\ at["episode"] \in {"launch", "wait"} => EpisodesInHand
    /\ at["episode"] = "wait" => pending = {}
    /\ episodeStats = "full" => EpisodesWhole
    /\ ~walks => episodeStats = "new"
    /\ Begun /\ walks /\ at["walk"] # "start" /\ at["episode"] = "over" => episodeStats = "full" \/ gauge

MoviesInHand == "movies" \notin failed => MovieHistory \in running \cup counted

MovieInv ==
    /\ at["movie"] \in {"movies", "wait", "over"}
    /\ at["movie"] # "over" => MoviesInHand /\ movieStats = "nil"
    /\ at["movie"] = "wait" => "movies" \in counted
    /\ movieStats = "full" => MoviesWhole /\ MovieHistory \notin running
    /\ Begun /\ at["walk"] # "start" /\ at["movie"] = "over" => movieStats = "full" \/ gauge

WithinLimit ==
    /\ IsFiniteSet(running \cap EpisodeWorkers)
    /\ Cardinality(running \cap EpisodeWorkers) <= Limit

Inv == Types /\ Listed /\ MainInv /\ SystemInv /\ WalkInv /\ EpisodeInv /\ MovieInv
IInv == Inv /\ WithinLimit
-----------------------------------------------------------------------------
LEMMA InitIInv == Init => IInv
  <1> SUFFICES ASSUME Init PROVE IInv
    OBVIOUS
  <1>1. Inv
    BY BazarrAssumption
    DEF Init, Inv, Types, Listed, MainInv, SystemInv, WalkInv, EpisodeInv, MovieInv,
        Begun, Fresh, AllOver, Goroutines, Places, Promised, EpisodesWhole, MoviesWhole
  <1>2. WithinLimit
    <2>1. running \cap EpisodeWorkers = {}
      BY DEF Init
    <2> QED
      BY <2>1, FS_EmptySet, BazarrAssumption DEF WithinLimit
  <1> QED
    BY <1>1, <1>2 DEF IInv

\* A goroutine that goes somewhere leaves the others where they are.
LEMMA GoesTyped ==
    ASSUME at \in [Goroutines -> Places], NEW g \in Goroutines, NEW place \in Places, Goto(g, place)
    PROVE  at' \in [Goroutines -> Places]
  BY DEF Goto

\* The types, and that only the batches of the series listed are worked on.
LEMMA NextTypes == Inv /\ [Next]_vars => Types' /\ Listed'
  <1> SUFFICES ASSUME Inv, [Next]_vars PROVE Types' /\ Listed'
    OBVIOUS
  <1>0. Types /\ Listed /\ (at["episode"] = "series" => library = {} /\ running \cap EpisodeWorkers = {})
    BY DEF Inv, EpisodeInv
  <1> USE BazarrAssumption, <1>0 DEF Types, Listed, EpisodeWorkers, Workers, stats, group
  <1>1. CASE Begin
    <2>1. at' \in [Goroutines -> Places]
      BY <1>1 DEF Begin, AllOver, Goroutines, Places
    <2> QED
      BY <1>1, <2>1 DEF Begin, AllOver
  <1>2. CASE Badges
    <2>1. at' \in [Goroutines -> Places]
      BY <1>2 DEF Badges, Goroutines, Places
    <2> QED
      BY <1>2, <2>1 DEF Badges
  <1>3. CASE BadgesPanic
    <2>1. at' \in [Goroutines -> Places]
      <3>1. Goto("main", "over")
        BY <1>3 DEF BadgesPanic, GiveUp
      <3> QED
        BY <3>1, GoesTyped DEF Goroutines, Places
    <2> QED
      BY <1>3, <2>1 DEF BadgesPanic, GiveUp
  <1>4. CASE End
    <2>1. at' \in [Goroutines -> Places]
      <3>1. Goto("main", "over")
        BY <1>4 DEF End
      <3> QED
        BY <3>1, GoesTyped DEF Goroutines, Places
    <2> QED
      BY <1>4, <2>1 DEF End
  <1>5. CASE Health
    <2>1. at' \in [Goroutines -> Places]
      <3>1. Goto("system", "status") \/ Goto("system", "over")
        BY <1>5 DEF Health, GiveUp
      <3> QED
        BY <3>1, GoesTyped DEF Goroutines, Places
    <2> QED
      BY <1>5, <2>1 DEF Health, GiveUp
  <1>6. CASE Status
    <2>1. at' \in [Goroutines -> Places]
      <3>1. Goto("system", "over")
        BY <1>6 DEF Status, GiveUp
      <3> QED
        BY <3>1, GoesTyped DEF Goroutines, Places
    <2> QED
      BY <1>6, <2>1 DEF Status, GiveUp
  <1>7. CASE Start
    <2>1. at' \in [Goroutines -> Places]
      BY <1>7 DEF Start, Goroutines, Places
    <2> QED
      BY <1>7, <2>1 DEF Start
  <1>8. CASE Publish
    <2>1. at' \in [Goroutines -> Places]
      <3>1. Goto("walk", "over")
        BY <1>8 DEF Publish
      <3> QED
        BY <3>1, GoesTyped DEF Goroutines, Places
    <2> QED
      BY <1>8, <2>1 DEF Publish
  <1>9. CASE Series
    <2>1. at' \in [Goroutines -> Places]
      <3>1. Goto("episode", "launch")
        BY <1>9 DEF Series
      <3> QED
        BY <3>1, GoesTyped DEF Goroutines, Places
    <2> QED
      BY <1>9, <2>1 DEF Series
  <1>10. ASSUME NEW fault \in Faults, SeriesFail(fault) PROVE Types' /\ Listed'
    <2>1. at' \in [Goroutines -> Places]
      <3>1. Goto("episode", "over")
        BY <1>10 DEF SeriesFail, GiveUp
      <3> QED
        BY <3>1, GoesTyped DEF Goroutines, Places
    <2> QED
      BY <1>10, <2>1 DEF SeriesFail, GiveUp
  <1>11. ASSUME NEW w \in EpisodeWorkers, Launch(w) PROVE Types' /\ Listed'
    <2>1. at' \in [Goroutines -> Places]
      <3>1. Goto("episode", "wait") \/ UNCHANGED at
        BY <1>11 DEF Launch
      <3> QED
        BY <3>1, GoesTyped DEF Goroutines, Places
    <2> QED
      BY <1>11, <2>1 DEF Launch
  <1>12. CASE EpisodesDone
    <2>1. at' \in [Goroutines -> Places]
      <3>1. Goto("episode", "over")
        BY <1>12 DEF EpisodesDone, GiveUp
      <3> QED
        BY <3>1, GoesTyped DEF Goroutines, Places
    <2> QED
      BY <1>12, <2>1 DEF EpisodesDone, GiveUp
  <1>13. CASE Movies
    <2>1. at' \in [Goroutines -> Places]
      <3>1. Goto("movie", "wait")
        BY <1>13 DEF Movies
      <3> QED
        BY <3>1, GoesTyped DEF Goroutines, Places
    <2> QED
      BY <1>13, <2>1 DEF Movies
  <1>14. CASE MoviesFail
    <2>1. at' \in [Goroutines -> Places]
      <3>1. Goto("movie", "over")
        BY <1>14 DEF MoviesFail, GiveUp
      <3> QED
        BY <3>1, GoesTyped DEF Goroutines, Places
    <2> QED
      BY <1>14, <2>1 DEF MoviesFail, GiveUp
  <1>15. CASE MoviesDone
    <2>1. at' \in [Goroutines -> Places]
      <3>1. Goto("movie", "over")
        BY <1>15 DEF MoviesDone, GiveUp
      <3> QED
        BY <3>1, GoesTyped DEF Goroutines, Places
    <2> QED
      BY <1>15, <2>1 DEF MoviesDone, GiveUp
  <1>16. ASSUME NEW w \in Workers, NEW result \in Faults \cup {"ok"}, Work(w, result) PROVE Types' /\ Listed'
    <2>1. w \in library \cup {EpisodeHistory, MovieHistory}
      BY <1>16 DEF Work
    <2>2. CASE result = "ok"
      <3>1. /\ counted' = counted \cup {w} /\ running' = running \ {w}
            /\ UNCHANGED <<walks, at, badges, library, pending, failed, episodeStats, movieStats, gauge, published>>
        BY <1>16, <2>2 DEF Work
      <3>2. counted' \subseteq library' \cup {EpisodeHistory, MovieHistory, "movies"}
        BY <2>1, <3>1
      <3> QED
        BY <3>1, <3>2
    <2>3. CASE result # "ok"
      <3>1. failed' = failed \cup {GroupOf(w)} /\ GroupOf(w) \in {"episodes", "movies"}
        BY <1>16, <2>3 DEF Work, GroupOf
      <3> QED
        BY <1>16, <2>3, <3>1 DEF Work
    <2> QED
      BY <2>2, <2>3
  <1>17. CASE UNCHANGED vars
    BY <1>17 DEF vars
  <1> QED
    BY <1>1, <1>2, <1>3, <1>4, <1>5, <1>6, <1>7, <1>8, <1>9,
       <1>10, <1>11, <1>12, <1>13, <1>14, <1>15, <1>16, <1>17
    DEF Next, Main, Skip, System, Walk, Episode, Movie, Worker

\* The worker of the movies is of another group than those of the episodes.
LEMMA Apart == MovieHistory \notin EpisodeWorkers /\ "movies" \notin EpisodeWorkers /\ MovieHistory # "movies"
  BY BazarrAssumption DEF EpisodeWorkers, EpisodeHistory, MovieHistory

\* Each goroutine keeps what is said of all of them, whichever step it takes.
LEMMA NextInv == Inv /\ [Next]_vars => Inv'
  <1> SUFFICES ASSUME Inv, [Next]_vars PROVE Inv'
    OBVIOUS
  <1> DEFINE Parts == MainInv /\ SystemInv /\ WalkInv /\ EpisodeInv /\ MovieInv
  <1>0. Types' /\ Listed'
    BY NextTypes
  <1> USE BazarrAssumption
      DEF Inv, Types, Listed, MainInv, SystemInv, WalkInv, EpisodeInv, MovieInv,
          Begun, Fresh, Goroutines, Promised, EpisodesWhole, MoviesWhole,
          EpisodesInHand, MoviesInHand, Publishes, EpisodeWorkers, Workers, stats, group
  <1>1. ASSUME Begin PROVE Parts'
    BY <1>1 DEF Begin, AllOver
  <1>2. ASSUME Badges PROVE Parts'
    BY <1>2 DEF Badges
  <1>3. ASSUME BadgesPanic PROVE Parts'
    BY <1>3 DEF BadgesPanic, GiveUp, Goto
  <1>4. ASSUME End PROVE Parts'
    BY <1>4 DEF End, Goto
  <1>5. ASSUME Health PROVE Parts'
    <2>1. MainInv'
      BY <1>5 DEF Health, GiveUp, Goto
    <2>2. SystemInv'
      BY <1>5 DEF Health, GiveUp, Goto
    <2>3. WalkInv'
      BY <1>5 DEF Health, GiveUp, Goto
    <2>4. EpisodeInv'
      BY <1>5 DEF Health, GiveUp, Goto
    <2>5. MovieInv'
      BY <1>5 DEF Health, GiveUp, Goto
    <2> QED
      BY <2>1, <2>2, <2>3, <2>4, <2>5
  <1>6. ASSUME Status PROVE Parts'
    <2>1. MainInv'
      BY <1>6 DEF Status, GiveUp, Goto
    <2>2. SystemInv'
      BY <1>6 DEF Status, GiveUp, Goto
    <2>3. WalkInv'
      BY <1>6 DEF Status, GiveUp, Goto
    <2>4. EpisodeInv'
      BY <1>6 DEF Status, GiveUp, Goto
    <2>5. MovieInv'
      BY <1>6 DEF Status, GiveUp, Goto
    <2> QED
      BY <2>1, <2>2, <2>3, <2>4, <2>5
  <1>7. ASSUME Start PROVE Parts'
    <2>1. MainInv'
      BY <1>7 DEF Start
    <2>2. SystemInv'
      BY <1>7 DEF Start
    <2>3. WalkInv'
      BY <1>7 DEF Start
    <2>4. EpisodeInv'
      <3>1. running' = {MovieHistory} /\ Fresh
        BY <1>7 DEF Start
      <3>2. running' \cap EpisodeWorkers = {}
        BY <3>1, Apart
      <3>3. /\ at'["episode"] = IF walks THEN "series" ELSE "over"
            /\ at'["walk"] = "join" /\ at["main"] = "join"
            /\ UNCHANGED <<walks, library, pending, failed, counted, episodeStats, gauge>>
        BY <1>7 DEF Start
      <3> QED
        BY <3>1, <3>2, <3>3
    <2>5. MovieInv'
      BY <1>7 DEF Start
    <2> QED
      BY <2>1, <2>2, <2>3, <2>4, <2>5
  <1>8. ASSUME Publish PROVE Parts'
    BY <1>8 DEF Publish, Goto
  <1>9. ASSUME Series PROVE Parts'
    BY <1>9 DEF Series, Goto
  <1>10. ASSUME NEW fault \in Faults, SeriesFail(fault) PROVE Parts'
    BY <1>10 DEF SeriesFail, GiveUp, Goto
  <1>11. ASSUME NEW w \in EpisodeWorkers, Launch(w) PROVE Parts'
    <2>1. MainInv'
      BY <1>11 DEF Launch, Goto
    <2>2. SystemInv'
      BY <1>11 DEF Launch, Goto
    <2>3. WalkInv'
      BY <1>11 DEF Launch, Goto
    <2>4. EpisodeInv'
      BY <1>11 DEF Launch, Goto
    <2>5. MovieInv'
      <3>1. /\ running' = running \cup {w} /\ w # MovieHistory
            /\ at'["movie"] = at["movie"] /\ at'["walk"] = at["walk"] /\ at'["main"] = at["main"]
            /\ UNCHANGED <<failed, counted, movieStats, gauge>>
        BY <1>11, Apart DEF Launch, Goto
      <3> QED
        BY <3>1
    <2> QED
      BY <2>1, <2>2, <2>3, <2>4, <2>5
  <1>12. ASSUME EpisodesDone PROVE Parts'
    <2>1. MainInv'
      BY <1>12 DEF EpisodesDone, EpisodesJoined, GroupFailed, GiveUp, Goto
    <2>2. SystemInv'
      BY <1>12 DEF EpisodesDone, EpisodesJoined, GroupFailed, GiveUp, Goto
    <2>3. WalkInv'
      BY <1>12 DEF EpisodesDone, EpisodesJoined, GroupFailed, GiveUp, Goto
    <2>4. EpisodeInv'
      BY <1>12 DEF EpisodesDone, EpisodesJoined, GroupFailed, GiveUp, Goto
    <2>5. MovieInv'
      BY <1>12 DEF EpisodesDone, EpisodesJoined, GroupFailed, GiveUp, Goto
    <2> QED
      BY <2>1, <2>2, <2>3, <2>4, <2>5
  <1>13. ASSUME Movies PROVE Parts'
    BY <1>13 DEF Movies, Goto
  <1>14. ASSUME MoviesFail PROVE Parts'
    BY <1>14 DEF MoviesFail, GiveUp, Goto
  <1>15. ASSUME MoviesDone PROVE Parts'
    <2>1. MainInv'
      BY <1>15 DEF MoviesDone, MoviesJoined, GroupFailed, GiveUp, Goto
    <2>2. SystemInv'
      BY <1>15 DEF MoviesDone, MoviesJoined, GroupFailed, GiveUp, Goto
    <2>3. WalkInv'
      BY <1>15 DEF MoviesDone, MoviesJoined, GroupFailed, GiveUp, Goto
    <2>4. EpisodeInv'
      BY <1>15 DEF MoviesDone, MoviesJoined, GroupFailed, GiveUp, Goto
    <2>5. MovieInv'
      BY <1>15 DEF MoviesDone, MoviesJoined, GroupFailed, GiveUp, Goto
    <2> QED
      BY <2>1, <2>2, <2>3, <2>4, <2>5
  <1>16. ASSUME NEW w \in Workers, NEW result \in Faults \cup {"ok"}, Work(w, result) PROVE Parts'
    <2>1. MainInv'
      BY <1>16 DEF Work, GroupOf
    <2>2. SystemInv'
      BY <1>16 DEF Work, GroupOf
    <2>3. WalkInv'
      BY <1>16 DEF Work, GroupOf
    <2>4. EpisodeInv'
      <3>1. /\ running' = running \ {w} /\ counted \subseteq counted' /\ failed \subseteq failed'
            /\ UNCHANGED <<walks, at, library, pending, episodeStats, gauge>>
        BY <1>16 DEF Work
      <3>2. CASE w = MovieHistory
        <4>1. /\ "episodes" \in failed' <=> "episodes" \in failed
              /\ running' \cap EpisodeWorkers = running \cap EpisodeWorkers
              /\ \A x \in library \cup {EpisodeHistory} : x \in running => x \in running'
          BY <1>16, <3>1, <3>2, Apart DEF Work, GroupOf
        <4> QED
          BY <3>1, <4>1
      <3>3. CASE w \in EpisodeWorkers
        <4>1. at["episode"] \in {"launch", "wait"}
          BY <1>16, <3>3 DEF Work
        <4>2. w \in counted' \/ "episodes" \in failed'
          BY <1>16, <3>3, Apart DEF Work, GroupOf
        <4>3. EpisodesInHand'
          BY <3>1, <4>1, <4>2
        <4> QED
          BY <3>1, <4>1, <4>3
      <3> QED
        BY <3>2, <3>3
    <2>5. MovieInv'
      BY <1>16 DEF Work, GroupOf
    <2> QED
      BY <2>1, <2>2, <2>3, <2>4, <2>5
  <1>17. ASSUME UNCHANGED vars PROVE Parts'
    BY <1>17 DEF vars
  <1>18. Parts'
    BY <1>1, <1>2, <1>3, <1>4, <1>5, <1>6, <1>7, <1>8,
       <1>9, <1>10, <1>11, <1>12, <1>13, <1>14, <1>15, <1>16, <1>17
    DEF Next, Main, Skip, System, Walk, Episode, Movie, Worker
  <1> QED
    BY <1>0, <1>18

\* HasPlace admits one worker at a time, below the limit.
LEMMA NextWithinLimit == IInv /\ [Next]_vars => WithinLimit'
  <1> DEFINE R == running \cap EpisodeWorkers
  <1> SUFFICES ASSUME IInv, [Next]_vars PROVE WithinLimit'
    OBVIOUS
  <1>1. IsFiniteSet(R) /\ Cardinality(R) <= Limit /\ Limit \in Nat /\ Cardinality(R) \in Nat
    BY FS_CardinalityType, BazarrAssumption DEF IInv, WithinLimit
  <1>2. CASE R' \subseteq R
    <2>1. IsFiniteSet(R') /\ Cardinality(R') \in Nat /\ Cardinality(R') <= Cardinality(R)
      BY <1>1, <1>2, FS_Subset, FS_CardinalityType
    <2> QED
      BY <1>1, <2>1 DEF WithinLimit
  <1>3. ASSUME NEW w \in EpisodeWorkers, Launch(w) PROVE WithinLimit'
    <2>1. R' = R \cup {w} /\ Cardinality(R) < Limit
      BY <1>3 DEF Launch, HasPlace
    <2> HIDE DEF R
    <2>2. IsFiniteSet(R') /\ (Cardinality(R') = Cardinality(R) \/ Cardinality(R') = Cardinality(R) + 1)
      BY <1>1, <2>1, FS_AddElement
    <2>3. Cardinality(R') <= Limit
      BY <1>1, <2>1, <2>2
    <2> QED
      BY <2>2, <2>3 DEF WithinLimit, R
  <1>4. R' \subseteq R \/ \E w \in EpisodeWorkers : Launch(w)
    <2>1. MovieHistory \notin EpisodeWorkers
      BY BazarrAssumption DEF EpisodeWorkers, EpisodeHistory, MovieHistory
    <2> QED
      BY <2>1
      DEF Next, Main, Skip, System, Walk, Episode, Movie, Worker, vars, group, Begin, Badges, BadgesPanic,
          End, Health, Status, Start, Publish, Series, SeriesFail, EpisodesDone, Movies, MoviesFail,
          MoviesDone, Work
  <1> QED
    BY <1>2, <1>3, <1>4

\* Where the goroutines are, what they did and what the gauge says agree.
THEOREM Invariance == Spec => []IInv
  <1>1. IInv /\ [Next]_vars => IInv'
    BY NextInv, NextWithinLimit DEF IInv
  <1> QED
    BY InitIInv, <1>1, PTL DEF Spec

\* TypeOK, with no more episode workers than the limit.
THEOREM TypeCorrect == Spec => []TypeOK
  <1>1. IInv => TypeOK
    BY DEF IInv, Inv, Types, WithinLimit, TypeOK
  <1> QED
    BY Invariance, <1>1, PTL

\* A collection without the error gauge published all it promises, complete,
\* whichever goroutine met a fault, and when (bazarr.go:179-261, 394, 476).
THEOREM Unflagged == Spec => []UnflaggedIsComplete
  <1>1. IInv => UnflaggedIsComplete
    <2> SUFFICES ASSUME Inv, at["main"] = "over", ~gauge
                 PROVE  published = Promised /\ MoviesWhole /\ (walks => EpisodesWhole)
      BY DEF IInv, UnflaggedIsComplete
    <2>1. \A g \in Goroutines \ {"main"} : at[g] = "over"
      BY DEF Inv, MainInv
    <2>2. {"health", "status", "badges"} \subseteq published
      BY <2>1 DEF Inv, SystemInv, Begun, Goroutines
    <2>3. Promised \cap {"episodes", "movies", "totals", "missing"} \subseteq published
      BY <2>1 DEF Inv, WalkInv, Begun, Goroutines
    <2>4. published = Promised
      BY <2>2, <2>3 DEF Inv, Types, WalkInv, Promised
    <2>5. MoviesWhole
      BY <2>1 DEF Inv, MovieInv, Begun, Goroutines
    <2>6. walks => EpisodesWhole
      BY <2>1 DEF Inv, EpisodeInv, Begun, Goroutines
    <2> QED
      BY <2>4, <2>5, <2>6
  <1> QED
    BY Invariance, <1>1, PTL

\* Totals are sent when nobody writes to them, and complete, but for the
\* episodes of a goroutine that panicked, which the gauge accompanies.
THEOREM Whole == Spec => []TotalsAreWhole
  <1>1. IInv => TotalsAreWhole
    <2> SUFFICES ASSUME Inv, "totals" \in published
                 PROVE  /\ running = {} /\ MoviesWhole
                        /\ walks => EpisodesWhole \/ (episodeStats = "new" /\ gauge)
      BY DEF IInv, TotalsAreWhole
    <2>1. Publishes /\ at["walk"] = "over" /\ at["episode"] = "over" /\ Begun
      BY DEF Inv, WalkInv, MainInv
    <2>2. movieStats = "full" /\ MoviesWhole /\ MovieHistory \notin running
      BY <2>1 DEF Inv, Types, MovieInv, Publishes
    <2>3. running \cap EpisodeWorkers = {}
      BY <2>1 DEF Inv, EpisodeInv
    <2>4. running = {}
      BY <2>2, <2>3 DEF Inv, Types, Workers
    <2>5. walks => EpisodesWhole \/ (episodeStats = "new" /\ gauge)
      BY <2>1 DEF Inv, Types, EpisodeInv, Publishes
    <2> QED
      BY <2>2, <2>4, <2>5
  <1> QED
    BY Invariance, <1>1, PTL

\* What is left running after a collection is at most the worker of the movie
\* history, whose stats nobody reads (bazarr.go:433-437).
THEOREM LeftBehind == Spec => []OnlyTheHistoryIsLeft
  <1>1. IInv => OnlyTheHistoryIsLeft
    <2> SUFFICES ASSUME Inv, at["main"] = "over", running # {}
                 PROVE  running = {MovieHistory} /\ gauge /\ movieStats = "nil" /\ "totals" \notin published
      BY DEF IInv, OnlyTheHistoryIsLeft
    <2>1. \A g \in Goroutines \ {"main"} : at[g] = "over"
      BY DEF Inv, MainInv
    <2>2. running = {MovieHistory}
      BY <2>1 DEF Inv, Types, EpisodeInv, Goroutines, Workers
    <2>3. movieStats = "nil" /\ gauge
      BY <2>1, <2>2 DEF Inv, Types, MovieInv, Goroutines, Begun
    <2>4. "totals" \notin published
      BY <2>3 DEF Inv, WalkInv, Publishes
    <2> QED
      BY <2>2, <2>3, <2>4
  <1> QED
    BY Invariance, <1>1, PTL
=============================================================================
