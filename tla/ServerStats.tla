---------------------------- MODULE ServerStats ----------------------------
(***************************************************************************)
(* A collection of the SABnzbd collector (sabnzbd/collector/collector.go)   *)
(* and the article counters it keeps (cache.go).  SABnzbd lists, per news   *)
(* server, the articles it tried and got on each day; the exporter reads    *)
(* the latest listed day at each scrape and builds counters that keep       *)
(* growing over the days.  One worker asks for the queue and one for the    *)
(* listings, which it puts in the cache; a collection tells what both got,  *)
(* or only that one of them failed.  Collections do not overlap: the        *)
(* scrapes of a target share one gather (ScrapeStack).                      *)
(*                                                                         *)
(* A server's listing is reduced to its latest day: the code reads nothing  *)
(* else.  Both of its maps list the same days, as in the recorded response. *)
(* The byte totals are copied and keep no history: they are left out.       *)
(*                                                                         *)
(* A collection sees SABnzbd once, when it answers; what SABnzbd does       *)
(* between that answer and the end of the collection could as well come     *)
(* after it, so SABnzbd moves while no collection runs.                     *)
(***************************************************************************)
EXTENDS Integers, FiniteSets, Functions

CONSTANTS
    Servers,        \* news servers
    MaxDay,         \* bound: days the model runs for
    MaxArticles     \* bound: articles a server tries on a day

ASSUME StatsAssumption == MaxDay \in Nat \ {0} /\ MaxArticles \in Nat \ {0}

Days == 1..MaxDay
NoDay == 0      \* DayParsed and todayKey when nothing is listed: ""

Listing == [day : Days \cup {NoDay}, tried : 0..MaxArticles, success : 0..MaxArticles]
Nothing == [day |-> NoDay, tried |-> 0, success |-> 0]

VARIABLES
    today,      \* SABnzbd's date
    listed,     \* SABnzbd: what it lists for each server
    queue,      \* the worker that asks for the queue
    stats,      \* the worker that asks for server_stats
    told,       \* what the last collection told: "nothing", "stats" or "error"
    sample,     \* the response in hand: a listing for some of the servers
    known,      \* the servers in the cache
    cache,      \* the cached entry of each server
    published,  \* the counters of the last successful scrape
    wiped,      \* history: SABnzbd lost the server's days since then
    sampled     \* history: each day's last sample since the entry began

sabVars == <<today, listed>>
cacheVars == <<known, cache, sampled>>
statsVars == <<sabVars, queue, stats, told, sample, published, wiped, cacheVars>>

Workers == {"idle", "asking", "done", "failed"}

Fresh == [key |-> NoDay, triedBefore |-> 0, triedToday |-> 0,
          successBefore |-> 0, successToday |-> 0]

NoSamples == [d \in Days |-> Nothing]

GetArticlesTried(e) == e.triedBefore + e.triedToday
GetArticlesSuccess(e) == e.successBefore + e.successToday

StatsInit ==
    /\ today = 1
    /\ listed = [s \in Servers |-> Nothing]
    /\ queue = "idle" /\ stats = "idle" /\ told = "nothing"
    /\ sample = <<>>
    /\ known = {}
    /\ cache = [s \in Servers |-> Fresh]
    /\ published = [s \in Servers |-> [tried |-> 0, success |-> 0]]
    /\ wiped = [s \in Servers |-> FALSE]
    /\ sampled = [s \in Servers |-> NoSamples]

-----------------------------------------------------------------------------
(* SABnzbd *)

Idle == stats = "idle"

\* One more article is tried, and got or not.
Article(s) ==
    LET now == IF listed[s].day = today THEN listed[s]
               ELSE [day |-> today, tried |-> 0, success |-> 0]
    IN  /\ Idle
        /\ now.tried < MaxArticles
        /\ \E got \in {0, 1} :
              listed' = [listed EXCEPT ![s] =
                  [day |-> today, tried |-> now.tried + 1, success |-> now.success + got]]
        /\ UNCHANGED <<today, queue, stats, told, sample, published, wiped, cacheVars>>

Midnight ==
    /\ Idle
    /\ today < MaxDay
    /\ today' = today + 1
    /\ UNCHANGED <<listed, queue, stats, told, sample, published, wiped, cacheVars>>

\* The history of a server is lost on the SABnzbd side.
Wipe(s) ==
    /\ Idle
    /\ listed[s] # Nothing
    /\ listed' = [listed EXCEPT ![s] = Nothing]
    /\ wiped' = [wiped EXCEPT ![s] = TRUE]
    /\ UNCHANGED <<today, queue, stats, told, sample, published, cacheVars>>

-----------------------------------------------------------------------------
(* The collection *)

Begin ==
    /\ Idle
    /\ queue' = "asking" /\ stats' = "asking"
    /\ told' = "nothing"
    /\ UNCHANGED <<sabVars, sample, published, wiped, cacheVars>>

\* The queue is answered; or the request or the decoding of its answer fails, or
\* the worker panics, and its recover makes an error of it.
Queue ==
    /\ queue = "asking"
    /\ queue' \in {"done", "failed"}
    /\ UNCHANGED <<sabVars, stats, told, sample, published, wiped, cacheVars>>

\* SABnzbd answers server_stats; a server can be missing from the answer.
Fetch ==
    /\ stats = "asking"
    /\ \E S \in SUBSET Servers : sample' = [s \in S |-> listed[s]]
    /\ stats' = "fetched"
    /\ UNCHANGED <<sabVars, queue, told, published, wiped, cacheVars>>

FetchFails ==
    /\ stats = "asking"
    /\ stats' = "failed"
    /\ UNCHANGED <<sabVars, queue, told, sample, published, wiped, cacheVars>>

\* The days disappeared: the entry starts again.
Lost(e, l) == l.day = NoDay /\ e.key # NoDay

Mut_Rolled_SameKey(e, l) ==
    [e EXCEPT !.triedBefore = @ + e.triedToday, !.successBefore = @ + e.successToday]
Mut_Rolled_Drop(e, l) == [e EXCEPT !.key = l.day]
Rolled(e, l) ==
    [e EXCEPT !.key = l.day,
              !.triedBefore = @ + e.triedToday, !.successBefore = @ + e.successToday]

UpdateEntry(e, l) ==
    IF Lost(e, l) THEN Fresh
    ELSE [(IF l.day # e.key THEN Rolled(e, l) ELSE e)
             EXCEPT !.triedToday = l.tried, !.successToday = l.success]

\* The worker of server_stats goes on to the cache, whatever becomes of the
\* other.
Update ==
    /\ stats = "fetched"
    /\ known' = known \cup DOMAIN sample
    /\ cache' = [s \in Servers |->
                    IF s \in DOMAIN sample THEN UpdateEntry(cache[s], sample[s]) ELSE cache[s]]
    /\ sampled' = [s \in Servers |->
                    IF s \notin DOMAIN sample THEN sampled[s]
                    ELSE IF Lost(cache[s], sample[s]) THEN NoSamples
                    ELSE [d \in Days |-> IF d = sample[s].day THEN sample[s] ELSE sampled[s][d]]]
    /\ stats' = "done"
    /\ UNCHANGED <<sabVars, queue, told, sample, published, wiped>>

Mut_WaitOver == {queue, stats} \cap {"done", "failed"} # {}
WaitOver == {queue, stats} \subseteq {"done", "failed"}

WaitFails == "failed" \in {queue, stats}

Return(outcome) ==
    /\ queue' = "idle" /\ stats' = "idle"
    /\ told' = outcome
    /\ sample' = <<>>
    /\ UNCHANGED <<sabVars, cacheVars>>

\* Neither worker failed: the counters are read from the cache.
Publish ==
    /\ WaitOver /\ ~WaitFails
    /\ published' = [s \in Servers |->
                        IF s \in known THEN [tried   |-> GetArticlesTried(cache[s]),
                                             success |-> GetArticlesSuccess(cache[s])]
                        ELSE published[s]]
    /\ wiped' = [s \in Servers |-> wiped[s] /\ s \notin DOMAIN sample]
    /\ Return("stats")

\* The error gauge, and nothing else; the cache may have moved on.
CollectFails ==
    /\ WaitOver /\ WaitFails
    /\ Return("error")
    /\ UNCHANGED <<published, wiped>>

Collect == Begin \/ Queue \/ Fetch \/ FetchFails \/ Update \/ Publish \/ CollectFails

StatsNext ==
    \/ \E s \in Servers : Article(s) \/ Wipe(s)
    \/ Midnight \/ Collect

StatsSpec == StatsInit /\ [][StatsNext]_statsVars

-----------------------------------------------------------------------------
(* Properties *)

StatsTypeOK ==
    /\ today \in Days
    /\ listed \in [Servers -> Listing]
    /\ queue \in Workers /\ stats \in Workers \cup {"fetched"}
    /\ queue = "idle" <=> stats = "idle"
    /\ told \in {"nothing", "stats", "error"}
    /\ known \subseteq Servers
    /\ \A s \in Servers :
          /\ cache[s].key \in Days \cup {NoDay}
          /\ GetArticlesTried(cache[s]) \in 0..(MaxDay * MaxArticles)
          /\ GetArticlesSuccess(cache[s]) \in 0..GetArticlesTried(cache[s])
          /\ published[s].tried \in Nat /\ published[s].success \in Nat

\* "accumulates per-server statistics across scrapes so counters survive
\* SABnzbd's daily rollover" (cache.go:61-62): however scrapes fall among the
\* articles and the midnights, fail or miss a server, the counters are the sum
\* of the last sample of each day: no day is counted twice and none is dropped.
TriedOn(s) == [d \in Days |-> sampled[s][d].tried]
SuccessOn(s) == [d \in Days |-> sampled[s][d].success]
CountsEachDayOnce ==
    \A s \in Servers :
        /\ GetArticlesTried(cache[s]) = SumFunction(TriedOn(s))
        /\ GetArticlesSuccess(cache[s]) = SumFunction(SuccessOn(s))

\* What is exported as a counter goes down only when SABnzbd lost its history,
\* however many collections failed in between after their sample was counted; and
\* a collection that tells counters tells those of its own sample, although its
\* two workers end in any order.
Drops(s) ==
    \/ published'[s].tried < published[s].tried
    \/ published'[s].success < published[s].success
Tells(s) ==
    /\ sample[s].day # NoDay => sampled[s][sample[s].day] = sample[s]
    /\ published'[s] = [tried   |-> GetArticlesTried(cache[s]),
                        success |-> GetArticlesSuccess(cache[s])]
PublishedFollows ==
    [][/\ \A s \in Servers : Drops(s) => wiped[s]
       /\ told' = "stats" /\ told # "stats" => \A s \in DOMAIN sample : Tells(s)]_statsVars
=============================================================================
