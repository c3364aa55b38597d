------------------------------ MODULE MCServe ------------------------------
(* The environments of a few targets, sound and not, for TLC. *)
EXTENDS Serve, TLC

CONSTANTS n1, n2, h1, h2

Key(h) == [key |-> h, given |-> TRUE, valid |-> TRUE]

Block(n, a, u, own) ==
    [name |-> n, app |-> a, url |-> u, apiKey |-> TRUE, login |-> "none",
     unknownKey |-> FALSE, own |-> own]

Sonarr == Block(n1, "sonarr", Key(h1), <<>>)
Long == Block(n2, "sabnzbd", Key(h2), "SCRAPE_TIMEOUT" :> 11)

GoodBlocks ==
    {Sonarr, Long,
     [Sonarr EXCEPT !.login = "full"],
     Block(n2, "prowlarr", Key(h1), "PROWLARR__BACKFILL_SINCE_DATE" :> 2),
     Block(n1, "bazarr", Key(h2), "SCRAPE_TIMEOUT" :> 1),
     Block(n2, "bazarr", Key(h2), "SCRAPE_TIMEOUT" :> 3 @@ "BAZARR__SERIES_BATCH_SIZE" :> 1)}

BadBlocks ==
    {[Sonarr EXCEPT !.name = "invalid"],
     [Sonarr EXCEPT !.app = "invalid"],
     [Sonarr EXCEPT !.url = [key |-> NoKey, given |-> FALSE, valid |-> FALSE]],
     [Sonarr EXCEPT !.url = [key |-> NoKey, given |-> TRUE, valid |-> FALSE]],
     [Sonarr EXCEPT !.url = [key |-> h2, given |-> TRUE, valid |-> FALSE]],
     [Sonarr EXCEPT !.apiKey = FALSE],
     [Sonarr EXCEPT !.login = "half"],
     [Sonarr EXCEPT !.unknownKey = TRUE],
     [Sonarr EXCEPT !.own = "SERIES_CONCURRENCY" :> 99],
     [Sonarr EXCEPT !.own = "SERIES_CONCURRENCY" :> Unparsable],
     [Sonarr EXCEPT !.own = "BAZARR__SERIES_BATCH_SIZE" :> 1],
     [Long EXCEPT !.own = "SCRAPE_TIMEOUT" :> 0],
     [Long EXCEPT !.own = "SCRAPE_TIMEOUT" :> Unparsable @@ "SERIES_CONCURRENCY" :> 1],
     [Long EXCEPT !.login = "full"],
     [Long EXCEPT !.app = "prowlarr", !.own = "PROWLARR__BACKFILL_SINCE_DATE" :> -1],
     [Long EXCEPT !.app = "bazarr", !.own = "BAZARR__SERIES_BATCH_SIZE" :> 0]}

Listings ==
    LET B == GoodBlocks \cup BadBlocks
    IN {<<>>} \cup [{0} -> B] \cup [{1} -> {Sonarr}] \cup [{0, 1} -> B] \cup [{0, 2} -> GoodBlocks]
       \cup [{0, 1, 2} -> {Sonarr, Long, [Sonarr EXCEPT !.name = "invalid"], [Long EXCEPT !.name = n1]}]

Defaults ==
    [k \in Settings |-> CASE k = "SCRAPE_TIMEOUT" -> 5 [] k = "SERIES_CONCURRENCY" -> 10
                          [] k = "PROWLARR__BACKFILL_SINCE_DATE" -> 0 [] OTHER -> 3]

Env(blocks, cap) ==
    [valid |-> TRUE, parses |-> TRUE, single |-> FALSE, defaults |-> Defaults, cap |-> cap,
     malformed |-> FALSE, blocks |-> blocks]

Processes(e) ==
    {e, [e EXCEPT !.valid = FALSE], [e EXCEPT !.parses = FALSE], [e EXCEPT !.single = TRUE],
     [e EXCEPT !.malformed = TRUE], [e EXCEPT !.cap = Unparsable],
     [e EXCEPT !.defaults["SCRAPE_TIMEOUT"] = 0],
     [e EXCEPT !.defaults["SERIES_CONCURRENCY"] = 0],
     [e EXCEPT !.defaults["PROWLARR__BACKFILL_SINCE_DATE"] = -1],
     [e EXCEPT !.defaults["BAZARR__SERIES_BATCH_SIZE"] = 0]}

MCEnvironments ==
    {Env(b, c) : b \in Listings, c \in {2, 3}}
    \cup UNION {Processes(Env(b, 3)) : b \in [{0} -> GoodBlocks] \cup [{0, 1} -> GoodBlocks]}
=============================================================================
