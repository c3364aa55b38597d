----------------------------- MODULE Deadlines -----------------------------
(***************************************************************************)
(* How the time limits of a scrape follow from each other: the collectors'  *)
(* deadline from the scrape timeout of their target (config/config.go), and *)
(* the server's write timeout from the longest of them (commands/root.go,   *)
(* commands/serve.go).  Durations are integers in one unit, as in Go.       *)
(***************************************************************************)
EXTENDS Integers

CONSTANTS
    CollectGrace,   \* collectGrace
    WriteMargin     \* what newServer adds to the scrape timeout

ASSUME DurationAssumption == CollectGrace \in Nat \ {0} /\ WriteMargin \in Nat \ {0}

\* A validated timeout is positive, where \div is Go's division.
Mut_CollectTimeout(scrape) == scrape - CollectGrace
CollectTimeout(scrape) ==
    IF scrape - CollectGrace > scrape \div 2 THEN scrape - CollectGrace
                                             ELSE scrape \div 2

\* collectContext: a timeout that is not positive is no deadline.
HasDeadline(collect) == collect > 0

WriteTimeout(scrape) == scrape + WriteMargin

\* maxScrapeTimeout, of the targets' scrape timeouts.
LongestOf(timeouts) == CHOOSE t \in timeouts : \A u \in timeouts : u <= t

\* The scrape timeouts for which collectors that end within slack after their
\* deadline end before the scrape: all but a few units above zero.
Leaves(slack, scrape) == scrape >= 2 /\ scrape >= 2 * slack + 1 /\ slack < CollectGrace
=============================================================================
