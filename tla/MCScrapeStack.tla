--------------------------- MODULE MCScrapeStack ---------------------------
(* One scrape more than are admitted, so that one is refused, and two       *)
(* collectors that end in either order.                                     *)
EXTENDS ScrapeStack, TLC

CONSTANTS p1, p2, p3, sonarr, queue
=============================================================================
