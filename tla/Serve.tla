------------------------------- MODULE Serve -------------------------------
(***************************************************************************)
(* The process of `exportarr serve' from its start to its exit: Startup,    *)
(* then serveHTTP (commands/root.go) with the scrapes of the targets under  *)
(* their time limits, a listener that can fail, and a graceful shutdown.    *)
(*                                                                         *)
(* Time is discrete.  A timer that is due lets no time pass before it       *)
(* fires; a gather ends at any time up to Slack after its collectors'       *)
(* deadline, and at any time at all when they have none.                    *)
(***************************************************************************)
EXTENDS Startup

CONSTANTS
    Scrapes,            \* the connections scrapes come on
    Slack,              \* what collectors take to end after their deadline
    GracefulTimeout

ASSUME ServeAssumption == Slack \in Nat /\ GracefulTimeout \in Nat

VARIABLES
    server,     \* how far serveHTTP got
    exit,       \* the process's exit status
    signal,     \* a signal is in sigc
    failed,     \* Serve's error is in errc
    grace,      \* what is left of the graceful timeout
    served,     \* of each target, by name: its scrape timeout and its collectors'
    write,      \* the server's write timeout
    scrape,     \* the scrape on each connection, and its age
    gather      \* of each target: the time a gather in flight has left

runVars == <<server, exit, signal, failed, grace, served, write, scrape, gather>>
serveVars == <<vars, runVars>>

NoGather == -1
Endless == -2
Alive == -1
Away == [state |-> "away", target |-> Process, age |-> 0]

ServeInit ==
    /\ Init
    /\ server = "off" /\ exit = Alive /\ signal = FALSE /\ failed = FALSE
    /\ grace = 0 /\ write = 0
    /\ served = Nothing /\ gather = Nothing
    /\ scrape = [s \in Scrapes |-> Away]

Waiting == {s \in Scrapes : scrape[s].state = "waiting"}
Running == {n \in DOMAIN gather : gather[n] # NoGather}

Become(s, state) == [scrape[s] EXCEPT !.state = state]

\* The process is gone, with the scrapes that wait.
Exit(status) ==
    /\ server' = "exited"
    /\ exit' = status
    /\ scrape' = [s \in Scrapes |-> IF s \in Waiting THEN Become(s, "cut") ELSE scrape[s]]

-----------------------------------------------------------------------------
(* serveHTTP *)

Boot ==
    /\ Prepare
    /\ UNCHANGED runVars

Refused ==
    /\ phase = "refused" /\ server = "off"
    /\ Exit(1)
    /\ UNCHANGED <<vars, signal, failed, grace, served, write, gather>>

Mut_LongestScrape == env.defaults["SCRAPE_TIMEOUT"]
LongestScrape == LongestOf({built[i].scrape : i \in DOMAIN built})

Listen ==
    /\ HandOver
    /\ server' = "up"
    /\ served' = [n \in {built[i].name : i \in DOMAIN built} |->
                    LET i == CHOOSE i \in DOMAIN built : built[i].name = n
                    IN [scrape |-> built[i].scrape, collect |-> built[i].collect]]
    /\ write' = WriteTimeout(LongestScrape)
    /\ gather' = [n \in DOMAIN served' |-> NoGather]
    /\ UNCHANGED <<exit, signal, failed, grace, scrape>>

ListenFails ==
    /\ HandOver
    /\ Exit(1)
    /\ UNCHANGED <<signal, failed, grace, served, write, gather>>

\* srv.Serve returns: the listener is closed, the connections are not.
AcceptFails ==
    /\ server = "up" /\ ~failed
    /\ failed' = TRUE
    /\ UNCHANGED <<vars, server, exit, signal, grace, served, write, scrape, gather>>

\* sigc has room for one signal; the others are dropped.
Signal ==
    /\ server \in {"up", "stopping"} /\ ~signal
    /\ signal' = TRUE
    /\ UNCHANGED <<vars, server, exit, failed, grace, served, write, scrape, gather>>

\* The select: whichever is ready, when both are.
SelectError ==
    /\ server = "up" /\ failed
    /\ Exit(1)
    /\ UNCHANGED <<vars, signal, failed, grace, served, write, gather>>

SelectSignal ==
    /\ server = "up" /\ signal
    /\ server' = "stopping"
    /\ signal' = FALSE
    /\ grace' = GracefulTimeout
    /\ UNCHANGED <<vars, exit, failed, served, write, scrape, gather>>

\* Shutdown returns when no connection is in use, or with its context's error.
ShutdownDone ==
    /\ server = "stopping" /\ Waiting = {}
    /\ Exit(0)
    /\ UNCHANGED <<vars, signal, failed, grace, served, write, gather>>

ShutdownFails ==
    /\ server = "stopping" /\ grace = 0
    /\ Exit(1)
    /\ UNCHANGED <<vars, signal, failed, grace, served, write, gather>>

-----------------------------------------------------------------------------
(* Scrapes *)

\* A request, on a new connection or on one that was accepted before: the latter
\* goes on when the listener is closed.  It leads a gather or joins the one in flight.
Arrive(s, n) ==
    /\ server \in {"up", "stopping"} /\ scrape[s].state = "away"
    /\ scrape' = [scrape EXCEPT ![s] = [state |-> "waiting", target |-> n, age |-> 0]]
    /\ gather' = IF n \in Running THEN gather
                 ELSE [gather EXCEPT ![n] =
                         IF HasDeadline(served[n].collect) THEN served[n].collect + Slack
                                                           ELSE Endless]
    /\ UNCHANGED <<vars, server, exit, signal, failed, grace, served, write>>

\* All that wait for it are answered with its metrics.
GatherEnds(n) ==
    /\ server \in {"up", "stopping"} /\ n \in Running
    /\ gather' = [gather EXCEPT ![n] = NoGather]
    /\ scrape' = [s \in Scrapes |-> IF s \in Waiting /\ scrape[s].target = n
                                      THEN Become(s, "data") ELSE scrape[s]]
    /\ UNCHANGED <<vars, server, exit, signal, failed, grace, served, write>>

Overdue(s) == scrape[s].age = served[scrape[s].target].scrape

\* promhttp answers 503.
TimeOut(s) ==
    /\ server \in {"up", "stopping"} /\ s \in Waiting /\ Overdue(s)
    /\ scrape' = [scrape EXCEPT ![s] = Become(s, "timeout")]
    /\ UNCHANGED <<vars, server, exit, signal, failed, grace, served, write, gather>>

Leave(s) ==
    /\ server \in {"up", "stopping"} /\ scrape[s].state \in {"data", "timeout"}
    /\ scrape' = [scrape EXCEPT ![s] = Away]
    /\ UNCHANGED <<vars, server, exit, signal, failed, grace, served, write, gather>>

Tick ==
    /\ server \in {"up", "stopping"}
    /\ ~\E s \in Waiting : Overdue(s)
    /\ ~\E n \in Running : gather[n] = 0
    /\ server = "stopping" => grace > 0
    /\ grace' = IF server = "stopping" THEN grace - 1 ELSE grace
    /\ scrape' = [s \in Scrapes |-> IF s \in Waiting THEN [scrape[s] EXCEPT !.age = @ + 1]
                                                     ELSE scrape[s]]
    /\ gather' = [n \in DOMAIN gather |-> IF gather[n] > 0 THEN gather[n] - 1 ELSE gather[n]]
    /\ UNCHANGED <<vars, server, exit, signal, failed, served, write>>

\* The end of the process.
Gone == server = "exited" /\ UNCHANGED serveVars

Start == Boot \/ Refused \/ Listen \/ ListenFails
Select == SelectError \/ SelectSignal
Mut_Shutdown == ShutdownDone
Shutdown == ShutdownDone \/ ShutdownFails

ServeNext ==
    \/ Start \/ Select \/ Shutdown
    \/ AcceptFails \/ Signal
    \/ \E s \in Scrapes :
          (\E n \in DOMAIN served : Arrive(s, n)) \/ TimeOut(s) \/ Leave(s)
    \/ \E n \in DOMAIN gather : GatherEnds(n)
    \/ Tick
    \/ Gone

ServeSpec == ServeInit /\ [][ServeNext]_serveVars

\* The process runs, time passes, and collectors with a deadline end by Slack
\* after it; nothing else ends, and no scrape has to come or to leave.
ServeFairness ==
    /\ WF_serveVars(Start) /\ WF_serveVars(Select) /\ WF_serveVars(Shutdown)
    /\ WF_serveVars(Tick)
    /\ \A s \in Scrapes : WF_serveVars(TimeOut(s))
    /\ WF_serveVars(\E n \in DOMAIN gather : gather[n] = 0 /\ GatherEnds(n))

FairServeSpec == ServeSpec /\ ServeFairness

-----------------------------------------------------------------------------
(* Properties *)

ServeTypeOK ==
    /\ TypeOK
    /\ server \in {"off", "up", "stopping", "exited"}
    /\ exit \in {Alive, 0, 1} /\ (exit = Alive <=> server # "exited")
    /\ signal \in BOOLEAN /\ failed \in BOOLEAN
    /\ grace \in 0..GracefulTimeout
    /\ DOMAIN served \subseteq Names /\ DOMAIN gather = DOMAIN served
    /\ \A n \in DOMAIN served : served[n].scrape > 0 /\ gather[n] \in Int
    /\ \A s \in Scrapes :
          scrape[s].state # "away" =>
            scrape[s].target \in DOMAIN served
            /\ scrape[s].age \in 0..served[scrape[s].target].scrape

\* Every scrape - one that joins a gather somebody else leads, too - is answered
\* with what its collectors have got before it times out (config.go:56-58), but
\* for a scrape timeout of a unit or two; and what it is answered with, the 503
\* included, is written before the connection's deadline, whichever target has
\* the longest timeout (root.go:144-146).  It is cut off only by an exit that
\* tells of an error.
AnsweredInTime ==
    \A s \in Scrapes :
        LET timeout == served[scrape[s].target].scrape
        IN /\ scrape[s].state = "timeout" => ~Leaves(Slack, timeout)
           /\ scrape[s].state \in {"data", "timeout"} => scrape[s].age < write
           /\ scrape[s].state = "cut" => exit = 1

\* Whatever hangs, a signal ends the process, although only the first one is
\* listened to and scrapes keep coming on open connections.
StopsWhenAsked == signal /\ server = "up" ~> server = "exited"
=============================================================================
