----------------------------- MODULE ServerLife -----------------------------
(***************************************************************************)
(* The life of the server process around its connections:                  *)
(* tephra-server/src/lib.rs (accept loop, registry, connection slots,      *)
(* shutdown), main.rs (signals, the writer's end), the thread of each      *)
(* connection up to serve_over with its TLS handshake                      *)
(* (tephra-proto/src/tls.rs), and the metrics thread.                      *)
(*                                                                         *)
(* What happens on an established connection is ServerConn's subject: here *)
(* it is served until its socket ends, with reads on the worker pool.      *)
(* Deadlines may pass at any time and, where set, pass eventually.         *)
(***************************************************************************)
EXTENDS Integers, FiniteSets

CONSTANTS
    Client,             \* the sockets that may connect
    MaxConnections,     \* max_connections; 0 means unlimited
    Tls,                \* the server was given a TLS configuration
    Metrics,            \* it was given a metrics address
    MaxRequestBytes,    \* MAX_REQUEST_BYTES of a scrape
    MaxScrapes,         \* bound on scrapes
    MaxFaults,          \* bound on failing calls and panics
    Nobody              \* no client

ASSUME ServerLifeAssumption ==
    /\ {MaxConnections, MaxRequestBytes, MaxScrapes, MaxFaults} \subseteq Nat
    /\ {Tls, Metrics} \subseteq BOOLEAN
    /\ Nobody \notin Client

VARIABLES
    conn,           \* per client: its connection's phase, socket, trickle and read
    backlog,        \* the clients waiting in accept's queue
    wake,           \* the throwaway connection of a shutdown waits there too
    wakeFailed,     \*   or could not be made
    loop,           \* run: where it is, and the client in its hands
    active,         \* active_connections, the gauge that is also the cap
    threads,        \* the connection threads whose handles run still holds
    streams,        \* Connections: the registered sockets
    shuttingDown,   \*   and its sticky flag
    serverRunning,  \* the accept loop's flag
    signal,         \* the signal handler's progress
    metrics,        \* the metrics thread
    process,        \* main: serving, then closing the writer, then gone
    faults

connVars == <<conn, backlog, wake, wakeFailed>>
registryVars == <<streams, shuttingDown, serverRunning>>
lifeVars == <<connVars, loop, active, threads, registryVars, signal, metrics, process, faults>>

Up == process # "exited"

NotConnected == [at |-> "away", sock |-> "open", quiet |-> TRUE, reading |-> FALSE]

Loop(at, c) == [at |-> at, client |-> c]

Listening == loop.at \notin {"stopped", "failed"}

\* A connection thread exists from its spawn until its closure returns.
ThreadPhases == {"handshake", "serving", "wedged", "leaving"}
ThreadLive(c) == conn[c].at \in ThreadPhases

Fault ==
    /\ faults < MaxFaults
    /\ faults' = faults + 1
-----------------------------------------------------------------------------
\* The network (external): clients connect, trickle bytes and hang up.
Connect(c) ==
    /\ Up /\ conn[c].at = "away" /\ Listening
    /\ conn' = [conn EXCEPT ![c].at = "queued"]
    /\ backlog' = backlog \cup {c}
    /\ UNCHANGED <<wake, wakeFailed, loop, active, threads, registryVars, signal, metrics, process,
                   faults>>

HangUp(c) ==
    /\ Up /\ conn[c].at \in {"queued", "handshake", "serving"} /\ conn[c].sock = "open"
    /\ conn' = [conn EXCEPT ![c].sock = "shut"]
    /\ UNCHANGED <<backlog, wake, wakeFailed, loop, active, threads, registryVars, signal, metrics,
                   process, faults>>
-----------------------------------------------------------------------------
\* Server::run. The loop takes a socket, looks at the flag, takes a slot, registers, spawns.
Accept(c) ==
    /\ Up /\ loop.at = "accept" /\ c \in backlog
    /\ backlog' = backlog \ {c}
    /\ IF serverRunning
       THEN loop' = Loop("admit", c) /\ UNCHANGED conn
       ELSE loop' = Loop("join", Nobody) /\ conn' = [conn EXCEPT ![c].at = "dropped"]
    /\ UNCHANGED <<wake, wakeFailed, active, threads, registryVars, signal, metrics, process,
                   faults>>

AcceptWake ==
    /\ Up /\ loop.at = "accept" /\ wake
    /\ wake' = FALSE
    /\ ~serverRunning
    /\ loop' = Loop("join", Nobody)
    /\ UNCHANGED <<conn, backlog, wakeFailed, active, threads, registryVars, signal, metrics,
                   process, faults>>

AcceptError ==
    /\ Up /\ loop.at = "accept" /\ Fault
    /\ loop' = Loop(IF serverRunning THEN "accept" ELSE "join", Nobody)
    /\ UNCHANGED <<connVars, active, threads, registryVars, signal, metrics, process>>

\* ConnPermit::acquire, and the reaping of finished threads. The socket is closed over the cap and
\* when its clone for the registry fails.
AtCap == MaxConnections # 0 /\ active >= MaxConnections

Dropped(c) == [conn EXCEPT ![c].at = "dropped", ![c].sock = "shut"]

Retain == {c \in threads : ThreadLive(c)}

Refuse ==
    /\ Up /\ loop.at = "admit" /\ AtCap
    /\ conn' = Dropped(loop.client)
    /\ loop' = Loop("accept", Nobody)
    /\ UNCHANGED <<backlog, wake, wakeFailed, active, threads, registryVars, signal, metrics,
                   process, faults>>

Admit ==
    /\ Up /\ loop.at = "admit" /\ ~AtCap
    /\ threads' = Retain
    /\ \/ active' = active + 1 /\ loop' = Loop("register", loop.client)
          /\ UNCHANGED <<conn, faults>>
       \/ Fault /\ conn' = Dropped(loop.client) /\ loop' = Loop("accept", Nobody)
          /\ UNCHANGED active
    /\ UNCHANGED <<backlog, wake, wakeFailed, registryVars, signal, metrics, process>>

\* Variant: registering does not look for a shutdown.
RegisterUnchecked ==
    /\ Up /\ loop.at = "register"
    /\ streams' = streams \cup {loop.client}
    /\ loop' = Loop("spawn", loop.client)
    /\ UNCHANGED <<connVars, active, threads, shuttingDown, serverRunning, signal, metrics,
                   process, faults>>

\* Connections::register; once a shutdown has begun it closes the socket and the loop ends, the
\* slot going with it.
Register ==
    /\ Up /\ loop.at = "register"
    /\ IF shuttingDown
       THEN /\ conn' = Dropped(loop.client)
            /\ active' = active - 1
            /\ loop' = Loop("join", Nobody)
            /\ UNCHANGED streams
       ELSE /\ streams' = streams \cup {loop.client}
            /\ loop' = Loop("spawn", loop.client)
            /\ UNCHANGED <<conn, active>>
    /\ UNCHANGED <<backlog, wake, wakeFailed, threads, shuttingDown, serverRunning, signal,
                   metrics, process, faults>>

Spawn ==
    /\ Up /\ loop.at = "spawn"
    /\ conn' = [conn EXCEPT ![loop.client].at = IF Tls THEN "handshake" ELSE "serving"]
    /\ threads' = threads \cup {loop.client}
    /\ loop' = Loop("accept", Nobody)
    /\ UNCHANGED <<backlog, wake, wakeFailed, active, registryVars, signal, metrics, process,
                   faults>>

\* Variant: a failed spawn keeps the slot.
SpawnFailsKeepsSlot ==
    /\ Up /\ loop.at = "spawn" /\ Fault
    /\ conn' = Dropped(loop.client)
    /\ loop' = Loop("failed", Nobody)
    /\ UNCHANGED <<backlog, wake, wakeFailed, active, threads, registryVars, signal, metrics,
                   process>>

\* The thread cannot be spawned: its closure is dropped with slot and socket, and run returns the
\* error at once.
SpawnFails ==
    /\ Up /\ loop.at = "spawn" /\ Fault
    /\ conn' = Dropped(loop.client)
    /\ active' = active - 1
    /\ loop' = Loop("failed", Nobody)
    /\ UNCHANGED <<backlog, wake, wakeFailed, threads, registryVars, signal, metrics, process>>

\* After the loop: join the connections, then the read pool, whose workers go when no connection
\* or read holds a sender, then the metrics thread.
JoinConnections ==
    /\ Up /\ loop.at = "join"
    /\ \A c \in threads : ~ThreadLive(c)
    /\ threads' = {}
    /\ loop' = Loop("pool", Nobody)
    /\ UNCHANGED <<connVars, active, registryVars, signal, metrics, process, faults>>

SendersGone == \A c \in Client : ~ThreadLive(c) /\ ~conn[c].reading

JoinPool ==
    /\ Up /\ loop.at = "pool" /\ SendersGone
    /\ loop' = Loop("metrics", Nobody)
    /\ UNCHANGED <<connVars, active, threads, registryVars, signal, metrics, process, faults>>

JoinMetrics ==
    /\ Up /\ loop.at = "metrics" /\ metrics.at \in {"off", "exited"}
    /\ loop' = Loop("stopped", Nobody)
    /\ UNCHANGED <<connVars, active, threads, registryVars, signal, metrics, process, faults>>
-----------------------------------------------------------------------------
\* serve_connection. drive_handshake makes one socket call at a time and looks at the deadline
\* before each, whatever the peer trickles; there is a deadline unless all three timeouts are
\* disabled (handshake_deadline).
HandshakeStep(c) ==
    /\ Up /\ conn[c].at = "handshake" /\ conn[c].sock = "open"
    /\ conn' = [conn EXCEPT ![c].quiet = ~@]
    /\ UNCHANGED <<backlog, wake, wakeFailed, loop, active, threads, registryVars, signal, metrics,
                   process, faults>>

HandshakeDone(c) ==
    /\ Up /\ conn[c].at = "handshake" /\ conn[c].sock = "open"
    /\ conn' = [conn EXCEPT ![c].at = "serving"]
    /\ UNCHANGED <<backlog, wake, wakeFailed, loop, active, threads, registryVars, signal, metrics,
                   process, faults>>

\* Variant: the deadline starts over with every byte.
OverdueWhenQuiet(c) == conn[c].quiet

HandshakeOverdue(c) == TRUE

\* The slot goes with the permit when the thread's work returns, the registry entry after it.
Leave(c) ==
    /\ conn' = [conn EXCEPT ![c].at = "leaving", ![c].sock = "shut"]
    /\ active' = active - 1
    /\ UNCHANGED <<backlog, wake, wakeFailed, loop, threads, registryVars, signal, metrics,
                   process>>

HandshakeFails(c) ==
    /\ Up /\ conn[c].at = "handshake"
    /\ conn[c].sock = "shut" \/ HandshakeOverdue(c)
    /\ Leave(c) /\ UNCHANGED faults

StartRead(c) ==
    /\ Up /\ conn[c].at = "serving" /\ ~conn[c].reading /\ conn[c].sock = "open"
    /\ conn' = [conn EXCEPT ![c].reading = TRUE]
    /\ UNCHANGED <<backlog, wake, wakeFailed, loop, active, threads, registryVars, signal, metrics,
                   process, faults>>

EndRead(c) ==
    /\ Up /\ conn[c].reading
    /\ conn' = [conn EXCEPT ![c].reading = FALSE]
    /\ UNCHANGED <<backlog, wake, wakeFailed, loop, active, threads, registryVars, signal, metrics,
                   process, faults>>

\* serve_over returns when the socket has ended and its reads are over.
ServeReturns(c) ==
    /\ Up /\ conn[c].at = "serving" /\ conn[c].sock = "shut" /\ ~conn[c].reading
    /\ Leave(c) /\ UNCHANGED faults

\* Or never: once its pump has ended with the socket, nobody releases the append permit its reader
\* may be waiting for (ServerConn's Wedged).
Wedges(c) ==
    /\ Up /\ conn[c].at = "serving" /\ conn[c].sock = "shut"
    /\ conn' = [conn EXCEPT ![c].at = "wedged"]
    /\ UNCHANGED <<backlog, wake, wakeFailed, loop, active, threads, registryVars, signal, metrics,
                   process, faults>>

\* An unwind out of serve_connection drops the permit and nothing else: the registry's clone keeps
\* the socket open.
ServePanics(c) ==
    /\ Up /\ conn[c].at = "serving" /\ Fault
    /\ conn' = [conn EXCEPT ![c].at = "panicked"]
    /\ active' = active - 1
    /\ UNCHANGED <<backlog, wake, wakeFailed, loop, threads, registryVars, signal, metrics,
                   process>>

ThreadEnds(c) ==
    /\ Up /\ conn[c].at = "leaving"
    /\ streams' = streams \ {c}
    /\ conn' = [conn EXCEPT ![c].at = "gone"]
    /\ UNCHANGED <<backlog, wake, wakeFailed, loop, active, threads, shuttingDown, serverRunning,
                   signal, metrics, process, faults>>
-----------------------------------------------------------------------------
\* The signal handler: ShutdownHandle::shutdown in its three steps. The handler runs on one
\* thread, so a second signal is seen after them.
FirstSignal ==
    /\ Up /\ signal = "none"
    /\ serverRunning' = FALSE
    /\ signal' = "stored"
    /\ UNCHANGED <<connVars, loop, active, threads, streams, shuttingDown, metrics, process,
                   faults>>

\* Variant: nobody connects to wake the accept loop.
NoWake ==
    /\ Up /\ signal = "stored"
    /\ signal' = "woken"
    /\ UNCHANGED <<connVars, loop, active, threads, registryVars, metrics, process, faults>>

\* The connect that wakes accept; its failure is ignored.
WakeAccept ==
    /\ Up /\ signal = "stored"
    /\ signal' = "woken"
    /\ \/ wake' = Listening /\ UNCHANGED <<wakeFailed, faults>>
       \/ Fault /\ wakeFailed' = TRUE /\ UNCHANGED wake
    /\ UNCHANGED <<conn, backlog, loop, active, threads, registryVars, metrics, process>>

ShutdownAll ==
    /\ Up /\ signal = "woken"
    /\ signal' = "done"
    /\ shuttingDown' = TRUE
    /\ conn' = [c \in Client |-> IF c \in streams THEN [conn[c] EXCEPT !.sock = "shut"]
                                 ELSE conn[c]]
    /\ UNCHANGED <<backlog, wake, wakeFailed, loop, active, threads, streams, serverRunning,
                   metrics, process, faults>>

SecondSignal ==
    /\ Up /\ signal = "done"
    /\ process' = "exited"
    /\ signal' = "forced"
    /\ UNCHANGED <<connVars, loop, active, threads, registryVars, metrics, faults>>

\* main after run returned, with or without an error.
CloseWriter ==
    /\ process = "serving" /\ loop.at \in {"stopped", "failed"}
    /\ process' = "closed"
    /\ UNCHANGED <<connVars, loop, active, threads, registryVars, signal, metrics, faults>>

Exit ==
    /\ process = "closed"
    /\ process' = "exited"
    /\ UNCHANGED <<connVars, loop, active, threads, registryVars, signal, metrics, faults>>
-----------------------------------------------------------------------------
\* metrics::serve polls the flag between scrapes; a scrape reads up to the cap, each read and the
\* write under its own timeout.
ScrapeStarts ==
    /\ Up /\ metrics.at = "polling" /\ serverRunning /\ metrics.scrapes < MaxScrapes
    /\ metrics' = [metrics EXCEPT !.at = "scraping", !.bytes = 0, !.scrapes = @ + 1]
    /\ UNCHANGED <<connVars, loop, active, threads, registryVars, signal, process, faults>>

ScrapeByte ==
    /\ Up /\ metrics.at = "scraping" /\ metrics.bytes < MaxRequestBytes
    /\ metrics' = [metrics EXCEPT !.bytes = @ + 1]
    /\ UNCHANGED <<connVars, loop, active, threads, registryVars, signal, process, faults>>

ScrapeEnds ==
    /\ Up /\ metrics.at = "scraping"
    /\ metrics' = [metrics EXCEPT !.at = "polling", !.bytes = 0]
    /\ UNCHANGED <<connVars, loop, active, threads, registryVars, signal, process, faults>>

MetricsExit ==
    /\ Up /\ metrics.at = "polling" /\ ~serverRunning
    /\ metrics' = [metrics EXCEPT !.at = "exited"]
    /\ UNCHANGED <<connVars, loop, active, threads, registryVars, signal, process, faults>>
-----------------------------------------------------------------------------
LifeInit ==
    /\ conn = [c \in Client |-> NotConnected]
    /\ backlog = {} /\ wake = FALSE /\ wakeFailed = FALSE
    /\ loop = Loop("accept", Nobody)
    /\ active = 0 /\ threads = {}
    /\ streams = {} /\ shuttingDown = FALSE /\ serverRunning = TRUE
    /\ signal = "none"
    /\ metrics = [at |-> IF Metrics THEN "polling" ELSE "off", bytes |-> 0, scrapes |-> 0]
    /\ process = "serving"
    /\ faults = 0

ConnThread(c) == HandshakeFails(c) \/ EndRead(c) \/ ServeReturns(c) \/ ThreadEnds(c)

Run ==
    \/ \E c \in Client : Accept(c)
    \/ AcceptWake \/ Refuse \/ Admit \/ Register \/ Spawn
    \/ JoinConnections \/ JoinPool \/ JoinMetrics

Handler == WakeAccept \/ ShutdownAll

Main == CloseWriter \/ Exit

MetricsThread == ScrapeByte \/ ScrapeEnds \/ MetricsExit

LifeNext ==
    \/ \E c \in Client : Connect(c) \/ HangUp(c)
    \/ Run \/ AcceptError \/ SpawnFails
    \/ \E c \in Client : ConnThread(c) \/ HandshakeStep(c) \/ HandshakeDone(c)
                            \/ StartRead(c) \/ Wedges(c) \/ ServePanics(c)
    \/ FirstSignal \/ Handler \/ SecondSignal
    \/ Main
    \/ ScrapeStarts \/ MetricsThread

\* Every thread runs; deadlines pass. Clients need do nothing; a scrape gets a byte or a timeout.
LifeSpec ==
    /\ LifeInit /\ [][LifeNext]_lifeVars
    /\ WF_lifeVars(Run) /\ WF_lifeVars(Handler) /\ WF_lifeVars(Main) /\ WF_lifeVars(MetricsThread)
    /\ \A c \in Client : WF_lifeVars(ConnThread(c))
-----------------------------------------------------------------------------
\* The types of the state.
LifeTypeOK ==
    /\ \A c \in Client :
        /\ conn[c].at \in ThreadPhases \cup {"away", "queued", "dropped", "panicked", "gone"}
        /\ conn[c].sock \in {"open", "shut"}
        /\ {conn[c].quiet, conn[c].reading} \subseteq BOOLEAN
    /\ backlog \cup threads \cup streams \subseteq Client
    /\ active \in Nat
    /\ {wake, wakeFailed, shuttingDown, serverRunning} \subseteq BOOLEAN
    /\ process \in {"serving", "closed", "exited"}
    /\ metrics.bytes \in 0..MaxRequestBytes

\* The gauge counts exactly the connections that hold a slot, however they end ("an unwind out of
\* serve_connection (or a failed thread spawn) cannot inflate the gauge or leak a slot"), and
\* stays within the cap.
SlotsAreExact ==
    /\ active = Cardinality({c \in Client : conn[c].at \in {"handshake", "serving", "wedged"}})
                + (IF loop.at \in {"register", "spawn"} THEN 1 ELSE 0)
    /\ MaxConnections # 0 => active <= MaxConnections

\* "No window in which a connection is served but missed by shutdown_all": once it has run, every
\* connection being served has its socket shut.
ShutdownMissesNone ==
    shuttingDown => \A c \in Client :
        conn[c].at \in {"handshake", "serving", "wedged"} => conn[c].sock = "shut"

\* "Each connection removes itself on exit": a socket stays registered only while it is being set
\* up or served. A connection that panicked and one whose thread did not start are left behind.
RegistryIsLive ==
    \A c \in streams : \/ ThreadLive(c) \/ (loop.at = "spawn" /\ loop.client = c)
                       \/ conn[c].at = "panicked" \/ loop.at = "failed"

\* What the server counts and what it keeps for shutdown agree with the connections there are,
\* through panics and failed spawns.
BooksAreExact == SlotsAreExact /\ RegistryIsLive

\* The writer is closed only after the last connection and the last read, when run ended by a
\* shutdown: nobody is left to append.
WriterClosesLast == process = "closed" /\ loop.at = "stopped" => SendersGone

\* A client in the backlog of a running server is served or turned away.
ClientsAreDecided ==
    \A c \in Client : (c \in backlog) ~> (c \notin backlog \/ ~serverRunning \/ loop.at = "failed")

\* A client cannot hold a slot with an unfinished handshake, whatever it trickles.
HandshakesEnd ==
    \A c \in Client : (conn[c].at = "handshake") ~> (conn[c].at # "handshake" \/ ~Up)

\* No client waits for ever, neither to be accepted nor in a handshake that holds a slot others
\* need.
NoneKeptWaiting == ClientsAreDecided /\ HandshakesEnd

\* The two ways a shutdown can hang: a connection thread that never returns, and an accept that
\* the failed wake-up left blocked.
HeldUp ==
    \/ \E c \in Client : conn[c].at = "wedged"
    \/ wakeFailed /\ loop.at = "accept"

\* A signal ends the process: the accept loop is woken, connections, reads and a scrape in
\* progress end, and run returns, unless it is held up for ever in one of these two ways.
ShutdownCompletesOrHangs == (signal # "none") ~> (process = "exited" \/ []HeldUp)

\* "Signals the accept loop to stop and unblocks any connection parked on a read"
\* (ShutdownHandle::shutdown). HeldUp refutes it.
ShutdownCompletes == (signal # "none") ~> (process = "exited")
=============================================================================
