---------------------------- MODULE LiveChannel ----------------------------
(***************************************************************************)
(* The channel that carries the live statistics to the browsers: the       *)
(* WebSocket server, its shutdown, the middleware that reconnects, and the *)
(* slice of the store that shows the fleet (websocket.service.ts,          *)
(* server.ts, websocketMiddleware.ts, miningSlice.ts, Miners.tsx).         *)
(*                                                                         *)
(* What the snapshot holds is LiveStats's concern.  Here a page shows the  *)
(* fleet, or a fleet in which it has marked a miner as rebooting by        *)
(* itself, until a snapshot replaces the mark.                             *)
(***************************************************************************)
EXTENDS Naturals

CONSTANTS
  Pages,         \* browsers
  Sources,       \* what METRICS_SOURCE may be: "prometheus", "push"
  MaxAttempts,   \* MAX_RECONNECT_ATTEMPTS
  MaxMessages,   \* bound: snapshots under way to a page
  MaxReboots,    \* bound: reboots the users ask for
  MaxFaults      \* bound: failed connections, dropped links, late pongs, signals, unloads, stops

ASSUME AttemptsAssumption == MaxAttempts \in Nat

VARIABLES
  phase,         \* of the server: up, stopping, down
  source,        \* METRICS_SOURCE: the ticks of the interval broadcast, or the scheduler's pushes
  running,       \* simulationInterval is set
  served,        \* the server's socket of each page: none, alive, pinged
  zombies,       \* the server's sockets of links that are dead: how many are alive, how many pinged
  sock,          \* the page's socket: none, connecting, open, closing
  dead,          \* the page's open socket has no peer: its link was dropped silently
  timers,        \* reconnections the page has scheduled
  attempts,      \* reconnectAttempts
  failed,        \* history: connections that failed in a row
  connected,     \* isConnected of the store
  gaveUp,        \* the page reported that the attempts were used up
  unloaded,      \* the page was told that it will unload, and stayed
  queue,         \* snapshots under way to each page
  stats,         \* what the page shows: none yet, the fleet, or a fleet with a rebooting mark
  rebootsLeft, faultsLeft

links == <<served, zombies, queue>>
page == <<sock, dead, timers, attempts, failed, connected, gaveUp, unloaded>>
bounds == <<rebootsLeft, faultsLeft>>
mining == <<source, running>>
vars == <<phase, mining, links, page, stats, bounds>>

Fault == faultsLeft > 0 /\ faultsLeft' = faultsLeft - 1 /\ UNCHANGED rebootsLeft

----------------------------------------------------------------------------
(* The page's end of a connection.                                         *)

Set(f, p, value) == f' = [f EXCEPT ![p] = value]

\* The close event.  While attempts are left another one is scheduled.
Scheduled(p) == timers[p] + 1

Closed(p) ==
  /\ Set(sock, p, "none") /\ Set(dead, p, FALSE) /\ Set(connected, p, FALSE)
  /\ IF attempts[p] < MaxAttempts
     THEN Set(timers, p, Scheduled(p)) /\ UNCHANGED gaveUp
     ELSE Set(gaveUp, p, TRUE) /\ UNCHANGED timers
  /\ UNCHANGED <<attempts, unloaded>>

\* connect, from a timer: the count is of attempts begun.
TimerFires(p) ==
  /\ timers[p] > 0
  /\ Set(timers, p, timers[p] - 1)
  /\ Set(attempts, p, attempts[p] + 1)
  /\ IF sock[p] = "open" THEN UNCHANGED sock ELSE Set(sock, p, "connecting")
  /\ UNCHANGED <<phase, mining, links, dead, failed, connected, gaveUp, unloaded, stats, bounds>>

\* The server takes the connection and sends the statistics at once; the page counts from zero
\* again.
\* Defect: it goes on counting.
AttemptsKept(p) == attempts[p]
AttemptsAfterOpen(p) == 0

Connects(p) ==
  /\ sock[p] = "connecting" /\ phase = "up"
  /\ Set(sock, p, "open") /\ Set(connected, p, TRUE)
  /\ Set(attempts, p, AttemptsAfterOpen(p)) /\ Set(failed, p, 0)
  /\ Set(served, p, "alive") /\ Set(queue, p, 1)
  /\ UNCHANGED <<phase, mining, zombies, dead, timers, gaveUp, unloaded, stats, bounds>>

\* The socket is made with a constant URL, so that its constructor never throws.
ConnectFails(p) ==
  /\ sock[p] = "connecting"
  /\ IF phase = "up" THEN Fault ELSE UNCHANGED bounds
  /\ Closed(p) /\ Set(failed, p, failed[p] + 1)
  /\ UNCHANGED <<phase, mining, links, stats>>

\* disconnect, before the page unloads.  It stays when the navigation comes to nothing, as with a
\* download: the socket still reports that it closed, a timer is gone for good.
Unloads(p) ==
  /\ Fault
  /\ Set(timers, p, 0) /\ Set(connected, p, FALSE) /\ Set(unloaded, p, TRUE)
  /\ Set(sock, p, IF sock[p] \in {"connecting", "open"} THEN "closing" ELSE sock[p])
  /\ UNCHANGED <<phase, mining, links, dead, attempts, failed, gaveUp, stats>>

\* A dead link does not carry the close: the server keeps its socket.
ClosingEnds(p) ==
  /\ sock[p] = "closing"
  /\ Closed(p) /\ Set(served, p, "none") /\ Set(queue, p, 0)
  /\ UNCHANGED <<phase, mining, zombies, failed, stats, bounds>>

\* The user loads the page again.
Reloads(p) ==
  /\ gaveUp[p] \/ unloaded[p]
  /\ Set(sock, p, "connecting") /\ Set(dead, p, FALSE) /\ Set(timers, p, 0)
  /\ Set(attempts, p, 0) /\ Set(failed, p, 0) /\ Set(connected, p, FALSE)
  /\ Set(gaveUp, p, FALSE) /\ Set(unloaded, p, FALSE)
  /\ Set(served, p, "none") /\ Set(queue, p, 0) /\ Set(stats, p, "none")
  /\ UNCHANGED <<phase, mining, zombies, bounds>>

----------------------------------------------------------------------------
(* The server's end.                                                       *)

\* broadcast, by a tick of the interval or by a push; a server that is closing takes no request.
Snapshots == IF source = "push" THEN phase = "up" ELSE running /\ phase # "down"

Broadcast ==
  /\ Snapshots
  /\ \A p \in Pages : queue[p] < MaxMessages
  /\ queue' = [p \in Pages |-> IF served[p] # "none" THEN queue[p] + 1 ELSE 0]
  /\ UNCHANGED <<phase, mining, served, zombies, page, stats, bounds>>

\* POST /mining/stop clears the interval; the clients stay connected.
StopMining ==
  /\ Fault /\ phase = "up" /\ running
  /\ running' = FALSE
  /\ UNCHANGED <<phase, source, links, page, stats>>

StartMining ==
  /\ phase = "up" /\ ~running
  /\ running' = TRUE
  /\ UNCHANGED <<phase, source, links, page, stats, bounds>>

\* The whole statistics are replaced.
\* Defect: they are merged into the old, in which the mark stays.
Merged(p) == IF stats[p] = "marked" THEN "marked" ELSE "fleet"
Updated(p) == "fleet"

Delivered(p) ==
  /\ queue[p] > 0 /\ sock[p] = "open"
  /\ Set(queue, p, queue[p] - 1) /\ Set(stats, p, Updated(p))
  /\ UNCHANGED <<phase, mining, served, zombies, page, bounds>>

\* handleRebootMiner marks the miner before it asks the backend, and takes nothing back when the
\* backend fails.
RebootClicked(p) ==
  /\ rebootsLeft > 0 /\ rebootsLeft' = rebootsLeft - 1
  /\ stats[p] # "none" /\ Set(stats, p, "marked")
  /\ UNCHANGED <<phase, mining, links, page, faultsLeft>>

\* A link is lost and neither end hears of it.
LinkDrops(p) ==
  /\ Fault /\ sock[p] = "open" /\ ~dead[p]
  /\ Set(dead, p, TRUE) /\ Set(served, p, "none") /\ Set(queue, p, 0)
  /\ Set(zombies, p, [zombies[p] EXCEPT !.alive = @ + 1])
  /\ UNCHANGED <<phase, mining, sock, timers, attempts, failed, connected, gaveUp, unloaded, stats>>

\* The page's own system finds out, at last.
LinkFails(p) ==
  /\ sock[p] = "open" /\ dead[p]
  /\ Closed(p)
  /\ UNCHANGED <<phase, mining, links, failed, stats, bounds>>

\* The ping of every client: one that has not answered since the last is terminated.
\* Defect: a client counts as alive until it answers.
PingedStillAlive(z) == [alive |-> z.alive + z.pinged, pinged |-> 0]
Pinged(z) == [alive |-> 0, pinged |-> z.alive]

Ping ==
  /\ phase # "down"
  /\ \A p \in Pages : served[p] # "pinged"
  /\ served' = [p \in Pages |-> IF served[p] = "alive" THEN "pinged" ELSE "none"]
  /\ zombies' = [p \in Pages |-> Pinged(zombies[p])]
  /\ UNCHANGED <<phase, mining, queue, page, stats, bounds>>

Pong(p) ==
  /\ served[p] = "pinged"
  /\ Set(served, p, "alive")
  /\ UNCHANGED <<phase, mining, zombies, queue, page, stats, bounds>>

\* The pong is later than the next ping.
PongLate(p) ==
  /\ Fault /\ served[p] = "pinged" /\ sock[p] = "open"
  /\ Set(served, p, "none") /\ Set(queue, p, 0)
  /\ Closed(p)
  /\ UNCHANGED <<phase, mining, zombies, failed, stats>>

----------------------------------------------------------------------------
(* The server's shutdown.                                                  *)

\* server.close takes no more connections and waits for those there are, WebSockets among them.
Signal ==
  /\ Fault /\ phase = "up"
  /\ phase' = "stopping"
  /\ UNCHANGED <<mining, links, page, stats>>

\* The callback stops the mining service, which clears the interval, the database and at last
\* the WebSockets.
Idle == \A p \in Pages : served[p] = "none" /\ zombies[p].alive + zombies[p].pinged = 0
AllClosed ==
  /\ phase = "stopping" /\ Idle
  /\ phase' = "down" /\ running' = FALSE
  /\ UNCHANGED <<source, links, page, stats, bounds>>

\* After 30 seconds the process exits: its sockets close, the pages hear of it.
Gone(p) == served[p] # "none" /\ sock[p] = "open"
ForcedShutdown ==
  /\ phase = "stopping" /\ ~Idle
  /\ phase' = "down" /\ running' = FALSE
  /\ served' = [p \in Pages |-> "none"] /\ queue' = [p \in Pages |-> 0]
  /\ zombies' = [p \in Pages |-> [alive |-> 0, pinged |-> 0]]
  /\ sock' = [p \in Pages |-> IF Gone(p) THEN "none" ELSE sock[p]]
  /\ connected' = [p \in Pages |-> connected[p] /\ ~Gone(p)]
  /\ timers' = [p \in Pages |-> IF Gone(p) /\ attempts[p] < MaxAttempts THEN Scheduled(p) ELSE timers[p]]
  /\ gaveUp' = [p \in Pages |-> gaveUp[p] \/ (Gone(p) /\ attempts[p] >= MaxAttempts)]
  /\ UNCHANGED <<source, dead, attempts, failed, unloaded, stats, bounds>>

\* server.ts starts mining.
Restart ==
  /\ phase = "down" /\ phase' = "up" /\ running' = TRUE
  /\ UNCHANGED <<source, links, page, stats, bounds>>

----------------------------------------------------------------------------
Init ==
  /\ phase = "up" /\ source \in Sources /\ running = TRUE
  /\ served = [p \in Pages |-> "none"] /\ queue = [p \in Pages |-> 0]
  /\ zombies = [p \in Pages |-> [alive |-> 0, pinged |-> 0]]
  /\ sock = [p \in Pages |-> "connecting"] /\ dead = [p \in Pages |-> FALSE]
  /\ timers = [p \in Pages |-> 0] /\ attempts = [p \in Pages |-> 0] /\ failed = [p \in Pages |-> 0]
  /\ connected = [p \in Pages |-> FALSE] /\ gaveUp = [p \in Pages |-> FALSE]
  /\ unloaded = [p \in Pages |-> FALSE] /\ stats = [p \in Pages |-> "none"]
  /\ rebootsLeft = MaxReboots /\ faultsLeft = MaxFaults

Next ==
  \/ Broadcast \/ StopMining \/ StartMining \/ Ping \/ Signal \/ AllClosed \/ ForcedShutdown \/ Restart
  \/ \E p \in Pages :
       \/ TimerFires(p) \/ Connects(p) \/ ConnectFails(p) \/ Unloads(p) \/ ClosingEnds(p) \/ Reloads(p)
       \/ Delivered(p) \/ RebootClicked(p) \/ LinkDrops(p) \/ LinkFails(p) \/ Pong(p) \/ PongLate(p)

\* The intervals that are set and the timers of both ends run, the scheduler pushes, the network
\* delivers, a supervisor starts the server.  Nobody need ever start mining again.
Fairness ==
  /\ WF_vars(Broadcast) /\ WF_vars(Ping) /\ WF_vars(AllClosed) /\ WF_vars(ForcedShutdown) /\ WF_vars(Restart)
  /\ \A p \in Pages : /\ WF_vars(TimerFires(p)) /\ WF_vars(Connects(p)) /\ WF_vars(ConnectFails(p))
                      /\ WF_vars(ClosingEnds(p)) /\ WF_vars(Delivered(p)) /\ WF_vars(Pong(p))

Spec == Init /\ [][Next]_vars /\ Fairness

----------------------------------------------------------------------------
Count(b) == IF b THEN 1 ELSE 0

(* A page keeps exactly one connection alive or planned, or it has given up after MAX_RECONNECT_ATTEMPTS
   failures in a row; its indicator tells whether the socket is open.  After an unload that came to
   nothing there may be none: disconnect cancels the timer. *)
PagesKeepTrying ==
  \A p \in Pages :
    /\ connected[p] = (sock[p] = "open")
    /\ LET chains == timers[p] + Count(sock[p] # "none") + Count(gaveUp[p])
       IN chains <= 1 /\ (~unloaded[p] => chains = 1)
    /\ gaveUp[p] /\ ~unloaded[p] => failed[p] >= MaxAttempts

(* The server gets rid of the sockets of links that died silently, so a shutdown need not wait for
   them and broadcasts do not feed them. *)
DeadConnectionsAreDropped ==
  \A p \in Pages : zombies[p].alive + zombies[p].pinged > 0 ~> zombies[p].alive + zombies[p].pinged = 0

(* Where snapshots keep coming, by pushes or because mining is not stopped for good, a rebooting mark
   is no truth of the page's own: a snapshot replaces it, also when the backend refused the reboot,
   restarts or loses the page meanwhile; unless the page is cut off for good. *)
MarksHeal ==
  source = "push" \/ <>[]running =>
    \A p \in Pages : stats[p] = "marked" ~> stats[p] # "marked" \/ dead[p] \/ gaveUp[p] \/ unloaded[p]
=============================================================================
