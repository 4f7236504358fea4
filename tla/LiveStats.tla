----------------------------- MODULE LiveStats -----------------------------
(***************************************************************************)
(* The live snapshot of the fleet (backend/src/services/mining): the one   *)
(* object every dashboard, bot message and statistics row is made from,    *)
(* with the two paths that write it, over the inventory they read the      *)
(* fleet from.                                                             *)
(*                                                                         *)
(*   - the interval tick, which asks Prometheus (awaiting the answer) or   *)
(*     makes the readings up (SIMULATION_MODE), and writes the snapshot    *)
(*     and the statuses of the miners (lifecycle.ts, stats-reader.ts);     *)
(*   - the scheduler's push, which writes the snapshot when                *)
(*     METRICS_SOURCE is "push" (push-receiver.ts).                        *)
(*                                                                         *)
(* A machine is up or not.  What a tick saw is the set of machines that    *)
(* were up when Prometheus answered: queryPrometheus turns every error     *)
(* into an empty answer, so a read that failed saw no machine.             *)
(***************************************************************************)
EXTENDS MinerInventory, Naturals

CONSTANTS
  Modes,         \* the deployments: [simulation : BOOLEAN, source : {"prometheus", "push"}]
  Idle, Failed,  \* no tick is waiting for an answer; the answer was an error
  MaxRequests,   \* bound: requests of users, restarts, stops, starts, crashes
  MaxTurns,      \* bound: machines going up or down
  MaxFailures    \* bound: reads of Prometheus or of the database that fail

VARIABLES
  mode,          \* config.mining: simulationMode and metricsSource
  running,       \* the interval is set
  awaiting,      \* what a tick in flight saw, Failed, or Idle
  snapshot,      \* miningStats.miners
  timers,        \* names of miners whose restart is announced as done in five seconds
  pushed,        \* the machines of the scheduler's next push
  machinesUp,    \* the machines that are up
  requestsLeft, turnsLeft, failuresLeft

liveVars == <<mode, running, awaiting, snapshot, timers, pushed, machinesUp,
              requestsLeft, turnsLeft, failuresLeft>>
fleetVars == <<inventoryVars, liveVars>>

MinerStats == [ip : Ips, owner : Owners \cup {NoOwner}, online : BOOLEAN]

\* What the snapshot shows of the miners in a list, when the machines seen are up.
Shown(list, seen) == {[ip |-> e.ip, owner |-> e.owner, online |-> e.ip \in seen] : e \in list}

----------------------------------------------------------------------------
(* The paths that write the snapshot.                                      *)

setMiningStats(stats) == snapshot' = stats

StatusOf(e, seen) == IF e.ip \in seen THEN "online" ELSE "offline"

\* Every miner of the list gets its status: getRealMinerStats, simulateMinerStats.
UpdateStatuses(list, seen) ==
  rows' = {IF \E e \in list : e.ip = r.ip
           THEN [r EXCEPT !.status = StatusOf(r, seen)] ELSE r : r \in rows}

\* simulateMiningStats: readings made up for every miner.
SimulatedStats ==
  /\ getMiners(TRUE)
  /\ \E seen \in SUBSET Ips :
       UpdateStatuses(cache', seen) /\ setMiningStats(Shown(cache', seen))

\* The tick of the interval under SIMULATION_MODE.
SimulationTick ==
  /\ running /\ mode.simulation
  /\ SimulatedStats
  /\ UNCHANGED <<mode, running, awaiting, timers, pushed, machinesUp,
                 requestsLeft, turnsLeft, failuresLeft>>

\* The tick asks Prometheus.  Nothing stops the interval while it waits, but an answer
\* takes less than the interval: there is never a second tick in flight.
FetchStart ==
  /\ running /\ ~mode.simulation /\ mode.source = "prometheus" /\ awaiting = Idle
  /\ awaiting' = machinesUp
  /\ UNCHANGED <<inventoryVars, mode, running, snapshot, timers, pushed, machinesUp,
                 requestsLeft, turnsLeft, failuresLeft>>

\* The query for the statuses fails, alone or with the others.
FetchFails ==
  /\ awaiting \notin {Idle, Failed} /\ failuresLeft > 0
  /\ awaiting' = Failed /\ failuresLeft' = failuresLeft - 1
  /\ UNCHANGED <<inventoryVars, mode, running, snapshot, timers, pushed, machinesUp,
                 requestsLeft, turnsLeft>>

\* What getAllMinerMetrics returns: an error counts as an answer without series.
Seen(answer) == IF answer = Failed THEN {} ELSE answer

\* Back from the await: the list of miners is read, and statuses and snapshot are written,
\* whether or not mining was stopped in between.
FetchEnd(readable) ==
  /\ awaiting # Idle
  /\ IF readable THEN UNCHANGED failuresLeft
     ELSE failuresLeft > 0 /\ failuresLeft' = failuresLeft - 1
  /\ getMiners(readable)
  /\ UpdateStatuses(cache', Seen(awaiting))
  /\ setMiningStats(Shown(cache', Seen(awaiting)))
  /\ awaiting' = Idle
  /\ UNCHANGED <<mode, running, timers, pushed, machinesUp, requestsLeft, turnsLeft>>

\* The scheduler pushes what it collected: the miners of its list, with the owners of the
\* table, and then every configured miner that the push does not have.
Push ==
  LET ownerOf(ip) == IF \E r \in rows : r.ip = ip
                     THEN (CHOOSE r \in rows : r.ip = ip).owner ELSE NoOwner
      shown(ip, online) == [ip |-> ip, owner |-> ownerOf(ip), online |-> online]
  IN /\ mode.source = "push"
     /\ getMiners(TRUE)
     /\ setMiningStats(
          {shown(ip, ip \in machinesUp) : ip \in pushed} \cup
          {shown(e.ip, FALSE) : e \in {c \in cache' : c.ip \notin pushed}})
     /\ UNCHANGED <<rows, mode, running, awaiting, timers, pushed, machinesUp,
                    requestsLeft, turnsLeft, failuresLeft>>

\* The scheduler reloads its list: GET /mining/miners as the system user.
SchedulerReload ==
  /\ mode.source = "push"
  /\ ListForSystem
  /\ pushed' = {r.ip : r \in rows}
  /\ UNCHANGED <<mode, running, awaiting, snapshot, timers, machinesUp,
                 requestsLeft, turnsLeft, failuresLeft>>

----------------------------------------------------------------------------
(* Requests.                                                               *)

Requested == requestsLeft > 0 /\ requestsLeft' = requestsLeft - 1

\* A request about the inventory: listing, adding, editing, deleting, transferring, looking up.
InventoryRequest ==
  /\ Requested /\ Request
  /\ UNCHANGED <<mode, running, awaiting, snapshot, timers, pushed, machinesUp,
                 turnsLeft, failuresLeft>>

\* startMining while it runs only sets the interval anew; a simulation starts with a tick.
StartMining ==
  /\ Requested /\ ~running /\ running' = TRUE
  /\ IF mode.simulation
     THEN SimulatedStats
     ELSE UNCHANGED <<inventoryVars, snapshot>>
  /\ UNCHANGED <<mode, awaiting, timers, pushed, machinesUp, turnsLeft, failuresLeft>>

\* stopMining clears the interval and marks the listed miners offline.
StopMining ==
  /\ Requested /\ running /\ running' = FALSE
  /\ getMiners(TRUE)
  /\ UpdateStatuses(cache', {})
  /\ UNCHANGED <<mode, awaiting, snapshot, timers, pushed, machinesUp, turnsLeft, failuresLeft>>

\* restartMiner marks the miner offline, and online five seconds later.
RestartMiner(name) ==
  /\ Requested
  /\ Cached(name) # {} \/ Found(name) # {}
  /\ updateMinerStatus(name, "offline")
  /\ timers' = timers \cup {name}
  /\ UNCHANGED <<mode, running, awaiting, snapshot, pushed, machinesUp, turnsLeft, failuresLeft>>

\* Defect: the timer is an interval.
RestartDoneAgain(name) ==
  /\ name \in timers
  /\ updateMinerStatus(name, "online")
  /\ UNCHANGED <<mode, running, awaiting, snapshot, timers, pushed, machinesUp,
                 requestsLeft, turnsLeft, failuresLeft>>

RestartDone(name) ==
  /\ name \in timers /\ timers' = timers \ {name}
  /\ updateMinerStatus(name, "online")
  /\ UNCHANGED <<mode, running, awaiting, snapshot, pushed, machinesUp,
                 requestsLeft, turnsLeft, failuresLeft>>

\* The process dies and is started again: server.ts fills an empty table and starts mining.
Restarted ==
  /\ Requested /\ Reload
  /\ running' = TRUE /\ awaiting' = Idle /\ timers' = {}
  /\ snapshot' = {}
  /\ UNCHANGED <<mode, pushed, machinesUp, turnsLeft, failuresLeft>>

\* A machine goes up or down.
MachineTurns(ip) ==
  /\ turnsLeft > 0 /\ turnsLeft' = turnsLeft - 1
  /\ machinesUp' = (machinesUp \cup {ip}) \ (machinesUp \cap {ip})
  /\ UNCHANGED <<inventoryVars, mode, running, awaiting, snapshot, timers, pushed,
                 requestsLeft, failuresLeft>>

\* The scheduler had read its list, and mining has just started.
LiveInit ==
  /\ InventoryInit
  /\ mode \in Modes
  /\ running = TRUE /\ awaiting = Idle
  /\ snapshot = {} /\ timers = {}
  /\ pushed = {r.ip : r \in rows}
  /\ machinesUp \in SUBSET Ips
  /\ requestsLeft = MaxRequests /\ turnsLeft = MaxTurns /\ failuresLeft = MaxFailures

CacheExpires == Expire /\ UNCHANGED liveVars

LiveNext ==
  \/ SimulationTick \/ FetchStart \/ FetchFails
  \/ \E readable \in BOOLEAN : FetchEnd(readable)
  \/ Push \/ SchedulerReload
  \/ InventoryRequest \/ StartMining \/ StopMining \/ Restarted
  \/ \E name \in Names : RestartMiner(name) \/ RestartDone(name)
  \/ \E ip \in Ips : MachineTurns(ip)
  \/ CacheExpires

\* The timers of the process run (interval, time to live, restarts), an answer that is
\* awaited arrives, and the scheduler keeps pushing and reloading its list.
LiveFairness ==
  /\ WF_fleetVars(CacheExpires)
  /\ WF_fleetVars(FetchStart) /\ WF_fleetVars(FetchEnd(TRUE))
  /\ WF_fleetVars(SimulationTick)
  /\ WF_fleetVars(Push) /\ WF_fleetVars(SchedulerReload)
  /\ \A name \in Names : WF_fleetVars(RestartDone(name))

LiveSpec == LiveInit /\ [][LiveNext]_fleetVars /\ LiveFairness

----------------------------------------------------------------------------
LiveTypeOK ==
  /\ InventoryTypeOK
  /\ mode \in Modes /\ running \in BOOLEAN
  /\ awaiting \in (SUBSET Ips) \cup {Idle, Failed}
  /\ snapshot \subseteq MinerStats
  /\ timers \subseteq Names /\ pushed \subseteq Ips /\ machinesUp \subseteq Ips
  /\ requestsLeft \in 0..MaxRequests /\ turnsLeft \in 0..MaxTurns /\ failuresLeft \in 0..MaxFailures

\* The fleet as it is.
Fleet == {[ip |-> r.ip, owner |-> r.owner, online |-> r.ip \in machinesUp] : r \in rows}

\* Once the machines, the users and the failures leave the fleet alone, the snapshot comes
\* to show it: every miner, no other, each with its owner and as it is, whatever partial or
\* patched list the cache held (getMiners, getRealMiningStats, updateMetricsFromScheduler).
\* Readings from Prometheus need the interval to run.
SnapshotHeals ==
  ~mode.simulation /\ (mode.source = "push" \/ <>[]running) => <>[](snapshot = Fleet)

\* Under the same conditions the table comes to have the status of every miner right, the
\* restarts announced by timers included (updateMinerStatus, restartMiner).
StatusesHeal ==
  ~mode.simulation /\ mode.source = "prometheus" /\ <>[]running
    => <>[](\A r \in rows : r.status = StatusOf(r, machinesUp))

\* A tick that waited for its answer brings no miner back that was deleted meanwhile:
\* the list is read after the await, and the cache has no ghosts.
NoGhostMiners ==
  [][mode.source = "prometheus" =>
       \A s \in snapshot' \ snapshot : \E r \in rows' : r.ip = s.ip]_fleetVars
=============================================================================
