----------------------------- MODULE Collector -----------------------------
(***************************************************************************)
(* The metrics collector (python-scheduler): one process that, every few   *)
(* minutes, loads the list of machines from the backend, reads each of     *)
(* them, retries the ones that read badly by a second method, and keeps    *)
(* the series Prometheus scrapes in step with what it knows.               *)
(*                                                                         *)
(*   - the list and where it came from (config.py): the backend's          *)
(*     database, a list fetched earlier, or a seed file of examples;       *)
(*   - the pass (main.py, collect_all_metrics), from the lock to the save; *)
(*   - the series and the labels they were published under (metrics.py);   *)
(*   - the failure streaks and the breakers (state_manager.py), of which   *)
(*     the streaks are saved and read back by a restarted process.         *)
(*                                                                         *)
(* A machine is known by its address and published under a label (its      *)
(* name, model and algorithm).  Its series are of three kinds, which come  *)
(* and go by different rules:                                              *)
(*                                                                         *)
(*   - values: the readings of the machine (hashrate, power, pool shares), *)
(*     gauges removed by the labels of _miner_label_cache;                 *)
(*   - parts: the readings of its parts (boards, fans, supply, pools, chip *)
(*     and rated figures), each family with a cache of its own, replaced   *)
(*     whole by the next reading that succeeds;                            *)
(*   - status: what the list says of it whether it answers or not          *)
(*     (miner_scrape_status, miner_role).                                  *)
(*                                                                         *)
(* A frozen uptime is one of the ways a machine reads "poor".              *)
(***************************************************************************)
EXTENDS Integers, FiniteSets

CONSTANTS
  Ips, Labels,
  Absent,            \* the label of an address that is not in a list
  NoAnswer,          \* the backend has not answered this process
  NoFile,            \* no state was ever saved
  YamlFile,          \* what MINERS_CONFIG lists
  Fleets,            \* what the backend may list
  WithFallback,      \* machines whose profile names a second method
  FAILURE_THRESHOLD, FALLBACK_FAILURE_THRESHOLD,
  MaxEvents          \* bound: edits, outages, crashes, exceptions, failed saves

Lists == [Ips -> Labels \cup {Absent}]
Listed(l) == {ip \in Ips : l[ip] # Absent}
Empty == [ip \in Ips |-> Absent]

ASSUME ListsAssumption ==
  /\ Absent \notin Labels
  /\ YamlFile \in Lists /\ Fleets \subseteq Lists
  /\ NoAnswer \notin Lists
  /\ WithFallback \subseteq Ips
ASSUME ThresholdsAssumption ==
  /\ FAILURE_THRESHOLD \in Nat \ {0}
  /\ FALLBACK_FAILURE_THRESHOLD \in Nat \ {0}
  /\ MaxEvents \in Nat
ASSUME NoFileAssumption == NoFile \notin [Ips \X Labels -> 0..FAILURE_THRESHOLD]

VARIABLES
  databaseConfigured, \* USE_DATABASE_CONFIG and SYSTEM_API_KEY
  fleet, reachable,   \* the backend: its list, and whether it answers
  disk,               \* service_state.json: the streaks
  phase,              \* where the process is
  list, source, fresh,\* miners_config_cache, miners_config_source, last_config_load
  answer,             \* history: what the backend last answered this process
  polled, outcome,    \* the pass: the list it works on, what each machine gave
  labels,             \* _miner_label_cache
  partLabels,         \* _miner_board_label_cache, ..fan.., ..psu.., ..pool..
  values, parts, status, \* the series published
  streaks, fails,     \* failure_streaks, fallback_failures
  dark,               \* history: passes in a row that met a refusal, of a machine under one label
  eventsLeft

configVars == <<list, source, fresh, answer>>
seriesVars == <<labels, partLabels, values, parts, status, dark>>
passVars == <<polled, outcome>>
stateVars == <<streaks, fails>>
vars == <<databaseConfigured, fleet, reachable, disk, phase, configVars, passVars,
          seriesVars, stateVars, eventsLeft>>

Sources == {"database_api", "yaml", "stale_cache", "yaml_fallback", "none"}
DEGRADED_CONFIG_SOURCES == {"stale_cache", "yaml_fallback"}
TRUSTED_CONFIG_SOURCES == {"database_api", "yaml"}

\* What a machine gives: data, data that asks for a second opinion, or an error; the second
\* method turns what it answers into "fallback".
Answers == {"healthy", "poor"}
Failures == {"timeout", "error"}
Outcomes == Answers \cup Failures \cup {"fallback", "none"}

AtMost(n, limit) == IF n > limit THEN limit ELSE n

\* The series of some machines, found by the labels they were published under: those of the
\* machine by one cache, those of its parts by others.
SeriesOf(ips) == {<<ip, labels[ip]>> : ip \in ips}
PartsOf(ips) == {<<ip, partLabels[ip]>> : ip \in ips}

----------------------------------------------------------------------------
(* The list of machines (config.py).                                       *)

\* Defect: a list that is held is never loaded again.
CachedForever == Listed(list) # {}

Cached == Listed(list) # {} /\ fresh

\* The backend is asked and answers.
FetchMiners ==
  /\ databaseConfigured /\ reachable
  /\ list' = fleet /\ answer' = fleet
  /\ source' = "database_api" /\ fresh' = TRUE

\* The backend does not answer, but a list is held: it is kept, and not counted as fresh.
ServeStale ==
  /\ databaseConfigured /\ ~reachable /\ Listed(list) # {}
  /\ source' = "stale_cache"
  /\ UNCHANGED <<list, fresh, answer>>

\* Defect: the seed file replaces a list that is held.
LoadYamlAnyway ==
  /\ ~databaseConfigured \/ ~reachable
  /\ list' = YamlFile /\ UNCHANGED <<fresh, answer>>
  /\ source' = IF databaseConfigured THEN "yaml_fallback" ELSE "yaml"

\* Defect: a list from the seed file counts as fresh.
LoadYamlAsFresh ==
  /\ ~databaseConfigured \/ (~reachable /\ Listed(list) = {})
  /\ list' = YamlFile /\ fresh' = TRUE /\ UNCHANGED answer
  /\ source' = IF Listed(YamlFile) = {} THEN "none"
               ELSE IF databaseConfigured THEN "yaml_fallback" ELSE "yaml"

\* The seed file, which is what was asked for only when no database is configured.
LoadYaml ==
  /\ ~databaseConfigured \/ (~reachable /\ Listed(list) = {})
  /\ list' = YamlFile /\ UNCHANGED answer
  /\ source' = IF Listed(YamlFile) = {} THEN "none"
               ELSE IF databaseConfigured THEN "yaml_fallback" ELSE "yaml"
  /\ fresh' = (fresh \/ source' = "yaml")

load_miners_config ==
  \/ Cached /\ UNCHANGED configVars
  \/ ~Cached /\ (FetchMiners \/ ServeStale \/ LoadYaml)

\* Five minutes pass since the load, or /reload calls invalidate_config_cache.
Expire ==
  /\ fresh /\ fresh' = FALSE
  /\ UNCHANGED <<databaseConfigured, fleet, reachable, disk, phase, list, source, answer,
                 passVars, seriesVars, stateVars, eventsLeft>>

----------------------------------------------------------------------------
(* Starting and stopping the process (state_manager.py, lifespan).          *)

\* Saved streaks are read back, those of machines the list does not have under that label
\* are purged, and the list is loaded for it; without a file nothing happens.
LoadState ==
  IF disk = NoFile THEN UNCHANGED <<configVars, streaks>>
  ELSE /\ load_miners_config
       /\ streaks' = [k \in Ips \X Labels |-> IF list'[k[1]] = k[2] THEN disk[k] ELSE 0]

\* The constructor of ServiceState, when main.py is imported.
Construct ==
  /\ phase = "down" /\ phase' = "starting"
  /\ LoadState
  /\ UNCHANGED <<databaseConfigured, fleet, reachable, disk, passVars, seriesVars, fails, eventsLeft>>

\* lifespan loads the state again, and starts the job and a first pass.
Lifespan ==
  /\ phase = "starting" /\ phase' = "idle"
  /\ LoadState
  /\ UNCHANGED <<databaseConfigured, fleet, reachable, disk, passVars, seriesVars, fails, eventsLeft>>

Event == eventsLeft > 0 /\ eventsLeft' = eventsLeft - 1

\* The process dies, wherever it is; only the file stays.
Crash ==
  /\ Event /\ phase # "down" /\ phase' = "down"
  /\ list' = Empty /\ source' = "none" /\ fresh' = FALSE /\ answer' = NoAnswer
  /\ polled' = Empty /\ outcome' = [ip \in Ips |-> "none"]
  /\ labels' = Empty /\ values' = {} /\ status' = {} /\ dark' = [ip \in Ips |-> 0]
  /\ partLabels' = Empty /\ parts' = {}
  /\ streaks' = [k \in Ips \X Labels |-> 0] /\ fails' = [ip \in Ips |-> 0]
  /\ UNCHANGED <<databaseConfigured, fleet, reachable, disk>>

----------------------------------------------------------------------------
(* A pass (collect_all_metrics).  The lock admits one at a time: the job, a *)
(* request and the first pass of the process all skip while it is held.     *)

\* Defect: only the list of the process is cleaned, the series stay.
ForgetStateOnly(gone) ==
  /\ streaks' = [k \in Ips \X Labels |-> IF k[1] \in gone THEN 0 ELSE streaks[k]]
  /\ fails' = [ip \in Ips |-> IF ip \in gone THEN 0 ELSE fails[ip]]
  /\ UNCHANGED seriesVars

\* Everything published and counted for some machines goes (forget_miner, twice).
Forget(gone) ==
  /\ labels' = [ip \in Ips |-> IF ip \in gone THEN Absent ELSE labels[ip]]
  /\ partLabels' = [ip \in Ips |-> IF ip \in gone THEN Absent ELSE partLabels[ip]]
  /\ values' = values \ SeriesOf(gone) /\ status' = status \ SeriesOf(gone)
  /\ parts' = parts \ PartsOf(gone)
  /\ dark' = [ip \in Ips |-> IF ip \in gone THEN 0 ELSE dark[ip]]
  /\ streaks' = [k \in Ips \X Labels |-> IF k[1] \in gone THEN 0 ELSE streaks[k]]
  /\ fails' = [ip \in Ips |-> IF ip \in gone THEN 0 ELSE fails[ip]]

\* The list is loaded, and the machines that left it are forgotten, if it can be trusted.
StartPass ==
  /\ phase = "idle" /\ phase' = "reading"
  /\ load_miners_config
  /\ polled' = list'
  /\ IF source' \in TRUSTED_CONFIG_SOURCES
     THEN Forget((Listed(labels) \cup Listed(partLabels)) \ Listed(list'))
     ELSE UNCHANGED <<seriesVars, stateVars>>
  /\ UNCHANGED <<databaseConfigured, fleet, reachable, disk, outcome, eventsLeft>>

\* The parts of the machines that answered are published under the labels of the list, and
\* what their caches had under others goes (set_miner_boards, set_miner_fans...).
PublishParts(answered) ==
  /\ parts' = (parts \ PartsOf(answered)) \cup {<<ip, polled[ip]>> : ip \in answered}
  /\ partLabels' = [ip \in Ips |-> IF ip \in answered THEN polled[ip] ELSE partLabels[ip]]

\* Defect: a machine that did not answer keeps the labels it had in the cache.
RelabelAnswered(answered) ==
  /\ labels' = [ip \in Ips |-> IF ip \in answered THEN polled[ip] ELSE labels[ip]]
  /\ values' = (values \ SeriesOf(answered)) \cup {<<ip, polled[ip]>> : ip \in answered}
  /\ status' = (status \ SeriesOf(answered)) \cup {<<ip, polled[ip]>> : ip \in Listed(polled)}
  /\ PublishParts(answered)

\* The machines the list has under another label than the one they are published under.
Relabelled == {ip \in Listed(polled) : labels[ip] # polled[ip]}

\* What the reading publishes: the gauges under an old label go (update_miner_label_cache
\* comes first, and knows no series of parts), whoever answers gets its readings, and every
\* machine its scrape status.
Publish(answered) ==
  /\ labels' = [ip \in Ips |-> IF ip \in Listed(polled) THEN polled[ip] ELSE labels[ip]]
  /\ values' = (values \ SeriesOf(Relabelled)) \cup {<<ip, polled[ip]>> : ip \in answered}
  /\ status' = (status \ SeriesOf(Relabelled)) \cup {<<ip, polled[ip]>> : ip \in Listed(polled)}
  /\ PublishParts(answered)

\* All machines are read at once; one that raises counts as an error.
Read ==
  /\ phase = "reading" /\ phase' = "retrying"
  /\ \E result \in [Listed(polled) -> Answers \cup Failures] :
       /\ outcome' = [ip \in Ips |-> IF ip \in Listed(polled) THEN result[ip] ELSE "none"]
       /\ LET answered == {ip \in Listed(polled) : result[ip] \in Answers}
          IN /\ Publish(answered)
             /\ dark' = [ip \in Ips |-> IF ip \in answered \cup Relabelled THEN 0 ELSE dark[ip]]
  /\ UNCHANGED <<databaseConfigured, fleet, reachable, disk, configVars, polled, stateVars, eventsLeft>>

\* The machines to try by their second method: those that read badly and whose breaker is closed.
Due == {ip \in Listed(polled) \cap WithFallback :
          outcome[ip] # "healthy" /\ fails[ip] < FALLBACK_FAILURE_THRESHOLD}

\* Second methods answer or not; a healthy first reading closes the breaker of its machine.
Retry ==
  /\ phase = "retrying" /\ phase' = "closing"
  /\ \E answered \in SUBSET Due :
       /\ outcome' = [ip \in Ips |-> IF ip \in answered THEN "fallback" ELSE outcome[ip]]
       /\ values' = values \cup {<<ip, polled[ip]>> : ip \in answered}
       /\ PublishParts(answered)
       /\ dark' = [ip \in Ips |-> IF ip \in answered THEN 0 ELSE dark[ip]]
       /\ fails' = [ip \in Ips |->
                      IF outcome[ip] = "healthy" \/ ip \in answered THEN 0
                      ELSE IF ip \in Due THEN fails[ip] + 1 ELSE fails[ip]]
  /\ UNCHANGED <<databaseConfigured, fleet, reachable, disk, configVars, polled,
                 labels, status, streaks, eventsLeft>>

\* service_state.save(): the file is replaced whole, or a failure is logged.
Save ==
  \/ disk' = streaks' /\ UNCHANGED eventsLeft
  \/ disk' = disk /\ Event

\* Streaks after a pass: scrape_status >= 0, which a timeout also has, ends a streak.
Streak(k) ==
  IF outcome[k[1]] = "error" THEN AtMost(streaks[k] + 1, FAILURE_THRESHOLD) ELSE 0

\* Defect: a machine at the threshold loses its gauges only.
CullGauges(culled) ==
  /\ values' = values \ SeriesOf(culled)
  /\ UNCHANGED <<parts, partLabels>>

\* The readings of a machine at the threshold go, those of its parts with them.
Cull(culled) ==
  /\ values' = values \ SeriesOf(culled)
  /\ parts' = parts \ PartsOf(culled)
  /\ partLabels' = [ip \in Ips |-> IF ip \in culled THEN Absent ELSE partLabels[ip]]

\* The readings go to the backend (whatever comes of it), the streaks are brought up to
\* date, machines at the threshold lose their readings, and the state is saved.
Finish ==
  /\ phase = "closing" /\ phase' = "idle"
  /\ streaks' = [k \in Ips \X Labels |-> IF k[1] \in Listed(polled) /\ polled[k[1]] = k[2]
                                         THEN Streak(k) ELSE streaks[k]]
  /\ Cull({ip \in Listed(polled) : outcome[ip] = "error"
                                   /\ streaks'[<<ip, polled[ip]>>] >= FAILURE_THRESHOLD})
  /\ dark' = [ip \in Ips |-> IF ip \notin Listed(polled) THEN dark[ip]
                             ELSE IF outcome[ip] = "error"
                                  THEN AtMost(dark[ip] + 1, FAILURE_THRESHOLD) ELSE 0]
  /\ Save
  /\ UNCHANGED <<databaseConfigured, fleet, reachable, configVars, passVars, labels, status, fails>>

\* Something raises: the pass ends where it is, and the state is saved as it is, if it can be.
Abort ==
  /\ phase \in {"reading", "retrying"} /\ phase' = "idle"
  /\ Event /\ disk' \in {streaks, disk}
  /\ UNCHANGED <<databaseConfigured, fleet, reachable, configVars, passVars, seriesVars, stateVars>>

----------------------------------------------------------------------------
(* The backend.                                                            *)

\* Miners are added, renamed, removed.
Edit ==
  /\ Event /\ fleet' \in Fleets \ {fleet}
  /\ UNCHANGED <<databaseConfigured, reachable, disk, phase, configVars, passVars, seriesVars, stateVars>>

BackendTurns ==
  /\ Event /\ reachable' = ~reachable
  /\ UNCHANGED <<databaseConfigured, fleet, disk, phase, configVars, passVars, seriesVars, stateVars>>

Init ==
  /\ databaseConfigured \in BOOLEAN
  /\ fleet \in Fleets /\ reachable \in BOOLEAN
  /\ disk = NoFile /\ phase = "down"
  /\ list = Empty /\ source = "none" /\ fresh = FALSE /\ answer = NoAnswer
  /\ polled = Empty /\ outcome = [ip \in Ips |-> "none"]
  /\ labels = Empty /\ values = {} /\ status = {} /\ dark = [ip \in Ips |-> 0]
  /\ partLabels = Empty /\ parts = {}
  /\ streaks = [k \in Ips \X Labels |-> 0] /\ fails = [ip \in Ips |-> 0]
  /\ eventsLeft = MaxEvents

Next ==
  \/ Construct \/ Lifespan \/ Crash
  \/ StartPass \/ Read \/ Retry \/ Finish \/ Abort
  \/ Expire \/ Edit \/ BackendTurns

\* The container is restarted, the job fires every interval, every read has a timeout, and
\* time passes.
Fairness ==
  /\ WF_vars(Construct) /\ WF_vars(Lifespan)
  /\ WF_vars(StartPass) /\ WF_vars(Read) /\ WF_vars(Retry) /\ WF_vars(Finish)
  /\ WF_vars(Expire)

Spec == Init /\ [][Next]_vars /\ Fairness

----------------------------------------------------------------------------
CollectorTypeOK ==
  /\ databaseConfigured \in BOOLEAN /\ reachable \in BOOLEAN /\ fresh \in BOOLEAN
  /\ fleet \in Lists /\ list \in Lists /\ polled \in Lists
  /\ labels \in Lists /\ partLabels \in Lists
  /\ answer \in Lists \cup {NoAnswer}
  /\ source \in Sources
  /\ phase \in {"down", "starting", "idle", "reading", "retrying", "closing"}
  /\ outcome \in [Ips -> Outcomes]
  /\ values \subseteq Ips \X Labels /\ parts \subseteq Ips \X Labels
  /\ status \subseteq Ips \X Labels
  /\ streaks \in [Ips \X Labels -> 0..FAILURE_THRESHOLD]
  /\ disk \in [Ips \X Labels -> 0..FAILURE_THRESHOLD] \cup {NoFile}
  /\ fails \in [Ips -> 0..FALLBACK_FAILURE_THRESHOLD]
  /\ dark \in [Ips -> 0..FAILURE_THRESHOLD]
  /\ eventsLeft \in 0..MaxEvents

\* A machine's gauges stand under the labels the cache has for it, so every removal finds what
\* it has to remove, and no machine has readings under two names at once, through renamings,
\* failures, fallbacks and aborted passes (metrics.py).
ReadingsUnderOneName ==
  /\ \A s \in values \cup status : labels[s[1]] = s[2]
  /\ \A s, t \in values \cup parts : s[1] = t[1] => s[2] = t[2]

\* While the list is one that was asked for and got, nothing is published of a machine it
\* does not have: not of one that was removed, nor of an example polled during an outage.
NoGhostSeries == source \in TRUSTED_CONFIG_SOURCES =>
                   \A s \in values \cup parts \cup status : list[s[1]] # Absent

\* A machine that refused FAILURE_THRESHOLD passes in a row under the label it has shows no
\* reading any more, of its own or of its parts, under this name or an older one.
DarkMachinesLoseReadings == \A s \in values \cup parts : dark[s[1]] < FAILURE_THRESHOLD

\* A list the backend gave this process is never replaced by the examples, by an outage, a
\* reload or a restart of the backend (DMI-58).
FleetSurvivesOutage ==
  answer # NoAnswer /\ (\E ip \in Ips : answer[ip] # Absent) =>
    list = answer /\ source \in {"database_api", "stale_cache"}

\* "while degraded the intended source is retried on every call": a list that is not the one
\* asked for is never served as fresh, unless the backend had answered that there is none.
DegradedIsRetried ==
  source \in DEGRADED_CONFIG_SOURCES /\ fresh =>
    answer # NoAnswer /\ \A ip \in Ips : answer[ip] = Absent

\* With the backend back and left alone, the collector comes to poll what it lists, says so,
\* and publishes nothing else.
InventoryIsFollowed ==
  databaseConfigured /\ <>[]reachable =>
    <>[](/\ list = fleet /\ source = "database_api"
         /\ \A s \in values \cup parts \cup status : fleet[s[1]] # Absent)
=============================================================================
