--------------------------- MODULE AlertPipeline ---------------------------
(***************************************************************************)
(* How an alert travels from Alertmanager through the backend to a phone:  *)
(* backend/src/services/alert.service.ts (the record) and                  *)
(* backend/src/services/notifier.service.ts (the delivery).                *)
(*                                                                         *)
(* One process, a Node.js event loop: what runs between two awaits is one  *)
(* atomic step, and the steps of concurrent webhook requests interleave at *)
(* the awaits.  The write queue of the service (dbQueue) is a chain of     *)
(* microtasks, which the event loop empties before it turns to any other   *)
(* request, so a row is written in the step that records the alert - or    *)
(* fails to be.  The SQLite rows survive a crash; everything else does not.*)
(*                                                                         *)
(* Alertmanager and the clients of the manual-alert operations are outside *)
(* src/backend and are modelled from the way the service is driven and     *)
(* from docker/alertmanager/alertmanager.yml: at-least-once delivery, two  *)
(* receivers that post to the same URL (every critical alert is sent       *)
(* through both), retries after a lost or timed-out request, and repeats.  *)
(***************************************************************************)
EXTENDS Integers, Sequences, FiniteSets

LOCAL INSTANCE Functions

CONSTANTS
  Alerts,            \* alert instances of Alertmanager: one label set, one startsAt
  Critical,          \* those with severity critical, routed to both receivers
  Manual,            \* alerts created through createManualAlert
  Resolvable,        \* bound: the alerts of Alertmanager that somebody resolves by hand
  Slots,             \* webhook requests that can be in the process at once
  NoAlert,           \* no alert at all
  HistoryCap,        \* MAX_HISTORY_SIZE
  FaultKinds,        \* which of "crash", "timeout", "write", "repeat" and "day" may happen
  MaxFaults          \* bound: how many of them in a behaviour

ASSUME AlertAssumption ==
  /\ IsFiniteSet(Slots)
  /\ Critical \subseteq Alerts /\ Resolvable \subseteq Alerts
  /\ Alerts \cap Manual = {} /\ NoAlert \notin Alerts \cup Manual
  /\ HistoryCap \in Nat \ {0}
  /\ FaultKinds \subseteq {"crash", "timeout", "write", "repeat", "day"}
  /\ MaxFaults \in Nat

VARIABLES
  condition,   \* what Alertmanager knows of each instance
  acked,       \* per receiver: the status last delivered with a 200 answer (nflog)
  fired,       \* ids by fired_at, newest first
  agedCount,   \* how many of the oldest of them fired more than 24 h ago
  up,          \* is the backend process running
  dbOpen,      \* did this process open alerts.db
  active,      \* activeAlerts (its keys)
  history,     \* alertHistory: status by id ...
  order,       \* ... and its order, newest first
  rows,        \* table alerts: status by id
  request,     \* webhook requests in flight
  unsaved,     \* history variable: ids whose last write failed
  tally,       \* history variable: firing notifications, episodes closed, episodes forgotten
  lost,        \* history variable: alerts recorded as firing whose notification a crash cut off
  faultsLeft   \* what is left of MaxFaults

recordVars == <<active, history, order, rows, unsaved>>
vars == <<condition, acked, fired, agedCount, up, dbOpen, recordVars, request, tally, lost, faultsLeft>>

Ids       == Alerts \cup Manual
Receivers == {"webhook-receiver", "critical-receiver"}
Statuses  == {"firing", "resolved"}

\* The alerts a receiver of alertmanager.yml is sent.
RoutedTo(r) == IF r = "critical-receiver" THEN Critical ELSE Alerts

Idle   == [pc |-> "idle", rcv |-> "webhook-receiver", waiting |-> FALSE,
           batch |-> [a \in {} |-> "firing"], todo |-> {}, cur |-> NoAlert]

\* The first n elements of s, or all of s when it is shorter.
Prefix(s, n) == SubSeq(s, 1, IF Len(s) < n THEN Len(s) ELSE n)

Fault(kind) == kind \in FaultKinds /\ faultsLeft > 0 /\ faultsLeft' = faultsLeft - 1

Init ==
  /\ condition = [a \in Alerts |-> "silent"]
  /\ acked     = [r \in Receivers |-> [a \in Alerts |-> "none"]]
  /\ fired     = <<>> /\ agedCount = 0
  /\ up        = TRUE /\ dbOpen = TRUE
  /\ active    = {} /\ order = <<>>
  /\ history   = [i \in Ids |-> "absent"]
  /\ rows      = [i \in Ids |-> "absent"]
  /\ request   = [h \in Slots |-> Idle]
  /\ unsaved   = {} /\ lost = {}
  /\ tally     = [a \in Alerts |-> [sent |-> 0, closed |-> 0, forgot |-> 0]]
  /\ faultsLeft = MaxFaults

----------------------------------------------------------------------------
(* The record: addToHistory and enqueueAlertPersistence.                   *)

\* Defect: INSERT OR IGNORE, the first row of an id stays.
PersistFirst(id, status) ==
  /\ dbOpen
  /\ rows' = IF rows[id] = "absent" THEN [rows EXCEPT ![id] = status] ELSE rows
  /\ unsaved' = unsaved \ {id} /\ UNCHANGED faultsLeft

\* A row is replaced, or the write fails - always, without a database - and is only
\* counted.
Persist(id, status) ==
  \/ /\ dbOpen
     /\ rows' = [rows EXCEPT ![id] = status]
     /\ unsaved' = unsaved \ {id}
     /\ UNCHANGED faultsLeft
  \/ /\ IF dbOpen THEN Fault("write") ELSE UNCHANGED faultsLeft
     /\ unsaved' = unsaved \cup {id}
     /\ UNCHANGED rows

\* Defect: an entry that exists is left as it is.
AddToHistoryOnce(id, status) ==
  /\ IF history[id] # "absent"
     THEN UNCHANGED <<history, order>>
     ELSE LET kept == Prefix(<<id>> \o order, HistoryCap)
          IN /\ order' = kept
             /\ history' = [i \in Ids |-> IF i \notin Range(kept) THEN "absent"
                                          ELSE IF i = id THEN status ELSE history[i]]
  /\ Persist(id, status)

\* An entry is replaced in place; a new one goes to the front and may push the
\* oldest one out, active or not.
AddToHistory(id, status) ==
  /\ IF history[id] # "absent"
     THEN /\ history' = [history EXCEPT ![id] = status]
          /\ UNCHANGED order
     ELSE LET kept == Prefix(<<id>> \o order, HistoryCap)
          IN /\ order' = kept
             /\ history' = [i \in Ids |-> IF i \notin Range(kept) THEN "absent"
                                          ELSE IF i = id THEN status ELSE history[i]]
  /\ Persist(id, status)

----------------------------------------------------------------------------
(* Alertmanager.                                                           *)

\* An alert starts firing; its id is fixed by its labels and startsAt.
Fire(a) ==
  /\ condition[a] = "silent"
  /\ condition' = [condition EXCEPT ![a] = "firing"]
  /\ fired' = <<a>> \o fired
  /\ UNCHANGED <<acked, agedCount, up, dbOpen, recordVars, request, tally, lost, faultsLeft>>

Clear(a) ==
  /\ condition[a] = "firing"
  /\ condition' = [condition EXCEPT ![a] = "resolved"]
  /\ UNCHANGED <<acked, fired, agedCount, up, dbOpen, recordVars, request, tally, lost, faultsLeft>>

\* A day passes for the oldest alert that is not yet a day old.
Age ==
  /\ agedCount < Len(fired) /\ Fault("day")
  /\ agedCount' = agedCount + 1
  /\ UNCHANGED <<condition, acked, fired, up, dbOpen, recordVars, request, tally, lost>>

\* A receiver flushes its group: every alert with its status as of now, except the
\* resolved ones already delivered.  It flushes on news, and repeats a standing batch.
Deliver(h, r) ==
  LET group == {a \in RoutedTo(r) : /\ condition[a] # "silent"
                                    /\ ~(condition[a] = "resolved" /\ acked[r][a] = "resolved")}
      news  == \E a \in group : condition[a] # acked[r][a]
  IN /\ up
     /\ request[h].pc = "idle" /\ group # {}
     /\ ~ \E k \in Slots : request[k].rcv = r /\ request[k].waiting
     /\ request' = [request EXCEPT ![h] =
          [pc |-> "recipients", rcv |-> r, waiting |-> TRUE,
           batch |-> [a \in group |-> condition[a]], todo |-> group, cur |-> NoAlert]]
     /\ \/ news /\ UNCHANGED faultsLeft
        \/ /\ ~news /\ Fault("repeat")
     /\ UNCHANGED <<condition, acked, fired, agedCount, up, dbOpen, recordVars, tally, lost>>

\* Alertmanager gives up on a slow request and is free to retry; the handler runs on.
Timeout(h) ==
  /\ request[h].waiting /\ Fault("timeout")
  /\ request' = [request EXCEPT ![h].waiting = FALSE]
  /\ UNCHANGED <<condition, acked, fired, agedCount, up, dbOpen, recordVars, tally, lost>>

----------------------------------------------------------------------------
(* processAlertWebhook: the loop over payload.alerts.                      *)

\* The loop goes on with the alerts still to do; after the last one the route
\* answers 200, which a client that still waits takes as delivery.
NextAlert(h, left) ==
  IF left # {}
  THEN /\ request' = [request EXCEPT ![h].pc = "recipients", ![h].todo = left, ![h].cur = NoAlert]
       /\ UNCHANGED acked
  ELSE /\ request' = [request EXCEPT ![h] = Idle]
       /\ acked' = IF ~ request[h].waiting THEN acked
                   ELSE [acked EXCEPT ![request[h].rcv] =
                          [a \in Alerts |-> IF a \in DOMAIN request[h].batch
                                            THEN request[h].batch[a] ELSE @[a]]]

\* Defect: no duplicate guard.
RecordFiringAlwaysNews(h, a) ==
  /\ up /\ request[h].pc = "recipients" /\ a \in request[h].todo
  /\ request[h].batch[a] = "firing"
  /\ AddToHistory(a, "firing")
  /\ active' = active \cup {a}
  /\ request' = [request EXCEPT ![h].pc = "notify", ![h].cur = a]
  /\ UNCHANGED <<condition, acked, fired, agedCount, up, dbOpen, tally, lost>>

\* Defect: the guard looks at activeAlerts after the alert was put there.
RecordFiringNeverNews(h, a) ==
  /\ up /\ request[h].pc = "recipients" /\ a \in request[h].todo
  /\ request[h].batch[a] = "firing"
  /\ AddToHistory(a, "firing")
  /\ active' = active \cup {a}
  /\ NextAlert(h, request[h].todo \ {a})
  /\ UNCHANGED <<condition, fired, agedCount, up, dbOpen, tally, lost>>

\* After the await of determineAlertRecipients: record, then decide whether to notify.
\* A firing alert already active is a duplicate delivery and is not notified again.
RecordFiring(h, a) ==
  /\ up /\ request[h].pc = "recipients" /\ a \in request[h].todo
  /\ request[h].batch[a] = "firing"
  /\ AddToHistory(a, "firing")
  /\ active' = active \cup {a}
  /\ IF a \notin active
     THEN /\ request' = [request EXCEPT ![h].pc = "notify", ![h].cur = a]
          /\ UNCHANGED acked
     ELSE NextAlert(h, request[h].todo \ {a})
  /\ UNCHANGED <<condition, fired, agedCount, up, dbOpen, tally, lost>>

\* Defect: a resolution is recorded and notified, the alert stays on the active list.
RecordResolvedKeepsActive(h, a) ==
  /\ up /\ request[h].pc = "recipients" /\ a \in request[h].todo
  /\ request[h].batch[a] = "resolved"
  /\ AddToHistory(a, "resolved")
  /\ request' = [request EXCEPT ![h].pc = "notify", ![h].cur = a]
  /\ UNCHANGED <<condition, acked, active, fired, agedCount, up, dbOpen, tally, lost>>

\* A resolution always closes the alert and is always notified.
RecordResolved(h, a) ==
  /\ up /\ request[h].pc = "recipients" /\ a \in request[h].todo
  /\ request[h].batch[a] = "resolved"
  /\ AddToHistory(a, "resolved")
  /\ active' = active \ {a}
  /\ request' = [request EXCEPT ![h].pc = "notify", ![h].cur = a]
  /\ tally' = IF a \in active THEN [tally EXCEPT ![a].closed = @ + 1] ELSE tally
  /\ UNCHANGED <<condition, acked, fired, agedCount, up, dbOpen, lost>>

\* notifyAlert returns: delivered, not delivered, suppressed or unverified, it never
\* throws and its outcome is only counted and logged, so the loop goes on.
Notify(h) ==
  LET a == request[h].cur
  IN /\ up /\ request[h].pc = "notify"
     /\ tally' = IF request[h].batch[a] = "firing"
                 THEN [tally EXCEPT ![a].sent = @ + 1] ELSE tally
     /\ NextAlert(h, request[h].todo \ {a})
     /\ UNCHANGED <<condition, fired, agedCount, up, dbOpen, recordVars, lost, faultsLeft>>

----------------------------------------------------------------------------
(* Manual alerts.                                                          *)

CreateManualAlert(m) ==
  /\ up /\ m \notin Range(fired)
  /\ fired' = <<m>> \o fired
  /\ active' = active \cup {m}
  /\ AddToHistory(m, "firing")
  /\ UNCHANGED <<condition, acked, agedCount, up, dbOpen, request, tally, lost>>

\* Only an active alert can be resolved, otherwise the call returns false; but any active alert,
\* one of Alertmanager's as well, whatever Alertmanager knows of it.
ResolveManualAlert(i) ==
  /\ up /\ i \in active
  /\ active' = active \ {i}
  /\ AddToHistory(i, "resolved")
  /\ tally' = IF i \in Alerts THEN [tally EXCEPT ![i].closed = @ + 1] ELSE tally
  /\ UNCHANGED <<condition, acked, fired, agedCount, up, dbOpen, request, lost>>

----------------------------------------------------------------------------
(* Crash and restart.  What the process held in memory is gone with it; its *)
(* last value stays readable only for the history variable tally.          *)

Crash ==
  /\ up /\ Fault("crash")
  /\ up' = FALSE
  /\ lost' = lost \cup {request[h].cur : h \in {k \in Slots :
                 /\ request[k].pc = "notify"
                 /\ request[k].batch[request[k].cur] = "firing"}}
  /\ request' = [h \in Slots |-> Idle]
  /\ UNCHANGED <<condition, acked, fired, agedCount, dbOpen, recordVars, tally>>

\* loadAlertsFromDb: the newest HistoryCap rows of the last 24 h.  A firing row is
\* active again if its id carries the current scheme's prefix, which a manual id
\* never does; every loaded row enters the history.
LoadedOrder == Prefix(SelectSeq(SubSeq(fired, 1, Len(fired) - agedCount),
                                LAMBDA i : rows[i] # "absent"), HistoryCap)

InitAlertDatabase ==
  /\ ~up
  /\ up' = TRUE
  /\ \/ dbOpen' = TRUE /\ order' = LoadedOrder /\ UNCHANGED faultsLeft
     \/ /\ Fault("write")
        /\ dbOpen' = FALSE /\ order' = <<>>
  /\ history' = [i \in Ids |-> IF i \in Range(order') THEN rows[i] ELSE "absent"]
  /\ active' = {a \in Alerts : history'[a] = "firing"}
  /\ tally' = [a \in Alerts |-> IF a \in active \ active'
                                THEN [tally[a] EXCEPT !.forgot = @ + 1] ELSE tally[a]]
  /\ unsaved' = {}
  /\ UNCHANGED <<condition, acked, fired, agedCount, rows, request, lost>>

----------------------------------------------------------------------------
\* Bound: an alert of Alertmanager is resolved by hand in its first episode only.
FirstEpisode(i) == i \in Alerts => tally[i].closed = 0

Backend ==
  \/ \E h \in Slots :
       \/ \E a \in Alerts : RecordFiring(h, a) \/ RecordResolved(h, a)
       \/ Notify(h)
  \/ InitAlertDatabase

Environment ==
  \/ \E a \in Alerts : Fire(a) \/ Clear(a)
  \/ Age
  \/ \E h \in Slots : Timeout(h) \/ (\E r \in Receivers : Deliver(h, r))
  \/ \E m \in Manual : CreateManualAlert(m)
  \/ \E i \in Manual \cup Resolvable : FirstEpisode(i) /\ ResolveManualAlert(i)
  \/ Crash

Next == Backend \/ Environment

Spec == Init /\ [][Next]_vars

----------------------------------------------------------------------------
Batches == UNION {[S -> Statuses] : S \in SUBSET Alerts}

HandlerType ==
  [pc : {"idle", "recipients", "notify"}, rcv : Receivers, waiting : BOOLEAN,
   batch : Batches,
   todo : SUBSET Alerts, cur : Alerts \cup {NoAlert}]

TypeOK ==
  /\ condition \in [Alerts -> {"silent"} \cup Statuses]
  /\ acked \in [Receivers -> [Alerts -> {"none"} \cup Statuses]]
  /\ fired \in Seq(Ids) /\ agedCount \in 0..Len(fired)
  /\ up \in BOOLEAN /\ dbOpen \in BOOLEAN
  /\ active \subseteq Ids /\ order \in Seq(Ids)
  /\ history \in [Ids -> {"absent"} \cup Statuses]
  /\ rows \in [Ids -> {"absent"} \cup Statuses]
  /\ request \in [Slots -> HandlerType]
  /\ \A h \in Slots : request[h].pc # "idle" => request[h].todo # {}
  /\ unsaved \subseteq Ids /\ lost \subseteq Alerts
  /\ tally \in [Alerts -> [sent : Nat, closed : Nat, forgot : Nat]]
  /\ faultsLeft \in Nat

----------------------------------------------------------------------------
(* Safety.                                                                 *)

Pending(a, status) ==
  {h \in Slots : request[h].pc = "notify" /\ request[h].cur = a /\ request[h].batch[a] = status}

\* An alert is announced as firing at most once per episode, however often it is
\* delivered, by whichever receivers, retried, repeated or interrupted by a restart: one
\* more announcement needs an episode that a resolution closed, or one that a restart
\* did not restore (processAlertWebhook's duplicate guard together with loadAlertsFromDb).
AnnouncedOncePerEpisode ==
  \A a \in Alerts : tally[a].sent <= 1 + tally[a].closed + tally[a].forgot

\* An active alert that nobody was told about is one whose notification is under way, or
\* was cut off by a crash: the duplicate guard never swallows the first delivery.
ActiveIsAnnounced ==
  \A a \in Alerts : up /\ a \in active /\ tally[a].sent = 0 =>
                      Pending(a, "firing") # {} \/ a \in lost

\* The dashboard never contradicts itself: a webhook alert in the history is shown as
\* firing exactly when it is in the active list, in any interleaving of deliveries,
\* evictions and restarts (addToHistory and activeAlerts are two structures).
HistoryAgreesWithActive ==
  \A a \in Alerts : up /\ history[a] # "absent" => (history[a] = "firing" <=> a \in active)

\* The table is what memory shows, but for writes that failed: a crash at any point
\* leaves rows from which a restart rebuilds the active list.
RowsMatchMemory ==
  up => \A i \in Ids \ unsaved :
          /\ history[i] # "absent" => rows[i] = history[i]
          /\ i \in active => rows[i] = "firing"

\* The bounded history holds each alert once and no more than HistoryCap of them.
HistoryBounded ==
  up => /\ Len(order) <= HistoryCap
        /\ Cardinality(Range(order)) = Len(order)
        /\ Range(order) = {i \in Ids : history[i] # "absent"}

----------------------------------------------------------------------------
(* The pipeline implements AlertBook: the open episodes are the active      *)
(* webhook alerts, a debt is a request about to announce a firing alert.   *)

Announcing == {h \in Slots : /\ request[h].pc = "notify"
                             /\ request[h].batch[request[h].cur] = "firing"}

Book == INSTANCE AlertBook WITH
          Debts <- Slots, serving <- up, open <- active \cap Alerts,
          owed <- [h \in Announcing |-> request[h].cur]

\* Every behaviour of the backend is one of the book: no delivery, retry or duplicate
\* opens an episode without owing its announcement, or owes one for an open episode.
ImplementsAlertBook == Book!BookSpec

----------------------------------------------------------------------------
(* Liveness.  Handlers and the restarted process run on; Alertmanager       *)
(* flushes news until it is acknowledged.                                  *)
FairSpec ==
  /\ Spec
  /\ \A h \in Slots : /\ WF_vars(\E a \in Alerts : RecordFiring(h, a) \/ RecordResolved(h, a))
                      /\ WF_vars(Notify(h))
  /\ WF_vars(InitAlertDatabase)
  /\ \A r \in Receivers : WF_vars(\E h \in Slots : Deliver(h, r))

\* A resolved alert does not stay on the active list: whatever the order in which the
\* receivers' deliveries were processed and whenever the process crashed, the list is
\* eventually free of it for good.
ResolvedLeavesActive ==
  \A a \in Alerts : []((condition[a] = "resolved") => <>[](a \notin active))

\* An alert recorded as firing is announced in the end, unless a crash cut it off.
RecordedIsAnnounced ==
  \A a \in Alerts : (a \in active) ~> (tally[a].sent > 0 \/ a \in lost)
=============================================================================
