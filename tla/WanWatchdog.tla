----------------------------- MODULE WanWatchdog -----------------------------
(***************************************************************************)
(* bin/wan_watchdog.py: the process on the site's Raspberry Pi that probes  *)
(* the uplink once a minute and, when it has been down long enough, climbs  *)
(* a ladder of recovery actions - restart the router over RCI, then cut its *)
(* power - within a rolling budget.  Its State is written to a file at the  *)
(* end of a tick and read back when the process starts.                     *)
(*                                                                          *)
(* Time is a number; every tick is later than the one before it.  A tick is *)
(* two steps, what it decides and does (Tick) and state.save (Save), so that*)
(* the process can be killed between them.  Never = 0 stands for None: the  *)
(* code tests both times for truth, so 0.0 and None are the same to it.     *)
(***************************************************************************)
EXTENDS Integers, FiniteSets

CONSTANTS
  FailRounds,        \* fail_rounds_to_declare_down
  FirstActionAfter,  \* first_action_after
  SettleAfterAction, \* settle_after_action
  BudgetWindow,      \* budget_window
  BudgetActions,     \* budget_actions
  BackoffInterval,   \* backoff_interval
  ArmChoices,        \* values --arm may have when the process is started
  Gaps,              \* time that may pass between two ticks
  MaxTime,           \* bound on time
  Faults,            \* which of the faults below may happen
  MaxFaults          \* bound: how many of them in a behaviour

\* raise    the router restarts but the answer makes command() raise
\* kill     the process is killed between a tick's action and its save
\* save     state.save cannot write the file
\* corrupt  the file cannot be parsed when it is read
\* offline  the link comes back and fails again while the process is not running
AllFaults == {"raise", "kill", "save", "corrupt", "offline"}

ASSUME WatchdogAssumption ==
  /\ {FailRounds, FirstActionAfter, SettleAfterAction, BudgetWindow, BudgetActions,
      BackoffInterval, MaxTime, MaxFaults} \subseteq Nat
  /\ SettleAfterAction <= BudgetWindow
  /\ ArmChoices \subseteq BOOLEAN
  /\ Gaps \subseteq Nat \ {0}
  /\ Faults \subseteq AllFaults

VARIABLES
  now,
  pc,       \* "off", "idle" between ticks, "save" before the save of a tick
  st,       \* self.state
  file,     \* the state file
  armed,    \* --arm of the running process
  acts,     \* history variable: when the router really restarted
  missed,   \* history variable: those of them that left no trace in the state read back
  upSeen,   \* history variable: when the link was last really up
  stale,    \* history variable: the state read back says down, but the link was up since
  faultsLeft

vars == <<now, pc, st, file, armed, acts, missed, upSeen, stale, faultsLeft>>

Fault(kind) == kind \in Faults /\ faultsLeft > 0 /\ faultsLeft' = faultsLeft - 1
NoFault == UNCHANGED faultsLeft

Never == 0
RungCount == 2   \* len(_ladder())

\* State(): a fresh state, also what load() returns for a missing or unreadable file.
Fresh == [link |-> "up", down_since |-> Never, consecutive_failures |-> 0, rung |-> 0,
          last_action_at |-> Never, action_times |-> {}]

Init ==
  /\ now = 1 /\ upSeen = 1
  /\ pc = "off"
  /\ st = Fresh /\ file = Fresh
  /\ armed \in ArmChoices
  /\ acts = {} /\ missed = {} /\ stale = FALSE
  /\ faultsLeft = MaxFaults

----------------------------------------------------------------------------
(* The conditions of _maybe_escalate, for a state s at time t.             *)

\* The action times budget_spent keeps.
Within(times, t) == {u \in times : t - u < BudgetWindow}

DownFor(s, t) == IF s.down_since = Never THEN 0 ELSE t - s.down_since
RestedFor(s, t, d) == s.last_action_at = Never \/ t - s.last_action_at >= d

\* Defect: the settling time after an action is not awaited.
WaitingUnsettled(s, t) == DownFor(s, t) < FirstActionAfter
\* Defect: the budget allows one action too many.
SpentOffByOne(s, t) == Cardinality(Within(s.action_times, t)) > BudgetActions

Waiting(s, t) == \/ DownFor(s, t) < FirstActionAfter
                 \/ ~RestedFor(s, t, SettleAfterAction)
Spent(s, t)   == Cardinality(Within(s.action_times, t)) >= BudgetActions

\* budget_spent forgets the times that left the window.
Pruned(s, t) == [s EXCEPT !.action_times = Within(@, t)]
Stamped(s, t) == [s EXCEPT !.last_action_at = t]

\* The state in which a failed probe round leaves the watchdog: the failure is
\* counted, and the round that makes FailRounds of them declares the link down.
Failed(s, t) ==
  LET n == s.consecutive_failures + 1
  IN IF n < FailRounds \/ s.link = "down"
     THEN [s EXCEPT !.consecutive_failures = n]
     ELSE [s EXCEPT !.consecutive_failures = n, !.link = "down", !.down_since = t]

DeclaredDown(s) == s.consecutive_failures >= FailRounds

----------------------------------------------------------------------------
(* Process life.                                                           *)

\* Defect: the rung is not restored from the file.
StartWithoutRung ==
  /\ pc = "off" /\ pc' = "idle" /\ armed' \in ArmChoices
  /\ st' = [file EXCEPT !.rung = 0] /\ NoFault
  /\ missed' = missed \cup (Within(acts, now) \ st'.action_times)
  /\ stale' = (st'.link = "down" /\ st'.down_since <= upSeen)
  /\ UNCHANGED <<now, file, acts, upSeen>>

Start ==
  /\ pc = "off" /\ pc' = "idle"
  /\ armed' \in ArmChoices
  /\ \/ st' = file /\ NoFault
     \/ st' = Fresh /\ Fault("corrupt")
  /\ missed' = missed \cup (Within(acts, now) \ st'.action_times)
  /\ stale' = (st'.link = "down" /\ st'.down_since <= upSeen)
  /\ UNCHANGED <<now, file, acts, upSeen>>

Kill ==
  /\ \/ pc = "idle" /\ NoFault
     \/ pc = "save" /\ Fault("kill")
  /\ pc' = "off" /\ st' = Fresh
  /\ UNCHANGED <<now, file, armed, acts, missed, upSeen, stale>>

\* While the process is off nobody sees what the link does.
RecoverUnseen ==
  /\ pc = "off" /\ Fault("offline")
  /\ upSeen' = now
  /\ UNCHANGED <<now, pc, st, file, armed, acts, missed, stale>>

\* Defect: the state is written only when the link changed.
SaveOnChange ==
  /\ pc = "save" /\ pc' = "idle"
  /\ \/ file' = (IF st.link # file.link THEN st ELSE file) /\ NoFault
     \/ UNCHANGED file /\ Fault("save")
  /\ UNCHANGED <<now, st, armed, acts, missed, upSeen, stale>>

\* State.save: an OSError is logged and the tick goes on.
Save ==
  /\ pc = "save" /\ pc' = "idle"
  /\ \/ file' = st /\ NoFault
     \/ UNCHANGED file /\ Fault("save")
  /\ UNCHANGED <<now, st, armed, acts, missed, upSeen, stale>>

----------------------------------------------------------------------------
(* tick.                                                                   *)

BeginTick(gap) == pc = "idle" /\ now + gap <= MaxTime /\ now' = now + gap

\* The end of a tick that took no action: s is saved next.
Conclude(s) ==
  /\ st' = s /\ pc' = "save"
  /\ UNCHANGED <<file, armed, acts, missed, upSeen, stale, faultsLeft>>

\* Defect: recovery resets the ladder but not the outage.
LinkUpKeepsOutage(gap) ==
  /\ BeginTick(gap)
  /\ st' = [st EXCEPT !.rung = 0]
  /\ pc' = "save" /\ upSeen' = now' /\ stale' = FALSE
  /\ UNCHANGED <<file, armed, acts, missed, faultsLeft>>

\* Any probe answered: the outage, if there was one, is over.
LinkUp(gap) ==
  /\ BeginTick(gap)
  /\ st' = [st EXCEPT !.link = "up", !.down_since = Never,
                      !.consecutive_failures = 0, !.rung = 0]
  /\ pc' = "save" /\ upSeen' = now' /\ stale' = FALSE
  /\ UNCHANGED <<file, armed, acts, missed, faultsLeft>>

\* A failed round, and too early to do anything about it.
LinkFails(gap) ==
  LET s == Failed(st, now + gap)
  IN /\ BeginTick(gap)
     /\ ~DeclaredDown(s) \/ Waiting(s, now')
     /\ Conclude(s)

\* A failed round after which _maybe_escalate looks for something to do.
Escalates(s, gap) ==
  /\ BeginTick(gap)
  /\ DeclaredDown(s) /\ ~Waiting(s, now')

\* The budget is spent: only report it, at most once per BackoffInterval.
BackOff(gap) ==
  LET s == Failed(st, now + gap)
      p == Pruned(s, now + gap)
  IN /\ Escalates(s, gap)
     /\ Spent(s, now')
     /\ Conclude(IF RestedFor(p, now', BackoffInterval) THEN Stamped(p, now') ELSE p)

\* What lan_is_healthy() and diagnose() answer, and when that rules out acting: the LAN
\* is broken too, or the fault is upstream.  "none" and "unknown" do not.
Readings == [lan : {"healthy", "broken", "none"}, cause : {"hung", "upstream", "unknown"}]
Pointless(reading) == reading.lan = "broken" \/ reading.cause = "upstream"

\* The Pi cannot see the miners either, or the modem says the fault is upstream.
\* Either answer puts the next attempt off by the settling time.
HoldBack(gap, reading) ==
  LET s == Failed(st, now + gap)
  IN /\ Escalates(s, gap)
     /\ ~Spent(s, now') /\ Pointless(reading)
     /\ Conclude(Stamped(Pruned(s, now'), now'))

\* Every rung was climbed: report it, at most once per BackoffInterval.
Exhausted(gap, reading) ==
  LET s == Failed(st, now + gap)
      p == Pruned(s, now + gap)
  IN /\ Escalates(s, gap)
     /\ ~Spent(s, now') /\ ~Pointless(reading) /\ s.rung >= RungCount
     /\ Conclude(IF RestedFor(p, now', BackoffInterval) THEN Stamped(p, now') ELSE p)

\* A rung counts as climbed in a dry run too.
DryRun(gap, reading) ==
  LET s == Failed(st, now + gap)
  IN /\ Escalates(s, gap)
     /\ ~Spent(s, now') /\ ~Pointless(reading) /\ s.rung < RungCount /\ ~armed
     /\ Conclude(Stamped([Pruned(s, now') EXCEPT !.rung = @ + 1], now'))

\* What rung.action() can come to.  RciRestarter.restart: the router restarts, with an
\* answer or without one; no answer also means it never heard the command; a rejection
\* raises; and an answer cut short by the restart can raise as well.  The power rung runs
\* main()'s LoggingBackend, which only logs.
Outcomes(rung) ==
  IF rung = 0
  THEN {"restarted", "silence", "rejected", "raised"}
  ELSE {"logged"}

\* An armed attempt.  When the action returns, it is charged to the budget and the rung
\* is climbed; when it raises, tick ends there: no charge, no rung, no stamp, no save.
Attempt(gap, reading, outcome) ==
  LET s == Failed(st, now + gap)
      p == Pruned(s, now + gap)
  IN /\ Escalates(s, gap)
     /\ ~Spent(s, now') /\ ~Pointless(reading) /\ s.rung < RungCount /\ armed
     /\ outcome \in Outcomes(s.rung)
     /\ IF outcome = "raised" THEN Fault("raise") ELSE NoFault
     /\ acts' = IF outcome \in {"restarted", "raised"} THEN acts \cup {now'} ELSE acts
     /\ IF outcome \in {"rejected", "raised"}
        THEN st' = p /\ pc' = "idle"
        ELSE /\ st' = Stamped([p EXCEPT !.action_times = @ \cup {now'}, !.rung = @ + 1], now')
             /\ pc' = "save"
     /\ missed' = IF outcome = "raised" THEN missed \cup {now'} ELSE missed
     /\ UNCHANGED <<file, armed, upSeen, stale>>

Tick ==
  \E gap \in Gaps :
    \/ LinkUp(gap) \/ LinkFails(gap) \/ BackOff(gap)
    \/ \E reading \in Readings :
         \/ HoldBack(gap, reading) \/ Exhausted(gap, reading) \/ DryRun(gap, reading)
         \/ \E outcome \in Outcomes(0) \cup Outcomes(1) : Attempt(gap, reading, outcome)

Next == Start \/ Kill \/ RecoverUnseen \/ Save \/ Tick

Spec == Init /\ [][Next]_vars

----------------------------------------------------------------------------
StateType ==
  [link : {"up", "down"}, down_since : Nat, consecutive_failures : Nat, rung : 0..RungCount,
   last_action_at : Nat, action_times : SUBSET Nat]

TypeOK ==
  /\ now \in Nat /\ upSeen \in Nat /\ faultsLeft \in Nat
  /\ pc \in {"off", "idle", "save"}
  /\ st \in StateType /\ file \in StateType
  /\ armed \in BOOLEAN /\ stale \in BOOLEAN
  /\ acts \subseteq Nat /\ missed \subseteq Nat

\* Restarts of the router that the state read back at every start still knew of.
Recorded == acts \ missed

\* Those in the budget window that ends at t.
InWindow(times, t) == {u \in times : u <= t /\ t - u < BudgetWindow}

\* The rolling budget holds across restarts of the process: no window of BudgetWindow
\* has more than BudgetActions restarts of the router, but for those that left no trace
\* in the state the process read back (budget_spent, action_times, save and load).
BudgetHolds ==
  \A t \in acts : Cardinality(InWindow(Recorded, t)) <= BudgetActions

\* Two recorded restarts are never closer than the settling time, whether the process or
\* the link went down and up in between.
RestartsAreSpaced ==
  \A t, u \in Recorded : t < u => u - t >= SettleAfterAction

\* One outage gets one restart of the router: while it lasts the ladder only goes up,
\* across restarts of the process.
OneRestartPerOutage ==
  \A t, u \in Recorded :
    t > upSeen /\ t < u => u - t >= BudgetWindow

\* The router is restarted only when the link has really been down for more than
\* FirstActionAfter, unless the process was started on a state that had not seen the link
\* come back.
NeverHasty ==
  [][acts' # acts => stale \/ now' - upSeen > FirstActionAfter]_vars

\* A process that reads the file back has forgotten no more restarts of the router than there
\* were faults, and none when there was none, however often it was stopped between two ticks:
\* a kill before a save, or a save that fails, costs the one restart of that tick.
AFaultForgetsOneRestart ==
  [][pc = "off" /\ st' = file => Cardinality(missed' \ missed) <= MaxFaults - faultsLeft]_vars

----------------------------------------------------------------------------
(* What the documentation of the code promises without exception, and what holds while no fault     *)
(* loses a charge.                                                                                  *)

\* "A rolling action budget prevents the restart loop": of any BudgetWindow.
RestartLoopPrevented ==
  \A t \in acts : Cardinality(InWindow(acts, t)) <= BudgetActions
=============================================================================
