-------------------------- MODULE WanWatchdogProofs --------------------------
(***************************************************************************)
(* Proofs about WanWatchdog, for every value of its constants and with      *)
(* every fault allowed.  The inductive invariant says what the budget needs *)
(* of the state: every restart still in the window is among the             *)
(* action_times of the running process (Remembered), no stamp is later than *)
(* last_action_at (Stamps), a restart of the present outage has moved the   *)
(* ladder past its first rung (Climbed), and a state that says "down" says  *)
(* so since after the link was last up, unless it is stale (SinceUp).       *)
(***************************************************************************)
EXTENDS WanWatchdog, FiniteSetTheorems, TLAPS

\* No state holds a time of the future, an action later than its last_action_at, or an
\* action of the present outage with the ladder still at its first rung.
SoundState(s) ==
  /\ s.last_action_at <= now
  /\ \A u \in s.action_times : 1 <= u /\ u <= s.last_action_at
  /\ \A u \in s.action_times : u > upSeen => s.rung >= 1

History ==
  /\ 1 <= now /\ upSeen <= now
  /\ missed \subseteq acts
  /\ \A u \in acts : 1 <= u /\ u <= now

Remembered == pc # "off" => Within(Recorded, now) \subseteq st.action_times

SinceUp == pc # "off" /\ ~stale /\ st.link = "down" => upSeen < st.down_since

IInv ==
  /\ TypeOK /\ History
  /\ SoundState(st) /\ SoundState(file)
  /\ Remembered /\ SinceUp
  /\ BudgetHolds /\ RestartsAreSpaced /\ OneRestartPerOutage

\* What a failed probe round may make of the state s at time t.
Round(s, s2, t) ==
  /\ s2 \in StateType
  /\ s.rung <= s2.rung
  /\ s2.last_action_at \in {s.last_action_at, t}
  /\ Within(s.action_times, t) \subseteq s2.action_times
  /\ s2.action_times \subseteq s.action_times \cup {t}
  /\ t \in s2.action_times => t \in s.action_times \/ (s2.last_action_at = t /\ s2.rung >= 1)
  /\ s2.link = "down" => (s.link = "down" /\ s2.down_since = s.down_since) \/ s2.down_since = t

\* Counting a failed round leaves the budget, the ladder and the stamp alone.
LEMMA FailedRound ==
  ASSUME NEW s \in StateType, NEW t \in Nat
  PROVE  /\ Failed(s, t) \in StateType
         /\ Failed(s, t).rung = s.rung
         /\ Failed(s, t).last_action_at = s.last_action_at
         /\ Failed(s, t).action_times = s.action_times
         /\ \/ Failed(s, t).link = s.link /\ Failed(s, t).down_since = s.down_since
            \/ Failed(s, t).link = "down" /\ Failed(s, t).down_since = t /\ s.link # "down"
         /\ DeclaredDown(Failed(s, t)) => Failed(s, t).link = "down"
<1> DEFINE n == s.consecutive_failures + 1
           counted == [s EXCEPT !.consecutive_failures = n]
           declared == [s EXCEPT !.consecutive_failures = n, !.link = "down", !.down_since = t]
<1>1. n \in Nat /\ FailRounds \in Nat /\ s.link \in {"up", "down"}
  BY WatchdogAssumption DEF StateType
<1>2. Failed(s, t) = IF n < FailRounds \/ s.link = "down" THEN counted ELSE declared
  BY DEF Failed
<1> HIDE DEF n
<1>3. /\ counted \in StateType /\ counted.rung = s.rung /\ counted.consecutive_failures = n
      /\ counted.last_action_at = s.last_action_at /\ counted.action_times = s.action_times
      /\ counted.link = s.link /\ counted.down_since = s.down_since
  BY <1>1 DEF StateType
<1>4. /\ declared \in StateType /\ declared.rung = s.rung
      /\ declared.last_action_at = s.last_action_at /\ declared.action_times = s.action_times
      /\ declared.link = "down" /\ declared.down_since = t
  BY <1>1 DEF StateType
<1> HIDE DEF counted, declared
<1> QED
  BY <1>1, <1>2, <1>3, <1>4 DEF DeclaredDown

\* Forgetting the times that left the window changes nothing else.
LEMMA PrunedRound ==
  ASSUME NEW s \in StateType, NEW t \in Nat
  PROVE  /\ Pruned(s, t) \in StateType
         /\ Pruned(s, t).action_times = Within(s.action_times, t)
         /\ Within(s.action_times, t) \subseteq s.action_times
         /\ Pruned(s, t).rung = s.rung
         /\ Pruned(s, t).last_action_at = s.last_action_at
         /\ Pruned(s, t).link = s.link
         /\ Pruned(s, t).down_since = s.down_since
BY DEF Pruned, Within, StateType

\* The same for the stamp of an attempt, a hold or a report.
LEMMA StampedRound ==
  ASSUME NEW s \in StateType, NEW t \in Nat
  PROVE  /\ Stamped(s, t) \in StateType
         /\ Stamped(s, t).last_action_at = t
         /\ Stamped(s, t).action_times = s.action_times
         /\ Stamped(s, t).rung = s.rung
         /\ Stamped(s, t).link = s.link
         /\ Stamped(s, t).down_since = s.down_since
BY DEF Stamped, StateType

\* Counting, forgetting and stamping make a Round.
LEMMA QuietRounds ==
  ASSUME NEW s \in StateType, NEW t \in Nat
  PROVE  /\ Round(s, Failed(s, t), t)
         /\ Round(s, Pruned(Failed(s, t), t), t)
         /\ Round(s, Stamped(Pruned(Failed(s, t), t), t), t)
<1> DEFINE f == Failed(s, t)
           p == Pruned(f, t)
           q == Stamped(p, t)
<1>1. /\ f \in StateType /\ f.rung = s.rung /\ f.last_action_at = s.last_action_at
      /\ f.action_times = s.action_times
      /\ \/ f.link = s.link /\ f.down_since = s.down_since
         \/ f.link = "down" /\ f.down_since = t
  BY FailedRound
<1>2. /\ p \in StateType /\ p.action_times = Within(f.action_times, t)
      /\ Within(f.action_times, t) \subseteq f.action_times
      /\ p.rung = f.rung /\ p.last_action_at = f.last_action_at
      /\ p.link = f.link /\ p.down_since = f.down_since
  BY <1>1, PrunedRound
<1>3. /\ q \in StateType /\ q.last_action_at = t /\ q.action_times = p.action_times
      /\ q.rung = p.rung /\ q.link = p.link /\ q.down_since = p.down_since
  BY <1>2, StampedRound
<1>4. s.rung \in Nat /\ Within(s.action_times, t) \subseteq s.action_times
  BY PrunedRound DEF StateType, RungCount
<1> HIDE DEF f, p, q
<1>5. Round(s, f, t)
  BY <1>1, <1>4 DEF Round
<1>6. Round(s, p, t)
  BY <1>1, <1>2, <1>4 DEF Round
<1>7. Round(s, q, t)
  BY <1>1, <1>2, <1>3, <1>4 DEF Round
<1> QED
  BY <1>5, <1>6, <1>7 DEF f, p, q

\* A dry run's climb is a Round too, and so is an attempt that returned.
LEMMA ClimbingRounds ==
  ASSUME NEW s \in StateType, NEW t \in Nat, s.rung < RungCount
  PROVE  LET p == Pruned(Failed(s, t), t)
         IN /\ Round(s, Stamped([p EXCEPT !.rung = @ + 1], t), t)
            /\ Round(s, Stamped([p EXCEPT !.action_times = @ \cup {t}, !.rung = @ + 1], t), t)
            /\ t \in Stamped([p EXCEPT !.action_times = @ \cup {t}, !.rung = @ + 1], t).action_times
<1> DEFINE f == Failed(s, t)
           p == Pruned(f, t)
           climbed == [p EXCEPT !.rung = @ + 1]
           charged == [p EXCEPT !.action_times = @ \cup {t}, !.rung = @ + 1]
<1>1. /\ f \in StateType /\ f.rung = s.rung /\ f.last_action_at = s.last_action_at
      /\ f.action_times = s.action_times
      /\ \/ f.link = s.link /\ f.down_since = s.down_since
         \/ f.link = "down" /\ f.down_since = t
  BY FailedRound
<1>2. /\ p \in StateType /\ p.action_times = Within(f.action_times, t)
      /\ Within(f.action_times, t) \subseteq f.action_times
      /\ p.rung = f.rung /\ p.last_action_at = f.last_action_at
      /\ p.link = f.link /\ p.down_since = f.down_since
  BY <1>1, PrunedRound
<1>3. s.rung \in Nat /\ p.rung + 1 \in 0..RungCount
  BY <1>1, <1>2 DEF StateType, RungCount
<1> HIDE DEF f, p
<1>4. /\ climbed \in StateType /\ climbed.rung = p.rung + 1
      /\ climbed.action_times = p.action_times
      /\ climbed.link = p.link /\ climbed.down_since = p.down_since
  BY <1>2, <1>3 DEF StateType
<1>5. /\ charged \in StateType /\ charged.rung = p.rung + 1
      /\ charged.action_times = p.action_times \cup {t}
      /\ charged.link = p.link /\ charged.down_since = p.down_since
  BY <1>2, <1>3 DEF StateType
<1> HIDE DEF climbed, charged
<1>6. /\ Stamped(climbed, t) \in StateType /\ Stamped(climbed, t).last_action_at = t
      /\ Stamped(climbed, t).action_times = climbed.action_times
      /\ Stamped(climbed, t).rung = climbed.rung /\ Stamped(climbed, t).link = climbed.link
      /\ Stamped(climbed, t).down_since = climbed.down_since
  BY <1>4, StampedRound
<1>7. /\ Stamped(charged, t) \in StateType /\ Stamped(charged, t).last_action_at = t
      /\ Stamped(charged, t).action_times = charged.action_times
      /\ Stamped(charged, t).rung = charged.rung /\ Stamped(charged, t).link = charged.link
      /\ Stamped(charged, t).down_since = charged.down_since
  BY <1>5, StampedRound
<1>8. Round(s, Stamped(climbed, t), t)
  BY <1>1, <1>2, <1>3, <1>4, <1>6 DEF Round
<1>9. Round(s, Stamped(charged, t), t) /\ t \in Stamped(charged, t).action_times
  BY <1>1, <1>2, <1>3, <1>5, <1>7 DEF Round
<1> QED
  BY <1>8, <1>9 DEF climbed, charged, p, f

\* Every tick that fails and does not act is a Round of st, at a later time.
LEMMA QuietTick ==
  ASSUME TypeOK, NEW gap \in Gaps, NEW reading \in Readings,
         \/ LinkFails(gap) \/ BackOff(gap) \/ HoldBack(gap, reading)
         \/ Exhausted(gap, reading) \/ DryRun(gap, reading)
  PROVE  /\ now' \in Nat /\ now < now' /\ pc = "idle" /\ pc' = "save"
         /\ Round(st, st', now')
         /\ UNCHANGED <<file, armed, acts, missed, upSeen, stale, faultsLeft>>
<1> DEFINE t == now + gap
           f == Failed(st, t)
           p == Pruned(f, t)
<1>1. now \in Nat /\ t \in Nat /\ now < t /\ st \in StateType
  BY WatchdogAssumption DEF TypeOK
<1>2. f \in StateType /\ f.rung = st.rung
  BY <1>1, FailedRound
<1>3. /\ now' = t /\ pc = "idle" /\ pc' = "save"
      /\ UNCHANGED <<file, armed, acts, missed, upSeen, stale, faultsLeft>>
  BY DEF LinkFails, BackOff, HoldBack, Exhausted, DryRun, Escalates, BeginTick, Conclude
<1>4. /\ Round(st, f, t) /\ Round(st, p, t) /\ Round(st, Stamped(p, t), t)
  BY <1>1, QuietRounds
<1>5. CASE LinkFails(gap)
  BY <1>1, <1>3, <1>4, <1>5 DEF LinkFails, Conclude
<1>6. CASE BackOff(gap) \/ Exhausted(gap, reading)
  <2>1. st' = p \/ st' = Stamped(p, t)
    BY <1>3, <1>6 DEF BackOff, Exhausted, Conclude
  <2> QED
    BY <1>1, <1>3, <1>4, <2>1
<1>7. CASE HoldBack(gap, reading)
  BY <1>1, <1>3, <1>4, <1>7 DEF HoldBack, Conclude
<1>8. CASE DryRun(gap, reading)
  <2>1. st' = Stamped([p EXCEPT !.rung = @ + 1], t) /\ st.rung < RungCount
    BY <1>2, <1>3, <1>8 DEF DryRun, Conclude
  <2> QED
    BY <1>1, <1>3, <2>1, ClimbingRounds
<1> QED
  BY <1>5, <1>6, <1>7, <1>8

\* An attempt is a Round of st too; it really restarts the router only from the first
\* rung, with budget left, and after the settling time.
LEMMA AttemptTick ==
  ASSUME TypeOK, NEW gap \in Gaps, NEW reading \in Readings, NEW outcome,
         Attempt(gap, reading, outcome)
  PROVE  /\ now' \in Nat /\ now < now' /\ pc = "idle" /\ pc' \in {"idle", "save"}
         /\ Round(st, st', now')
         /\ UNCHANGED <<file, armed, upSeen, stale>> /\ faultsLeft' \in Nat
         /\ \/ acts' = acts /\ missed' = missed
            \/ /\ acts' = acts \cup {now'}
               /\ st.rung = 0
               /\ RestedFor(st, now', SettleAfterAction)
               /\ ~Spent(st, now')
               /\ DeclaredDown(Failed(st, now'))
               /\ DownFor(Failed(st, now'), now') >= FirstActionAfter
               /\ \/ missed' = missed /\ now' \in st'.action_times
                  \/ missed' = missed \cup {now'}
<1> DEFINE t == now + gap
           f == Failed(st, t)
           p == Pruned(f, t)
           charged == Stamped([p EXCEPT !.action_times = @ \cup {t}, !.rung = @ + 1], t)
<1>1. now \in Nat /\ t \in Nat /\ now < t /\ st \in StateType /\ faultsLeft \in Nat
  BY WatchdogAssumption DEF TypeOK
<1>2. /\ f \in StateType /\ f.rung = st.rung /\ f.last_action_at = st.last_action_at
      /\ f.action_times = st.action_times
  BY <1>1, FailedRound
<1>3. now' = t /\ pc = "idle" /\ pc' \in {"idle", "save"} /\ st.rung < RungCount
  BY <1>2 DEF Attempt, Escalates, BeginTick
<1>4. UNCHANGED <<file, armed, upSeen, stale>> /\ faultsLeft' \in Nat
  BY <1>1 DEF Attempt, Fault, NoFault
<1>5. Round(st, p, t) /\ Round(st, charged, t) /\ t \in charged.action_times
  BY <1>1, <1>3, QuietRounds, ClimbingRounds
<1>6. st' = IF outcome \in {"rejected", "raised"} THEN p ELSE charged
  BY <1>3 DEF Attempt
<1>7. Round(st, st', now')
  BY <1>3, <1>5, <1>6
<1>8. /\ ~Spent(st, now') /\ RestedFor(st, now', SettleAfterAction)
      /\ DeclaredDown(f) /\ ~(DownFor(f, now') < FirstActionAfter)
  BY <1>2, <1>3 DEF Attempt, Escalates, Waiting, Spent, RestedFor
<1>9. DownFor(f, now') \in Int /\ FirstActionAfter \in Nat
  BY <1>1, <1>2, <1>3, WatchdogAssumption DEF DownFor, StateType
<1>10. /\ acts' = IF outcome \in {"restarted", "raised"} THEN acts \cup {now'} ELSE acts
       /\ missed' = IF outcome = "raised" THEN missed \cup {now'} ELSE missed
       /\ outcome \in Outcomes(st.rung)
  BY <1>2, <1>3 DEF Attempt
<1>11. outcome \in {"restarted", "raised"} => st.rung = 0
  BY <1>10 DEF Outcomes
<1> HIDE DEF t, f, p, charged
<1>12. CASE outcome \in {"restarted", "raised"}
  <2>1. outcome = "restarted" => now' \in st'.action_times
    BY <1>3, <1>5, <1>6
  <2> QED
    BY <1>1, <1>3, <1>4, <1>7, <1>8, <1>9, <1>10, <1>11, <1>12, <2>1 DEF f
<1>13. CASE outcome \notin {"restarted", "raised"}
  BY <1>1, <1>3, <1>4, <1>7, <1>10, <1>13
<1> QED
  BY <1>12, <1>13

\* A Round keeps what the invariant says of single states, whatever it adds to the
\* recorded restarts, as long as that is charged.
LEMMA RoundKeeps ==
  ASSUME TypeOK, History, SoundState(st), SoundState(file), Remembered, SinceUp,
         now' \in Nat, now < now', pc = "idle", Round(st, st', now'),
         UNCHANGED <<file, upSeen, stale>>,
         Recorded' \subseteq Recorded \cup {now'},
         now' \in Recorded' => now' \in st'.action_times
  PROVE  SoundState(st)' /\ SoundState(file)' /\ Remembered' /\ SinceUp'
<1>1. /\ now \in Nat /\ upSeen \in Nat /\ upSeen <= now /\ 1 <= now
      /\ st \in StateType /\ file \in StateType
  BY DEF TypeOK, History
<1>2. /\ st'.last_action_at \in {st.last_action_at, now'}
      /\ st'.rung \in Nat /\ st.rung \in Nat /\ st.rung <= st'.rung
      /\ st.last_action_at \in Nat /\ st.action_times \subseteq Nat
  BY <1>1 DEF Round, StateType, RungCount
<1>3. SoundState(st)'
  <2> SUFFICES ASSUME NEW u \in st'.action_times
               PROVE  /\ 1 <= u /\ u <= st'.last_action_at
                      /\ u > upSeen => st'.rung >= 1
    BY <1>1, <1>2 DEF SoundState
  <2>1. CASE u \in st.action_times
    BY <1>1, <1>2, <2>1 DEF SoundState
  <2>2. CASE u \notin st.action_times
    BY <1>1, <1>2, <2>2 DEF Round
  <2> QED
    BY <2>1, <2>2
<1>4. SoundState(file)'
  BY <1>1 DEF SoundState, StateType
<1>5. Remembered'
  <2> SUFFICES ASSUME NEW u \in Recorded', now' - u < BudgetWindow
               PROVE  u \in st'.action_times
    BY DEF Remembered, Within
  <2>1. CASE u = now'
    BY <2>1
  <2>2. CASE u # now'
    <3>1. u \in Recorded /\ u \in Nat
      BY <2>2 DEF Recorded, TypeOK
    <3>2. now - u < BudgetWindow
      BY <1>1, <3>1, WatchdogAssumption
    <3>3. u \in st.action_times
      BY <3>1, <3>2 DEF Remembered, Within
    <3> QED
      BY <3>3 DEF Round, Within
  <2> QED
    BY <2>1, <2>2
<1>6. SinceUp'
  BY <1>1 DEF SinceUp, Round
<1> QED
  BY <1>3, <1>4, <1>5, <1>6

\* The states of the history variables that a tick leaves alone keep the three results:
\* they only look at restarts at or before now.
LEMMA FinitePast ==
  ASSUME TypeOK, History, NEW t
  PROVE  /\ IsFiniteSet(acts) /\ IsFiniteSet(InWindow(Recorded, t))
         /\ Cardinality(InWindow(Recorded, t)) \in Nat
<1>1. IsFiniteSet(acts)
  BY FS_BoundedSetOfNaturals DEF TypeOK, History
<1>2. InWindow(Recorded, t) \in SUBSET acts
  BY DEF InWindow, Recorded
<1> QED
  BY <1>1, <1>2, FS_Subset, FS_CardinalityType

LEMMA FewerRecorded ==
  ASSUME IInv, TypeOK', acts' = acts, Recorded' \subseteq Recorded, upSeen' >= upSeen
  PROVE  BudgetHolds' /\ RestartsAreSpaced' /\ OneRestartPerOutage'
<1>1. BudgetHolds'
  <2> SUFFICES ASSUME NEW t \in acts
               PROVE  Cardinality(InWindow(Recorded', t)) <= BudgetActions
    BY DEF BudgetHolds, InWindow, Recorded
  <2>1. IsFiniteSet(InWindow(Recorded, t)) /\ Cardinality(InWindow(Recorded, t)) \in Nat
    BY FinitePast DEF IInv
  <2>2. InWindow(Recorded', t) \in SUBSET InWindow(Recorded, t)
    BY DEF InWindow
  <2>3. /\ Cardinality(InWindow(Recorded', t)) <= Cardinality(InWindow(Recorded, t))
        /\ Cardinality(InWindow(Recorded', t)) \in Nat
    BY <2>1, <2>2, FS_Subset, FS_CardinalityType
  <2>4. Cardinality(InWindow(Recorded, t)) <= BudgetActions /\ BudgetActions \in Nat
    BY WatchdogAssumption DEF IInv, BudgetHolds
  <2> QED
    BY <2>1, <2>3, <2>4
<1>2. RestartsAreSpaced'
  BY DEF IInv, RestartsAreSpaced
<1>3. OneRestartPerOutage'
  <2> SUFFICES ASSUME NEW t \in Recorded, NEW u \in Recorded, t > upSeen', t < u
               PROVE  u - t >= BudgetWindow
    BY DEF OneRestartPerOutage
  <2>1. t > upSeen
    BY DEF IInv, TypeOK, Recorded
  <2> QED
    BY <2>1 DEF IInv, OneRestartPerOutage
<1> QED
  BY <1>1, <1>2, <1>3

\* A restart of the router now, from the first rung, with budget left, after the settling
\* time, keeps the three results.
LEMMA OneMoreRestart ==
  ASSUME IInv, TypeOK', now' \in Nat, now < now', pc # "off",
         acts' = acts \cup {now'}, missed' = missed \/ missed' = missed \cup {now'},
         upSeen' = upSeen, st.rung = 0,
         RestedFor(st, now', SettleAfterAction), ~Spent(st, now')
  PROVE  BudgetHolds' /\ RestartsAreSpaced' /\ OneRestartPerOutage'
<1>1. /\ now \in Nat /\ upSeen \in Nat /\ acts \subseteq Nat /\ now' \notin acts
      /\ Recorded \subseteq acts /\ Recorded' \subseteq Recorded \cup {now'}
      /\ st \in StateType
      /\ \A u \in acts : 1 <= u /\ u <= now
  BY DEF IInv, TypeOK, History, Recorded
<1>2. /\ {BudgetWindow, BudgetActions, SettleAfterAction} \subseteq Nat
      /\ SettleAfterAction <= BudgetWindow
  BY WatchdogAssumption
\* A recorded restart still in the window is known to the running process.
<1>3. ASSUME NEW u \in Recorded, now' - u < BudgetWindow
      PROVE  u \in Within(st.action_times, now')
  <2>1. now - u < BudgetWindow
    BY <1>1, <1>2, <1>3
  <2>2. u \in st.action_times
    BY <2>1 DEF IInv, Remembered, Within
  <2> QED
    BY <1>3, <2>2 DEF Within
<1>4. BudgetHolds'
  <2> SUFFICES ASSUME NEW t \in acts \cup {now'}
               PROVE  Cardinality(InWindow(Recorded', t)) <= BudgetActions
    BY DEF BudgetHolds, InWindow, Recorded
  <2>1. CASE t \in acts
    <3>1. IsFiniteSet(InWindow(Recorded, t)) /\ Cardinality(InWindow(Recorded, t)) \in Nat
      BY FinitePast DEF IInv
    <3>2. InWindow(Recorded', t) \in SUBSET InWindow(Recorded, t)
      <4> SUFFICES ASSUME NEW u \in Recorded', u <= t, t - u < BudgetWindow
                   PROVE  u \in Recorded
        BY DEF InWindow
      <4>1. t \in Nat /\ t <= now
        BY <1>1, <2>1
      <4>2. u # now'
        BY <1>1, <4>1
      <4> QED
        BY <1>1, <4>2
    <3>3. /\ Cardinality(InWindow(Recorded', t)) <= Cardinality(InWindow(Recorded, t))
          /\ Cardinality(InWindow(Recorded', t)) \in Nat
      BY <3>1, <3>2, FS_Subset, FS_CardinalityType
    <3>4. Cardinality(InWindow(Recorded, t)) <= BudgetActions
      BY <2>1 DEF IInv, BudgetHolds
    <3> QED
      BY <1>2, <3>1, <3>3, <3>4
  <2>2. CASE t = now'
    <3> DEFINE W == Within(st.action_times, now')
    <3>1. W \in SUBSET Nat /\ (\A u \in W : u <= st.last_action_at)
      BY <1>1 DEF Within, StateType, IInv, SoundState
    <3>2. st.last_action_at \in Nat
      BY <1>1 DEF StateType
    <3> HIDE DEF W
    <3>3. IsFiniteSet(W)
      BY <3>1, <3>2, FS_BoundedSetOfNaturals
    <3>4. /\ Cardinality(W) \in Nat /\ IsFiniteSet(W \cup {now'})
          /\ Cardinality(W \cup {now'}) <= Cardinality(W) + 1
          /\ Cardinality(W \cup {now'}) \in Nat
      <4>1. Cardinality(W) \in Nat /\ IsFiniteSet(W \cup {now'})
        BY <3>3, FS_CardinalityType, FS_AddElement
      <4>2. Cardinality(W \cup {now'}) = IF now' \in W THEN Cardinality(W) ELSE Cardinality(W) + 1
        BY <3>3, FS_AddElement
      <4> QED
        BY <4>1, <4>2
    <3>5. Cardinality(W) < BudgetActions
      BY <1>2, <3>4 DEF W, Spent
    <3>6. InWindow(Recorded', t) \in SUBSET (W \cup {now'})
      BY <1>1, <1>3, <2>2 DEF W, InWindow
    <3>7. /\ Cardinality(InWindow(Recorded', t)) \in Nat
          /\ Cardinality(InWindow(Recorded', t)) <= Cardinality(W \cup {now'})
      BY <3>4, <3>6, FS_Subset, FS_CardinalityType
    <3> QED
      BY <1>2, <3>4, <3>5, <3>7
  <2> QED
    BY <2>1, <2>2
<1>5. RestartsAreSpaced'
  <2> SUFFICES ASSUME NEW t \in Recorded', NEW u \in Recorded', t < u
               PROVE  u - t >= SettleAfterAction
    BY DEF RestartsAreSpaced
  <2>1. CASE u \in Recorded
    <3>1. t \in Recorded
      BY <1>1, <2>1
    <3> QED
      BY <2>1, <3>1 DEF IInv, RestartsAreSpaced
  <2>2. CASE u \notin Recorded
    <3>1. u = now' /\ t \in Recorded /\ t \in Nat /\ 1 <= t
      <4>1. t # now'
        BY <1>1, <2>2
      <4> QED
        BY <1>1, <2>2, <4>1
    <3>2. CASE now' - t < BudgetWindow
      <4>1. t \in st.action_times
        BY <1>3, <3>1, <3>2 DEF Within
      <4>2. 1 <= st.last_action_at /\ t <= st.last_action_at /\ st.last_action_at \in Nat
        BY <1>1, <3>1, <4>1 DEF IInv, SoundState, StateType
      <4> QED
        BY <1>2, <3>1, <4>2 DEF RestedFor, Never
    <3>3. CASE ~(now' - t < BudgetWindow)
      BY <1>2, <3>1, <3>3
    <3> QED
      BY <3>2, <3>3
  <2> QED
    BY <2>1, <2>2
<1>6. OneRestartPerOutage'
  <2> SUFFICES ASSUME NEW t \in Recorded', NEW u \in Recorded', t > upSeen, t < u
               PROVE  u - t >= BudgetWindow
    BY DEF OneRestartPerOutage
  <2>1. CASE u \in Recorded
    <3>1. t \in Recorded
      BY <1>1, <2>1
    <3> QED
      BY <2>1, <3>1 DEF IInv, OneRestartPerOutage
  <2>2. CASE u \notin Recorded
    <3>1. u = now' /\ t \in Recorded /\ t \in Nat
      <4>1. t # now'
        BY <1>1, <2>2
      <4> QED
        BY <1>1, <2>2, <4>1
    <3>2. t \notin st.action_times
      BY <1>1 DEF IInv, SoundState
    <3> QED
      BY <1>2, <1>3, <3>1, <3>2 DEF Within
  <2> QED
    BY <2>1, <2>2
<1> QED
  BY <1>4, <1>5, <1>6

----------------------------------------------------------------------------
(* The invariant is inductive.                                             *)

LEMMA InitIInv == Init => IInv
<1> SUFFICES ASSUME Init PROVE IInv
  OBVIOUS
<1>1. Fresh \in StateType /\ Fresh.action_times = {} /\ Fresh.last_action_at = 0
  BY DEF Fresh, StateType, Never, RungCount
<1>2. armed \in BOOLEAN /\ stale \in BOOLEAN /\ faultsLeft \in Nat
  BY WatchdogAssumption DEF Init
<1>3. TypeOK
  BY <1>1, <1>2 DEF Init, TypeOK
<1>4. History
  BY DEF Init, History
<1>5. SoundState(st) /\ SoundState(file)
  BY <1>1 DEF Init, SoundState
<1>6. Remembered /\ SinceUp
  BY DEF Init, Remembered, SinceUp
<1>7. BudgetHolds /\ RestartsAreSpaced /\ OneRestartPerOutage
  BY DEF Init, BudgetHolds, RestartsAreSpaced, OneRestartPerOutage, Recorded
<1> QED
  BY <1>3, <1>4, <1>5, <1>6, <1>7 DEF IInv

LEMMA StartKeeps == ASSUME IInv, Start PROVE IInv'
<1>1. /\ TypeOK /\ History /\ now \in Nat /\ acts \subseteq Nat /\ faultsLeft \in Nat
      /\ Fresh \in StateType
  BY DEF IInv, TypeOK, Fresh, StateType, Never, RungCount
<1>2. /\ UNCHANGED <<now, file, acts, upSeen>> /\ st' \in {file, Fresh} /\ faultsLeft' \in Nat
      /\ missed' = missed \cup (Within(acts, now) \ st'.action_times)
      /\ stale' = (st'.link = "down" /\ st'.down_since <= upSeen)
      /\ pc' = "idle" /\ armed' \in ArmChoices
  BY <1>1 DEF Start, Fault, NoFault
<1>3. TypeOK'
  <2>1. missed' \subseteq Nat /\ stale' \in BOOLEAN /\ armed' \in BOOLEAN
    BY <1>1, <1>2, WatchdogAssumption DEF TypeOK, Within
  <2> QED
    BY <1>1, <1>2, <2>1 DEF TypeOK
<1>4. History'
  BY <1>1, <1>2 DEF History, Within
<1>5. SoundState(st)' /\ SoundState(file)'
  BY <1>1, <1>2 DEF IInv, SoundState, Fresh, Never
<1>6. Remembered'
  BY <1>2 DEF Remembered, Recorded, Within
<1>7. SinceUp'
  <2> SUFFICES ASSUME ~stale', st'.link = "down"  PROVE upSeen < st'.down_since
    BY <1>2 DEF SinceUp
  <2>1. upSeen \in Nat /\ st'.down_since \in Nat
    BY <1>1, <1>3 DEF TypeOK, StateType
  <2>2. ~(st'.link = "down" /\ st'.down_since <= upSeen)
    BY <1>2, Zenon
  <2> QED
    BY <2>1, <2>2
<1>8. Recorded' \subseteq Recorded /\ upSeen' >= upSeen
  BY <1>1, <1>2 DEF Recorded, TypeOK
<1>9. BudgetHolds' /\ RestartsAreSpaced' /\ OneRestartPerOutage'
  BY <1>2, <1>3, <1>8, FewerRecorded
<1> QED
  BY <1>3, <1>4, <1>5, <1>6, <1>7, <1>9 DEF IInv

LEMMA KillKeeps == ASSUME IInv, Kill PROVE IInv'
<1>1. /\ TypeOK /\ now \in Nat /\ upSeen \in Nat /\ faultsLeft \in Nat
      /\ Fresh \in StateType
  BY DEF IInv, TypeOK, Fresh, StateType, Never, RungCount
<1>2. /\ UNCHANGED <<now, file, armed, acts, missed, upSeen, stale>>
      /\ st' = Fresh /\ faultsLeft' \in Nat /\ pc' = "off"
  BY <1>1 DEF Kill, Fault, NoFault
<1>3. TypeOK'
  BY <1>1, <1>2 DEF TypeOK
<1>4. History' /\ SoundState(file)' /\ SoundState(st)'
  BY <1>1, <1>2 DEF IInv, History, SoundState, Fresh, Never
<1>5. Remembered' /\ SinceUp'
  BY <1>2 DEF Remembered, SinceUp
<1>6. BudgetHolds' /\ RestartsAreSpaced' /\ OneRestartPerOutage'
  BY <1>1, <1>2, <1>3, FewerRecorded DEF Recorded
<1> QED
  BY <1>3, <1>4, <1>5, <1>6 DEF IInv

LEMMA RecoverUnseenKeeps == ASSUME IInv, RecoverUnseen PROVE IInv'
<1>1. /\ TypeOK /\ now \in Nat /\ upSeen \in Nat /\ upSeen <= now /\ faultsLeft \in Nat
      /\ st \in StateType /\ file \in StateType
  BY DEF IInv, TypeOK, History
<1>2. /\ UNCHANGED <<now, pc, st, file, armed, acts, missed, stale>>
      /\ upSeen' = now /\ faultsLeft' \in Nat /\ pc = "off"
  BY <1>1 DEF RecoverUnseen, Fault
<1>3. TypeOK'
  BY <1>1, <1>2 DEF TypeOK
<1>4. History'
  BY <1>1, <1>2 DEF IInv, History
<1>5. SoundState(st)' /\ SoundState(file)'
  BY <1>1, <1>2 DEF IInv, SoundState, StateType
<1>6. Remembered' /\ SinceUp'
  BY <1>2 DEF Remembered, SinceUp
<1>7. BudgetHolds' /\ RestartsAreSpaced' /\ OneRestartPerOutage'
  BY <1>1, <1>2, <1>3, FewerRecorded DEF Recorded
<1> QED
  BY <1>3, <1>4, <1>5, <1>6, <1>7 DEF IInv

LEMMA SaveKeeps == ASSUME IInv, Save PROVE IInv'
<1>1. TypeOK /\ faultsLeft \in Nat /\ upSeen \in Nat
  BY DEF IInv, TypeOK
<1>2. /\ UNCHANGED <<now, st, armed, acts, missed, upSeen, stale>>
      /\ file' \in {st, file} /\ faultsLeft' \in Nat /\ pc = "save" /\ pc' = "idle"
  BY <1>1 DEF Save, Fault, NoFault
<1>3. TypeOK'
  BY <1>1, <1>2 DEF TypeOK
<1>4. History' /\ SoundState(st)' /\ SoundState(file)'
  BY <1>2 DEF IInv, History, SoundState
<1>5. Remembered' /\ SinceUp'
  BY <1>2 DEF IInv, Remembered, SinceUp, Recorded, Within
<1>6. BudgetHolds' /\ RestartsAreSpaced' /\ OneRestartPerOutage'
  BY <1>1, <1>2, <1>3, FewerRecorded DEF Recorded
<1> QED
  BY <1>3, <1>4, <1>5, <1>6 DEF IInv

LEMMA LinkUpKeeps == ASSUME IInv, NEW gap \in Gaps, LinkUp(gap) PROVE IInv'
<1>1. /\ TypeOK /\ now \in Nat /\ upSeen \in Nat /\ upSeen <= now /\ 1 <= now
      /\ st \in StateType /\ file \in StateType /\ gap \in Nat /\ gap > 0
  BY WatchdogAssumption DEF IInv, TypeOK, History
<1>2. /\ UNCHANGED <<file, armed, acts, missed, faultsLeft>>
      /\ now' = now + gap /\ upSeen' = now' /\ stale' = FALSE /\ pc = "idle" /\ pc' = "save"
  BY DEF LinkUp, BeginTick
<1>3. /\ st' \in StateType /\ st'.link = "up"
      /\ st'.last_action_at = st.last_action_at /\ st'.action_times = st.action_times
  <2>1. st' = [st EXCEPT !.link = "up", !.down_since = 0, !.consecutive_failures = 0, !.rung = 0]
    BY DEF LinkUp, Never
  <2>2. 0 \in Nat /\ 0 \in 0..RungCount
    BY DEF RungCount
  <2> QED
    BY <1>1, <2>1, <2>2 DEF StateType
<1>4. TypeOK'
  <2>1. now' \in Nat /\ upSeen' \in Nat
    BY <1>1, <1>2
  <2>2. stale' \in BOOLEAN
    BY <1>2
  <2> QED
    BY <1>1, <1>2, <1>3, <2>1, <2>2 DEF TypeOK
<1>5. History'
  BY <1>1, <1>2 DEF IInv, History, TypeOK
<1>6. SoundState(st)' /\ SoundState(file)'
  BY <1>1, <1>2, <1>3 DEF IInv, SoundState, StateType
<1>7. Remembered'
  <2> SUFFICES ASSUME NEW u \in Recorded, now' - u < BudgetWindow  PROVE u \in st.action_times
    BY <1>2, <1>3 DEF Remembered, Within, Recorded
  <2>1. now - u < BudgetWindow
    BY <1>1, <1>2, WatchdogAssumption DEF Recorded, TypeOK
  <2> QED
    BY <1>2, <2>1 DEF IInv, Remembered, Within
<1>8. SinceUp'
  BY <1>3 DEF SinceUp
<1>9. BudgetHolds' /\ RestartsAreSpaced' /\ OneRestartPerOutage'
  BY <1>1, <1>2, <1>4, FewerRecorded DEF Recorded
<1> QED
  BY <1>4, <1>5, <1>6, <1>7, <1>8, <1>9 DEF IInv

LEMMA QuietKeeps ==
  ASSUME IInv, NEW gap \in Gaps, NEW reading \in Readings,
         \/ LinkFails(gap) \/ BackOff(gap) \/ HoldBack(gap, reading)
         \/ Exhausted(gap, reading) \/ DryRun(gap, reading)
  PROVE  IInv'
<1>1. TypeOK /\ now \in Nat /\ 1 <= now /\ upSeen \in Nat
  BY DEF IInv, TypeOK, History
<1>2. /\ now' \in Nat /\ now < now' /\ pc = "idle" /\ pc' = "save"
      /\ Round(st, st', now')
      /\ UNCHANGED <<file, armed, acts, missed, upSeen, stale, faultsLeft>>
  BY <1>1, QuietTick
<1>3. Recorded' = Recorded /\ now' \notin Recorded'
  BY <1>1, <1>2 DEF Recorded, IInv, History
<1>4. SoundState(st)' /\ SoundState(file)' /\ Remembered' /\ SinceUp'
  BY <1>2, <1>3, RoundKeeps DEF IInv
<1>5. TypeOK'
  BY <1>1, <1>2 DEF TypeOK, Round
<1>6. History'
  BY <1>1, <1>2 DEF IInv, History, TypeOK
<1>7. BudgetHolds' /\ RestartsAreSpaced' /\ OneRestartPerOutage'
  BY <1>1, <1>2, <1>3, <1>5, FewerRecorded
<1> QED
  BY <1>4, <1>5, <1>6, <1>7 DEF IInv

LEMMA AttemptKeeps ==
  ASSUME IInv, NEW gap \in Gaps, NEW reading \in Readings, NEW outcome,
         Attempt(gap, reading, outcome)
  PROVE  IInv'
<1>1. /\ TypeOK /\ now \in Nat /\ 1 <= now /\ upSeen \in Nat /\ upSeen <= now
      /\ acts \subseteq Nat /\ missed \subseteq acts /\ now \in Nat
      /\ \A u \in acts : 1 <= u /\ u <= now
  BY DEF IInv, TypeOK, History
<1>2. /\ now' \in Nat /\ now < now' /\ pc = "idle" /\ pc' \in {"idle", "save"}
      /\ Round(st, st', now')
      /\ UNCHANGED <<file, armed, upSeen, stale>> /\ faultsLeft' \in Nat
  BY <1>1, AttemptTick
<1>3. CASE acts' = acts /\ missed' = missed
  <2>1. Recorded' = Recorded /\ now' \notin Recorded'
    BY <1>1, <1>2, <1>3 DEF Recorded
  <2>2. SoundState(st)' /\ SoundState(file)' /\ Remembered' /\ SinceUp'
    BY <1>2, <2>1, RoundKeeps DEF IInv
  <2>3. TypeOK'
    BY <1>1, <1>2, <1>3 DEF TypeOK, Round
  <2>4. History'
    BY <1>1, <1>2, <1>3 DEF IInv, History, TypeOK
  <2>5. BudgetHolds' /\ RestartsAreSpaced' /\ OneRestartPerOutage'
    BY <1>1, <1>2, <1>3, <2>1, <2>3, FewerRecorded
  <2> QED
    BY <2>2, <2>3, <2>4, <2>5 DEF IInv
<1>4. CASE /\ acts' = acts \cup {now'} /\ st.rung = 0
           /\ RestedFor(st, now', SettleAfterAction) /\ ~Spent(st, now')
           /\ \/ missed' = missed /\ now' \in st'.action_times
              \/ missed' = missed \cup {now'}
  <2>1. /\ Recorded' \subseteq Recorded \cup {now'}
        /\ now' \in Recorded' => now' \in st'.action_times
    BY <1>1, <1>2, <1>4 DEF Recorded
  <2>2. SoundState(st)' /\ SoundState(file)' /\ Remembered' /\ SinceUp'
    BY <1>2, <2>1, RoundKeeps DEF IInv
  <2>3. TypeOK'
    BY <1>1, <1>2, <1>4 DEF TypeOK, Round
  <2>4. History'
    <3>1. \A u \in acts \cup {now'} : 1 <= u /\ u <= now'
      BY <1>1, <1>2
    <3>2. missed' \subseteq acts \cup {now'}
      BY <1>1, <1>4
    <3> QED
      BY <1>1, <1>2, <1>4, <3>1, <3>2 DEF History
  <2>5. BudgetHolds' /\ RestartsAreSpaced' /\ OneRestartPerOutage'
    BY <1>2, <1>4, <2>3, OneMoreRestart
  <2> QED
    BY <2>2, <2>3, <2>4, <2>5 DEF IInv
<1> QED
  BY <1>1, <1>3, <1>4, AttemptTick

LEMMA NextIInv == IInv /\ [Next]_vars => IInv'
<1> SUFFICES ASSUME IInv, [Next]_vars PROVE IInv'
  OBVIOUS
<1>1. CASE Start
  BY <1>1, StartKeeps
<1>2. CASE Kill
  BY <1>2, KillKeeps
<1>3. CASE RecoverUnseen
  BY <1>3, RecoverUnseenKeeps
<1>4. CASE Save
  BY <1>4, SaveKeeps
<1>5. CASE Tick
  <2>1. PICK gap \in Gaps :
          \/ LinkUp(gap) \/ LinkFails(gap) \/ BackOff(gap)
          \/ \E reading \in Readings :
               \/ HoldBack(gap, reading) \/ Exhausted(gap, reading) \/ DryRun(gap, reading)
               \/ \E outcome \in Outcomes(0) \cup Outcomes(1) : Attempt(gap, reading, outcome)
    BY <1>5 DEF Tick
  <2>2. CASE LinkUp(gap)
    BY <2>2, LinkUpKeeps
  <2>3. CASE LinkFails(gap) \/ BackOff(gap)
    <3>1. [lan |-> "none", cause |-> "unknown"] \in Readings
      BY DEF Readings
    <3> QED
      BY <2>3, <3>1, QuietKeeps
  <2>4. CASE \E reading \in Readings : HoldBack(gap, reading) \/ Exhausted(gap, reading)
                                     \/ DryRun(gap, reading)
    BY <2>4, QuietKeeps
  <2>5. CASE \E reading \in Readings, outcome \in Outcomes(0) \cup Outcomes(1) :
               Attempt(gap, reading, outcome)
    BY <2>5, AttemptKeeps
  <2> QED
    BY <2>1, <2>2, <2>3, <2>4, <2>5
<1>6. CASE UNCHANGED vars
  BY <1>6 DEF vars, IInv, TypeOK, History, SoundState, Remembered, SinceUp, Recorded, Within,
              InWindow, BudgetHolds, RestartsAreSpaced, OneRestartPerOutage
<1> QED
  BY <1>1, <1>2, <1>3, <1>4, <1>5, <1>6 DEF Next

LEMMA Invariance == Spec => []IInv
  BY InitIInv, NextIInv, PTL DEF Spec

----------------------------------------------------------------------------
(* The results.                                                            *)

\* The watchdog's variables keep their types (State and its file included).
THEOREM TypeCorrect == Spec => []TypeOK
<1>1. IInv => TypeOK
  BY DEF IInv
<1> QED
  BY <1>1, Invariance, PTL

\* For every budget, window, ladder timing and fault: no window holds more recorded
\* restarts of the router than the budget (budget_spent, State.save, State.load).
THEOREM BudgetIsKept == Spec => []BudgetHolds
<1>1. IInv => BudgetHolds
  BY DEF IInv
<1> QED
  BY <1>1, Invariance, PTL

\* Recorded restarts are at least settle_after_action apart.
THEOREM SpacingIsKept == Spec => []RestartsAreSpaced
<1>1. IInv => RestartsAreSpaced
  BY DEF IInv
<1> QED
  BY <1>1, Invariance, PTL

\* Within a budget window one outage sees one recorded restart.
THEOREM OutageGetsOneRestart == Spec => []OneRestartPerOutage
<1>1. IInv => OneRestartPerOutage
  BY DEF IInv
<1> QED
  BY <1>1, Invariance, PTL

\* The two facts about times the last theorems need.
LEMMA LongDown ==
  ASSUME NEW t \in Nat, NEW up \in Nat, NEW down \in Nat, NEW k \in Nat,
         up < down, t - down >= k
  PROVE  t - up > k
  OBVIOUS

LEMMA YoungerBefore ==
  ASSUME NEW t \in Nat, NEW later \in Nat, NEW u \in Nat, NEW w \in Nat,
         t <= later, later - u < w
  PROVE  t - u < w
  OBVIOUS

\* No step restarts the router sooner than first_action_after after the link was last up,
\* unless the process was started on a state that had missed that.
THEOREM PatienceIsKept == Spec => NeverHasty
<1>1. ASSUME IInv, [Next]_vars PROVE acts' # acts => stale \/ now' - upSeen > FirstActionAfter
  <2> SUFFICES ASSUME acts' # acts, ~stale PROVE now' - upSeen > FirstActionAfter
    OBVIOUS
  <2>1. PICK gap \in Gaps, reading \in Readings, outcome \in Outcomes(0) \cup Outcomes(1) : Attempt(gap, reading, outcome)
    BY <1>1 DEF vars, Next, Start, Kill, RecoverUnseen, Save, Tick, LinkUp, LinkFails, BackOff,
                HoldBack, Exhausted, DryRun, Conclude
  <2>2. /\ now' \in Nat /\ now < now' /\ pc = "idle"
        /\ DeclaredDown(Failed(st, now'))
        /\ DownFor(Failed(st, now'), now') >= FirstActionAfter
    BY <1>1, <2>1, AttemptTick DEF IInv
  <2>3. /\ now \in Nat /\ upSeen \in Nat /\ upSeen <= now /\ st \in StateType
        /\ FirstActionAfter \in Nat
    BY <1>1, WatchdogAssumption DEF IInv, TypeOK, History
  <2> DEFINE f == Failed(st, now')
  <2>4. /\ f \in StateType
        /\ \/ f.link = st.link /\ f.down_since = st.down_since
           \/ f.link = "down" /\ f.down_since = now'
        /\ f.link = "down"
    BY <2>2, <2>3, FailedRound
  <2> HIDE DEF f
  <2>5. upSeen < f.down_since /\ f.down_since \in Nat
    <3>1. st.link = "down" => upSeen < st.down_since
      BY <1>1, <2>2 DEF IInv, SinceUp
    <3> QED
      BY <2>2, <2>3, <2>4, <3>1 DEF StateType
  <2>6. now' - f.down_since >= FirstActionAfter
    <3>1. DownFor(f, now') >= FirstActionAfter
      BY <2>2 DEF f
    <3>2. f.down_since # 0
      BY <2>3, <2>5
    <3> QED
      BY <3>1, <3>2 DEF DownFor, Never
  <2> QED
    BY ONLY <2>2, <2>3, <2>5, <2>6, LongDown
<1> QED
  BY <1>1, Invariance, PTL DEF Spec, NeverHasty

\* Without the faults that lose a charge, the file of a stopped process knows every
\* restart still in the window, nothing is ever missed, and the documentation is right.
Saved == missed = {} /\ (pc # "save" => Within(acts, now) \subseteq file.action_times)

LEMMA SavedInductive ==
  ASSUME Faults \cap {"raise", "kill", "save", "corrupt"} = {}, IInv, Saved, [Next]_vars
  PROVE  Saved'
<1>1. /\ now \in Nat /\ acts \subseteq Nat /\ Recorded = acts /\ TypeOK
      /\ BudgetWindow \in Nat
  BY WatchdogAssumption DEF IInv, TypeOK, Recorded, Saved
<1>2. ASSUME now' \in Nat, now <= now', acts' = acts, missed' = missed, file' = file, pc # "save"
      PROVE  Saved'
  <2> SUFFICES ASSUME NEW u \in acts, now' - u < BudgetWindow PROVE u \in file.action_times
    BY <1>2 DEF Saved, Within
  <2>1. u \in Nat /\ now' \in Nat /\ now <= now' /\ now' - u < BudgetWindow
    BY <1>1, <1>2
  <2>2. now - u < BudgetWindow
    BY ONLY <1>1, <2>1, YoungerBefore
  <2> QED
    BY <1>2, <2>2 DEF Saved, Within
<1>3. CASE Start
  BY <1>3 DEF Start, Fault, Saved, Within
<1>4. CASE Kill \/ RecoverUnseen
  BY <1>4 DEF Kill, RecoverUnseen, Fault, Saved, Within
<1>5. CASE Save
  BY <1>1, <1>5 DEF Save, Fault, Saved, IInv, Remembered, Within
<1>6. CASE Tick
  <2>1. PICK gap \in Gaps : BeginTick(gap) /\ (pc' = "save" \/ pc' = "idle") /\ file' = file
    BY <1>6 DEF Tick, LinkUp, LinkFails, BackOff, HoldBack, Exhausted, DryRun, Attempt,
                Escalates, BeginTick, Conclude
  <2>2. now' \in Nat /\ now <= now' /\ pc = "idle"
    BY <1>1, <2>1, WatchdogAssumption DEF BeginTick
  <2>3. missed' = missed /\ (pc' = "save" \/ acts' = acts)
    BY <1>6 DEF Tick, LinkUp, LinkFails, BackOff, HoldBack, Exhausted, DryRun, Attempt,
                Conclude, Fault
  <2>4. CASE pc' = "save"
    BY <2>3, <2>4 DEF Saved
  <2>5. CASE acts' = acts
    BY <1>2, <2>1, <2>2, <2>3, <2>5
  <2> QED
    BY <2>3, <2>4, <2>5
<1>7. CASE UNCHANGED vars
  BY <1>7 DEF vars, Saved, Within
<1> QED
  BY <1>3, <1>4, <1>5, <1>6, <1>7 DEF Next

\* "A rolling action budget prevents the restart loop" holds, for every value of the
\* constants, when no fault loses a charge; the link may do what it likes.
THEOREM LoopPreventedWithoutFaults ==
  ASSUME Faults \cap {"raise", "kill", "save", "corrupt"} = {}
  PROVE  Spec => []RestartLoopPrevented
<1>1. Init => Saved
  BY DEF Init, Saved, Within
<1>2. IInv /\ Saved /\ [Next]_vars => Saved'
  BY SavedInductive
<1>3. IInv /\ Saved => RestartLoopPrevented
  BY DEF IInv, Saved, BudgetHolds, RestartLoopPrevented, Recorded
<1> QED
  BY <1>1, <1>2, <1>3, Invariance, PTL DEF Spec

\* The restarts of the window that neither the file nor missed knows of, and how many there may
\* be: one for each fault so far, and that of a tick which is still to be saved.
Unsaved == Within(Recorded, now) \ file.action_times
Used == MaxFaults - faultsLeft
Few ==
  /\ faultsLeft <= MaxFaults
  /\ Cardinality(Unsaved) <= Used + (IF pc = "save" THEN 1 ELSE 0)

LEMMA UnsavedIsFinite ==
  ASSUME TypeOK, History
  PROVE  IsFiniteSet(Unsaved) /\ Cardinality(Unsaved) \in Nat
<1>1. Unsaved \in SUBSET acts
  BY DEF Unsaved, Within, Recorded
<1> QED
  BY <1>1, FinitePast, FS_Subset, FS_CardinalityType

\* A step that adds nothing to Unsaved keeps Few, if it does not use up a tick's allowance.
LEMMA FewerUnsaved ==
  ASSUME IInv, Few, Unsaved' \subseteq Unsaved, faultsLeft' \in Nat,
         \/ faultsLeft' = faultsLeft /\ (pc' = "save" \/ pc # "save")
         \/ faultsLeft' = faultsLeft - 1
  PROVE  Few'
<1>1. /\ Cardinality(Unsaved) \in Nat /\ faultsLeft \in Nat /\ MaxFaults \in Nat
      /\ IsFiniteSet(Unsaved)
  BY UnsavedIsFinite, WatchdogAssumption DEF IInv, TypeOK
<1>2. Unsaved' \in SUBSET Unsaved
  OBVIOUS
<1>3. Cardinality(Unsaved') \in Nat /\ Cardinality(Unsaved') <= Cardinality(Unsaved)
  BY <1>1, <1>2, FS_Subset, FS_CardinalityType
<1> QED
  BY <1>1, <1>3 DEF Few, Used

\* Time passes: what is in the window now was in it before.
LEMMA UnsavedShrinks ==
  ASSUME IInv, now' \in Nat, now <= now', file' = file, NEW more, more \subseteq {now'},
         Recorded' \subseteq Recorded \cup more
  PROVE  Unsaved' \subseteq Unsaved \cup more
<1> SUFFICES ASSUME NEW u \in Recorded', now' - u < BudgetWindow, u \notin file.action_times,
                    u \notin more
             PROVE  u \in Unsaved
  BY DEF Unsaved, Within
<1>1. u \in Recorded /\ u \in Nat /\ now \in Nat /\ BudgetWindow \in Nat
  BY WatchdogAssumption DEF IInv, TypeOK, Recorded
<1>2. now - u < BudgetWindow
  BY ONLY <1>1, now' \in Nat, now <= now', now' - u < BudgetWindow, YoungerBefore
<1> QED
  BY <1>1, <1>2 DEF Unsaved, Within

LEMMA FewStart == ASSUME IInv, Few, Start PROVE Few'
<1>1. /\ pc = "off" /\ pc' = "idle" /\ faultsLeft \in Nat /\ MaxFaults \in Nat
      /\ UNCHANGED <<now, file, acts>> /\ missed \subseteq missed'
      /\ faultsLeft' \in Nat /\ faultsLeft' \in {faultsLeft, faultsLeft - 1}
  BY WatchdogAssumption DEF Start, Fault, NoFault, IInv, TypeOK
<1>2. Unsaved' \subseteq Unsaved
  BY <1>1 DEF Unsaved, Within, Recorded
<1> QED
  BY <1>1, <1>2, FewerUnsaved

LEMMA FewKill == ASSUME IInv, Few, Kill \/ RecoverUnseen PROVE Few'
<1>1. /\ UNCHANGED <<now, file, acts, missed>>
      /\ faultsLeft' \in Nat /\ faultsLeft \in Nat
      /\ \/ faultsLeft' = faultsLeft /\ pc # "save"
         \/ faultsLeft' = faultsLeft - 1
  BY DEF Kill, RecoverUnseen, Fault, NoFault, IInv, TypeOK
<1>2. Unsaved' \subseteq Unsaved
  BY <1>1 DEF Unsaved, Within, Recorded
<1> QED
  BY <1>1, <1>2, FewerUnsaved

\* A save that succeeds leaves nothing unsaved: the state remembers the whole window.
LEMMA FewSave == ASSUME IInv, Few, Save PROVE Few'
<1>1. /\ UNCHANGED <<now, st, acts, missed>> /\ pc = "save" /\ pc' = "idle"
      /\ faultsLeft \in Nat /\ MaxFaults \in Nat
  BY WatchdogAssumption DEF Save, IInv, TypeOK
<1>2. CASE file' = st /\ NoFault
  <2>1. Unsaved' = {}
    BY <1>1, <1>2 DEF Unsaved, Within, Recorded, IInv, Remembered
  <2>2. Cardinality(Unsaved') = 0
    BY <2>1, FS_EmptySet
  <2> QED
    BY <1>1, <1>2, <2>2 DEF Few, Used, NoFault
<1>3. CASE UNCHANGED file /\ Fault("save")
  <2>1. Unsaved' \subseteq Unsaved
    BY <1>1, <1>3 DEF Unsaved, Within, Recorded
  <2>2. faultsLeft' = faultsLeft - 1 /\ faultsLeft' \in Nat
    BY <1>1, <1>3 DEF Fault
  <2> QED
    BY <2>1, <2>2, FewerUnsaved
<1> QED
  BY <1>2, <1>3 DEF Save

\* A tick that does not act, or whose action raises, leaves no more unsaved; one that acts, one more.
LEMMA FewTick == ASSUME IInv, Few, Tick PROVE Few'
<1>1. PICK gap \in Gaps : BeginTick(gap)
  BY DEF Tick, LinkUp, LinkFails, BackOff, HoldBack, Exhausted, DryRun, Attempt, Escalates
<1>2. /\ now' \in Nat /\ now <= now' /\ pc = "idle" /\ now \in Nat
      /\ faultsLeft \in Nat /\ MaxFaults \in Nat
  BY <1>1, WatchdogAssumption DEF BeginTick, IInv, TypeOK
<1>3. /\ file' = file /\ faultsLeft' \in Nat
      /\ \/ acts' = acts /\ missed' = missed /\ faultsLeft' = faultsLeft
         \/ acts' = acts \cup {now'} /\ missed' = missed \cup {now'} /\ faultsLeft' = faultsLeft - 1
         \/ /\ acts' = acts \cup {now'} /\ missed' = missed /\ faultsLeft' = faultsLeft
            /\ pc' = "save"
  <2>1. CASE \E g \in Gaps, reading \in Readings, outcome \in Outcomes(0) \cup Outcomes(1) :
               Attempt(g, reading, outcome)
    <3>1. PICK g \in Gaps, reading \in Readings, outcome \in Outcomes(0) \cup Outcomes(1) :
            Attempt(g, reading, outcome)
      BY <2>1
    <3>2. /\ file' = file
          /\ acts' = IF outcome \in {"restarted", "raised"} THEN acts \cup {now'} ELSE acts
          /\ missed' = IF outcome = "raised" THEN missed \cup {now'} ELSE missed
          /\ IF outcome = "raised" THEN Fault("raise") ELSE NoFault
          /\ outcome \notin {"rejected", "raised"} => pc' = "save"
      BY <3>1 DEF Attempt
    <3> QED
      BY <1>2, <3>2 DEF Fault, NoFault
  <2>2. CASE ~\E g \in Gaps, reading \in Readings, outcome \in Outcomes(0) \cup Outcomes(1) :
               Attempt(g, reading, outcome)
    BY <1>2, <2>2 DEF Tick, LinkUp, LinkFails, BackOff, HoldBack, Exhausted, DryRun, Conclude
  <2> QED
    BY <2>1, <2>2
<1>4. CASE Recorded' \subseteq Recorded /\ faultsLeft' \in {faultsLeft, faultsLeft - 1}
  <2>1. Unsaved' \subseteq Unsaved \cup {}
    BY <1>2, <1>3, <1>4, UnsavedShrinks
  <2> QED
    BY <1>2, <1>3, <1>4, <2>1, FewerUnsaved
<1>5. CASE /\ acts' = acts \cup {now'} /\ missed' = missed /\ faultsLeft' = faultsLeft
           /\ pc' = "save"
  <2>1. Unsaved' \subseteq Unsaved \cup {now'}
    <3>1. Recorded' \subseteq Recorded \cup {now'}
      BY <1>5 DEF Recorded
    <3> QED
      BY <1>2, <1>3, <3>1, UnsavedShrinks
  <2>2. /\ IsFiniteSet(Unsaved) /\ Cardinality(Unsaved) \in Nat
    BY UnsavedIsFinite DEF IInv
  <2>3. /\ IsFiniteSet(Unsaved \cup {now'})
        /\ Cardinality(Unsaved \cup {now'}) \in Nat
        /\ Cardinality(Unsaved \cup {now'}) <= Cardinality(Unsaved) + 1
    <3>1. /\ IsFiniteSet(Unsaved \cup {now'})
          /\ Cardinality(Unsaved \cup {now'}) =
               IF now' \in Unsaved THEN Cardinality(Unsaved) ELSE Cardinality(Unsaved) + 1
      BY <2>2, FS_AddElement
    <3> QED
      BY <2>2, <3>1
  <2>4. /\ Cardinality(Unsaved') \in Nat
        /\ Cardinality(Unsaved') <= Cardinality(Unsaved \cup {now'})
    BY <2>1, <2>3, FS_Subset, FS_CardinalityType
  <2> QED
    BY <1>2, <1>5, <2>2, <2>3, <2>4 DEF Few, Used
<1>6. acts' = acts \cup {now'} /\ missed' = missed \cup {now'} => Recorded' \subseteq Recorded
  BY DEF Recorded
<1> QED
  BY <1>3, <1>4, <1>5, <1>6 DEF Recorded

\* However often the process is stopped, a start that reads the file back forgets no more restarts
\* of the router than there were faults.
THEOREM FaultsForgetOneEach == Spec => AFaultForgetsOneRestart
<1>1. Init => Few
  <2> SUFFICES ASSUME Init PROVE Few
    OBVIOUS
  <2>1. Unsaved = {} /\ faultsLeft = MaxFaults /\ pc = "off" /\ MaxFaults \in Nat
    BY WatchdogAssumption DEF Init, Unsaved, Within, Recorded
  <2>2. Cardinality(Unsaved) = 0
    BY <2>1, FS_EmptySet
  <2> QED
    BY <2>1, <2>2 DEF Few, Used
<1>2. IInv /\ Few /\ [Next]_vars => Few'
  <2>1. IInv /\ Few /\ UNCHANGED vars => Few'
    BY DEF vars, Few, Used, Unsaved, Within, Recorded
  <2> QED
    BY <2>1, FewStart, FewKill, FewSave, FewTick DEF Next
<1>3. ASSUME IInv, Few, [Next]_vars, pc = "off", st' = file
      PROVE  Cardinality(missed' \ missed) <= MaxFaults - faultsLeft
  <2>1. missed' \ missed \in SUBSET Unsaved
    <3>1. CASE Start
      BY <1>3, <3>1 DEF Start, Unsaved, Within, Recorded
    <3>2. CASE ~Start
      BY <1>3, <3>2 DEF Next, Kill, RecoverUnseen, Save, Tick, LinkUp, LinkFails, BackOff,
                        HoldBack, Exhausted, DryRun, Attempt, Escalates, BeginTick, vars
    <3> QED
      BY <3>1, <3>2
  <2>2. IsFiniteSet(Unsaved) /\ Cardinality(Unsaved) \in Nat
    BY <1>3, UnsavedIsFinite DEF IInv
  <2>3. /\ Cardinality(missed' \ missed) \in Nat
        /\ Cardinality(missed' \ missed) <= Cardinality(Unsaved)
    BY <2>1, <2>2, FS_Subset, FS_CardinalityType
  <2>4. Cardinality(Unsaved) <= MaxFaults - faultsLeft
        /\ faultsLeft \in Nat /\ MaxFaults \in Nat
    BY <1>3, WatchdogAssumption DEF Few, Used, IInv, TypeOK
  <2> QED
    BY <2>2, <2>3, <2>4
<1> QED
  BY <1>1, <1>2, <1>3, Invariance, PTL DEF Spec, AFaultForgetsOneRestart
=============================================================================
