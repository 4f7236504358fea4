--------------------------- MODULE MachineProofs ---------------------------
(***************************************************************************)
(* What the two programs that talk to the machines guarantee, for every    *)
(* fleet, every list of pools and every threshold: MinerControl, which      *)
(* gives commands, and Collector, which reads.                             *)
(*                                                                         *)
(* MinerControl rests on                                                   *)
(*   - what an insertion that may fail half way leaves of a list: its rows *)
(*     from the first one on (InsertedIsAStart);                           *)
(*   - a count: the restarts carried out and the jobs that may still       *)
(*     restart a machine are together no more than were asked for          *)
(*     (RestartsCounted).                                                  *)
(* Collector rests on                                                      *)
(*   - between reading and finishing, the labels of the polled machines    *)
(*     are those of the list the pass works on (Labelled);                 *)
(*   - a machine that shows a reading has, under the label it shows it     *)
(*     under, a streak at least as long as it has been dark (Counted), so  *)
(*     the code's threshold on streaks bounds the darkness;                *)
(*   - a pass works on the list the process holds (Working), and a process *)
(*     that was just started shows nothing (Bare);                         *)
(*   - a list counts as fresh only after the backend answered (Asked).     *)
(***************************************************************************)
EXTENDS Collector, MinerControl, FiniteSetTheorems, SequenceTheorems, WellFoundedInduction, TLAPS

-----------------------------------------------------------------------------
(* MinerControl.                                                           *)

\* What an insertion may leave of a list: nothing, or its pools from the first one on.
LEMMA InsertedIsAStart ==
  ASSUME NEW lines \in Seq(Row)
  PROVE  /\ Inserted(lines) \subseteq Row
         /\ Inserted(lines) # {} => \E n \in 1..Len(lines) : Inserted(lines) = ToSet(SubSeq(lines, 1, n))
<1> DEFINE clear == {k \in 0..Len(lines) : ClashFree(SubSeq(lines, 1, k))}
           start(k) == ToSet(SubSeq(lines, 1, k))
<1>1. Len(lines) \in Nat
  OBVIOUS
<1>2. \A k \in 0..Len(lines) : start(k) = {lines[i] : i \in 1..k}
  <2>1. SUFFICES ASSUME NEW k \in 0..Len(lines) PROVE start(k) = {lines[i] : i \in 1..k}
    OBVIOUS
  <2>2. /\ SubSeq(lines, 1, k) \in Seq(Row) /\ Len(SubSeq(lines, 1, k)) = k
        /\ \A i \in 1..k : SubSeq(lines, 1, k)[i] = lines[i]
    BY <1>1, SubSeqProperties
  <2>3. DOMAIN SubSeq(lines, 1, k) = 1..k
    BY <2>2
  <2> QED BY <2>2, <2>3 DEF ToSet
<1>3. Inserted(lines) = UNION {start(k) : k \in clear}
  BY DEF Inserted
<1>4. 0 \in clear
  <2>1. Len(SubSeq(lines, 1, 0)) = 0
    BY <1>1, SubSeqProperties
  <2> QED BY <1>1, <2>1 DEF ClashFree
<1>5. \E n \in clear : \A k \in clear : k <= n
  <2> DEFINE rest == {Len(lines) - k : k \in clear}
  <2>1. rest \subseteq Nat /\ rest # {}
    BY <1>1, <1>4
  <2>2. PICK r \in rest : \A s \in rest : <<s, r>> \notin OpToRel(<, Nat)
    BY <2>1, NatLessThanWellFounded, WFMin
  <2>3. PICK n \in clear : r = Len(lines) - n
    OBVIOUS
  <2>4. \A k \in clear : k <= n
    <3>1. SUFFICES ASSUME NEW k \in clear PROVE k <= n
      OBVIOUS
    <3>2. Len(lines) - k \in Nat /\ Len(lines) - n \in Nat /\ k \in Nat /\ n \in Nat
      BY <1>1
    <3>3. ~(Len(lines) - k < Len(lines) - n)
      BY <2>2, <2>3, <3>2 DEF OpToRel
    <3> QED BY <1>1, <3>2, <3>3
  <2> QED BY <2>4
<1>6. PICK n \in clear : \A k \in clear : k <= n
  BY <1>5
<1> HIDE DEF start
<1>7. Inserted(lines) = start(n)
  <2>1. \A k \in clear : start(k) \subseteq start(n)
    BY <1>1, <1>2, <1>6
  <2> QED BY <1>3, <1>6, <2>1
<1>8. Inserted(lines) = {lines[i] : i \in 1..n}
  BY <1>2, <1>7
<1>9. ASSUME Inserted(lines) # {} PROVE n \in 1..Len(lines)
  BY <1>1, <1>8, <1>9
<1> QED BY <1>7, <1>8, <1>9 DEF start

LEMMA NumberedIsRows ==
  ASSUME NEW pools \in Configs
  PROVE  Numbered(pools) \in Seq(Row)
<1>1. pools \in Seq(PoolEntries)
  BY PoolListsAssumption
<1>2. Len(pools) \in Nat /\ \A i \in 1..Len(pools) : [pool |-> pools[i], priority |-> i - 1] \in Row
  BY <1>1 DEF Row
<1> QED BY <1>2 DEF Numbered

-----------------------------------------------------------------------------
(* Types.                                                                  *)

Tasks(legs) == UNION {[ids -> legs \cup Finals] : ids \in SUBSET Machines}
Undecided == {"token", "restart"}
RebootJobs == [kind : {"reboot"}, tasks : Tasks(Undecided)]
UpdateJobs == [kind : {"update"}, pools : Configs, tasks : Tasks({"post"})]
ReadJobs == [kind : {"read"}, miner : Machines, method : Nat, save : BOOLEAN]
Jobs == RebootJobs \cup UpdateJobs \cup ReadJobs

ControlTyped ==
  /\ configured \subseteq Machines /\ hardware \in [Machines -> Configs]
  /\ rows \in [Machines -> SUBSET Row] /\ given \in [Machines -> SUBSET Seq(Row)]
  /\ jobs \in [Slots -> Jobs \cup {Nothing}]
  /\ asked \in [Machines -> Nat] /\ restarted \in [Machines -> Nat]

\* One task of a job takes another state, and stays of its kind.
LEMMA TasksTyped ==
  ASSUME NEW legs, NEW tasks \in Tasks(legs), NEW m \in DOMAIN tasks, NEW state \in legs \cup Finals
  PROVE  /\ DOMAIN tasks \subseteq Machines
         /\ [tasks EXCEPT ![m] = state] \in Tasks(legs)
         /\ DOMAIN [tasks EXCEPT ![m] = state] = DOMAIN tasks
         /\ \A t \in DOMAIN tasks :
              [tasks EXCEPT ![m] = state][t] = IF t = m THEN state ELSE tasks[t]
<1>1. PICK ids \in SUBSET Machines : tasks \in [ids -> legs \cup Finals]
  BY DEF Tasks
<1>2. [tasks EXCEPT ![m] = state] \in [ids -> legs \cup Finals]
  BY <1>1
<1> QED BY <1>1, <1>2 DEF Tasks

\* A task that ends leaves its job of its kind with the other tasks as they were, or no job.
LEMMA TaskEndsTyped ==
  ASSUME ControlTyped, NEW h \in Slots, NEW m, NEW leg \in {"token", "restart", "post"},
         Doing(h, m, leg), NEW state \in Undecided \cup Finals, leg = "post" => state \in Finals,
         TaskEnds(h, m, state)
  PROVE  /\ jobs' \in [Slots -> Jobs \cup {Nothing}]
         /\ \A g \in Slots \ {h} : jobs'[g] = jobs[g]
         /\ m \in Machines
         /\ leg = "post" => jobs[h] \in UpdateJobs
         /\ leg # "post" => jobs[h] \in RebootJobs
         /\ jobs'[h] = Nothing \/
              /\ jobs'[h].kind = jobs[h].kind
              /\ jobs'[h].tasks = [jobs[h].tasks EXCEPT ![m] = state]
<1>1. /\ jobs[h] # Nothing /\ jobs[h] \in Jobs /\ jobs[h].kind # "read"
      /\ m \in DOMAIN jobs[h].tasks /\ jobs[h].tasks[m] = leg
  BY DEF Doing, Free, ControlTyped
<1> DEFINE J == jobs[h]
           tasks == [J.tasks EXCEPT ![m] = state]
           next == [J EXCEPT !.tasks = tasks]
<1>2. jobs' = [jobs EXCEPT ![h] = Nothing] \/ jobs' = [jobs EXCEPT ![h] = next]
  BY DEF TaskEnds, Job
<1>3. CASE J \in RebootJobs
  <2>1. J.kind = "reboot" /\ J.tasks \in Tasks(Undecided)
    BY <1>3 DEF RebootJobs
  <2>2. tasks \in Tasks(Undecided) /\ m \in Machines /\ leg \in Undecided \cup Finals
    <3>1. PICK ids \in SUBSET Machines : J.tasks \in [ids -> Undecided \cup Finals]
      BY <2>1 DEF Tasks
    <3> QED BY <1>1, <2>1, <3>1, TasksTyped
  <2> HIDE DEF tasks
  <2>3. next \in RebootJobs /\ next.kind = J.kind /\ next.tasks = tasks
    BY <1>3, <2>2 DEF RebootJobs
  <2>4. leg # "post"
    BY <2>2 DEF Undecided, Finals
  <2> HIDE DEF next
  <2> QED BY <1>2, <1>3, <2>2, <2>3, <2>4 DEF ControlTyped, Jobs, tasks
<1>4. CASE J \in UpdateJobs
  <2>1. J.kind = "update" /\ J.tasks \in Tasks({"post"})
    BY <1>4 DEF UpdateJobs
  <2>2. PICK ids \in SUBSET Machines : J.tasks \in [ids -> {"post"} \cup Finals]
    BY <2>1 DEF Tasks
  <2>3. leg = "post" /\ state \in {"post"} \cup Finals
    BY <1>1, <2>2 DEF Finals
  <2>4. tasks \in Tasks({"post"}) /\ m \in Machines
    BY <1>1, <2>1, <2>2, <2>3, TasksTyped
  <2> HIDE DEF tasks
  <2>5. next \in UpdateJobs /\ next.kind = J.kind /\ next.tasks = tasks
    BY <1>4, <2>4 DEF UpdateJobs
  <2> HIDE DEF next
  <2> QED BY <1>2, <1>4, <2>3, <2>4, <2>5 DEF ControlTyped, Jobs, tasks
<1> QED BY <1>1, <1>3, <1>4 DEF Jobs, ReadJobs

\* What setMinerPools leaves is typed.
LEMMA StoredIsTyped ==
  ASSUME ControlTyped, NEW m, NEW lines \in Seq(Row), setMinerPools(m, lines)
  PROVE  rows' \in [Machines -> SUBSET Row] /\ given' \in [Machines -> SUBSET Seq(Row)]
<1>1. Inserted(lines) \subseteq Row
  BY InsertedIsAStart
<1>2. CASE m \notin configured
  BY <1>2 DEF setMinerPools, table, ControlTyped
<1>3. CASE m \in configured
  <2>1. /\ rows' = [rows EXCEPT ![m] = Inserted(lines)]
        /\ given' = [given EXCEPT ![m] = given[m] \cup {lines}]
    BY <1>3 DEF setMinerPools, RowsAfter
  <2>2. Inserted(lines) \in SUBSET Row
    BY <1>1
  <2>3. given[m] \cup {lines} \in SUBSET Seq(Row)
    BY <1>3 DEF ControlTyped
  <2>4. rows' \in [Machines -> SUBSET Row]
    BY <2>1, <2>2 DEF ControlTyped
  <2>5. given' \in [Machines -> SUBSET Seq(Row)]
    BY <2>1, <2>3 DEF ControlTyped
  <2> QED BY <2>4, <2>5
<1> QED BY <1>2, <1>3

LEMMA ControlInitTyped == ASSUME ControlInit PROVE ControlTyped
<1>1. configured \subseteq Machines /\ hardware \in [Machines -> Configs]
  BY DEF ControlInit
<1>2. rows \in [Machines -> SUBSET Row] /\ given \in [Machines -> SUBSET Seq(Row)]
  BY DEF ControlInit
<1>3. jobs \in [Slots -> Jobs \cup {Nothing}]
  BY DEF ControlInit
<1>4. asked \in [Machines -> Nat] /\ restarted \in [Machines -> Nat]
  BY DEF ControlInit
<1> QED BY <1>1, <1>2, <1>3, <1>4 DEF ControlTyped

LEMMA ControlStepTyped == ASSUME ControlTyped, [ControlNext]_controlVars PROVE ControlTyped'
<1>1. ASSUME NEW h \in Slots, NEW job \in Jobs \cup {Nothing}, Job(h, job)
      PROVE  jobs' \in [Slots -> Jobs \cup {Nothing}]
  BY <1>1 DEF Job, ControlTyped
<1>2. ASSUME NEW h \in Slots, RebootRequested(h) PROVE ControlTyped'
  <2>1. PICK ids \in SUBSET Machines :
          /\ Job(h, [kind |-> "reboot", tasks |-> [m \in ids |-> FirstLeg(m)]])
          /\ asked' = [m \in Machines |-> asked[m] + (IF m \in ids THEN 1 ELSE 0)]
    BY <1>2 DEF RebootRequested
  <2>2. [m \in ids |-> FirstLeg(m)] \in [ids -> Undecided \cup Finals]
    BY DEF FirstLeg, Undecided, Finals
  <2>3. [m \in ids |-> FirstLeg(m)] \in Tasks(Undecided)
    BY <2>2 DEF Tasks
  <2>4. [kind |-> "reboot", tasks |-> [m \in ids |-> FirstLeg(m)]] \in Jobs
    BY <2>3 DEF Jobs, RebootJobs
  <2>5. asked' \in [Machines -> Nat]
    BY <2>1 DEF ControlTyped
  <2> QED BY <1>1, <1>2, <2>1, <2>4, <2>5 DEF RebootRequested, ControlTyped, table
<1>3. ASSUME NEW h \in Slots, UpdateRequested(h) PROVE ControlTyped'
  <2>1. PICK ids \in SUBSET Machines, pools \in Configs :
          Job(h, [kind |-> "update", pools |-> pools,
                  tasks |-> [m \in ids |-> IF m \in configured THEN "post" ELSE "failed"]])
    BY <1>3 DEF UpdateRequested
  <2> DEFINE tasks == [m \in ids |-> IF m \in configured THEN "post" ELSE "failed"]
  <2>2. tasks \in [ids -> {"post"} \cup Finals]
    BY DEF Finals
  <2>3. tasks \in Tasks({"post"})
    BY <2>2 DEF Tasks
  <2> HIDE DEF tasks
  <2>4. [kind |-> "update", pools |-> pools, tasks |-> tasks] \in Jobs
    BY <2>3 DEF Jobs, UpdateJobs
  <2>5. Job(h, [kind |-> "update", pools |-> pools, tasks |-> tasks])
    BY <2>1 DEF tasks
  <2> QED BY <1>1, <1>3, <2>4, <2>5 DEF UpdateRequested, ControlTyped, table, restarts
<1>4. ASSUME NEW h \in Slots, ReadRequested(h) PROVE ControlTyped'
  <2>1. PICK m \in configured, save \in BOOLEAN :
          Job(h, [kind |-> "read", miner |-> m, method |-> 1, save |-> save])
    BY <1>4 DEF ReadRequested
  <2>2. [kind |-> "read", miner |-> m, method |-> 1, save |-> save] \in Jobs
    BY DEF Jobs, ReadJobs, ControlTyped
  <2> QED BY <1>1, <1>4, <2>1, <2>2 DEF ReadRequested, ControlTyped, table, restarts
<1>5. CASE AssignmentsEntered
  <2>1. PICK m \in Machines, lines \in Entered : setMinerPools(m, lines)
    BY <1>5 DEF AssignmentsEntered
  <2>2. lines \in Seq(Row)
    BY PoolListsAssumption
  <2> QED BY <1>5, <2>1, <2>2, StoredIsTyped DEF AssignmentsEntered, ControlTyped, restarts
<1>6. ASSUME NEW h \in Slots, NoneFound(h) PROVE ControlTyped'
  BY <1>1, <1>6 DEF NoneFound, ControlTyped, table, restarts
<1>7. ASSUME NEW h \in Slots, NEW m \in Machines, TokenEnds(h, m) PROVE ControlTyped'
  <2>1. PICK state \in {"restart", "failed"} : TaskEnds(h, m, state) /\ Doing(h, m, "token")
    BY <1>7 DEF TokenEnds
  <2>2. state \in Undecided \cup Finals
    BY DEF Undecided, Finals
  <2>3. jobs' \in [Slots -> Jobs \cup {Nothing}]
    BY <2>1, <2>2, TaskEndsTyped
  <2> QED BY <1>7, <2>3 DEF TokenEnds, ControlTyped, table, restarts
<1>8. ASSUME NEW h \in Slots, NEW m \in Machines, RestartEnds(h, m) PROVE ControlTyped'
  <2>1. PICK state \in {"ok", "failed"} : TaskEnds(h, m, state) /\ Doing(h, m, "restart")
    BY <1>8 DEF RestartEnds, RestartFailed
  <2>2. state \in Undecided \cup Finals
    BY DEF Undecided, Finals
  <2>3. jobs' \in [Slots -> Jobs \cup {Nothing}]
    BY <2>1, <2>2, TaskEndsTyped
  <2>4. restarted' \in [Machines -> Nat]
    BY <1>8 DEF RestartEnds, ControlTyped
  <2> QED BY <1>8, <2>3, <2>4 DEF RestartEnds, ControlTyped, table
<1>9. ASSUME NEW h \in Slots, NEW m \in Machines, UpdateEnds(h, m) PROVE ControlTyped'
  <2>1. PICK state \in Finals : TaskEnds(h, m, state) /\ Doing(h, m, "post")
    BY <1>9 DEF UpdateEnds
  <2>2. jobs' \in [Slots -> Jobs \cup {Nothing}] /\ jobs[h] \in UpdateJobs
    BY <2>1, TaskEndsTyped DEF Undecided
  <2>3. jobs[h].pools \in Configs
    BY <2>2 DEF UpdateJobs
  <2>4. hardware' \in [Machines -> Configs]
    BY <1>9, <2>3 DEF UpdateEnds, ControlTyped
  <2> QED BY <1>9, <2>2, <2>4 DEF UpdateEnds, ControlTyped, table, restarts
<1>10. ASSUME NEW h \in Slots, ReadDone(h) PROVE ControlTyped'
  <2>1. jobs[h] \in Jobs /\ jobs[h].kind = "read"
    BY <1>10 DEF ReadDone, Reading, Free, ControlTyped
  <2>2. jobs[h].miner \in Machines
    BY <2>1 DEF Jobs, ReadJobs, RebootJobs, UpdateJobs
  <2>3. Numbered(hardware[jobs[h].miner]) \in Seq(Row)
    BY <2>2, NumberedIsRows DEF ControlTyped
  <2>4. rows' \in [Machines -> SUBSET Row] /\ given' \in [Machines -> SUBSET Seq(Row)]
    <3>1. CASE jobs[h].save
      <4>1. PICK m, lines : m = jobs[h].miner /\ lines = Numbered(hardware[m])
        OBVIOUS
      <4>2. setMinerPools(m, lines)
        BY <1>10, <3>1, <4>1 DEF ReadDone
      <4> QED BY <2>3, <4>1, <4>2, StoredIsTyped
    <3>2. CASE ~jobs[h].save
      BY <1>10, <3>2 DEF ReadDone, table, ControlTyped
    <3> QED BY <3>1, <3>2
  <2> QED BY <1>1, <1>10, <2>4 DEF ReadDone, ControlTyped, restarts
<1>11. ASSUME NEW h \in Slots, ReadFails(h) PROVE ControlTyped'
  <2>1. jobs[h] \in Jobs /\ jobs[h].kind = "read"
    BY <1>11 DEF ReadFails, Reading, Free, ControlTyped
  <2>2. jobs[h] \in ReadJobs
    BY <2>1 DEF Jobs, ReadJobs, RebootJobs, UpdateJobs
  <2>3. PICK next : next = NextMethod(jobs[h].miner, jobs[h].method)
    OBVIOUS
  <2>4. next \in Nat
    BY <2>2, <2>3, MethodsAssumption DEF NextMethod, ReadJobs
  <2>5. [jobs[h] EXCEPT !.method = next] \in Jobs
    BY <2>2, <2>4 DEF ReadJobs, Jobs
  <2>6. jobs' \in [Slots -> Jobs \cup {Nothing}]
    BY <1>1, <1>11, <2>3, <2>5 DEF ReadFails
  <2> QED BY <1>11, <2>6 DEF ReadFails, ControlTyped, table, restarts
<1>12. ASSUME NEW m \in Machines, MinerRemoved(m) PROVE ControlTyped'
  BY <1>12 DEF MinerRemoved, RowsOfDeleted, ControlTyped, restarts
<1>13. ASSUME NEW m \in Machines, MinerAdded(m) PROVE ControlTyped'
  <2>1. rows' \in [Machines -> SUBSET Row] /\ given' \in [Machines -> SUBSET Seq(Row)]
    <3>1. CASE UNCHANGED table
      BY <3>1 DEF table, ControlTyped
    <3>2. ASSUME NEW pools \in Configs,
                 rows' = [rows EXCEPT ![m] = RowsAfter(m, Numbered(pools))],
                 given' = [given EXCEPT ![m] = {Numbered(pools)}]
          PROVE  rows' \in [Machines -> SUBSET Row] /\ given' \in [Machines -> SUBSET Seq(Row)]
      BY <3>2, NumberedIsRows, InsertedIsAStart DEF RowsAfter, ControlTyped
    <3> QED BY <1>13, <3>1, <3>2 DEF MinerAdded
  <2> QED BY <1>13, <2>1 DEF MinerAdded, ControlTyped, restarts
<1>14. ASSUME NEW m \in Machines, MachineConfigured(m) PROVE ControlTyped'
  BY <1>14 DEF MachineConfigured, ControlTyped, table, restarts
<1>15. CASE UNCHANGED controlVars
  BY <1>15 DEF controlVars, ControlTyped, table, restarts
<1> QED BY <1>2, <1>3, <1>4, <1>5, <1>6, <1>7, <1>8, <1>9, <1>10, <1>11, <1>12, <1>13, <1>14, <1>15
        DEF ControlNext, Progress

-----------------------------------------------------------------------------
(* The stored pools are of one list.                                       *)

\* Whatever setMinerPools leaves of a miner's rows is of the list it was given.
LEMMA StoredIsOneList ==
  ASSUME ControlTyped, StoredPoolsAreOneList, NEW p \in Machines, NEW lines \in Seq(Row),
         setMinerPools(p, lines), UNCHANGED configured
  PROVE  StoredPoolsAreOneList'
<1>1. CASE p \notin configured
  BY <1>1 DEF setMinerPools, table, StoredPoolsAreOneList
<1>2. CASE p \in configured
  <2>1. /\ rows'[p] = Inserted(lines) /\ given'[p] = given[p] \cup {lines}
        /\ \A m \in Machines \ {p} : rows'[m] = rows[m] /\ given'[m] = given[m]
    BY <1>2 DEF setMinerPools, RowsAfter, ControlTyped
  <2>2. rows'[p] # {} => \E n \in 1..Len(lines) : rows'[p] = ToSet(SubSeq(lines, 1, n))
    BY <2>1, InsertedIsAStart
  <2> QED BY <1>2, <2>1, <2>2 DEF StoredPoolsAreOneList
<1> QED BY <1>1, <1>2

LEMMA StepStoresOneList ==
  ASSUME ControlTyped, StoredPoolsAreOneList, [ControlNext]_controlVars
  PROVE  StoredPoolsAreOneList'
<1>1. ASSUME UNCHANGED <<configured, table>> PROVE StoredPoolsAreOneList'
  BY <1>1 DEF table, StoredPoolsAreOneList
<1>2. CASE AssignmentsEntered
  <2>1. PICK m \in Machines, lines \in Entered : setMinerPools(m, lines) /\ UNCHANGED configured
    BY <1>2 DEF AssignmentsEntered
  <2>2. lines \in Seq(Row)
    BY PoolListsAssumption
  <2> QED BY <2>1, <2>2, StoredIsOneList
<1>3. ASSUME NEW h \in Slots, ReadDone(h) PROVE StoredPoolsAreOneList'
  <2>1. PICK m, lines : m = jobs[h].miner /\ lines = Numbered(hardware[m])
    OBVIOUS
  <2>2. jobs[h] \in Jobs /\ jobs[h].kind = "read"
    BY <1>3 DEF ReadDone, Reading, Free, ControlTyped
  <2>3. m \in Machines
    BY <2>1, <2>2 DEF Jobs, ReadJobs, RebootJobs, UpdateJobs
  <2>4. lines \in Seq(Row)
    BY <2>1, <2>3, NumberedIsRows DEF ControlTyped
  <2>5. CASE setMinerPools(m, lines)
    BY <1>3, <2>3, <2>4, <2>5, StoredIsOneList DEF ReadDone
  <2> QED BY <1>1, <1>3, <2>1, <2>5 DEF ReadDone
<1>4. ASSUME NEW p \in Machines, MinerRemoved(p) PROVE StoredPoolsAreOneList'
  <2>1. /\ configured' = configured \ {p} /\ rows'[p] = {}
        /\ \A m \in Machines \ {p} : rows'[m] = rows[m] /\ given'[m] = given[m]
    BY <1>4 DEF MinerRemoved, RowsOfDeleted, ControlTyped
  <2> QED BY <2>1 DEF StoredPoolsAreOneList
<1>5. ASSUME NEW p \in Machines, MinerAdded(p) PROVE StoredPoolsAreOneList'
  <2>1. p \notin configured /\ configured' = configured \cup {p}
    BY <1>5 DEF MinerAdded
  <2>2. CASE UNCHANGED table
    BY <2>1, <2>2 DEF table, StoredPoolsAreOneList
  <2>3. ASSUME NEW pools \in Configs,
               rows' = [rows EXCEPT ![p] = RowsAfter(p, Numbered(pools))],
               given' = [given EXCEPT ![p] = {Numbered(pools)}]
        PROVE  StoredPoolsAreOneList'
    <3>1. PICK lines : lines = Numbered(pools)
      OBVIOUS
    <3>2. lines \in Seq(Row)
      BY <3>1, NumberedIsRows
    <3>3. /\ rows'[p] = Inserted(lines) /\ given'[p] = {lines}
          /\ \A m \in Machines \ {p} : rows'[m] = rows[m] /\ given'[m] = given[m]
      BY <2>3, <3>1 DEF RowsAfter, ControlTyped
    <3>4. rows'[p] # {} => \E n \in 1..Len(lines) : rows'[p] = ToSet(SubSeq(lines, 1, n))
      BY <3>2, <3>3, InsertedIsAStart
    <3> QED BY <2>1, <3>3, <3>4 DEF StoredPoolsAreOneList
  <2> QED BY <1>5, <2>2, <2>3 DEF MinerAdded
<1>6. ASSUME NEW h \in Slots,
             RebootRequested(h) \/ UpdateRequested(h) \/ ReadRequested(h) \/ NoneFound(h) \/ ReadFails(h)
      PROVE  StoredPoolsAreOneList'
  BY <1>1, <1>6 DEF RebootRequested, UpdateRequested, ReadRequested, NoneFound, ReadFails
<1>7. ASSUME NEW h \in Slots, NEW m \in Machines, TokenEnds(h, m) \/ RestartEnds(h, m) \/ UpdateEnds(h, m)
      PROVE  StoredPoolsAreOneList'
  BY <1>1, <1>7 DEF TokenEnds, RestartEnds, UpdateEnds
<1>8. ASSUME NEW m \in Machines, MachineConfigured(m) PROVE StoredPoolsAreOneList'
  BY <1>1, <1>8 DEF MachineConfigured
<1>9. CASE UNCHANGED controlVars
  BY <1>1, <1>9 DEF controlVars
<1> QED BY <1>2, <1>3, <1>4, <1>5, <1>6, <1>7, <1>8, <1>9 DEF ControlNext, Progress

(* Whatever is entered, imported and read, in whatever order, and wherever an entry fails, the rows of
   a miner are the beginning of one list it was given (setMinerPools). *)
THEOREM StoredPoolsFollowOneList == ControlSpec => []StoredPoolsAreOneList
<1>1. ControlInit => ControlTyped /\ StoredPoolsAreOneList
  <2>1. ControlInit => StoredPoolsAreOneList
    BY DEF ControlInit, StoredPoolsAreOneList
  <2> QED BY <2>1, ControlInitTyped
<1>2. ControlTyped /\ StoredPoolsAreOneList /\ [ControlNext]_controlVars
        => (ControlTyped /\ StoredPoolsAreOneList)'
  BY ControlStepTyped, StepStoresOneList
<1> QED BY <1>1, <1>2, PTL DEF ControlSpec

-----------------------------------------------------------------------------
(* Restarts: a job that may still restart a machine holds one of those that
   were asked for.                                                         *)

Bound(h, m) ==
  /\ ~Free(h) /\ jobs[h].kind = "reboot"
  /\ m \in DOMAIN jobs[h].tasks /\ jobs[h].tasks[m] \in Undecided

Binding(m) == {h \in Slots : Bound(h, m)}

RestartsCounted == \A m \in Machines : restarted[m] + Cardinality(Binding(m)) <= asked[m]

LEMMA BindingIsFinite == \A m : IsFiniteSet(Binding(m)) /\ Cardinality(Binding(m)) \in Nat
<1>1. \A m : Binding(m) \subseteq Slots
  BY DEF Binding
<1> QED BY <1>1, SlotsAssumption, FS_Subset, FS_CardinalityType

\* What one job does to the count of one machine.
LEMMA OneJobCounts ==
  ASSUME ControlTyped, ControlTyped', RestartsCounted, NEW h \in Slots, NEW m \in Machines,
         \A g \in Slots \ {h} : jobs'[g] = jobs[g],
         \/ asked'[m] = asked[m] /\ restarted'[m] = restarted[m] /\ (Bound(h, m)' => Bound(h, m))
         \/ asked'[m] = asked[m] + 1 /\ restarted'[m] = restarted[m]
         \/ asked'[m] = asked[m] /\ restarted'[m] <= restarted[m] + 1 /\ Bound(h, m) /\ ~Bound(h, m)'
  PROVE  restarted'[m] + Cardinality(Binding(m)') <= asked'[m]
<1> DEFINE old == Binding(m)
           new == Binding(m)'
<1>1. \A g \in Slots \ {h} : Bound(g, m)' <=> Bound(g, m)
  BY DEF Bound, Free
<1>2. new \subseteq old \cup {h} /\ old \subseteq Slots /\ new \subseteq Slots
  BY <1>1 DEF Binding
<1>3. IsFiniteSet(old) /\ Cardinality(old) \in Nat
  BY BindingIsFinite
<1>4. IsFiniteSet(new) /\ Cardinality(new) \in Nat
  BY <1>2, SlotsAssumption, FS_Subset, FS_CardinalityType
<1>5. /\ restarted[m] \in Nat /\ restarted'[m] \in Nat /\ asked[m] \in Nat /\ asked'[m] \in Nat
      /\ restarted[m] + Cardinality(old) <= asked[m]
  BY DEF ControlTyped, RestartsCounted
<1>6. h \in new <=> Bound(h, m)'
  BY DEF Binding
<1>7. h \in old <=> Bound(h, m)
  BY DEF Binding
<1> HIDE DEF old, new
<1>8. CASE asked'[m] = asked[m] /\ restarted'[m] = restarted[m] /\ (Bound(h, m)' => Bound(h, m))
  <2>1. new \subseteq old
    BY <1>2, <1>6, <1>7, <1>8
  <2>2. Cardinality(new) <= Cardinality(old)
    BY <2>1, <1>3, FS_Subset
  <2> QED BY <1>3, <1>4, <1>5, <1>8, <2>2 DEF new
<1>9. CASE asked'[m] = asked[m] + 1 /\ restarted'[m] = restarted[m]
  <2>1. /\ Cardinality(old \cup {h}) <= Cardinality(old) + 1 /\ Cardinality(old \cup {h}) \in Nat
        /\ IsFiniteSet(old \cup {h})
    <3>1. /\ IsFiniteSet(old \cup {h})
          /\ Cardinality(old \cup {h}) = Cardinality(old) \/ Cardinality(old \cup {h}) = Cardinality(old) + 1
      BY <1>3, FS_AddElement
    <3> QED BY <1>3, <3>1
  <2>2. Cardinality(new) <= Cardinality(old \cup {h})
    BY <1>2, <2>1, FS_Subset
  <2> QED BY <1>3, <1>4, <1>5, <1>9, <2>1, <2>2 DEF new
<1>10. CASE /\ asked'[m] = asked[m] /\ restarted'[m] <= restarted[m] + 1
            /\ Bound(h, m) /\ ~Bound(h, m)'
  <2>1. new \subseteq old \ {h}
    BY <1>2, <1>6, <1>10
  <2>2. /\ Cardinality(old \ {h}) = Cardinality(old) - 1 /\ IsFiniteSet(old \ {h})
    BY <1>3, <1>7, <1>10, FS_RemoveElement
  <2>3. Cardinality(new) <= Cardinality(old \ {h}) /\ Cardinality(old \ {h}) \in Nat
    BY <2>1, <2>2, FS_Subset, FS_CardinalityType
  <2> QED BY <1>3, <1>4, <1>5, <1>10, <2>2, <2>3 DEF new
<1> QED BY <1>8, <1>9, <1>10

\* A job that was not there, or is gone, or only loses tasks, asks for nothing.
LEMMA FreeIsNotBound == \A h, m : jobs[h] = Nothing => ~Bound(h, m)
BY DEF Bound, Free

LEMMA StepCountsRestarts ==
  ASSUME ControlTyped, RestartsCounted, [ControlNext]_controlVars
  PROVE  RestartsCounted'
<1>1. ControlTyped'
  BY ControlStepTyped
<1>2. ASSUME UNCHANGED <<jobs, restarts>> PROVE RestartsCounted'
  BY <1>2 DEF RestartsCounted, Binding, Bound, Free, restarts
<1>3. ASSUME NEW h \in Slots, NEW job, Job(h, job), UNCHANGED restarts,
             \A m \in Machines : Bound(h, m)' => Bound(h, m)
      PROVE  RestartsCounted'
  <2>1. \A g \in Slots \ {h} : jobs'[g] = jobs[g]
    BY <1>3 DEF Job, ControlTyped
  <2>2. asked' = asked /\ restarted' = restarted
    BY <1>3 DEF restarts
  <2>3. ASSUME NEW m \in Machines PROVE (restarted[m] + Cardinality(Binding(m)) <= asked[m])'
    BY <1>1, <1>3, <2>1, <2>2, <2>3, OneJobCounts
  <2> QED BY <2>3 DEF RestartsCounted
<1>4. ASSUME NEW h \in Slots, RebootRequested(h) PROVE RestartsCounted'
  <2>1. PICK ids \in SUBSET Machines :
          /\ Job(h, [kind |-> "reboot", tasks |-> [m \in ids |-> FirstLeg(m)]])
          /\ asked' = [m \in Machines |-> asked[m] + (IF m \in ids THEN 1 ELSE 0)]
    BY <1>4 DEF RebootRequested
  <2>2. \A g \in Slots \ {h} : jobs'[g] = jobs[g]
    BY <2>1 DEF Job, ControlTyped
  <2>3. jobs'[h].tasks = [m \in ids |-> FirstLeg(m)] /\ restarted' = restarted
    BY <1>4, <2>1 DEF Job, ControlTyped, RebootRequested
  <2>4. ASSUME NEW m \in Machines PROVE (restarted[m] + Cardinality(Binding(m)) <= asked[m])'
    <3>1. CASE m \in ids
      <4>1. asked'[m] = asked[m] + 1 /\ restarted'[m] = restarted[m]
        BY <2>1, <2>3, <3>1
      <4> QED BY <1>1, <2>2, <4>1, OneJobCounts
    <3>2. CASE m \notin ids
      <4>1. asked'[m] = asked[m] /\ restarted'[m] = restarted[m]
        BY <2>1, <2>3, <3>2 DEF ControlTyped
      <4>2. ~Bound(h, m)'
        BY <2>3, <3>2 DEF Bound
      <4> QED BY <1>1, <2>2, <4>1, <4>2, OneJobCounts
    <3> QED BY <3>1, <3>2
  <2> QED BY <2>4 DEF RestartsCounted
<1>5. ASSUME NEW h \in Slots, UpdateRequested(h) PROVE RestartsCounted'
  <2>1. PICK job : Job(h, job) /\ job.kind = "update"
    BY <1>5 DEF UpdateRequested
  <2>2. \A m \in Machines : ~Bound(h, m)'
    BY <2>1 DEF Job, Bound, ControlTyped
  <2> QED BY <1>3, <1>5, <2>1, <2>2 DEF UpdateRequested
<1>6. ASSUME NEW h \in Slots, ReadRequested(h) PROVE RestartsCounted'
  <2>1. PICK job : Job(h, job) /\ job.kind = "read"
    BY <1>6 DEF ReadRequested
  <2>2. \A m \in Machines : ~Bound(h, m)'
    BY <2>1 DEF Job, Bound, ControlTyped
  <2> QED BY <1>3, <1>6, <2>1, <2>2 DEF ReadRequested
<1>7. ASSUME NEW h \in Slots, Job(h, Nothing), UNCHANGED restarts PROVE RestartsCounted'
  <2>1. \A m \in Machines : ~Bound(h, m)'
    BY <1>7 DEF Job, Bound, Free, ControlTyped
  <2> QED BY <1>3, <1>7, <2>1
<1>8. ASSUME NEW h \in Slots, ReadFails(h) PROVE RestartsCounted'
  <2>1. jobs[h] \in Jobs /\ jobs[h].kind = "read"
    BY <1>8 DEF ReadFails, Reading, Free, ControlTyped
  <2>2. jobs[h] \in ReadJobs
    BY <2>1 DEF Jobs, ReadJobs, RebootJobs, UpdateJobs
  <2>3. PICK next : next = NextMethod(jobs[h].miner, jobs[h].method)
    OBVIOUS
  <2>4. CASE Job(h, Nothing)
    BY <1>7, <1>8, <2>4 DEF ReadFails, restarts
  <2>5. CASE Job(h, [jobs[h] EXCEPT !.method = next])
    <3>1. [jobs[h] EXCEPT !.method = next].kind = "read"
      BY <2>2 DEF ReadJobs
    <3>2. \A m \in Machines : ~Bound(h, m)'
      BY <2>5, <3>1 DEF Job, Bound, ControlTyped
    <3> QED BY <1>3, <1>8, <2>5, <3>2 DEF ReadFails
  <2> QED BY <1>8, <2>3, <2>4, <2>5 DEF ReadFails
\* A task that ends binds no more than it did.
<1>9. ASSUME NEW h \in Slots, NEW p, NEW leg \in {"token", "restart", "post"}, Doing(h, p, leg),
             NEW state \in Undecided \cup Finals, leg = "post" => state \in Finals,
             TaskEnds(h, p, state), NEW m \in Machines
      PROVE  /\ \A g \in Slots \ {h} : jobs'[g] = jobs[g]
             /\ Bound(h, m)' => Bound(h, m)
             /\ p = m /\ state \in Finals => ~Bound(h, m)'
             /\ p = m /\ leg \in Undecided => Bound(h, m)
  <2>1. /\ \A g \in Slots \ {h} : jobs'[g] = jobs[g]
        /\ leg = "post" => jobs[h] \in UpdateJobs
        /\ leg # "post" => jobs[h] \in RebootJobs
        /\ jobs'[h] = Nothing \/
             /\ jobs'[h].kind = jobs[h].kind
             /\ jobs'[h].tasks = [jobs[h].tasks EXCEPT ![p] = state]
    BY <1>9, TaskEndsTyped
  <2>2. jobs[h] # Nothing /\ p \in DOMAIN jobs[h].tasks /\ jobs[h].tasks[p] = leg
    BY <1>9 DEF Doing, Free
  <2>3. CASE jobs'[h] = Nothing
    <3>1. leg \in Undecided => jobs[h].kind = "reboot"
      BY <2>1 DEF Undecided, RebootJobs
    <3> QED BY <2>1, <2>2, <2>3, <3>1 DEF Bound, Free
  <2>4. CASE leg = "post" /\ jobs'[h].kind = jobs[h].kind
    <3>1. jobs[h].kind = "update"
      BY <2>1, <2>4 DEF UpdateJobs
    <3> QED BY <2>1, <2>4, <3>1 DEF Bound, Undecided
  <2>5. CASE leg # "post" /\ jobs'[h].tasks = [jobs[h].tasks EXCEPT ![p] = state]
    <3>1. jobs[h].kind = "reboot" /\ jobs[h].tasks \in Tasks(Undecided)
      BY <2>1, <2>5 DEF RebootJobs
    <3>2. PICK tasks : tasks = jobs[h].tasks
      OBVIOUS
    <3>3. /\ DOMAIN [tasks EXCEPT ![p] = state] = DOMAIN tasks
          /\ \A t \in DOMAIN tasks :
               [tasks EXCEPT ![p] = state][t] = IF t = p THEN state ELSE tasks[t]
      BY <2>2, <3>1, <3>2, TasksTyped
    <3>4. leg \in Undecided
      BY <2>5 DEF Undecided
    <3>5. state \in Finals => state \notin Undecided
      BY DEF Finals, Undecided
    <3> QED BY <2>1, <2>2, <2>5, <3>1, <3>2, <3>3, <3>4, <3>5 DEF Bound, Free
  <2> QED BY <2>1, <2>3, <2>4, <2>5
<1>10. ASSUME NEW h \in Slots, NEW p \in Machines, TokenEnds(h, p) \/ UpdateEnds(h, p)
       PROVE  RestartsCounted'
  <2>1. asked' = asked /\ restarted' = restarted
    BY <1>10 DEF TokenEnds, UpdateEnds, restarts
  <2>2. PICK leg \in {"token", "post"}, state \in Undecided \cup Finals :
          Doing(h, p, leg) /\ TaskEnds(h, p, state) /\ (leg = "post" => state \in Finals)
    BY <1>10 DEF TokenEnds, UpdateEnds, Undecided, Finals
  <2>3. ASSUME NEW m \in Machines PROVE (restarted[m] + Cardinality(Binding(m)) <= asked[m])'
    <3>1. (\A g \in Slots \ {h} : jobs'[g] = jobs[g]) /\ (Bound(h, m)' => Bound(h, m))
      BY <1>9, <2>2
    <3> QED BY <1>1, <2>1, <3>1, OneJobCounts
  <2> QED BY <2>3 DEF RestartsCounted
<1>11. ASSUME NEW h \in Slots, NEW p \in Machines, RestartEnds(h, p) PROVE RestartsCounted'
  <2>1. /\ asked' = asked /\ restarted'[p] <= restarted[p] + 1
        /\ \A m \in Machines \ {p} : restarted'[m] = restarted[m]
    BY <1>11 DEF RestartEnds, ControlTyped
  <2>2. PICK state \in Finals : Doing(h, p, "restart") /\ TaskEnds(h, p, state)
    BY <1>11 DEF RestartEnds, RestartFailed, Finals
  <2>3. ASSUME NEW m \in Machines PROVE (restarted[m] + Cardinality(Binding(m)) <= asked[m])'
    <3>1. /\ \A g \in Slots \ {h} : jobs'[g] = jobs[g] 
          /\ Bound(h, m)' => Bound(h, m)
          /\ p = m => Bound(h, m) /\ ~Bound(h, m)'
      BY <1>9, <2>2 DEF Undecided
    <3>2. CASE p = m
      BY <1>1, <2>1, <3>1, <3>2, OneJobCounts
    <3>3. CASE p # m
      BY <1>1, <2>1, <3>1, <3>3, OneJobCounts
    <3> QED BY <3>2, <3>3
  <2> QED BY <2>3 DEF RestartsCounted
<1>12. ASSUME NEW h \in Slots, NoneFound(h) \/ ReadDone(h) PROVE RestartsCounted'
  BY <1>7, <1>12 DEF NoneFound, ReadDone
<1>13. CASE AssignmentsEntered
  BY <1>2, <1>13 DEF AssignmentsEntered
<1>14. ASSUME NEW m \in Machines, MinerRemoved(m) \/ MinerAdded(m) \/ MachineConfigured(m)
       PROVE  RestartsCounted'
  BY <1>2, <1>14 DEF MinerRemoved, MinerAdded, MachineConfigured
<1>15. CASE UNCHANGED controlVars
  BY <1>2, <1>15 DEF controlVars
<1> QED BY <1>4, <1>5, <1>6, <1>8, <1>10, <1>11, <1>12, <1>13, <1>14, <1>15 DEF ControlNext, Progress

(* However many bulk restarts overlap, and wherever tokens, commands and answers get lost, a machine is
   restarted at most once for each time somebody asked (rebootMiners, sendTcpJson). *)
THEOREM MachinesRestartWhenAsked == ControlSpec => []RestartsWereAsked
<1>1. ControlInit => ControlTyped /\ RestartsCounted
  <2>1. ASSUME ControlInit PROVE RestartsCounted
    <3>1. \A m : Binding(m) = {}
      BY <2>1 DEF ControlInit, Binding, Bound, Free
    <3>2. \A m : Cardinality(Binding(m)) = 0
      BY <3>1, FS_EmptySet
    <3> QED BY <2>1, <3>2 DEF ControlInit, RestartsCounted
  <2> QED BY <2>1, ControlInitTyped
<1>2. ControlTyped /\ RestartsCounted /\ [ControlNext]_controlVars => (ControlTyped /\ RestartsCounted)'
  BY ControlStepTyped, StepCountsRestarts
<1>3. ControlTyped /\ RestartsCounted => RestartsWereAsked
  BY BindingIsFinite DEF ControlTyped, RestartsCounted, RestartsWereAsked
<1> QED BY <1>1, <1>2, <1>3, PTL DEF ControlSpec
-----------------------------------------------------------------------------
(* Collector.                                                              *)

Labelled == phase \in {"retrying", "closing"} =>
              \A ip \in Listed(polled) : labels[ip] = polled[ip]

GaugesUnderLabels == \A s \in values \cup status : labels[s[1]] = s[2]

Remembered == \A s \in parts : partLabels[s[1]] = s[2] /\ labels[s[1]] # Absent

Renamed == \A s \in values : partLabels[s[1]] = s[2]

Counted == \A s \in values \cup parts : dark[s[1]] <= streaks[<<s[1], labels[s[1]]>>]

Working == phase \in {"reading", "retrying", "closing"} => polled = list

Bare == phase \in {"down", "starting"} => values = {} /\ parts = {} /\ status = {}

Asked == IF databaseConfigured THEN fresh => answer # NoAnswer ELSE answer = NoAnswer

ConfigInv == FleetSurvivesOutage /\ DegradedIsRetried /\ Asked

SeriesInv ==
  /\ GaugesUnderLabels /\ Remembered /\ Renamed /\ Labelled /\ Working /\ Bare
  /\ Counted /\ DarkMachinesLoseReadings /\ NoGhostSeries

IInv == CollectorTypeOK /\ ConfigInv /\ SeriesInv

USE ListsAssumption, ThresholdsAssumption

-----------------------------------------------------------------------------
(* The type invariant.                                                     *)

\* An empty list and cleared counters are well typed.
LEMMA ClearedIsTyped ==
  /\ Empty \in Lists
  /\ [ip \in Ips |-> 0] \in [Ips -> 0..FAILURE_THRESHOLD]
  /\ [ip \in Ips |-> 0] \in [Ips -> 0..FALLBACK_FAILURE_THRESHOLD]
  /\ [k \in Ips \X Labels |-> 0] \in [Ips \X Labels -> 0..FAILURE_THRESHOLD]
  /\ [ip \in Ips |-> "none"] \in [Ips -> Outcomes]
BY DEF Empty, Lists, Outcomes

LEMMA InitTyped == Init => CollectorTypeOK
<1> SUFFICES ASSUME Init PROVE CollectorTypeOK
  OBVIOUS
<1>1. /\ fleet \in Lists /\ list \in Lists /\ polled \in Lists
      /\ labels \in Lists /\ partLabels \in Lists
  BY ClearedIsTyped DEF Init
<1>2. /\ dark \in [Ips -> 0..FAILURE_THRESHOLD]
      /\ fails \in [Ips -> 0..FALLBACK_FAILURE_THRESHOLD]
      /\ streaks \in [Ips \X Labels -> 0..FAILURE_THRESHOLD]
      /\ outcome \in [Ips -> Outcomes]
  BY ClearedIsTyped DEF Init
<1>3. /\ databaseConfigured \in BOOLEAN /\ reachable \in BOOLEAN /\ fresh \in BOOLEAN
  BY Zenon DEF Init
<1>6. eventsLeft \in 0..MaxEvents
  BY DEF Init
<1>4. /\ answer \in Lists \cup {NoAnswer} /\ source \in Sources
      /\ phase \in {"down", "starting", "idle", "reading", "retrying", "closing"}
      /\ values \subseteq Ips \X Labels /\ parts \subseteq Ips \X Labels
      /\ status \subseteq Ips \X Labels
  BY DEF Init, Sources
<1>5. disk \in [Ips \X Labels -> 0..FAILURE_THRESHOLD] \cup {NoFile}
  BY DEF Init
<1> QED BY <1>1, <1>2, <1>3, <1>4, <1>5, <1>6 DEF CollectorTypeOK

\* Loading the list leaves a list, a source and a flag (load_miners_config).
LEMMA LoadTyped ==
  ASSUME CollectorTypeOK, load_miners_config
  PROVE  /\ list' \in Lists /\ source' \in Sources /\ fresh' \in BOOLEAN
         /\ answer' \in Lists \cup {NoAnswer}
<1>1. CASE UNCHANGED configVars
  BY <1>1 DEF configVars, CollectorTypeOK
<1>2. CASE FetchMiners
  BY <1>2 DEF FetchMiners, CollectorTypeOK, Sources
<1>3. CASE ServeStale
  BY <1>3 DEF ServeStale, CollectorTypeOK, Sources
<1>4. CASE LoadYaml
  BY <1>4 DEF LoadYaml, CollectorTypeOK, Sources
<1> QED BY <1>1, <1>2, <1>3, <1>4 DEF load_miners_config

\* Reading the state back leaves a list and counters (ServiceState.load).
LEMMA LoadStateTyped ==
  ASSUME CollectorTypeOK, LoadState
  PROVE  /\ list' \in Lists /\ source' \in Sources /\ fresh' \in BOOLEAN
         /\ answer' \in Lists \cup {NoAnswer}
         /\ streaks' \in [Ips \X Labels -> 0..FAILURE_THRESHOLD]
<1>1. CASE disk = NoFile
  BY <1>1 DEF LoadState, configVars, CollectorTypeOK
<1>2. CASE disk # NoFile
  <2>1. load_miners_config
    BY <1>2 DEF LoadState
  <2>2. disk \in [Ips \X Labels -> 0..FAILURE_THRESHOLD]
    BY <1>2 DEF CollectorTypeOK
  <2>3. streaks' \in [Ips \X Labels -> 0..FAILURE_THRESHOLD]
    BY <1>2, <2>2 DEF LoadState
  <2> QED BY <2>1, <2>3, LoadTyped
<1> QED BY <1>1, <1>2

\* The series found by the labels of some listed machines are series.
LEMMA CappedIsTyped ==
  ASSUME NEW n \in 0..FAILURE_THRESHOLD
  PROVE  AtMost(n + 1, FAILURE_THRESHOLD) \in 0..FAILURE_THRESHOLD
BY DEF AtMost

LEMMA ConstructTyped == CollectorTypeOK /\ Construct => CollectorTypeOK'
BY LoadStateTyped DEF CollectorTypeOK, Construct, passVars, seriesVars

LEMMA LifespanTyped == CollectorTypeOK /\ Lifespan => CollectorTypeOK'
BY LoadStateTyped DEF CollectorTypeOK, Lifespan, passVars, seriesVars

LEMMA CrashTyped == CollectorTypeOK /\ Crash => CollectorTypeOK'
<1> SUFFICES ASSUME CollectorTypeOK, Crash PROVE CollectorTypeOK'
  OBVIOUS
<1>1. list' \in Lists /\ polled' \in Lists /\ labels' \in Lists /\ partLabels' \in Lists
  BY ClearedIsTyped DEF Crash
<1>2. /\ dark' \in [Ips -> 0..FAILURE_THRESHOLD]
      /\ fails' \in [Ips -> 0..FALLBACK_FAILURE_THRESHOLD]
      /\ streaks' \in [Ips \X Labels -> 0..FAILURE_THRESHOLD]
      /\ outcome' \in [Ips -> Outcomes]
  BY ClearedIsTyped DEF Crash
<1>3. /\ fresh' \in BOOLEAN /\ answer' \in Lists \cup {NoAnswer} /\ source' \in Sources
      /\ phase' \in {"down", "starting", "idle", "reading", "retrying", "closing"}
      /\ values' \subseteq Ips \X Labels /\ parts' \subseteq Ips \X Labels
      /\ status' \subseteq Ips \X Labels
  BY DEF Crash, Sources
<1>4. UNCHANGED <<databaseConfigured, fleet, reachable, disk>> /\ eventsLeft' \in 0..MaxEvents
  BY DEF Crash, Event, CollectorTypeOK
<1> QED BY <1>1, <1>2, <1>3, <1>4 DEF CollectorTypeOK

LEMMA StartPassTyped == CollectorTypeOK /\ StartPass => CollectorTypeOK'
<1> SUFFICES ASSUME CollectorTypeOK, StartPass PROVE CollectorTypeOK'
  OBVIOUS
<1>1. /\ list' \in Lists /\ source' \in Sources /\ fresh' \in BOOLEAN
      /\ answer' \in Lists \cup {NoAnswer}
  BY LoadTyped DEF StartPass
<1>2. /\ labels' \in Lists /\ partLabels' \in Lists
      /\ values' \subseteq Ips \X Labels /\ parts' \subseteq Ips \X Labels
      /\ status' \subseteq Ips \X Labels
      /\ dark' \in [Ips -> 0..FAILURE_THRESHOLD]
      /\ streaks' \in [Ips \X Labels -> 0..FAILURE_THRESHOLD]
      /\ fails' \in [Ips -> 0..FALLBACK_FAILURE_THRESHOLD]
  <2>1. CASE UNCHANGED <<seriesVars, stateVars>>
    BY <2>1 DEF CollectorTypeOK, seriesVars, stateVars
  <2>2. CASE Forget((Listed(labels) \cup Listed(partLabels)) \ Listed(list'))
    BY <2>2 DEF CollectorTypeOK, Forget, Lists
  <2> QED BY <2>1, <2>2 DEF StartPass
<1> QED BY <1>1, <1>2 DEF CollectorTypeOK, StartPass

\* Publishing parts leaves series and a cache (set_miner_boards, set_miner_fans...).
LEMMA PartsTyped ==
  ASSUME CollectorTypeOK, NEW answered \in SUBSET Listed(polled), PublishParts(answered)
  PROVE  partLabels' \in Lists /\ parts' \subseteq Ips \X Labels
<1>1. \A ip \in answered : ip \in Ips /\ polled[ip] \in Labels
  BY DEF CollectorTypeOK, Listed, Lists
<1>2. partLabels' \in Lists
  BY <1>1 DEF PublishParts, CollectorTypeOK, Lists
<1> QED BY <1>1, <1>2 DEF PublishParts, CollectorTypeOK

LEMMA ReadTyped == CollectorTypeOK /\ Read => CollectorTypeOK'
<1> SUFFICES ASSUME CollectorTypeOK, Read PROVE CollectorTypeOK'
  OBVIOUS
<1>1. PICK result \in [Listed(polled) -> Answers \cup Failures] :
        /\ outcome' = [ip \in Ips |-> IF ip \in Listed(polled) THEN result[ip] ELSE "none"]
        /\ LET answered == {ip \in Listed(polled) : result[ip] \in Answers}
           IN /\ Publish(answered)
              /\ dark' = [ip \in Ips |-> IF ip \in answered \cup Relabelled THEN 0 ELSE dark[ip]]
  BY DEF Read
<1> DEFINE answered == {ip \in Listed(polled) : result[ip] \in Answers}
<1>2. outcome' \in [Ips -> Outcomes]
  BY <1>1 DEF Outcomes, Listed
<1>3. \A ip \in Listed(polled) : ip \in Ips /\ polled[ip] \in Labels
  BY DEF CollectorTypeOK, Listed, Lists
<1>4. labels' \in Lists
  BY <1>1, <1>3 DEF Publish, CollectorTypeOK, Lists
<1>5. values' \subseteq Ips \X Labels /\ status' \subseteq Ips \X Labels
  BY <1>1, <1>3 DEF Publish, CollectorTypeOK
<1>6. dark' \in [Ips -> 0..FAILURE_THRESHOLD]
  BY <1>1 DEF CollectorTypeOK
<1>7. partLabels' \in Lists /\ parts' \subseteq Ips \X Labels
  <2>1. PublishParts(answered)
    BY <1>1 DEF Publish
  <2> QED BY <2>1, PartsTyped
<1> QED BY <1>2, <1>4, <1>5, <1>6, <1>7 DEF CollectorTypeOK, Read, configVars, stateVars

LEMMA RetryTyped == CollectorTypeOK /\ Retry => CollectorTypeOK'
<1> SUFFICES ASSUME CollectorTypeOK, Retry PROVE CollectorTypeOK'
  OBVIOUS
<1>1. PICK answered \in SUBSET Due :
        /\ outcome' = [ip \in Ips |-> IF ip \in answered THEN "fallback" ELSE outcome[ip]]
        /\ values' = values \cup {<<ip, polled[ip]>> : ip \in answered}
        /\ PublishParts(answered)
        /\ dark' = [ip \in Ips |-> IF ip \in answered THEN 0 ELSE dark[ip]]
        /\ fails' = [ip \in Ips |->
                       IF outcome[ip] = "healthy" \/ ip \in answered THEN 0
                       ELSE IF ip \in Due THEN fails[ip] + 1 ELSE fails[ip]]
  BY DEF Retry
<1>2. \A ip \in answered : ip \in Ips /\ polled[ip] \in Labels
  BY DEF CollectorTypeOK, Due, Listed, Lists
<1>3. outcome' \in [Ips -> Outcomes] /\ dark' \in [Ips -> 0..FAILURE_THRESHOLD]
  BY <1>1 DEF CollectorTypeOK, Outcomes
<1>4. values' \subseteq Ips \X Labels
  BY <1>1, <1>2 DEF CollectorTypeOK
<1>5. fails' \in [Ips -> 0..FALLBACK_FAILURE_THRESHOLD]
  <2> SUFFICES ASSUME NEW ip \in Ips
               PROVE  (IF outcome[ip] = "healthy" \/ ip \in answered THEN 0
                       ELSE IF ip \in Due THEN fails[ip] + 1 ELSE fails[ip])
                        \in 0..FALLBACK_FAILURE_THRESHOLD
    BY <1>1
  <2>1. fails[ip] \in 0..FALLBACK_FAILURE_THRESHOLD
    BY DEF CollectorTypeOK
  <2>2. ip \in Due => fails[ip] < FALLBACK_FAILURE_THRESHOLD
    BY DEF Due
  <2> QED BY <2>1, <2>2
<1>6. partLabels' \in Lists /\ parts' \subseteq Ips \X Labels
  <2>1. answered \in SUBSET Listed(polled)
    BY DEF Due
  <2> QED BY <1>1, <2>1, PartsTyped
<1> QED BY <1>3, <1>4, <1>5, <1>6 DEF CollectorTypeOK, Retry, configVars

LEMMA FinishTyped == CollectorTypeOK /\ Finish => CollectorTypeOK'
<1> SUFFICES ASSUME CollectorTypeOK, Finish PROVE CollectorTypeOK'
  OBVIOUS
<1>1. streaks' \in [Ips \X Labels -> 0..FAILURE_THRESHOLD]
  <2>1. \A k \in Ips \X Labels : streaks[k] \in 0..FAILURE_THRESHOLD
    BY DEF CollectorTypeOK
  <2>2. \A k \in Ips \X Labels : Streak(k) \in 0..FAILURE_THRESHOLD
    BY <2>1, CappedIsTyped DEF Streak
  <2> QED BY <2>1, <2>2 DEF Finish
<1>2. dark' \in [Ips -> 0..FAILURE_THRESHOLD]
  <2>1. \A ip \in Ips : dark[ip] \in 0..FAILURE_THRESHOLD
    BY DEF CollectorTypeOK
  <2>2. \A ip \in Ips : AtMost(dark[ip] + 1, FAILURE_THRESHOLD) \in 0..FAILURE_THRESHOLD
    BY <2>1, CappedIsTyped
  <2> QED BY <2>1, <2>2 DEF Finish
<1>3. /\ values' \subseteq Ips \X Labels /\ parts' \subseteq Ips \X Labels
      /\ partLabels' \in Lists
  BY DEF Finish, Cull, CollectorTypeOK, Lists
<1>4. /\ disk' \in [Ips \X Labels -> 0..FAILURE_THRESHOLD] \cup {NoFile}
      /\ eventsLeft' \in 0..MaxEvents
  BY <1>1 DEF Finish, Save, Event, CollectorTypeOK
<1> QED BY <1>1, <1>2, <1>3, <1>4 DEF CollectorTypeOK, Finish, configVars, passVars

LEMMA AbortTyped == CollectorTypeOK /\ Abort => CollectorTypeOK'
BY DEF CollectorTypeOK, Abort, Event, configVars, passVars, seriesVars, stateVars

LEMMA EnvironmentTyped ==
  CollectorTypeOK /\ (Expire \/ Edit \/ BackendTurns) => CollectorTypeOK'
<1>1. CollectorTypeOK /\ Expire => CollectorTypeOK'
  BY DEF CollectorTypeOK, Expire, passVars, seriesVars, stateVars
<1>2. CollectorTypeOK /\ Edit => CollectorTypeOK'
  <2> SUFFICES ASSUME CollectorTypeOK, Edit PROVE CollectorTypeOK'
    OBVIOUS
  <2>1. fleet' \in Lists /\ eventsLeft' \in 0..MaxEvents
    BY DEF CollectorTypeOK, Edit, Event
  <2> QED BY <2>1 DEF CollectorTypeOK, Edit, configVars, passVars, seriesVars, stateVars
<1>3. CollectorTypeOK /\ BackendTurns => CollectorTypeOK'
  <2> SUFFICES ASSUME CollectorTypeOK, BackendTurns PROVE CollectorTypeOK'
    OBVIOUS
  <2>1. reachable' \in BOOLEAN /\ eventsLeft' \in 0..MaxEvents
    BY DEF CollectorTypeOK, BackendTurns, Event
  <2> QED BY <2>1 DEF CollectorTypeOK, BackendTurns, configVars, passVars, seriesVars, stateVars
<1> QED BY <1>1, <1>2, <1>3

\* Every step keeps the types.
LEMMA StepTyped == CollectorTypeOK /\ [Next]_vars => CollectorTypeOK'
<1>1. CollectorTypeOK /\ UNCHANGED vars => CollectorTypeOK'
  BY DEF CollectorTypeOK, vars, configVars, passVars, seriesVars, stateVars
<1> QED BY <1>1, ConstructTyped, LifespanTyped, CrashTyped, StartPassTyped, ReadTyped, RetryTyped,
           FinishTyped, AbortTyped, EnvironmentTyped DEF Next

\* For every fleet, seed file and threshold the collector's state is well typed; the range of
\* fails is the breaker's promise that no second method fails more often than the limit in a
\* row (blocked_fallback_methods, record_fallback_result).
THEOREM CollectorIsTyped == Spec => []CollectorTypeOK
BY InitTyped, StepTyped, PTL DEF Spec

-----------------------------------------------------------------------------
(* The list and where it came from.                                        *)

\* Loading keeps what a list promises of its source (load_miners_config).
LEMMA LoadKeepsConfig ==
  ASSUME CollectorTypeOK, ConfigInv, load_miners_config, UNCHANGED databaseConfigured
  PROVE  ConfigInv'
<1> USE DEF ConfigInv, FleetSurvivesOutage, DegradedIsRetried, Asked
<1>1. CASE UNCHANGED configVars
  BY <1>1 DEF configVars
<1>2. CASE FetchMiners
  <2>1. fleet # NoAnswer
    BY DEF CollectorTypeOK
  <2> QED BY <1>2, <2>1 DEF FetchMiners, DEGRADED_CONFIG_SOURCES
<1>3. CASE ~Cached /\ ServeStale
  <2>1. ~fresh
    BY <1>3 DEF Cached, ServeStale
  <2> QED BY <1>3, <2>1 DEF ServeStale
<1>4. CASE LoadYaml
  <2>1. CASE ~databaseConfigured
    BY <1>4, <2>1 DEF LoadYaml, DEGRADED_CONFIG_SOURCES
  <2>2. CASE databaseConfigured
    <3>1. \A ip \in Ips : list[ip] = Absent
      BY <1>4, <2>2 DEF LoadYaml, Listed
    <3>2. answer' = answer /\ source' \in {"none", "yaml_fallback"} /\ (fresh' => fresh)
      BY <1>4, <2>2 DEF LoadYaml
    <3>3. answer # NoAnswer => \A ip \in Ips : answer[ip] = Absent
      BY <3>1
    <3> QED BY <2>2, <3>2, <3>3
  <2> QED BY <2>1, <2>2
<1> QED BY <1>1, <1>2, <1>3, <1>4 DEF load_miners_config

LEMMA LoadStateKeepsConfig ==
  ASSUME CollectorTypeOK, ConfigInv, LoadState, UNCHANGED databaseConfigured
  PROVE  ConfigInv'
<1>1. CASE disk = NoFile
  BY <1>1 DEF LoadState, configVars, ConfigInv, FleetSurvivesOutage, DegradedIsRetried, Asked
<1> QED BY <1>1, LoadKeepsConfig DEF LoadState

\* No step of any kind breaks it.
LEMMA StepKeepsConfig == CollectorTypeOK /\ ConfigInv /\ [Next]_vars => ConfigInv'
<1> SUFFICES ASSUME CollectorTypeOK, ConfigInv, [Next]_vars PROVE ConfigInv'
  OBVIOUS
<1>1. CASE Construct \/ Lifespan
  BY <1>1, LoadStateKeepsConfig DEF Construct, Lifespan
<1>2. CASE StartPass
  BY <1>2, LoadKeepsConfig DEF StartPass
<1>3. CASE Crash
  BY <1>3 DEF Crash, ConfigInv, FleetSurvivesOutage, DegradedIsRetried, Asked, DEGRADED_CONFIG_SOURCES
<1>4. CASE Expire
  BY <1>4 DEF Expire, ConfigInv, FleetSurvivesOutage, DegradedIsRetried, Asked
<1>5. CASE Read \/ Retry \/ Finish \/ Abort \/ Edit \/ BackendTurns \/ UNCHANGED vars
  <2>1. UNCHANGED <<databaseConfigured, configVars>>
    BY <1>5 DEF Read, Retry, Finish, Abort, Edit, BackendTurns, vars
  <2> QED BY <2>1 DEF configVars, ConfigInv, FleetSurvivesOutage, DegradedIsRetried, Asked
<1> QED BY <1>1, <1>2, <1>3, <1>4, <1>5 DEF Next

-----------------------------------------------------------------------------
(* The series.                                                             *)

\* A process that loads its state shows nothing, so the list it loads cannot make a ghost.
LEMMA StartKeepsSeries ==
  CollectorTypeOK /\ SeriesInv /\ (Construct \/ Lifespan) => SeriesInv'
<1> SUFFICES ASSUME SeriesInv, Construct \/ Lifespan PROVE SeriesInv'
  OBVIOUS
<1>1. values' = {} /\ parts' = {} /\ status' = {} /\ phase' \in {"starting", "idle"}
  BY DEF Construct, Lifespan, SeriesInv, Bare, seriesVars
<1> QED BY <1>1 DEF SeriesInv, GaugesUnderLabels, Remembered, Renamed, Labelled, Working, Counted,
                    DarkMachinesLoseReadings, Bare, NoGhostSeries

LEMMA CrashKeepsSeries == Crash => SeriesInv'
BY DEF Crash, SeriesInv, GaugesUnderLabels, Remembered, Renamed, Labelled, Working, Counted,
       DarkMachinesLoseReadings, Bare, NoGhostSeries

\* A series of any kind is of a known machine, and is found by what its cache remembers.
LEMMA SeriesAreFound ==
  ASSUME CollectorTypeOK, SeriesInv
  PROVE  /\ \A s \in values \cup parts \cup status :
              s = <<s[1], s[2]>> /\ s[1] \in Ips /\ s[2] \in Labels /\ labels[s[1]] # Absent
         /\ \A s \in values \cup status : labels[s[1]] = s[2] /\ s = <<s[1], labels[s[1]]>>
         /\ \A s \in parts : partLabels[s[1]] = s[2] /\ s = <<s[1], partLabels[s[1]]>>
<1>1. \A s \in values \cup parts \cup status : s = <<s[1], s[2]>> /\ s[1] \in Ips /\ s[2] \in Labels
  BY DEF CollectorTypeOK
<1>2. \A s \in values \cup status : labels[s[1]] = s[2]
  BY DEF SeriesInv, GaugesUnderLabels
<1>3. \A s \in parts : partLabels[s[1]] = s[2] /\ labels[s[1]] # Absent
  BY DEF SeriesInv, Remembered
<1> QED BY <1>1, <1>2, <1>3

\* What a trusted list does not have is found by its labels and goes (forget_miner).
LEMMA StartPassKeepsSeries == CollectorTypeOK /\ SeriesInv /\ StartPass => SeriesInv'
<1> SUFFICES ASSUME CollectorTypeOK, SeriesInv, StartPass PROVE SeriesInv'
  OBVIOUS
<1> DEFINE gone == (Listed(labels) \cup Listed(partLabels)) \ Listed(list')
<1>1. phase' = "reading" /\ polled' = list'
  BY DEF StartPass
<1>2. CASE source' \notin TRUSTED_CONFIG_SOURCES
  <2>1. UNCHANGED <<labels, partLabels, values, parts, status, dark, streaks, fails>>
    BY <1>2 DEF StartPass, seriesVars, stateVars
  <2> QED BY <1>1, <1>2, <2>1
          DEF SeriesInv, GaugesUnderLabels, Remembered, Renamed, Labelled, Working, Counted,
              DarkMachinesLoseReadings, Bare, NoGhostSeries
<1>3. CASE Forget(gone)
  <2>0. values' \subseteq values
    BY <1>3 DEF Forget
  <2>1. \A s \in values' \cup status' : s \in values \cup status /\ s[1] \notin gone
    BY <1>3, SeriesAreFound DEF Forget, SeriesOf
  <2>2. \A s \in parts' : s \in parts /\ s[1] \notin gone
    BY <1>3, SeriesAreFound DEF Forget, PartsOf
  <2>3. \A s \in values' \cup parts' \cup status' :
          s[1] \in Ips /\ s[1] \notin gone /\ s \in values \cup parts \cup status
    BY <2>1, <2>2, SeriesAreFound
  <2>4. \A ip \in Ips \ gone : /\ labels'[ip] = labels[ip] /\ partLabels'[ip] = partLabels[ip]
                              /\ dark'[ip] = dark[ip]
    BY <1>3 DEF Forget
  <2>5. \A s \in values' \cup parts' \cup status' : list'[s[1]] # Absent
    BY <2>3, SeriesAreFound DEF Listed
  <2> HIDE DEF gone
  <2>6. GaugesUnderLabels' /\ Remembered' /\ Renamed'
    <3>1. GaugesUnderLabels'
      BY <2>1, <2>3, <2>4, SeriesAreFound DEF GaugesUnderLabels
    <3>2. Remembered'
      BY <2>2, <2>3, <2>4, SeriesAreFound DEF Remembered
    <3>3. Renamed'
      BY <2>0, <2>3, <2>4 DEF Renamed, SeriesInv
    <3> QED BY <3>1, <3>2, <3>3
  <2>7. Counted' /\ DarkMachinesLoseReadings'
    <3> SUFFICES ASSUME NEW s \in values' \cup parts'
                 PROVE  /\ dark'[s[1]] <= streaks'[<<s[1], labels'[s[1]]>>]
                        /\ dark'[s[1]] < FAILURE_THRESHOLD
      BY DEF Counted, DarkMachinesLoseReadings
    <3>1. s \in values \cup parts /\ s[1] \in Ips \ gone
      BY <2>0, <2>2, <2>3
    <3>2. labels'[s[1]] = labels[s[1]] /\ dark'[s[1]] = dark[s[1]]
      BY <3>1, <2>4
    <3>3. <<s[1], labels[s[1]]>> \in Ips \X Labels
      BY <3>1, SeriesAreFound DEF CollectorTypeOK, Lists
    <3>4. streaks'[<<s[1], labels[s[1]]>>] = streaks[<<s[1], labels[s[1]]>>]
      BY <1>3, <3>1, <3>3 DEF Forget
    <3> QED BY <3>1, <3>2, <3>4 DEF SeriesInv, Counted, DarkMachinesLoseReadings
  <2> QED BY <1>1, <2>5, <2>6, <2>7 DEF SeriesInv, Labelled, Working, Bare, NoGhostSeries
<1> QED BY <1>2, <1>3 DEF StartPass

\* Publishing parts replaces what their caches had (set_miner_boards, set_miner_fans...).
LEMMA PartsAreReplaced ==
  ASSUME CollectorTypeOK, SeriesInv,
         NEW answered \in SUBSET Listed(polled), PublishParts(answered)
  PROVE  /\ \A ip \in answered : partLabels'[ip] = polled[ip]
         /\ \A ip \in Ips \ answered : partLabels'[ip] = partLabels[ip]
         /\ \A s \in parts' : s[1] \notin answered => s \in parts
         /\ \A s \in parts' : s[1] \in Ips /\ partLabels'[s[1]] = s[2]
<1>1. \A ip \in answered : ip \in Ips
  BY DEF Listed
<1>2. \A ip \in answered : partLabels'[ip] = polled[ip]
  BY <1>1 DEF PublishParts
<1>3. \A ip \in Ips \ answered : partLabels'[ip] = partLabels[ip]
  BY DEF PublishParts
<1>4. \A s \in parts \ PartsOf(answered) : s[1] \in Ips \ answered
  BY SeriesAreFound DEF PartsOf
<1>5. \A s \in parts' : s \in parts \ PartsOf(answered) \/ s \in {<<ip, polled[ip]>> : ip \in answered}
  BY DEF PublishParts
<1>6. \A s \in {<<ip, polled[ip]>> : ip \in answered} : s[1] \in answered /\ s[2] = polled[s[1]]
  OBVIOUS
<1>7. \A s \in parts' : s[1] \notin answered => s \in parts
  BY <1>5, <1>6
<1>8. \A s \in parts' : s[1] \in Ips /\ partLabels'[s[1]] = s[2]
  BY <1>1, <1>2, <1>3, <1>4, <1>5, <1>6, SeriesAreFound
<1> QED BY <1>2, <1>3, <1>7, <1>8

\* Reading publishes under the labels of the list, after the gauges under others are gone; a
\* machine that shows a new reading is not dark, nor is one that just got another label
\* (update_miner_label_cache).
LEMMA ReadKeepsSeries == CollectorTypeOK /\ SeriesInv /\ Read => SeriesInv'
<1> SUFFICES ASSUME CollectorTypeOK, SeriesInv, Read PROVE SeriesInv'
  OBVIOUS
<1>1. PICK result \in [Listed(polled) -> Answers \cup Failures] :
        LET answered == {ip \in Listed(polled) : result[ip] \in Answers}
        IN /\ Publish(answered)
           /\ dark' = [ip \in Ips |-> IF ip \in answered \cup Relabelled THEN 0 ELSE dark[ip]]
  BY DEF Read
<1> DEFINE answered == {ip \in Listed(polled) : result[ip] \in Answers}
<1>2. /\ phase' = "retrying" /\ polled' = polled /\ polled = list
      /\ UNCHANGED <<list, source, streaks>>
  BY DEF Read, configVars, stateVars, SeriesInv, Working
<1>3. /\ \A ip \in Listed(polled) : ip \in Ips /\ polled[ip] # Absent /\ labels'[ip] = polled[ip]
      /\ \A ip \in Ips \ Listed(polled) : labels'[ip] = labels[ip]
  BY <1>1 DEF Publish, Listed
<1>4. PublishParts(answered)
  BY <1>1 DEF Publish
<1>5. /\ values' = (values \ SeriesOf(Relabelled)) \cup {<<ip, polled[ip]>> : ip \in answered}
      /\ status' = (status \ SeriesOf(Relabelled)) \cup {<<ip, polled[ip]>> : ip \in Listed(polled)}
  BY <1>1 DEF Publish
<1>6. \A s \in (values \cup status) \ SeriesOf(Relabelled) :
        s[1] \in Ips \ Relabelled /\ labels'[s[1]] = labels[s[1]] /\ labels'[s[1]] = s[2]
  BY <1>3, SeriesAreFound DEF SeriesOf, Relabelled
<1>7. GaugesUnderLabels'
  BY <1>3, <1>5, <1>6 DEF GaugesUnderLabels
<1>8. Remembered'
  <2> SUFFICES ASSUME NEW s \in parts' PROVE partLabels'[s[1]] = s[2] /\ labels'[s[1]] # Absent
    BY DEF Remembered
  <2>1. partLabels'[s[1]] = s[2] /\ s[1] \in Ips /\ (s[1] \in answered \/ s \in parts)
    BY <1>4, PartsAreReplaced
  <2>2. s[1] \in Listed(polled) \/ labels'[s[1]] = labels[s[1]]
    BY <1>3, <2>1
  <2> QED BY <1>3, <2>1, <2>2, SeriesAreFound
<1>9. Renamed'
  <2> SUFFICES ASSUME NEW s \in values' PROVE partLabels'[s[1]] = s[2]
    BY DEF Renamed
  <2>1. CASE s[1] \in answered
    BY <1>3, <1>4, <1>7, <2>1, PartsAreReplaced DEF GaugesUnderLabels
  <2>2. CASE s[1] \notin answered
    <3>1. s \in values /\ s[1] \in Ips
      BY <1>5, <2>2, SeriesAreFound
    <3>2. partLabels'[s[1]] = partLabels[s[1]]
      BY <1>4, <2>2, <3>1, PartsAreReplaced
    <3> QED BY <3>1, <3>2 DEF SeriesInv, Renamed
  <2> QED BY <2>1, <2>2
<1>10. NoGhostSeries'
  <2>1. \A s \in values' \cup parts' \cup status' :
          s \in values \cup parts \cup status \/ s[1] \in Listed(polled)
    BY <1>4, <1>5, PartsAreReplaced
  <2> QED BY <1>2, <2>1 DEF NoGhostSeries, SeriesInv, Listed
<1>11. Counted' /\ DarkMachinesLoseReadings'
  <2> SUFFICES ASSUME NEW s \in values' \cup parts'
               PROVE  /\ dark'[s[1]] <= streaks[<<s[1], labels'[s[1]]>>]
                      /\ dark'[s[1]] < FAILURE_THRESHOLD
    BY <1>2 DEF Counted, DarkMachinesLoseReadings
  <2>1. s[1] \in Ips /\ (s[1] \in answered \/ s \in values \cup parts)
    BY <1>4, <1>5, PartsAreReplaced, SeriesAreFound DEF Listed
  <2>2. dark'[s[1]] = IF s[1] \in answered \cup Relabelled THEN 0 ELSE dark[s[1]]
    BY <1>1, <2>1
  <2>3. CASE s[1] \in answered \cup Relabelled
    <3>1. s[1] \in Listed(polled)
      BY <2>3 DEF Relabelled
    <3>2. <<s[1], labels'[s[1]]>> \in Ips \X Labels
      BY <1>3, <3>1 DEF CollectorTypeOK, Listed, Lists
    <3> QED BY <2>2, <2>3, <3>2 DEF CollectorTypeOK
  <2>4. CASE s[1] \notin answered \cup Relabelled
    <3>1. labels'[s[1]] = labels[s[1]]
      BY <1>3, <2>1, <2>4 DEF Relabelled
    <3> QED BY <2>1, <2>2, <2>4, <3>1 DEF SeriesInv, Counted, DarkMachinesLoseReadings
  <2> QED BY <2>3, <2>4
<1>12. Labelled' /\ Working' /\ Bare'
  BY <1>2, <1>3 DEF Labelled, Working, Bare, Listed
<1> QED BY <1>7, <1>8, <1>9, <1>10, <1>11, <1>12 DEF SeriesInv

\* A second method that answers publishes under the same labels (main.py, _update_metrics).
LEMMA RetryKeepsSeries == CollectorTypeOK /\ SeriesInv /\ Retry => SeriesInv'
<1> SUFFICES ASSUME CollectorTypeOK, SeriesInv, Retry PROVE SeriesInv'
  OBVIOUS
<1>1. PICK answered \in SUBSET Due :
        /\ values' = values \cup {<<ip, polled[ip]>> : ip \in answered}
        /\ PublishParts(answered)
        /\ dark' = [ip \in Ips |-> IF ip \in answered THEN 0 ELSE dark[ip]]
  BY DEF Retry
<1>2. /\ phase' = "closing" /\ polled = list
      /\ UNCHANGED <<list, source, polled, labels, status, streaks>>
      /\ \A ip \in Listed(polled) : labels[ip] = polled[ip]
  BY DEF Retry, configVars, SeriesInv, Working, Labelled
<1>3. \A ip \in answered : ip \in Listed(polled) /\ <<ip, polled[ip]>> \in Ips \X Labels
  BY DEF Due, Listed, CollectorTypeOK, Lists
<1>4. answered \in SUBSET Listed(polled)
  BY <1>3
<1>5. \A s \in values' : s \in values \/ (s[1] \in answered /\ s[2] = polled[s[1]])
  BY <1>1
<1>6. GaugesUnderLabels'
  BY <1>2, <1>3, <1>5 DEF GaugesUnderLabels, SeriesInv
<1>7. Remembered'
  <2> SUFFICES ASSUME NEW s \in parts' PROVE partLabels'[s[1]] = s[2] /\ labels[s[1]] # Absent
    BY <1>2 DEF Remembered
  <2>1. partLabels'[s[1]] = s[2] /\ (s[1] \in answered \/ s \in parts)
    BY <1>1, <1>4, PartsAreReplaced
  <2> QED BY <1>2, <1>3, <2>1, SeriesAreFound DEF Listed
<1>8. Renamed'
  <2> SUFFICES ASSUME NEW s \in values' PROVE partLabels'[s[1]] = s[2]
    BY DEF Renamed
  <2>1. CASE s[1] \in answered
    BY <1>1, <1>2, <1>3, <1>4, <1>6, <2>1, PartsAreReplaced DEF GaugesUnderLabels
  <2>2. CASE s[1] \notin answered
    BY <1>1, <1>4, <1>5, <2>2, PartsAreReplaced, SeriesAreFound DEF SeriesInv, Renamed
  <2> QED BY <2>1, <2>2
<1>9. NoGhostSeries'
  <2>1. \A s \in values' \cup parts' \cup status' :
          s \in values \cup parts \cup status \/ s[1] \in Listed(polled)
    BY <1>1, <1>2, <1>4, <1>5, PartsAreReplaced
  <2> QED BY <1>2, <2>1 DEF NoGhostSeries, SeriesInv, Listed
<1>10. Counted' /\ DarkMachinesLoseReadings'
  <2> SUFFICES ASSUME NEW s \in values' \cup parts'
               PROVE  /\ dark'[s[1]] <= streaks[<<s[1], labels[s[1]]>>]
                      /\ dark'[s[1]] < FAILURE_THRESHOLD
    BY <1>2 DEF Counted, DarkMachinesLoseReadings
  <2>1. s[1] \in Ips /\ (s[1] \in answered \/ s \in values \cup parts)
    BY <1>1, <1>3, <1>4, <1>5, PartsAreReplaced, SeriesAreFound
  <2>2. dark'[s[1]] = IF s[1] \in answered THEN 0 ELSE dark[s[1]]
    BY <1>1, <2>1
  <2>3. CASE s[1] \in answered
    <3>1. <<s[1], labels[s[1]]>> \in Ips \X Labels
      BY <1>2, <1>3, <2>3
    <3> QED BY <2>2, <2>3, <3>1 DEF CollectorTypeOK
  <2>4. CASE s[1] \notin answered
    BY <2>1, <2>2, <2>4 DEF SeriesInv, Counted, DarkMachinesLoseReadings
  <2> QED BY <2>3, <2>4
<1> QED BY <1>2, <1>6, <1>7, <1>8, <1>9, <1>10 DEF SeriesInv, Labelled, Working, Bare

\* Streak and darkness grow together, and the threshold takes the readings away, those of the
\* parts by their own caches.
LEMMA FinishKeepsSeries == CollectorTypeOK /\ SeriesInv /\ Finish => SeriesInv'
<1> SUFFICES ASSUME CollectorTypeOK, SeriesInv, Finish PROVE SeriesInv'
  OBVIOUS
<1> DEFINE culled == {ip \in Listed(polled) : outcome[ip] = "error"
                        /\ streaks'[<<ip, polled[ip]>>] >= FAILURE_THRESHOLD}
<1>1. /\ phase' = "idle" /\ values' \subseteq values /\ parts' \subseteq parts
      /\ UNCHANGED <<list, source, polled, labels, status>>
      /\ \A ip \in Listed(polled) : labels[ip] = polled[ip]
  BY DEF Finish, Cull, configVars, passVars, SeriesInv, Labelled
<1>2. \A s \in values' \cup parts' : s \in values \cup parts /\ s[1] \in Ips \ culled
  <2>1. values' = values \ SeriesOf(culled) /\ parts' = parts \ PartsOf(culled)
    BY DEF Finish, Cull
  <2> HIDE DEF culled
  <2>2. \A s \in values' : s[1] \notin culled
    BY <2>1, SeriesAreFound DEF SeriesOf
  <2>3. \A s \in parts' : s[1] \notin culled
    BY <2>1, SeriesAreFound DEF PartsOf
  <2> QED BY <1>1, <2>2, <2>3, SeriesAreFound
<1>3. \A ip \in Ips \ culled : partLabels'[ip] = partLabels[ip]
  BY DEF Finish, Cull
<1>4. GaugesUnderLabels' /\ Remembered' /\ Renamed'
  BY <1>1, <1>2, <1>3 DEF GaugesUnderLabels, Remembered, Renamed, SeriesInv
<1>5. NoGhostSeries'
  BY <1>1 DEF NoGhostSeries, SeriesInv
<1>6. Counted' /\ DarkMachinesLoseReadings'
  <2> SUFFICES ASSUME NEW s \in values' \cup parts'
               PROVE  /\ dark'[s[1]] <= streaks'[<<s[1], labels[s[1]]>>]
                      /\ dark'[s[1]] < FAILURE_THRESHOLD
    BY <1>1 DEF Counted, DarkMachinesLoseReadings
  <2> DEFINE ip == s[1]
             k == <<ip, labels[ip]>>
  <2>1. /\ ip \in Ips \ culled /\ k \in Ips \X Labels
        /\ dark[ip] <= streaks[k] /\ dark[ip] < FAILURE_THRESHOLD
        /\ dark[ip] \in Nat /\ streaks[k] \in 0..FAILURE_THRESHOLD
    <3>1. ip \in Ips \ culled /\ labels[ip] # Absent /\ s \in values \cup parts
      BY <1>2, SeriesAreFound
    <3>2. k \in Ips \X Labels
      BY <3>1 DEF CollectorTypeOK, Lists
    <3> QED BY <3>1, <3>2 DEF SeriesInv, Counted, DarkMachinesLoseReadings, CollectorTypeOK
  <2>2. CASE ip \notin Listed(polled)
    BY <2>1, <2>2 DEF Finish
  <2>3. CASE ip \in Listed(polled) /\ outcome[ip] # "error"
    <3>1. dark'[ip] = 0 /\ streaks'[k] = 0
      BY <1>1, <2>1, <2>3 DEF Finish, Streak
    <3> QED BY <3>1
  <2>4. CASE ip \in Listed(polled) /\ outcome[ip] = "error"
    <3>1. /\ dark'[ip] = AtMost(dark[ip] + 1, FAILURE_THRESHOLD)
          /\ streaks'[k] = AtMost(streaks[k] + 1, FAILURE_THRESHOLD)
      BY <1>1, <2>1, <2>4 DEF Finish, Streak
    <3>2. ~(streaks'[k] >= FAILURE_THRESHOLD)
      BY <1>1, <2>1, <2>4
    <3> QED BY <2>1, <3>1, <3>2 DEF AtMost
  <2> QED BY <2>2, <2>3, <2>4
<1> QED BY <1>1, <1>4, <1>5, <1>6 DEF SeriesInv, Labelled, Working, Bare

LEMMA RestKeepsSeries ==
  SeriesInv /\ (Abort \/ Expire \/ Edit \/ BackendTurns \/ UNCHANGED vars) => SeriesInv'
<1> SUFFICES ASSUME SeriesInv, Abort \/ Expire \/ Edit \/ BackendTurns \/ UNCHANGED vars
             PROVE  SeriesInv'
  OBVIOUS
<1>1. /\ UNCHANGED <<list, source, polled, labels, partLabels, values, parts, status, dark, streaks>>
      /\ phase' = phase \/ phase' = "idle"
  BY DEF Abort, Expire, Edit, BackendTurns, vars, configVars, passVars, seriesVars, stateVars
<1> QED BY <1>1 DEF SeriesInv, GaugesUnderLabels, Remembered, Renamed, Labelled, Working, Counted,
                    DarkMachinesLoseReadings, Bare, NoGhostSeries

-----------------------------------------------------------------------------
(* The theorems.                                                           *)

LEMMA InitInv == Init => IInv
<1> SUFFICES ASSUME Init PROVE IInv
  OBVIOUS
<1>1. ConfigInv
  BY DEF Init, ConfigInv, FleetSurvivesOutage, DegradedIsRetried, Asked, DEGRADED_CONFIG_SOURCES
<1>2. SeriesInv
  BY DEF Init, SeriesInv, GaugesUnderLabels, Remembered, Renamed, Labelled, Working, Counted,
         DarkMachinesLoseReadings, Bare, NoGhostSeries
<1> QED BY <1>1, <1>2, InitTyped DEF IInv

LEMMA StepKeepsInv == IInv /\ [Next]_vars => IInv'
<1>1. CollectorTypeOK /\ SeriesInv /\ [Next]_vars => SeriesInv'
  BY StartKeepsSeries, CrashKeepsSeries, StartPassKeepsSeries, ReadKeepsSeries, RetryKeepsSeries,
     FinishKeepsSeries, RestKeepsSeries DEF Next
<1> QED BY <1>1, StepTyped, StepKeepsConfig DEF IInv

THEOREM Invariance == Spec => []IInv
BY InitInv, StepKeepsInv, PTL DEF Spec

\* A machine's gauges stand under the labels the cache remembers, so every removal finds them,
\* and its readings and those of its parts never stand under two names (metrics.py), for every
\* fleet and every order of renamings, failures and fallbacks.
THEOREM ReadingsKeepOneName == Spec => []ReadingsUnderOneName
<1>1. IInv => ReadingsUnderOneName
  <2> SUFFICES ASSUME IInv PROVE ReadingsUnderOneName
    OBVIOUS
  <2>1. \A s \in values \cup status : labels[s[1]] = s[2]
    BY DEF IInv, SeriesInv, GaugesUnderLabels
  <2>2. \A s \in values \cup parts : partLabels[s[1]] = s[2]
    BY DEF IInv, SeriesInv, Remembered, Renamed
  <2> QED BY <2>1, <2>2 DEF ReadingsUnderOneName
<1> QED BY <1>1, Invariance, PTL

\* Under a trusted list nothing is published of a machine it does not have (DMI-80).
THEOREM GhostsAreGone == Spec => []NoGhostSeries
<1>1. IInv => NoGhostSeries
  BY DEF IInv, SeriesInv
<1> QED BY <1>1, Invariance, PTL

\* A machine that refused FAILURE_THRESHOLD passes in a row under the label it has shows no
\* reading, of its own or of its parts (DMI-55).
THEOREM DarkReadingsGo == Spec => []DarkMachinesLoseReadings
<1>1. IInv => DarkMachinesLoseReadings
  BY DEF IInv, SeriesInv
<1> QED BY <1>1, Invariance, PTL

\* The backend's list is never replaced by the seed file within a process (DMI-58), however
\* often the backend is down and the process asks again.
THEOREM OutageKeepsTheFleet == Spec => []FleetSurvivesOutage
<1>1. IInv => FleetSurvivesOutage
  BY DEF IInv, ConfigInv
<1> QED BY <1>1, Invariance, PTL

\* A list that is not the one asked for is never served as fresh, whatever file the process fell
\* back on and for how long, unless the backend had answered that there is none (get_miners).
THEOREM DegradedListsAreRetried == Spec => []DegradedIsRetried
<1>1. IInv => DegradedIsRetried
  BY DEF IInv, ConfigInv
<1> QED BY <1>1, Invariance, PTL
=============================================================================
