---------------------------- MODULE MinerControl ----------------------------
(***************************************************************************)
(* What the backend does to the machines, and what it stores of their      *)
(* pools: restarting one, several or all of them, reading the pools a      *)
(* machine mines for, writing them, and the table of pool assignments      *)
(* (miner-control.service.ts, miner-rebooter.ts, the routes of             *)
(* mining.routes.ts, setMinerPools of miner.repository.ts).                *)
(*                                                                         *)
(* A request of a user is a job; what it asks of a machine is a task, and  *)
(* the tasks of a bulk request run side by side.  A machine may be        *)
(* unplugged, refuse, or do what it was told without its answer arriving.  *)
(* Passwords are left out: a read hides them.                              *)
(***************************************************************************)
EXTENDS Naturals, Sequences, SequencesExt, FiniteSets

CONSTANTS
  Machines,      \* addresses
  Tokened,       \* those that want a token before a command: the Whatsminers
  WebMethods,    \* the ways to read a machine's pools that are tried before its API
  PoolEntries,   \* what one line of a machine's configuration says
  Configs,       \* lists of pools a machine may have, never empty
  Entered,       \* what users enter as assignments: lists of rows
  Slots,         \* jobs in flight
  Nothing,       \* no job
  MaxRequests,   \* bound: jobs and assignments asked for
  MaxChanges     \* bound: miners removed, added, configured by others

Row == [pool : PoolEntries, priority : Nat]

ASSUME MethodsAssumption == WebMethods \in [Machines -> Nat]
ASSUME PoolListsAssumption == Configs \subseteq Seq(PoolEntries) \ {<<>>} /\ Entered \subseteq Seq(Row)
ASSUME SlotsAssumption == IsFiniteSet(Slots)

VARIABLES
  configured,    \* the miners of the inventory
  hardware,      \* the pools each machine has
  rows,          \* miner_pools: the rows [pool, priority] of each miner
  jobs,          \* what each slot runs, or Nothing
  given,         \* history: the lists given to setMinerPools since the miner was added
  asked,         \* history: restarts asked for
  restarted,     \* history: restarts carried out
  requestsLeft, changesLeft

table == <<rows, given>>
restarts == <<asked, restarted>>
bounds == <<requestsLeft, changesLeft>>
controlVars == <<configured, hardware, table, jobs, restarts, bounds>>

----------------------------------------------------------------------------
(* The table.                                                              *)

Numbered(pools) == [i \in 1..Len(pools) |-> [pool |-> pools[i], priority |-> i - 1]]

\* The primary key is the miner and the priority: the rows before the first clash are there.
ClashFree(list) == \A i, j \in 1..Len(list) : list[i].priority = list[j].priority => i = j
Inserted(list) ==
  UNION {ToSet(SubSeq(list, 1, n)) : n \in {k \in 0..Len(list) : ClashFree(SubSeq(list, 1, k))}}

\* Defect: a row is replaced by its priority, and the others stay.
ReplaceRows(m, list) ==
  {r \in rows[m] : \A new \in Inserted(list) : new.priority # r.priority} \cup Inserted(list)

\* Without a transaction: the old rows are deleted whatever becomes of the new.
RowsAfter(m, list) == Inserted(list)

\* A miner that is gone has no rows, and its foreign key refuses new ones.
setMinerPools(m, list) ==
  IF m \in configured
  THEN /\ rows' = [rows EXCEPT ![m] = RowsAfter(m, list)]
       /\ given' = [given EXCEPT ![m] = @ \cup {list}]
  ELSE UNCHANGED table

----------------------------------------------------------------------------
(* Requests.                                                               *)

Request == requestsLeft > 0 /\ requestsLeft' = requestsLeft - 1 /\ UNCHANGED changesLeft
Free(h) == jobs[h] = Nothing
Job(h, job) == jobs' = [jobs EXCEPT ![h] = job]

\* rebootMiner up to its first command: a miner nobody knows is a failure.
FirstLeg(m) ==
  IF m \notin configured THEN "failed" ELSE IF m \in Tokened THEN "token" ELSE "restart"

\* rebootMiners: one miner, several, or all.  A request names a machine once: the code maps a
\* list, and one that named a machine twice would be two requests at once.
RebootRequested(h) ==
  /\ Request /\ Free(h)
  /\ \E ids \in SUBSET Machines \ {{}} :
       /\ Job(h, [kind |-> "reboot", tasks |-> [m \in ids |-> FirstLeg(m)]])
       /\ asked' = [m \in Machines |-> asked[m] + (IF m \in ids THEN 1 ELSE 0)]
  /\ UNCHANGED <<configured, hardware, table, restarted>>

\* bulkUpdatePools: the machines are written whatever they are.
UpdateRequested(h) ==
  /\ Request /\ Free(h)
  /\ \E ids \in SUBSET Machines \ {{}}, pools \in Configs :
       Job(h, [kind |-> "update", pools |-> pools,
               tasks |-> [m \in ids |-> IF m \in configured THEN "post" ELSE "failed"]])
  /\ UNCHANGED <<configured, hardware, table, restarts>>

\* getMinerPools, to show the pools or to store them.
ReadRequested(h) ==
  /\ Request /\ Free(h)
  /\ \E m \in configured, save \in BOOLEAN :
       Job(h, [kind |-> "read", miner |-> m, method |-> 1, save |-> save])
  /\ UNCHANGED <<configured, hardware, table, restarts>>

\* PUT pool-assignments.
AssignmentsEntered ==
  /\ Request
  /\ \E m \in Machines, list \in Entered : setMinerPools(m, list)
  /\ UNCHANGED <<configured, hardware, jobs, restarts>>

----------------------------------------------------------------------------
(* Commands to a machine.                                                  *)

Finals == {"ok", "failed"}

\* The job is answered when the last of its tasks has ended.
TaskEnds(h, m, state) ==
  LET tasks == [jobs[h].tasks EXCEPT ![m] = state]
  IN Job(h, IF \A t \in DOMAIN tasks : tasks[t] \in Finals THEN Nothing
            ELSE [jobs[h] EXCEPT !.tasks = tasks])

Doing(h, m, leg) ==
  /\ ~Free(h) /\ jobs[h].kind # "read" /\ m \in DOMAIN jobs[h].tasks
  /\ jobs[h].tasks[m] = leg

\* A bulk request none of whose miners is known is answered at once.
NoneFound(h) ==
  /\ ~Free(h) /\ jobs[h].kind # "read"
  /\ \A m \in DOMAIN jobs[h].tasks : jobs[h].tasks[m] \in Finals
  /\ Job(h, Nothing)
  /\ UNCHANGED <<configured, hardware, table, restarts, bounds>>

\* get_token: with it the command is sent, without it there is none.
TokenEnds(h, m) ==
  /\ Doing(h, m, "token")
  /\ \E state \in {"restart", "failed"} : TaskEnds(h, m, state)
  /\ UNCHANGED <<configured, hardware, table, restarts, bounds>>

\* Defect: a restart that was not answered is sent once more.
RestartFailedAgain == "restart"
RestartFailed == "failed"

\* The command (sendTcpJson) is carried out or not, and answered within four seconds or not; any answer is taken
\* for a success.
RestartEnds(h, m) ==
  /\ Doing(h, m, "restart")
  /\ restarted' \in {restarted, [restarted EXCEPT ![m] = @ + 1]}
  /\ \E state \in {"ok", RestartFailed} : TaskEnds(h, m, state)
  /\ UNCHANGED <<configured, hardware, table, asked, bounds>>

\* set_miner_conf.cgi takes the pools or not, and is answered or not.
UpdateEnds(h, m) ==
  /\ Doing(h, m, "post")
  /\ hardware' \in {hardware, [hardware EXCEPT ![m] = jobs[h].pools]}
  /\ \E state \in Finals : TaskEnds(h, m, state)
  /\ UNCHANGED <<configured, table, restarts, bounds>>

----------------------------------------------------------------------------
(* Reading the pools of a machine.                                         *)

Reading(h) == ~Free(h) /\ jobs[h].kind = "read"

\* A method that works: what it read is stored, for the address by then.
ReadDone(h) ==
  /\ Reading(h)
  /\ LET m == jobs[h].miner
     IN IF jobs[h].save THEN setMinerPools(m, Numbered(hardware[m])) ELSE UNCHANGED table
  /\ Job(h, Nothing)
  /\ UNCHANGED <<configured, hardware, restarts, bounds>>

\* Defect: after a failure it starts over.
MethodsOver(m, method) == IF method < WebMethods[m] + 1 THEN method + 1 ELSE 1

\* The methods are tried in turn, the API last; 0 when there is none left.
NextMethod(m, method) == IF method < WebMethods[m] + 1 THEN method + 1 ELSE 0

\* It fails, times out or has no pools.
ReadFails(h) ==
  /\ Reading(h)
  /\ LET next == NextMethod(jobs[h].miner, jobs[h].method)
     IN Job(h, IF next = 0 THEN Nothing ELSE [jobs[h] EXCEPT !.method = next])
  /\ UNCHANGED <<configured, hardware, table, restarts, bounds>>

----------------------------------------------------------------------------
(* The inventory and the machines change meanwhile.                        *)

Change == changesLeft > 0 /\ changesLeft' = changesLeft - 1 /\ UNCHANGED requestsLeft

\* ON DELETE CASCADE.
RowsOfDeleted(m) == {}

MinerRemoved(m) ==
  /\ Change /\ m \in configured
  /\ configured' = configured \ {m}
  /\ rows' = [rows EXCEPT ![m] = RowsOfDeleted(m)] /\ given' = [given EXCEPT ![m] = {}]
  /\ UNCHANGED <<hardware, jobs, restarts>>

\* Added by hand, without pools, or imported with those of the file.
MinerAdded(m) ==
  /\ Change /\ m \notin configured
  /\ configured' = configured \cup {m}
  /\ \/ UNCHANGED table
     \/ \E pools \in Configs :
          /\ rows' = [rows EXCEPT ![m] = RowsAfter(m, Numbered(pools))]
          /\ given' = [given EXCEPT ![m] = {Numbered(pools)}]
  /\ UNCHANGED <<hardware, jobs, restarts>>

\* Someone configures the machine at its own page.
MachineConfigured(m) ==
  /\ Change
  /\ \E pools \in Configs : hardware' = [hardware EXCEPT ![m] = pools]
  /\ UNCHANGED <<configured, table, jobs, restarts>>

----------------------------------------------------------------------------
ControlInit ==
  /\ configured = Machines
  /\ hardware \in [Machines -> Configs]
  /\ rows = [m \in Machines |-> {}] /\ given = [m \in Machines |-> {}]
  /\ jobs = [h \in Slots |-> Nothing]
  /\ asked = [m \in Machines |-> 0] /\ restarted = [m \in Machines |-> 0]
  /\ requestsLeft = MaxRequests /\ changesLeft = MaxChanges

Progress(h) ==
  \/ NoneFound(h) \/ ReadDone(h) \/ ReadFails(h)
  \/ \E m \in Machines : TokenEnds(h, m) \/ RestartEnds(h, m) \/ UpdateEnds(h, m)

ControlNext ==
  \/ \E h \in Slots : RebootRequested(h) \/ UpdateRequested(h) \/ ReadRequested(h) \/ Progress(h)
  \/ AssignmentsEntered
  \/ \E m \in Machines : MinerRemoved(m) \/ MinerAdded(m) \/ MachineConfigured(m)

\* Every call of a machine has a timeout: it answers, fails or is given up.
ControlFairness == \A h \in Slots : WF_controlVars(Progress(h))
ControlSpec == ControlInit /\ [][ControlNext]_controlVars /\ ControlFairness

----------------------------------------------------------------------------
(* The assignments of a miner are of one list that was entered, imported or read, from its first
   pool on, and never a mixture of two, although reads, entries and removals overlap and an entry
   may fail half way; a miner that is gone has none, not even from a read that was under way
   (setMinerPools, the keys of miner_pools). *)
StoredPoolsAreOneList ==
  \A m \in Machines : rows[m] # {} =>
    /\ m \in configured
    /\ \E list \in given[m] : \E n \in 1..Len(list) : rows[m] = ToSet(SubSeq(list, 1, n))

(* A machine is not restarted more often than someone asked for it, though tokens, commands and
   answers get lost: nothing on the way repeats a command (rebootMiners, sendTcpJson). *)
RestartsWereAsked == \A m \in Machines : restarted[m] <= asked[m]

(* Every request is answered, however many machines of a bulk are silent and however many methods of
   reading the pools fail (Promise.all, the loop over the methods). *)
RequestsEnd == \A h \in Slots : ~Free(h) ~> Free(h)
=============================================================================
