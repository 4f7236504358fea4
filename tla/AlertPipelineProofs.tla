------------------------ MODULE AlertPipelineProofs ------------------------
(***************************************************************************)
(* What AlertPipeline guarantees for every set of alerts, any number of    *)
(* concurrent requests, any history size and any faults.                   *)
(*                                                                         *)
(*   - Episodes: announcements made and announcements under way together   *)
(*     are no more than the episodes ended plus the one that is open;      *)
(*   - Told: an alert that is active, or would be active after a restart   *)
(*     because its row says firing, was announced, is about to be, or lost *)
(*     its announcement to a crash;                                        *)
(*   - the other properties preserve themselves.                           *)
(***************************************************************************)
EXTENDS AlertPipeline, FiniteSetTheorems, TLAPS

Types ==
  /\ condition \in [Alerts -> {"silent"} \cup Statuses]
  /\ up \in BOOLEAN
  /\ active \subseteq Ids
  /\ history \in [Ids -> {"absent"} \cup Statuses]
  /\ rows \in [Ids -> {"absent"} \cup Statuses]
  /\ request \in [Slots -> HandlerType]
  /\ \A h \in Slots : request[h].pc = "notify" => request[h].cur \in Alerts
  /\ tally \in [Alerts -> [sent : Nat, closed : Nat, forgot : Nat]]
  /\ unsaved \subseteq Ids

Open(a) == IF a \in active THEN 1 ELSE 0

Episodes ==
  \A a \in Alerts :
    tally[a].sent + Cardinality(Pending(a, "firing")) <= tally[a].closed + tally[a].forgot + Open(a)

Told ==
  \A a \in Alerts :
    a \in active \/ rows[a] = "firing" =>
      tally[a].sent > 0 \/ Pending(a, "firing") # {} \/ a \in lost

IInv == Types /\ Episodes /\ Told /\ HistoryAgreesWithActive /\ RowsMatchMemory

----------------------------------------------------------------------------
(* Lemmas.                                                                 *)

\* There are finitely many requests, so those about to announce can be counted.
LEMMA PendingFinite ==
  ASSUME NEW a, NEW status
  PROVE  /\ IsFiniteSet(Pending(a, status))
         /\ Cardinality(Pending(a, status)) \in Nat
<1>1. Pending(a, status) \in SUBSET Slots
  BY DEF Pending
<1> QED
  BY <1>1, AlertAssumption, FS_Subset, FS_CardinalityType

\* Who is about to announce changes by the one request a step is about.
LEMMA PendingStep ==
  ASSUME NEW h \in Slots, \A k \in Slots \ {h} : request'[k] = request[k],
         NEW a, NEW status
  PROVE  Pending(a, status)' =
           IF /\ request'[h].pc = "notify" /\ request'[h].cur = a
              /\ request'[h].batch[a] = status
           THEN Pending(a, status) \cup {h} ELSE Pending(a, status) \ {h}
  BY DEF Pending

\* A record enters the history under its id, or falls out of it at once; others stay or
\* fall out.  The row is replaced or the write failed.
LEMMA Recorded ==
  ASSUME Types, NEW id \in Ids, NEW s \in Statuses, AddToHistory(id, s)
  PROVE  /\ history' \in [Ids -> {"absent"} \cup Statuses]
         /\ history'[id] \in {s, "absent"}
         /\ \A i \in Ids \ {id} : history'[i] \in {history[i], "absent"}
         /\ rows' \in [Ids -> {"absent"} \cup Statuses]
         /\ unsaved' \subseteq Ids
         /\ \/ rows' = [rows EXCEPT ![id] = s] /\ unsaved' = unsaved \ {id}
            \/ rows' = rows /\ unsaved' = unsaved \cup {id}
<1>1. /\ history' \in [Ids -> {"absent"} \cup Statuses]
      /\ history'[id] \in {s, "absent"}
      /\ \A i \in Ids \ {id} : history'[i] \in {history[i], "absent"}
  <2>1. CASE history[id] # "absent"
    BY <2>1 DEF AddToHistory, Types
  <2>2. CASE history[id] = "absent"
    BY <2>2 DEF AddToHistory, Types
  <2> QED BY <2>1, <2>2
<1>2. \/ rows' = [rows EXCEPT ![id] = s] /\ unsaved' = unsaved \ {id}
      \/ rows' = rows /\ unsaved' = unsaved \cup {id}
  BY DEF AddToHistory, Persist
<1> QED
  BY <1>1, <1>2 DEF Types

\* What a step of the loop does to its own request, and that it leaves the others alone.
LEMMA Looped ==
  ASSUME Types, NEW h \in Slots, NEW left \in SUBSET Alerts, NextAlert(h, left)
  PROVE  /\ request' \in [Slots -> HandlerType]
         /\ \A k \in Slots \ {h} : request'[k] = request[k]
         /\ request'[h].pc # "notify"
<1>1. Idle \in HandlerType
  <2>1. [a \in {} |-> "firing"] \in Batches
    BY DEF Batches
  <2> QED BY <2>1 DEF Idle, HandlerType, Receivers
<1>2. CASE left # {}
  <2>1. request' = [request EXCEPT ![h].pc = "recipients", ![h].todo = left, ![h].cur = NoAlert]
    BY <1>2 DEF NextAlert
  <2>2. request \in [Slots -> HandlerType]
    BY DEF Types
  <2> DEFINE next == [request[h] EXCEPT !.pc = "recipients", !.todo = left, !.cur = NoAlert]
  <2>3. next \in HandlerType /\ next.pc = "recipients"
    BY <2>2 DEF HandlerType
  <2>4. request' = [request EXCEPT ![h] = next]
    BY <2>1, <2>2 DEF HandlerType
  <2> HIDE DEF next
  <2> QED BY <2>2, <2>3, <2>4
<1>3. CASE left = {}
  <2>1. request' = [request EXCEPT ![h] = Idle]
    BY <1>3 DEF NextAlert
  <2> QED BY <2>1, <1>1 DEF Types, Idle
<1> QED BY <1>2, <1>3

LEMMA Announces ==
  ASSUME Types, NEW h \in Slots, NEW a \in Alerts,
         request' = [request EXCEPT ![h].pc = "notify", ![h].cur = a]
  PROVE  /\ request' \in [Slots -> HandlerType]
         /\ \A k \in Slots \ {h} : request'[k] = request[k]
         /\ request'[h].pc = "notify" /\ request'[h].cur = a
         /\ request'[h].batch = request[h].batch
  BY DEF Types, HandlerType

----------------------------------------------------------------------------
(* One lemma per action that records or announces.                         *)

LEMMA RecordFiringKeeps ==
  ASSUME IInv, NEW h \in Slots, NEW a \in Alerts, RecordFiring(h, a)
  PROVE  IInv'
<1> USE DEF IInv
<1>1. /\ a \in Ids /\ "firing" \in Statuses
      /\ up /\ up' /\ request[h].pc = "recipients" /\ request[h].batch[a] = "firing"
      /\ active' = active \cup {a} /\ UNCHANGED <<condition, up, tally, lost>>
      /\ AddToHistory(a, "firing")
  BY DEF RecordFiring, Ids, Statuses
<1>2. /\ history' \in [Ids -> {"absent"} \cup Statuses]
      /\ history'[a] \in {"firing", "absent"}
      /\ \A i \in Ids \ {a} : history'[i] \in {history[i], "absent"}
      /\ rows' \in [Ids -> {"absent"} \cup Statuses]
      /\ unsaved' \subseteq Ids
      /\ \/ rows' = [rows EXCEPT ![a] = "firing"] /\ unsaved' = unsaved \ {a}
         \/ rows' = rows /\ unsaved' = unsaved \cup {a}
  BY <1>1, Recorded
<1>3. /\ request' \in [Slots -> HandlerType]
      /\ \A k \in Slots \ {h} : request'[k] = request[k]
      /\ a \notin active => /\ request'[h].pc = "notify" /\ request'[h].cur = a
                            /\ request'[h].batch = request[h].batch
      /\ a \in active => request'[h].pc # "notify"
  <2>1. CASE a \notin active
    BY <2>1, Announces DEF RecordFiring
  <2>2. CASE a \in active
    <3>1. NextAlert(h, request[h].todo \ {a})
      BY <2>2 DEF RecordFiring
    <3>2. request[h].todo \ {a} \in SUBSET Alerts
      BY DEF Types, HandlerType
    <3> QED BY <2>2, <3>1, <3>2, Looped
  <2> QED BY <2>1, <2>2
<1>4. Types'
  BY <1>1, <1>2, <1>3 DEF Types, Ids
<1>5. \A b \in Alerts :
        Pending(b, "firing")' = IF b = a /\ a \notin active THEN Pending(b, "firing") \cup {h}
                                ELSE Pending(b, "firing")
  <2> SUFFICES ASSUME NEW b \in Alerts
               PROVE  Pending(b, "firing")' =
                        IF b = a /\ a \notin active THEN Pending(b, "firing") \cup {h}
                        ELSE Pending(b, "firing")
    OBVIOUS
  <2>1. h \notin Pending(b, "firing")
    BY <1>1 DEF Pending
  <2>2. Pending(b, "firing")' =
          IF request'[h].pc = "notify" /\ request'[h].cur = b /\ request'[h].batch[b] = "firing"
          THEN Pending(b, "firing") \cup {h} ELSE Pending(b, "firing") \ {h}
    BY <1>3, PendingStep
  <2> QED BY <1>1, <1>3, <2>1, <2>2
<1>6. Episodes'
  <2> SUFFICES ASSUME NEW b \in Alerts
               PROVE  tally[b].sent + Cardinality(Pending(b, "firing")')
                        <= tally[b].closed + tally[b].forgot + Open(b)'
    BY <1>1 DEF Episodes
  <2>1. /\ tally[b].sent + Cardinality(Pending(b, "firing"))
             <= tally[b].closed + tally[b].forgot + Open(b)
        /\ tally[b] \in [sent : Nat, closed : Nat, forgot : Nat]
        /\ IsFiniteSet(Pending(b, "firing")) /\ Cardinality(Pending(b, "firing")) \in Nat
    BY PendingFinite DEF Episodes, Types
  <2>2. CASE b = a /\ a \notin active
    <3>1. Cardinality(Pending(b, "firing")') = Cardinality(Pending(b, "firing")) + 1
      <4>1. h \notin Pending(b, "firing")
        BY <1>1 DEF Pending
      <4> QED BY <1>5, <2>1, <2>2, <4>1, FS_AddElement
    <3>2. Open(b) = 0 /\ Open(b)' = 1
      BY <1>1, <2>2 DEF Open
    <3> QED BY <2>1, <3>1, <3>2
  <2>3. CASE ~(b = a /\ a \notin active)
    <3>1. Open(b)' = Open(b)
      BY <1>1, <2>3 DEF Open
    <3>2. Pending(b, "firing")' = Pending(b, "firing")
      BY <1>5, <2>3
    <3> QED BY <2>1, <3>1, <3>2
  <2> QED BY <2>2, <2>3
<1>7. Told'
  <2> SUFFICES ASSUME NEW b \in Alerts, b \in active' \/ rows'[b] = "firing"
               PROVE  tally[b].sent > 0 \/ Pending(b, "firing")' # {} \/ b \in lost
    BY <1>1 DEF Told
  <2>1. CASE b = a /\ a \notin active
    BY <1>5, <2>1
  <2>2. CASE ~(b = a /\ a \notin active)
    <3>1. b \in active \/ rows[b] = "firing"
      BY <1>1, <1>2, <2>2 DEF Types, Ids
    <3> QED BY <1>5, <2>2, <3>1 DEF Told
  <2> QED BY <2>1, <2>2
<1>8. HistoryAgreesWithActive'
  BY <1>1, <1>2 DEF HistoryAgreesWithActive, Ids
<1>9. RowsMatchMemory'
  BY <1>1, <1>2 DEF RowsMatchMemory, Types
<1> QED BY <1>4, <1>6, <1>7, <1>8, <1>9

LEMMA RecordResolvedKeeps ==
  ASSUME IInv, NEW h \in Slots, NEW a \in Alerts, RecordResolved(h, a)
  PROVE  IInv'
<1> USE DEF IInv
<1>1. /\ a \in Ids /\ "resolved" \in Statuses
      /\ up /\ up' /\ request[h].pc = "recipients" /\ request[h].batch[a] = "resolved"
      /\ active' = active \ {a} /\ UNCHANGED <<condition, up, lost>>
      /\ tally' = IF a \in active THEN [tally EXCEPT ![a].closed = @ + 1] ELSE tally
      /\ AddToHistory(a, "resolved")
      /\ request' = [request EXCEPT ![h].pc = "notify", ![h].cur = a]
  BY DEF RecordResolved, Ids, Statuses
<1>2. /\ history' \in [Ids -> {"absent"} \cup Statuses]
      /\ history'[a] \in {"resolved", "absent"}
      /\ \A i \in Ids \ {a} : history'[i] \in {history[i], "absent"}
      /\ rows' \in [Ids -> {"absent"} \cup Statuses]
      /\ unsaved' \subseteq Ids
      /\ \/ rows' = [rows EXCEPT ![a] = "resolved"] /\ unsaved' = unsaved \ {a}
         \/ rows' = rows /\ unsaved' = unsaved \cup {a}
  BY <1>1, Recorded
<1>3. /\ request' \in [Slots -> HandlerType]
      /\ \A k \in Slots \ {h} : request'[k] = request[k]
      /\ request'[h].pc = "notify" /\ request'[h].cur = a
      /\ request'[h].batch = request[h].batch
  BY <1>1, Announces
<1>4. Types'
  BY <1>1, <1>2, <1>3 DEF Types, Ids
<1>5. \A b \in Alerts : Pending(b, "firing")' = Pending(b, "firing")
  <2> SUFFICES ASSUME NEW b \in Alerts PROVE Pending(b, "firing")' = Pending(b, "firing")
    OBVIOUS
  <2>1. h \notin Pending(b, "firing")
    BY <1>1 DEF Pending
  <2>2. ~(request'[h].cur = b /\ request'[h].batch[b] = "firing")
    BY <1>1, <1>3
  <2>3. Pending(b, "firing")' =
          IF request'[h].pc = "notify" /\ request'[h].cur = b /\ request'[h].batch[b] = "firing"
          THEN Pending(b, "firing") \cup {h} ELSE Pending(b, "firing") \ {h}
    BY <1>3, PendingStep
  <2> QED BY <2>1, <2>2, <2>3
<1>6. Episodes'
  <2> SUFFICES ASSUME NEW b \in Alerts
               PROVE  tally'[b].sent + Cardinality(Pending(b, "firing")')
                        <= tally'[b].closed + tally'[b].forgot + Open(b)'
    BY DEF Episodes
  <2>1. /\ tally[b].sent + Cardinality(Pending(b, "firing"))
             <= tally[b].closed + tally[b].forgot + Open(b)
        /\ tally[b] \in [sent : Nat, closed : Nat, forgot : Nat]
        /\ Cardinality(Pending(b, "firing")) \in Nat
        /\ Pending(b, "firing")' = Pending(b, "firing")
    BY <1>5, PendingFinite DEF Episodes, Types
  <2>2. CASE b = a /\ a \in active
    <3>1. Open(b) = 1 /\ Open(b)' = 0
      BY <1>1, <2>2 DEF Open
    <3>2. /\ tally'[b].sent = tally[b].sent /\ tally'[b].forgot = tally[b].forgot
          /\ tally'[b].closed = tally[b].closed + 1
      BY <1>1, <2>2 DEF Types
    <3> QED BY <2>1, <3>1, <3>2
  <2>3. CASE ~(b = a /\ a \in active)
    <3>1. Open(b)' = Open(b)
      BY <1>1, <2>3 DEF Open
    <3>2. tally'[b] = tally[b]
      BY <1>1, <2>3 DEF Types
    <3> QED BY <2>1, <3>1, <3>2
  <2> QED BY <2>2, <2>3
<1>7. Told'
  <2> SUFFICES ASSUME NEW b \in Alerts, b \in active' \/ rows'[b] = "firing"
               PROVE  tally'[b].sent > 0 \/ Pending(b, "firing")' # {} \/ b \in lost
    BY <1>1 DEF Told
  <2>1. b \in active \/ rows[b] = "firing"
    BY <1>1, <1>2 DEF Types, Ids
  <2>2. tally'[b].sent = tally[b].sent
    BY <1>1 DEF Types
  <2> QED BY <1>5, <2>1, <2>2 DEF Told
<1>8. HistoryAgreesWithActive'
  BY <1>1, <1>2 DEF HistoryAgreesWithActive, Ids
<1>9. RowsMatchMemory'
  BY <1>1, <1>2 DEF RowsMatchMemory, Types
<1> QED BY <1>4, <1>6, <1>7, <1>8, <1>9

\* The announcement under way is made.
LEMMA NotifyKeeps ==
  ASSUME IInv, NEW h \in Slots, Notify(h)
  PROVE  IInv'
<1> USE DEF IInv
<1> DEFINE a == request[h].cur
           announcing == request[h].batch[a] = "firing"
<1>1. /\ up /\ request[h].pc = "notify" /\ a \in Alerts
      /\ tally' = IF announcing THEN [tally EXCEPT ![a].sent = @ + 1] ELSE tally
      /\ NextAlert(h, request[h].todo \ {a})
      /\ UNCHANGED <<condition, up, active, history, rows, unsaved, lost>>
  BY DEF Notify, recordVars, Types
<1>2. /\ request' \in [Slots -> HandlerType]
      /\ \A k \in Slots \ {h} : request'[k] = request[k]
      /\ request'[h].pc # "notify"
  <2>1. request[h].todo \ {a} \in SUBSET Alerts
    BY DEF Types, HandlerType
  <2> QED BY <1>1, <2>1, Looped
<1>3. Types'
  BY <1>1, <1>2 DEF Types
<1>4. \A b \in Alerts :
        /\ Pending(b, "firing")' = Pending(b, "firing") \ {h}
        /\ h \in Pending(b, "firing") <=> b = a /\ announcing
  <2> SUFFICES ASSUME NEW b \in Alerts
               PROVE  /\ Pending(b, "firing")' = Pending(b, "firing") \ {h}
                      /\ h \in Pending(b, "firing") <=> b = a /\ announcing
    OBVIOUS
  <2>1. Pending(b, "firing")' =
          IF request'[h].pc = "notify" /\ request'[h].cur = b /\ request'[h].batch[b] = "firing"
          THEN Pending(b, "firing") \cup {h} ELSE Pending(b, "firing") \ {h}
    BY <1>2, PendingStep
  <2>2. h \in Pending(b, "firing") <=> b = a /\ announcing
    BY <1>1 DEF Pending
  <2> QED BY <1>2, <2>1, <2>2
<1>5. \A b \in Alerts :
        /\ tally'[b].closed = tally[b].closed /\ tally'[b].forgot = tally[b].forgot
        /\ tally'[b].sent = IF b = a /\ announcing THEN tally[b].sent + 1 ELSE tally[b].sent
  BY <1>1 DEF Types
<1>6. Episodes'
  <2> SUFFICES ASSUME NEW b \in Alerts
               PROVE  tally'[b].sent + Cardinality(Pending(b, "firing")')
                        <= tally'[b].closed + tally'[b].forgot + Open(b)'
    BY DEF Episodes
  <2>1. /\ tally[b].sent + Cardinality(Pending(b, "firing"))
             <= tally[b].closed + tally[b].forgot + Open(b)
        /\ tally[b] \in [sent : Nat, closed : Nat, forgot : Nat]
        /\ IsFiniteSet(Pending(b, "firing")) /\ Cardinality(Pending(b, "firing")) \in Nat
    BY PendingFinite DEF Episodes, Types
  <2>2. Cardinality(Pending(b, "firing")') =
          IF b = a /\ announcing THEN Cardinality(Pending(b, "firing")) - 1
          ELSE Cardinality(Pending(b, "firing"))
    BY <1>4, <2>1, FS_RemoveElement
  <2>3. Open(b)' = Open(b)
    BY <1>1 DEF Open
  <2> HIDE DEF a, announcing
  <2> QED BY <1>5, <2>1, <2>2, <2>3 DEF Open
<1>7. Told'
  <2> SUFFICES ASSUME NEW b \in Alerts, b \in active \/ rows[b] = "firing"
               PROVE  tally'[b].sent > 0 \/ Pending(b, "firing")' # {} \/ b \in lost
    BY <1>1 DEF Told
  <2>1. tally[b].sent > 0 \/ Pending(b, "firing") # {} \/ b \in lost
    BY DEF Told
  <2>2. tally[b].sent \in Nat
    BY DEF Types
  <2> HIDE DEF a, announcing
  <2> QED BY <1>4, <1>5, <2>1, <2>2
<1>8. HistoryAgreesWithActive' /\ RowsMatchMemory'
  BY <1>1 DEF HistoryAgreesWithActive, RowsMatchMemory
<1> QED BY <1>3, <1>6, <1>7, <1>8

\* Who was about to announce is lost, and only then.
LEMMA CrashKeeps ==
  ASSUME IInv, Crash
  PROVE  IInv'
<1> USE DEF IInv
<1>1. /\ up' = FALSE /\ request' = [h \in Slots |-> Idle]
      /\ lost' = lost \cup {request[h].cur : h \in {k \in Slots :
                               request[k].pc = "notify" /\ request[k].batch[request[k].cur] = "firing"}}
      /\ UNCHANGED <<condition, active, history, rows, unsaved, tally>>
  BY DEF Crash, recordVars
<1>2. Idle \in HandlerType /\ Idle.pc = "idle"
  <2>1. [a \in {} |-> "firing"] \in Batches
    BY DEF Batches
  <2> QED BY <2>1 DEF Idle, HandlerType, Receivers
<1>3. Types'
  BY <1>1, <1>2 DEF Types
<1>4. \A b \in Alerts : Pending(b, "firing")' = {}
  BY <1>1, <1>2 DEF Pending
<1>5. Episodes'
  <2> SUFFICES ASSUME NEW b \in Alerts
               PROVE  tally[b].sent + Cardinality(Pending(b, "firing")')
                        <= tally[b].closed + tally[b].forgot + Open(b)'
    BY <1>1 DEF Episodes
  <2>1. /\ tally[b].sent + Cardinality(Pending(b, "firing"))
             <= tally[b].closed + tally[b].forgot + Open(b)
        /\ tally[b] \in [sent : Nat, closed : Nat, forgot : Nat]
        /\ Cardinality(Pending(b, "firing")) \in Nat
    BY PendingFinite DEF Episodes, Types
  <2>2. Cardinality(Pending(b, "firing")') = 0 /\ Open(b)' = Open(b)
    BY <1>1, <1>4, FS_EmptySet DEF Open
  <2> QED BY <2>1, <2>2 DEF Open
<1>6. Told'
  <2> SUFFICES ASSUME NEW b \in Alerts, b \in active \/ rows[b] = "firing"
               PROVE  tally[b].sent > 0 \/ b \in lost'
    BY <1>1 DEF Told
  <2>1. CASE tally[b].sent > 0 \/ b \in lost
    BY <1>1, <2>1
  <2>2. CASE Pending(b, "firing") # {}
    BY <1>1, <2>2 DEF Pending
  <2> QED BY <2>1, <2>2 DEF Told
<1>7. HistoryAgreesWithActive' /\ RowsMatchMemory'
  BY <1>1 DEF HistoryAgreesWithActive, RowsMatchMemory
<1> QED BY <1>3, <1>5, <1>6, <1>7

\* A restart opens only episodes that rows say are open, and counts those it drops.
LEMMA RestartKeeps ==
  ASSUME IInv, InitAlertDatabase
  PROVE  IInv'
<1> USE DEF IInv
<1>1. /\ up' = TRUE /\ UNCHANGED <<condition, rows, request, lost>> /\ unsaved' = {}
      /\ history' \in [Ids -> {"absent"} \cup Statuses]
      /\ \A i \in Ids : history'[i] \in {rows[i], "absent"}
      /\ active' = {a \in Alerts : history'[a] = "firing"}
      /\ tally' = [a \in Alerts |-> IF a \in active \ active'
                                    THEN [tally[a] EXCEPT !.forgot = @ + 1] ELSE tally[a]]
  BY DEF InitAlertDatabase, Types
<1>2. \A b \in Alerts :
        /\ tally'[b] \in [sent : Nat, closed : Nat, forgot : Nat]
        /\ tally'[b].sent = tally[b].sent /\ tally'[b].closed = tally[b].closed
        /\ tally'[b].forgot = IF b \in active \ active' THEN tally[b].forgot + 1 ELSE tally[b].forgot
  BY <1>1 DEF Types
<1>3. Types'
  <2>1. tally' \in [Alerts -> [sent : Nat, closed : Nat, forgot : Nat]]
    BY <1>1, <1>2
  <2> QED BY <1>1, <2>1 DEF Types, Ids
<1>4. \A b \in Alerts : Pending(b, "firing")' = Pending(b, "firing")
  BY <1>1 DEF Pending
<1>5. Episodes'
  <2> SUFFICES ASSUME NEW b \in Alerts
               PROVE  tally'[b].sent + Cardinality(Pending(b, "firing")')
                        <= tally'[b].closed + tally'[b].forgot + Open(b)'
    BY DEF Episodes
  <2>1. /\ tally[b].sent + Cardinality(Pending(b, "firing"))
             <= tally[b].closed + tally[b].forgot + Open(b)
        /\ tally[b] \in [sent : Nat, closed : Nat, forgot : Nat]
        /\ Cardinality(Pending(b, "firing")) \in Nat
    BY PendingFinite DEF Episodes, Types
  <2>2. Open(b) = (IF b \in active THEN 1 ELSE 0) /\ Open(b)' = (IF b \in active' THEN 1 ELSE 0)
    BY DEF Open
  <2> QED BY <1>2, <1>4, <2>1, <2>2
<1>6. Told'
  <2> SUFFICES ASSUME NEW b \in Alerts, b \in active' \/ rows[b] = "firing"
               PROVE  tally[b].sent > 0 \/ Pending(b, "firing") # {} \/ b \in lost
    BY <1>1, <1>2, <1>4 DEF Told
  <2>1. rows[b] = "firing"
    BY <1>1 DEF Ids
  <2> QED BY <2>1 DEF Told
<1>7. HistoryAgreesWithActive' /\ RowsMatchMemory'
  BY <1>1 DEF HistoryAgreesWithActive, RowsMatchMemory, Ids
<1> QED BY <1>3, <1>5, <1>6, <1>7

LEMMA CreateManualKeeps ==
  ASSUME IInv, NEW m \in Manual, CreateManualAlert(m)
  PROVE  IInv'
<1> USE DEF IInv
<1>1. /\ m \in Ids /\ m \notin Alerts /\ "firing" \in Statuses
      /\ active' = active \cup {m} /\ AddToHistory(m, "firing")
      /\ UNCHANGED <<condition, up, request, tally, lost>>
  BY AlertAssumption DEF CreateManualAlert, Ids, Statuses
<1>2. /\ history' \in [Ids -> {"absent"} \cup Statuses]
      /\ history'[m] \in {"firing", "absent"}
      /\ \A i \in Ids \ {m} : history'[i] \in {history[i], "absent"}
      /\ rows' \in [Ids -> {"absent"} \cup Statuses]
      /\ unsaved' \subseteq Ids
      /\ \/ rows' = [rows EXCEPT ![m] = "firing"] /\ unsaved' = unsaved \ {m}
         \/ rows' = rows /\ unsaved' = unsaved \cup {m}
  BY <1>1, Recorded
<1>3. Types'
  BY <1>1, <1>2 DEF Types
<1>4. \A b \in Alerts : /\ Pending(b, "firing")' = Pending(b, "firing")
                        /\ Open(b)' = Open(b) /\ rows'[b] = rows[b]
                        /\ b \in active' <=> b \in active
  BY <1>1, <1>2 DEF Pending, Open, Types, Ids
<1>5. Episodes' /\ Told'
  BY <1>1, <1>4 DEF Episodes, Told
<1>6. HistoryAgreesWithActive'
  BY <1>1, <1>2 DEF HistoryAgreesWithActive, Ids
<1>7. RowsMatchMemory'
  BY <1>1, <1>2 DEF RowsMatchMemory, Types
<1> QED BY <1>3, <1>5, <1>6, <1>7

LEMMA ResolveManualKeeps ==
  ASSUME IInv, NEW i \in Ids, ResolveManualAlert(i)
  PROVE  IInv'
<1> USE DEF IInv
<1>1. /\ "resolved" \in Statuses /\ i \in active
      /\ active' = active \ {i} /\ AddToHistory(i, "resolved")
      /\ UNCHANGED <<condition, up, request, lost>>
      /\ tally' = IF i \in Alerts THEN [tally EXCEPT ![i].closed = @ + 1] ELSE tally
  BY DEF ResolveManualAlert, Statuses
<1>2. /\ history' \in [Ids -> {"absent"} \cup Statuses]
      /\ history'[i] \in {"resolved", "absent"}
      /\ \A j \in Ids \ {i} : history'[j] \in {history[j], "absent"}
      /\ rows' \in [Ids -> {"absent"} \cup Statuses]
      /\ unsaved' \subseteq Ids
      /\ \/ rows' = [rows EXCEPT ![i] = "resolved"] /\ unsaved' = unsaved \ {i}
         \/ rows' = rows /\ unsaved' = unsaved \cup {i}
  BY <1>1, Recorded
<1>3. \A b \in Alerts :
        /\ tally[b] \in [sent : Nat, closed : Nat, forgot : Nat]
        /\ tally'[b] \in [sent : Nat, closed : Nat, forgot : Nat]
        /\ tally'[b].sent = tally[b].sent /\ tally'[b].forgot = tally[b].forgot
        /\ tally'[b].closed = tally[b].closed + (IF b = i THEN 1 ELSE 0)
  BY <1>1 DEF Types
<1>4. Types'
  <2>1. tally' \in [Alerts -> [sent : Nat, closed : Nat, forgot : Nat]]
    BY <1>1 DEF Types
  <2> QED BY <1>1, <1>2, <2>1 DEF Types
<1>5. \A b \in Alerts : Pending(b, "firing")' = Pending(b, "firing")
  BY <1>1 DEF Pending
<1>6. Episodes'
  <2> SUFFICES ASSUME NEW b \in Alerts
               PROVE  tally'[b].sent + Cardinality(Pending(b, "firing")')
                        <= tally'[b].closed + tally'[b].forgot + Open(b)'
    BY DEF Episodes
  <2>1. /\ tally[b].sent + Cardinality(Pending(b, "firing"))
             <= tally[b].closed + tally[b].forgot + Open(b)
        /\ Cardinality(Pending(b, "firing")) \in Nat
    BY PendingFinite DEF Episodes
  <2>2. IF b = i THEN Open(b) = 1 /\ Open(b)' = 0 ELSE Open(b)' = Open(b)
    BY <1>1 DEF Open
  <2> QED BY <1>3, <1>5, <2>1, <2>2 DEF Open
<1>7. Told'
  BY <1>1, <1>2, <1>3, <1>5 DEF Told, Types, Ids
<1>8. HistoryAgreesWithActive'
  BY <1>1, <1>2 DEF HistoryAgreesWithActive, Ids
<1>9. RowsMatchMemory'
  BY <1>1, <1>2 DEF RowsMatchMemory, Types
<1> QED BY <1>4, <1>6, <1>7, <1>8, <1>9

\* A delivery gives an idle slot a batch; the other steps leave the record and what is
\* about to be announced alone.
LEMMA RestKeeps ==
  ASSUME IInv,
         \/ \E a \in Alerts : Fire(a) \/ Clear(a)
         \/ Age
         \/ \E h \in Slots : Timeout(h) \/ (\E r \in Receivers : Deliver(h, r))
         \/ UNCHANGED vars
  PROVE  IInv'
<1> USE DEF IInv
<1>1. UNCHANGED <<up, active, history, rows, unsaved, tally, lost>>
  BY DEF Fire, Clear, Age, Timeout, Deliver, vars, recordVars
<1>2. /\ request' \in [Slots -> HandlerType]
      /\ \A h \in Slots : request'[h].pc = "notify" =>
           request[h].pc = "notify" /\ request'[h].cur = request[h].cur
      /\ \A b \in Alerts : Pending(b, "firing")' = Pending(b, "firing")
  <2>1. CASE UNCHANGED request
    BY <2>1 DEF Types, Pending
  <2>2. ASSUME NEW h \in Slots, Timeout(h)
        PROVE  <1>2
    <3>1. request' = [request EXCEPT ![h].waiting = FALSE]
      BY <2>2 DEF Timeout
    <3>2. /\ request' \in [Slots -> HandlerType]
          /\ \A k \in Slots : /\ request'[k].pc = request[k].pc
                              /\ request'[k].cur = request[k].cur
                              /\ request'[k].batch = request[k].batch
      BY <3>1 DEF Types, HandlerType
    <3> QED BY <3>2 DEF Pending
  <2>3. ASSUME NEW h \in Slots, NEW r \in Receivers, Deliver(h, r)
        PROVE  <1>2
    <3>1. PICK S \in SUBSET Alerts, batch \in Batches :
            /\ request[h].pc = "idle"
            /\ request' = [request EXCEPT ![h] =
                 [pc |-> "recipients", rcv |-> r, waiting |-> TRUE,
                  batch |-> batch, todo |-> S, cur |-> NoAlert]]
      <4> DEFINE group == {a \in RoutedTo(r) : /\ condition[a] # "silent"
                               /\ ~(condition[a] = "resolved" /\ acked[r][a] = "resolved")}
                 batch == [a \in group |-> condition[a]]
      <4>1. group \in SUBSET Alerts
        BY AlertAssumption DEF RoutedTo
      <4>2. batch \in [group -> Statuses]
        BY <4>1 DEF Types
      <4>3. batch \in Batches
        BY <4>1, <4>2 DEF Batches
      <4> QED BY <2>3, <4>1, <4>3 DEF Deliver
    <3> DEFINE record == [pc |-> "recipients", rcv |-> r, waiting |-> TRUE,
                          batch |-> batch, todo |-> S, cur |-> NoAlert]
    <3>2. record \in HandlerType
      BY <3>1 DEF HandlerType
    <3>3. /\ request' \in [Slots -> HandlerType]
          /\ \A k \in Slots \ {h} : request'[k] = request[k]
          /\ request'[h].pc = "recipients"
      BY <3>1, <3>2 DEF Types
    <3> QED BY <3>1, <3>3 DEF Pending
  <2> QED BY <2>1, <2>2, <2>3 DEF Fire, Clear, Age, vars
<1>3. Types'
  <2>1. condition' \in [Alerts -> {"silent"} \cup Statuses]
    BY DEF Types, Fire, Clear, Age, Timeout, Deliver, vars, Statuses
  <2> QED BY <1>1, <1>2, <2>1 DEF Types
<1>4. Episodes' /\ Told'
  BY <1>1, <1>2 DEF Episodes, Told, Open
<1>5. HistoryAgreesWithActive' /\ RowsMatchMemory'
  BY <1>1 DEF HistoryAgreesWithActive, RowsMatchMemory
<1> QED BY <1>3, <1>4, <1>5

----------------------------------------------------------------------------
(* The invariant.                                                          *)

LEMMA InitHolds == Init => IInv
<1> SUFFICES ASSUME Init PROVE IInv
  OBVIOUS
<1>1. Idle \in HandlerType /\ Idle.pc = "idle"
  <2>1. [a \in {} |-> "firing"] \in Batches
    BY DEF Batches
  <2> QED BY <2>1 DEF Idle, HandlerType, Receivers
<1>2. Types
  BY <1>1 DEF Init, Types, Ids
<1>3. \A a \in Alerts : Cardinality(Pending(a, "firing")) = 0
  <2>1. \A a \in Alerts : Pending(a, "firing") = {}
    BY <1>1 DEF Init, Pending
  <2> QED BY <2>1, FS_EmptySet
<1>4. Episodes
  BY <1>3 DEF Episodes, Init, Open
<1>5. Told /\ HistoryAgreesWithActive /\ RowsMatchMemory
  BY DEF Init, Told, HistoryAgreesWithActive, RowsMatchMemory, Ids
<1> QED BY <1>2, <1>4, <1>5 DEF IInv

LEMMA StepKeeps == IInv /\ [Next]_vars => IInv'
<1> SUFFICES ASSUME IInv, [Next]_vars PROVE IInv'
  OBVIOUS
<1>1. ASSUME NEW h \in Slots, NEW a \in Alerts, RecordFiring(h, a)
      PROVE  IInv'
  BY <1>1, RecordFiringKeeps
<1>2. ASSUME NEW h \in Slots, NEW a \in Alerts, RecordResolved(h, a)
      PROVE  IInv'
  BY <1>2, RecordResolvedKeeps
<1>3. ASSUME NEW h \in Slots, Notify(h)
      PROVE  IInv'
  BY <1>3, NotifyKeeps
<1>4. CASE InitAlertDatabase
  BY <1>4, RestartKeeps
<1>5. ASSUME NEW m \in Manual, CreateManualAlert(m)
      PROVE  IInv'
  BY <1>5, CreateManualKeeps
<1>8. ASSUME NEW i \in Manual \cup Resolvable, ResolveManualAlert(i)
      PROVE  IInv'
  <2>1. i \in Ids
    BY AlertAssumption DEF Ids
  <2> QED BY <1>8, <2>1, ResolveManualKeeps
<1>6. CASE Crash
  BY <1>6, CrashKeeps
<1>7. CASE \/ \E a \in Alerts : Fire(a) \/ Clear(a)
           \/ Age
           \/ \E h \in Slots : Timeout(h) \/ (\E r \in Receivers : Deliver(h, r))
           \/ UNCHANGED vars
  BY <1>7, RestKeeps
<1> QED BY <1>1, <1>2, <1>3, <1>4, <1>5, <1>6, <1>7, <1>8 DEF Next, Backend, Environment

\* In every reachable state, for any interleaving of deliveries, retries, repeats, manual
\* alerts, failed writes, crashes and restarts, the strengthened invariant holds: the
\* counting of episodes against announcements, and who was told of what is open or would
\* be reopened from its row (processAlertWebhook, loadAlertsFromDb).
THEOREM Invariance == Spec => []IInv
<1> QED BY InitHolds, StepKeeps, PTL DEF Spec

\* No alert is announced as firing twice in one episode, however many receivers, retries
\* and concurrent requests deliver it (the duplicate guard of processAlertWebhook).
THEOREM OncePerEpisode == Spec => []AnnouncedOncePerEpisode
<1>1. IInv => AnnouncedOncePerEpisode
  <2> SUFFICES ASSUME IInv, NEW a \in Alerts
               PROVE  tally[a].sent <= 1 + tally[a].closed + tally[a].forgot
    BY DEF AnnouncedOncePerEpisode
  <2>1. /\ tally[a] \in [sent : Nat, closed : Nat, forgot : Nat]
        /\ Cardinality(Pending(a, "firing")) \in Nat
        /\ tally[a].sent + Cardinality(Pending(a, "firing"))
             <= tally[a].closed + tally[a].forgot + Open(a)
    BY PendingFinite DEF IInv, Types, Episodes
  <2>2. Open(a) \in {0, 1}
    BY DEF Open
  <2> QED BY <2>1, <2>2
<1> QED BY <1>1, Invariance, PTL

\* No active alert goes unannounced but for a crash in the middle of its announcement:
\* the duplicate guard never swallows the first delivery, nor does a reload from a row
\* that was written before anyone was told hide one (loadAlertsFromDb).
THEOREM EveryActiveIsAnnounced == Spec => []ActiveIsAnnounced
<1>1. IInv => ActiveIsAnnounced
  <2> SUFFICES ASSUME IInv, NEW a \in Alerts, a \in active, tally[a].sent = 0
               PROVE  Pending(a, "firing") # {} \/ a \in lost
    BY DEF ActiveIsAnnounced
  <2> QED BY DEF IInv, Told
<1> QED BY <1>1, Invariance, PTL

\* The history and the active list agree on every alert the history still holds, across
\* evictions and restarts (addToHistory, activeAlerts, loadAlertsFromDb).
THEOREM HistoryAgrees == Spec => []HistoryAgreesWithActive
<1> QED BY Invariance, PTL DEF IInv

\* But for failed writes, the rows say what memory says, so that a crash at any point
\* loses nothing that was recorded (enqueueAlertPersistence).
THEOREM RowsFollowMemory == Spec => []RowsMatchMemory
<1> QED BY Invariance, PTL DEF IInv

----------------------------------------------------------------------------
(* Every step of the pipeline is a step of the book, or none.              *)

\* The requests about to announce, and what they owe, change only in the request a step
\* is about.
LEMMA OwedStep ==
  ASSUME NEW h \in Slots, \A k \in Slots \ {h} : request'[k] = request[k]
  PROVE  /\ Announcing' = IF request'[h].pc = "notify" /\ request'[h].batch[request'[h].cur] = "firing"
                          THEN Announcing \cup {h} ELSE Announcing \ {h}
         /\ \A k \in Announcing' \ {h} : request'[k].cur = request[k].cur
  BY DEF Announcing

\* Steps that leave the record and the announcements alone are no steps of the book.
LEMMA BookStutters ==
  ASSUME UNCHANGED up, active' \cap Alerts = active \cap Alerts,
         Announcing' = Announcing, \A k \in Announcing : request'[k].cur = request[k].cur
  PROVE  UNCHANGED Book!bookVars
<1>1. [k \in Announcing' |-> request'[k].cur] = [k \in Announcing |-> request[k].cur]
  OBVIOUS
<1> QED BY <1>1 DEF Book!bookVars

\* Recording a firing alert opens an episode and owes its announcement, if it was not open.
LEMMA RecordFiringBooked ==
  ASSUME IInv, NEW h \in Slots, NEW a \in Alerts, RecordFiring(h, a)
  PROVE  [Book!BookNext]_(Book!bookVars)
<1>1. /\ up /\ up' /\ UNCHANGED up /\ active' = active \cup {a}
      /\ request[h].pc = "recipients" /\ request[h].batch[a] = "firing" /\ Types
  BY DEF RecordFiring, IInv
<1>2. h \notin Announcing
  BY <1>1 DEF Announcing
<1>3. CASE a \notin active
  <2>1. /\ \A k \in Slots \ {h} : request'[k] = request[k]
        /\ request'[h].pc = "notify" /\ request'[h].cur = a
        /\ request'[h].batch = request[h].batch
    BY <1>1, <1>3, Announces DEF RecordFiring
  <2>2. /\ Announcing' = Announcing \cup {h}
        /\ \A k \in Announcing : request'[k].cur = request[k].cur
    BY <1>1, <1>2, <2>1, OwedStep
  <2>3. [k \in Announcing' |-> request'[k].cur] =
          [k \in Announcing \cup {h} |-> IF k = h THEN a ELSE request[k].cur]
    BY <2>1, <2>2
  <2>4. active' \cap Alerts = (active \cap Alerts) \cup {a} /\ a \notin active \cap Alerts
    BY <1>1, <1>3
  <2>5. Book!Open(a, h)
    BY <1>1, <1>2, <2>3, <2>4 DEF Book!Open
  <2> QED BY <2>5 DEF Book!BookNext
<1>4. CASE a \in active
  <2>1. NextAlert(h, request[h].todo \ {a})
    BY <1>4 DEF RecordFiring
  <2>2. request[h].todo \ {a} \in SUBSET Alerts
    BY <1>1 DEF Types, HandlerType
  <2>3. /\ \A k \in Slots \ {h} : request'[k] = request[k]
        /\ request'[h].pc # "notify"
    BY <1>1, <2>1, <2>2, Looped
  <2>4. /\ Announcing' = Announcing
        /\ \A k \in Announcing : request'[k].cur = request[k].cur
    <3>1. /\ Announcing' = Announcing \ {h}
          /\ \A k \in Announcing' \ {h} : request'[k].cur = request[k].cur
      BY <2>3, OwedStep
    <3>2. Announcing' = Announcing
      BY <1>2, <3>1
    <3> QED BY <1>2, <3>1, <3>2
  <2> QED BY <1>1, <1>4, <2>4, BookStutters
<1> QED BY <1>3, <1>4

\* Recording a resolution closes the episode, if there is one.
LEMMA RecordResolvedBooked ==
  ASSUME IInv, NEW h \in Slots, NEW a \in Alerts, RecordResolved(h, a)
  PROVE  [Book!BookNext]_(Book!bookVars)
<1>1. /\ up /\ UNCHANGED up /\ active' = active \ {a} /\ Types
      /\ request[h].pc = "recipients" /\ request[h].batch[a] = "resolved"
      /\ request' = [request EXCEPT ![h].pc = "notify", ![h].cur = a]
  BY DEF RecordResolved, IInv
<1>2. /\ \A k \in Slots \ {h} : request'[k] = request[k]
      /\ request'[h].batch[request'[h].cur] = "resolved"
  BY <1>1, Announces
<1>3. /\ Announcing' = Announcing
      /\ \A k \in Announcing : request'[k].cur = request[k].cur
  <2>1. h \notin Announcing
    BY <1>1 DEF Announcing
  <2>2. /\ Announcing' = Announcing \ {h}
        /\ \A k \in Announcing' \ {h} : request'[k].cur = request[k].cur
    BY <1>2, OwedStep
  <2>3. Announcing' = Announcing
    BY <2>1, <2>2
  <2> QED BY <2>1, <2>2, <2>3
<1>4. CASE a \in active
  <2>1. [k \in Announcing' |-> request'[k].cur] = [k \in Announcing |-> request[k].cur]
    BY <1>3
  <2>2. active' \cap Alerts = (active \cap Alerts) \ {a} /\ a \in active \cap Alerts
    BY <1>1, <1>4
  <2>3. Book!Close(a)
    BY <1>1, <2>1, <2>2 DEF Book!Close
  <2> QED BY <2>3 DEF Book!BookNext
<1>5. CASE a \notin active
  BY <1>1, <1>3, <1>5, BookStutters
<1> QED BY <1>4, <1>5

\* Announcing a firing alert pays the debt; announcing a resolution is nothing to the book.
LEMMA NotifyBooked ==
  ASSUME IInv, NEW h \in Slots, Notify(h)
  PROVE  [Book!BookNext]_(Book!bookVars)
<1>1. /\ up /\ UNCHANGED <<up, active>> /\ request[h].pc = "notify" /\ Types
      /\ NextAlert(h, request[h].todo \ {request[h].cur})
  BY DEF Notify, recordVars, IInv
<1>2. /\ \A k \in Slots \ {h} : request'[k] = request[k]
      /\ request'[h].pc # "notify"
  <2>1. request[h].todo \ {request[h].cur} \in SUBSET Alerts
    BY <1>1 DEF Types, HandlerType
  <2> QED BY <1>1, <2>1, Looped
<1>3. /\ Announcing' = Announcing \ {h}
      /\ \A k \in Announcing' : request'[k].cur = request[k].cur
  BY <1>2, OwedStep
<1>4. CASE h \in Announcing
  <2>1. [k \in Announcing' |-> request'[k].cur] = [k \in Announcing \ {h} |-> request[k].cur]
    BY <1>3
  <2>2. Book!Announce(h)
    BY <1>1, <1>4, <2>1 DEF Book!Announce
  <2> QED BY <2>2 DEF Book!BookNext
<1>5. CASE h \notin Announcing
  BY <1>1, <1>3, <1>5, BookStutters
<1> QED BY <1>4, <1>5

LEMMA CrashBooked ==
  ASSUME Crash
  PROVE  Book!Stop
<1>1. /\ up /\ up' = FALSE /\ UNCHANGED active
      /\ request' = [h \in Slots |-> Idle]
  BY DEF Crash, recordVars
<1>2. Announcing' = {}
  BY <1>1 DEF Announcing, Idle
<1> QED BY <1>1, <1>2 DEF Book!Stop

LEMMA RestartBooked ==
  ASSUME InitAlertDatabase
  PROVE  Book!Restart
<1>1. /\ ~up /\ up' = TRUE /\ UNCHANGED request
  BY DEF InitAlertDatabase
<1>2. UNCHANGED Announcing
  BY <1>1 DEF Announcing
<1> QED BY <1>1, <1>2 DEF Book!Restart

\* An alert of Alertmanager resolved by hand closes its episode; a manual one is no episode.
LEMMA ResolveManualBooked ==
  ASSUME IInv, NEW i \in Manual \cup Resolvable, ResolveManualAlert(i)
  PROVE  [Book!BookNext]_(Book!bookVars)
<1>1. up /\ UNCHANGED <<up, request>> /\ i \in active /\ active' = active \ {i}
  BY DEF ResolveManualAlert
<1>2. Announcing' = Announcing
  BY <1>1 DEF Announcing
<1>3. [k \in Announcing' |-> request'[k].cur] = [k \in Announcing |-> request[k].cur]
  BY <1>1, <1>2
<1>4. CASE i \in Alerts
  <2>1. active' \cap Alerts = (active \cap Alerts) \ {i} /\ i \in active \cap Alerts
    BY <1>1, <1>4
  <2>2. Book!Close(i)
    BY <1>1, <1>3, <2>1 DEF Book!Close
  <2> QED BY <1>4, <2>2 DEF Book!BookNext
<1>5. CASE i \notin Alerts
  <2>1. active' \cap Alerts = active \cap Alerts
    BY <1>1, <1>5
  <2> QED BY <1>1, <1>2, <2>1, BookStutters
<1> QED BY <1>4, <1>5

\* The rest: manual alerts are no episodes, a delivery only fills an idle slot.
LEMMA RestStutters ==
  ASSUME IInv,
         \/ \E a \in Alerts : Fire(a) \/ Clear(a)
         \/ Age
         \/ \E h \in Slots : Timeout(h) \/ (\E r \in Receivers : Deliver(h, r))
         \/ \E m \in Manual : CreateManualAlert(m)
         \/ UNCHANGED vars
  PROVE  UNCHANGED Book!bookVars
<1>1. UNCHANGED up
  BY DEF Fire, Clear, Age, Timeout, Deliver, CreateManualAlert, vars
<1>2. active' \cap Alerts = active \cap Alerts
  BY AlertAssumption
  DEF Fire, Clear, Age, Timeout, Deliver, CreateManualAlert, vars, recordVars
<1>3. /\ Announcing' = Announcing
      /\ \A k \in Announcing : request'[k].cur = request[k].cur
  <2>1. CASE UNCHANGED request
    BY <2>1 DEF Announcing
  <2>2. ASSUME NEW h \in Slots, Timeout(h)
        PROVE  <1>3
    <3>1. \A k \in Slots : /\ request'[k].pc = request[k].pc
                            /\ request'[k].cur = request[k].cur
                            /\ request'[k].batch = request[k].batch
      BY <2>2 DEF Timeout, IInv, Types, HandlerType
    <3> QED BY <3>1 DEF Announcing
  <2>3. ASSUME NEW h \in Slots, NEW r \in Receivers, Deliver(h, r)
        PROVE  <1>3
    <3>1. /\ request[h].pc = "idle" /\ request'[h].pc = "recipients"
          /\ \A k \in Slots \ {h} : request'[k] = request[k]
      BY <2>3 DEF Deliver, IInv, Types
    <3> QED BY <3>1 DEF Announcing
  <2> QED BY <2>1, <2>2, <2>3 DEF Fire, Clear, Age, CreateManualAlert, vars
<1> QED BY <1>1, <1>2, <1>3, BookStutters

\* The pipeline implements the book of episodes and debts: no delivery, retry, duplicate or
\* manual alert opens an episode without owing its announcement, announces what is not
\* owed, or drops a debt otherwise than by a crash (processAlertWebhook, loadAlertsFromDb).
THEOREM PipelineImplementsBook == Spec => ImplementsAlertBook
<1>1. Init => Book!BookInit
  <2> SUFFICES ASSUME Init PROVE Book!BookInit
    OBVIOUS
  <2>1. Announcing = {}
    BY DEF Init, Announcing, Idle
  <2> QED BY <2>1 DEF Init, Book!BookInit
<1>2. IInv /\ [Next]_vars => [Book!BookNext]_(Book!bookVars)
  <2> SUFFICES ASSUME IInv, [Next]_vars PROVE [Book!BookNext]_(Book!bookVars)
    OBVIOUS
  <2>1. ASSUME NEW h \in Slots, NEW a \in Alerts, RecordFiring(h, a) \/ RecordResolved(h, a)
        PROVE  [Book!BookNext]_(Book!bookVars)
    BY <2>1, RecordFiringBooked, RecordResolvedBooked
  <2>2. ASSUME NEW h \in Slots, Notify(h)
        PROVE  [Book!BookNext]_(Book!bookVars)
    BY <2>2, NotifyBooked
  <2>3. CASE InitAlertDatabase
    BY <2>3, RestartBooked DEF Book!BookNext
  <2>4. CASE Crash
    BY <2>4, CrashBooked DEF Book!BookNext
  <2>5. CASE \/ \E a \in Alerts : Fire(a) \/ Clear(a)
             \/ Age
             \/ \E h \in Slots : Timeout(h) \/ (\E r \in Receivers : Deliver(h, r))
             \/ \E m \in Manual : CreateManualAlert(m)
             \/ UNCHANGED vars
    BY <2>5, RestStutters
  <2>6. ASSUME NEW i \in Manual \cup Resolvable, ResolveManualAlert(i)
        PROVE  [Book!BookNext]_(Book!bookVars)
    BY <2>6, ResolveManualBooked
  <2> QED BY <2>1, <2>2, <2>3, <2>4, <2>5, <2>6 DEF Next, Backend, Environment
<1> QED BY <1>1, <1>2, Invariance, PTL DEF Spec, ImplementsAlertBook, Book!BookSpec
=============================================================================
