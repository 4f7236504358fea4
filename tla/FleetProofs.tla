---------------------------- MODULE FleetProofs ----------------------------
(***************************************************************************)
(* What the backend's list of miners, its statistics and its Telegram bot  *)
(* guarantee, for every set of miners, names, users and messages.          *)
(*                                                                         *)
(* MinerInventory, alone and under LiveStats: the cache may be partial     *)
(* (one user's miners), and it is patched by some writes and not by        *)
(* others; what keeps it honest is that at most one entry stands for an    *)
(* address (CacheKeyed), so that the one entry a write patches is the only *)
(* one it could have made wrong.  The snapshot is made from such a list    *)
(* after every await.                                                      *)
(*                                                                         *)
(* TelegramBot: a handler's operations are looked at by what may be done   *)
(* to them.  Every step keeps a part of those that reboot or answer, as    *)
(* far apart as they were (Continues), so a handler reboots at most once   *)
(* and answers behind a catch (Formed); the handlers that may still reboot *)
(* a miner are counted against its confirmations (ConfirmationsCounted),   *)
(* as long as one bot polls (Polling).                                     *)
(***************************************************************************)
EXTENDS LiveStats, TelegramBot, FiniteSetTheorems, SequenceTheorems, TLAPS

\* An address stands in the cache at most once.
CacheKeyed == \A e, f \in cache : e.ip = f.ip => e = f

IInv == InventoryTypeOK /\ CacheKeyed /\ CachedMinersExist

-----------------------------------------------------------------------------
(* What an id finds.                                                       *)

\* An id finds at most one row: names and addresses are keys and never mistaken for each
\* other (getMinerByName(id) || getMinerByIp(id)).
LEMMA FoundOnce ==
  ASSUME InventoryTypeOK, NEW id \in Ids, NEW r \in Found(id), NEW s \in Found(id)
  PROVE  r = s
<1>1. r \in rows /\ s \in rows /\ r.ip \in Ips /\ s.ip \in Ips /\ r.name \in Names /\ s.name \in Names
  BY DEF InventoryTypeOK, Found, MinerRecord
<1>2. r.ip = s.ip \/ r.name = s.name
  BY <1>1, Domains DEF Found, Ids
<1> QED BY <1>1, <1>2 DEF InventoryTypeOK, WellKeyed

\* An entry of the cache that answers to an id stands for the row the id finds.
LEMMA CachedIsFound ==
  ASSUME IInv, NEW id \in Ids, NEW e \in Cached(id)
  PROVE  \E r \in Found(id) : r.ip = e.ip /\ r.name = e.name
BY DEF IInv, CachedMinersExist, Cached, Found

\* ... and is the only one.
LEMMA CachedOnce ==
  ASSUME IInv, NEW id \in Ids, NEW e \in Cached(id), NEW f \in Cached(id)
  PROVE  e = f
<1>1. PICK r \in Found(id) : r.ip = e.ip /\ r.name = e.name
  BY CachedIsFound
<1>2. PICK s \in Found(id) : s.ip = f.ip /\ s.name = f.name
  BY CachedIsFound
<1>3. r = s
  BY FoundOnce DEF IInv
<1> QED BY <1>1, <1>2, <1>3 DEF IInv, CacheKeyed, Cached

\* An entry that stands for the row an id finds answers to the id.
LEMMA FoundIsCached ==
  ASSUME NEW id, NEW r \in Found(id), NEW e \in cache, e.ip = r.ip, e.name = r.name
  PROVE  e \in Cached(id)
BY DEF Found, Cached

-----------------------------------------------------------------------------
(* Loading.                                                                *)

\* A list loaded from rows of the table is keyed and names only what is there
\* (loadMinersConfig, whether for the fleet or for one user).
LEMMA LoadedIsHonest ==
  ASSUME NEW table, NEW loaded, table \subseteq MinerRecord, WellKeyed(table), loaded \subseteq table,
         cache' = {dbRecordToConfig(r) : r \in loaded}, rows' = table
  PROVE  (CacheKeyed /\ CachedMinersExist)' /\ cache' \subseteq MinerConfig
<1>1. \A e \in cache' : \E r \in loaded : e = [ip |-> r.ip, name |-> r.name, owner |-> r.owner]
  BY DEF dbRecordToConfig
<1>2. CacheKeyed'
  <2>1. SUFFICES ASSUME NEW e \in cache', NEW f \in cache', e.ip = f.ip PROVE e = f
    BY DEF CacheKeyed
  <2>2. PICK r \in loaded : e = [ip |-> r.ip, name |-> r.name, owner |-> r.owner]
    BY <1>1
  <2>3. PICK s \in loaded : f = [ip |-> s.ip, name |-> s.name, owner |-> s.owner]
    BY <1>1
  <2>4. r = s
    BY <2>1, <2>2, <2>3 DEF WellKeyed
  <2> QED BY <2>2, <2>3, <2>4
<1>3. CachedMinersExist'
  BY <1>1 DEF CachedMinersExist
<1>4. cache' \subseteq MinerConfig
  BY <1>1 DEF MinerConfig, MinerRecord
<1> QED BY <1>2, <1>3, <1>4

\* The cache that getMinerById leaves, when the table is as it was.
LEMMA LookedUpIsHonest ==
  ASSUME IInv, NEW id \in Ids,
         cache' = IF Cached(id) # {} THEN cache
                  ELSE cache \cup {dbRecordToConfig(r) : r \in Found(id)}
  PROVE  /\ cache' \subseteq MinerConfig
         /\ CacheKeyed'
         /\ \A e \in cache' : \E r \in rows : r.ip = e.ip /\ r.name = e.name
<1>1. CASE Cached(id) # {}
  BY <1>1 DEF IInv, InventoryTypeOK, CacheKeyed, CachedMinersExist
<1>2. CASE Cached(id) = {}
  <2>1. \A e \in cache' : e \in cache \/ \E r \in Found(id) : e = [ip |-> r.ip, name |-> r.name, owner |-> r.owner]
    BY <1>2 DEF dbRecordToConfig
  <2>2. \A r \in Found(id) : r \in rows /\ r \in MinerRecord
    BY DEF Found, IInv, InventoryTypeOK
  <2>3. \A e \in cache, r \in Found(id) : e.ip # r.ip
    <3>1. SUFFICES ASSUME NEW e \in cache, NEW r \in Found(id), e.ip = r.ip PROVE FALSE
      OBVIOUS
    <3>2. PICK s \in rows : s.ip = e.ip /\ s.name = e.name
      BY DEF IInv, CachedMinersExist
    <3>3. s = r
      BY <3>1, <3>2, <2>2 DEF IInv, InventoryTypeOK, WellKeyed
    <3> QED BY <1>2, <3>1, <3>2, <3>3, FoundIsCached
  <2>4. CacheKeyed'
    <3>1. SUFFICES ASSUME NEW e \in cache', NEW f \in cache', e.ip = f.ip PROVE e = f
      BY DEF CacheKeyed
    <3>2. CASE e \in cache /\ f \in cache
      BY <3>1, <3>2 DEF IInv, CacheKeyed
    <3>3. CASE e \notin cache /\ f \in cache
      BY <3>1, <3>3, <2>1, <2>3
    <3>4. CASE e \in cache /\ f \notin cache
      BY <3>1, <3>4, <2>1, <2>3
    <3>5. CASE e \notin cache /\ f \notin cache
      BY <3>5, <2>1, FoundOnce DEF IInv
    <3> QED BY <3>2, <3>3, <3>4, <3>5
  <2>5. cache' \subseteq MinerConfig
    BY <2>1, <2>2 DEF IInv, InventoryTypeOK, MinerConfig, MinerRecord
  <2>6. \A e \in cache' : \E r \in rows : r.ip = e.ip /\ r.name = e.name
    BY <2>1, <2>2 DEF IInv, CachedMinersExist
  <2> QED BY <2>4, <2>5, <2>6
<1> QED BY <1>1, <1>2

-----------------------------------------------------------------------------
(* The steps.                                                              *)

\* A write of statuses moves no row (updateMinerStatus).
LEMMA MarkedRows ==
  ASSUME IInv, NEW ips, NEW status \in {"active", "online", "offline"},
         rows' = WithStatus(ips, status)
  PROVE  /\ rows' \subseteq MinerRecord /\ WellKeyed(rows')
         /\ \A r \in rows : \E s \in rows' : s.ip = r.ip /\ s.name = r.name
<1> DEFINE mark(r) == IF r.ip \in ips THEN [r EXCEPT !.status = status] ELSE r
<1>1. \A r \in rows : /\ mark(r) \in MinerRecord /\ mark(r) \in rows'
                      /\ mark(r).ip = r.ip /\ mark(r).name = r.name
  BY DEF WithStatus, IInv, InventoryTypeOK, MinerRecord
<1>2. \A s \in rows' : \E r \in rows : s = mark(r)
  BY DEF WithStatus
<1> HIDE DEF mark
<1>3. WellKeyed(rows')
  BY <1>1, <1>2 DEF IInv, InventoryTypeOK, WellKeyed
<1> QED BY <1>1, <1>2, <1>3

\* A status write keeps the invariant.
LEMMA StatusStep ==
  ASSUME IInv, NEW id \in Ids, NEW status \in {"online", "offline"},
         updateMinerStatus(id, status)
  PROVE  IInv'
<1> DEFINE ips == {e.ip : e \in {c \in cache' : c.name = id \/ c.ip = id}}
<1>1. rows' = WithStatus(ips, status) /\ fresh' = fresh
  BY DEF updateMinerStatus
<1>2. /\ cache' \subseteq MinerConfig
      /\ CacheKeyed'
      /\ \A e \in cache' : \E r \in rows : r.ip = e.ip /\ r.name = e.name
  BY LookedUpIsHonest DEF updateMinerStatus
<1> HIDE DEF ips
<1>3. /\ rows' \subseteq MinerRecord /\ WellKeyed(rows')
      /\ \A r \in rows : \E s \in rows' : s.ip = r.ip /\ s.name = r.name
  BY <1>1, MarkedRows
<1>4. CachedMinersExist'
  <2>1. SUFFICES ASSUME NEW e \in cache' PROVE \E s \in rows' : s.ip = e.ip /\ s.name = e.name
    BY DEF CachedMinersExist
  <2>2. PICK r \in rows : r.ip = e.ip /\ r.name = e.name
    BY <1>2
  <2> QED BY <1>3, <2>2
<1> QED BY <1>1, <1>2, <1>3, <1>4 DEF IInv, InventoryTypeOK

\* Adding a miner keeps the invariant: both its keys were free.
LEMMA AddStep ==
  ASSUME IInv, NEW ip \in Ips, NEW name \in Names, NEW owner \in Owners, addMiner(ip, name, owner)
  PROVE  IInv'
<1> DEFINE m == [ip |-> ip, name |-> name, owner |-> owner, link |-> NoOwner,
                 thresholds |-> FALSE, status |-> "active"]
           e0 == [ip |-> ip, name |-> name, owner |-> NoOwner]
<1>1. /\ m \in MinerRecord /\ m.ip = ip /\ m.name = name
      /\ e0 \in MinerConfig /\ e0.ip = ip /\ e0.name = name
  BY DEF MinerRecord, MinerConfig
<1>2. \A r \in rows : r.ip # ip /\ r.name # name
  BY DEF addMiner, Found
<1>3. rows' = rows \cup {m} /\ cache' = cache \cup {e0} /\ fresh' = fresh
  BY <1>2 DEF addMiner, upsertMiner
<1> HIDE DEF m, e0
<1>4. \A e \in cache : e.ip # ip
  BY <1>2 DEF IInv, CachedMinersExist
<1>5. InventoryTypeOK'
  BY <1>1, <1>2, <1>3 DEF IInv, InventoryTypeOK, WellKeyed
<1>6. CacheKeyed'
  BY <1>1, <1>3, <1>4 DEF IInv, CacheKeyed
<1>7. CachedMinersExist'
  BY <1>1, <1>3 DEF IInv, CachedMinersExist
<1> QED BY <1>5, <1>6, <1>7 DEF IInv

\* The row an edit writes (updateMiner).
LEMMA UpdatedFields ==
  ASSUME NEW r \in MinerRecord, NEW updates \in Updates
  PROVE  LET m == Updated(r, updates)
         IN /\ m \in MinerRecord /\ m.owner = r.owner
            /\ m.ip = Chosen(updates.ip, r.ip) /\ m.name = Chosen(updates.name, r.name)
BY DEF Updated, Chosen, MinerRecord, Updates

\* An edit keeps the invariant.  It leaves the rows of the other miners alone; a cached
\* entry that stood for the edited row answers to the id, so it is the one patched.
LEMMA UpdateStep ==
  ASSUME IInv, NEW id \in Ids, NEW updates \in Updates, updateMiner(id, updates)
  PROVE  IInv'
<1>1. PICK r \in Found(id) :
        LET m == Updated(r, updates)
        IN /\ m.ip # r.ip => Found(m.ip) = {}
           /\ Accepts(m)
           /\ rows' = upsertMiner(m)
           /\ IF Cached(id) = {} THEN UNCHANGED cache
              ELSE \E e \in Cached(id) : cache' = (cache \ {e}) \cup {Merged(e, updates)}
           /\ UNCHANGED fresh
  BY DEF updateMiner
<1> DEFINE m == Updated(r, updates)
<1>2. r \in rows /\ r \in MinerRecord
  BY DEF Found, IInv, InventoryTypeOK
<1>3. m \in MinerRecord /\ m.ip = Chosen(updates.ip, r.ip) /\ m.name = Chosen(updates.name, r.name)
  BY <1>2, UpdatedFields
<1>4. /\ m.ip # r.ip => \A s \in rows : s.ip # m.ip
      /\ \A s \in rows : s.name = m.name => s.ip = m.ip
      /\ rows' = {s \in rows : s.ip # m.ip} \cup {m}
      /\ fresh' = fresh
  BY <1>1 DEF Found, Accepts, upsertMiner
<1> HIDE DEF m
<1>5. InventoryTypeOK' \/ ~(cache' \subseteq MinerConfig)
  BY <1>3, <1>4 DEF IInv, InventoryTypeOK, WellKeyed
<1>6. \A s \in rows : s # r => \E t \in rows' : t.ip = s.ip /\ t.name = s.name
  <2>1. SUFFICES ASSUME NEW s \in rows, s # r PROVE s.ip # m.ip
    BY <1>4
  <2>2. s.ip # r.ip
    BY <2>1, <1>2 DEF IInv, InventoryTypeOK, WellKeyed
  <2> QED BY <2>2, <1>4
<1>7. m \in rows'
  BY <1>4
<1>8. CASE Cached(id) = {}
  <2>1. cache' = cache
    BY <1>1, <1>8
  <2>2. CachedMinersExist'
    <3>1. SUFFICES ASSUME NEW e \in cache PROVE \E t \in rows' : t.ip = e.ip /\ t.name = e.name
      BY <2>1 DEF CachedMinersExist
    <3>2. PICK s \in rows : s.ip = e.ip /\ s.name = e.name
      BY DEF IInv, CachedMinersExist
    <3>3. s # r
      BY <1>8, <3>2, FoundIsCached
    <3> QED BY <1>6, <3>2, <3>3
  <2> QED BY <1>5, <2>1, <2>2 DEF IInv, InventoryTypeOK, CacheKeyed
<1>9. CASE Cached(id) # {}
  <2>1. PICK e0 \in Cached(id) : cache' = (cache \ {e0}) \cup {Merged(e0, updates)}
    BY <1>1, <1>9
  <2>2. e0 \in cache /\ e0 \in MinerConfig
    BY DEF Cached, IInv, InventoryTypeOK
  <2>3. e0.ip = r.ip /\ e0.name = r.name
    BY CachedIsFound, FoundOnce DEF IInv
  <2> DEFINE e1 == Merged(e0, updates)
  <2>4. e1 \in MinerConfig /\ e1.ip = m.ip /\ e1.name = m.name
    BY <1>3, <2>2, <2>3 DEF Merged, Chosen, MinerConfig, Updates
  <2> HIDE DEF e1
  <2>5. cache' = (cache \ {e0}) \cup {e1}
    BY <2>1 DEF e1
  <2>6. \A e \in cache : e # e0 => \E s \in rows : s # r /\ s.ip = e.ip /\ s.name = e.name
    <3>1. SUFFICES ASSUME NEW e \in cache, e # e0
                   PROVE  \E s \in rows : s # r /\ s.ip = e.ip /\ s.name = e.name
      OBVIOUS
    <3>2. PICK s \in rows : s.ip = e.ip /\ s.name = e.name
      BY DEF IInv, CachedMinersExist
    <3>3. s # r
      BY <3>1, <3>2, <2>2, <2>3 DEF IInv, CacheKeyed
    <3> QED BY <3>2, <3>3
  <2>7. CachedMinersExist'
    <3>1. SUFFICES ASSUME NEW e \in cache' PROVE \E t \in rows' : t.ip = e.ip /\ t.name = e.name
      BY DEF CachedMinersExist
    <3>2. CASE e = e1
      BY <3>2, <2>4, <1>7
    <3>3. CASE e \in cache /\ e # e0
      <4>1. PICK s \in rows : s # r /\ s.ip = e.ip /\ s.name = e.name
        BY <2>6, <3>3
      <4> QED BY <4>1, <1>6
    <3> QED BY <3>2, <3>3, <2>5
  <2>8. \A e \in cache : e # e0 => e.ip # m.ip
    <3>1. SUFFICES ASSUME NEW e \in cache, e # e0 PROVE e.ip # m.ip
      OBVIOUS
    <3>2. PICK s \in rows : s # r /\ s.ip = e.ip
      BY <2>6, <3>1
    <3>3. s.ip # r.ip
      BY <3>2, <1>2 DEF IInv, InventoryTypeOK, WellKeyed
    <3> QED BY <3>2, <3>3, <1>4
  <2>9. CacheKeyed'
    BY <2>4, <2>5, <2>8 DEF IInv, CacheKeyed
  <2>10. cache' \subseteq MinerConfig
    BY <2>4, <2>5 DEF IInv, InventoryTypeOK
  <2> QED BY <1>5, <2>7, <2>9, <2>10 DEF IInv
<1> QED BY <1>8, <1>9

\* A deletion keeps the invariant: the one entry that stood for the row goes with it.
LEMMA DeleteStep ==
  ASSUME IInv, NEW id \in Ids, deleteMiner(id)
  PROVE  IInv'
<1>1. PICK r \in Found(id) :
        /\ rows' = rows \ {r}
        /\ IF Cached(id) = {} THEN UNCHANGED cache
           ELSE \E e \in Cached(id) : cache' = cache \ {e}
        /\ UNCHANGED fresh
  BY DEF deleteMiner
<1>2. \A e \in cache' : e \in cache /\ e \notin Cached(id)
  <2>1. CASE Cached(id) = {}
    BY <2>1, <1>1
  <2>2. CASE Cached(id) # {}
    <3>1. PICK f \in Cached(id) : cache' = cache \ {f}
      BY <2>2, <1>1
    <3> QED BY <3>1, CachedOnce
  <2> QED BY <2>1, <2>2
<1>3. CachedMinersExist'
  <2>1. SUFFICES ASSUME NEW e \in cache' PROVE \E s \in rows' : s.ip = e.ip /\ s.name = e.name
    BY DEF CachedMinersExist
  <2>2. PICK s \in rows : s.ip = e.ip /\ s.name = e.name
    BY <1>2 DEF IInv, CachedMinersExist
  <2>3. s # r
    BY <1>2, <2>2, FoundIsCached
  <2> QED BY <1>1, <2>2, <2>3
<1>4. InventoryTypeOK' /\ CacheKeyed'
  BY <1>1, <1>2 DEF IInv, InventoryTypeOK, WellKeyed, CacheKeyed
<1> QED BY <1>3, <1>4 DEF IInv

\* A transfer keeps the invariant: the row keeps its keys.
LEMMA TransferStep ==
  ASSUME IInv, NEW id \in Ids, NEW owner \in Owners, transferMiner(id, owner)
  PROVE  IInv'
<1>1. PICK r \in Found(id) : rows' = upsertMiner([r EXCEPT !.owner = owner])
  BY DEF transferMiner
<1> DEFINE m == [r EXCEPT !.owner = owner]
<1>2. r \in rows /\ r \in MinerRecord
  BY DEF Found, IInv, InventoryTypeOK
<1>3. m \in MinerRecord /\ m.ip = r.ip /\ m.name = r.name
  BY <1>2 DEF MinerRecord
<1>4. rows' = {s \in rows : s.ip # m.ip} \cup {m}
  BY <1>1 DEF upsertMiner
<1>5. cache' = cache /\ fresh' = fresh
  BY DEF transferMiner
<1> HIDE DEF m
<1>6. \A s \in rows : \E t \in rows' : t.ip = s.ip /\ t.name = s.name
  BY <1>2, <1>3, <1>4 DEF IInv, InventoryTypeOK, WellKeyed
<1>7. InventoryTypeOK'
  BY <1>2, <1>3, <1>4, <1>5 DEF IInv, InventoryTypeOK, WellKeyed
<1>8. CachedMinersExist'
  <2>1. SUFFICES ASSUME NEW e \in cache PROVE \E t \in rows' : t.ip = e.ip /\ t.name = e.name
    BY <1>5 DEF CachedMinersExist
  <2>2. PICK s \in rows : s.ip = e.ip /\ s.name = e.name
    BY DEF IInv, CachedMinersExist
  <2> QED BY <2>2, <1>6
<1> QED BY <1>5, <1>7, <1>8 DEF IInv, CacheKeyed

\* A reload of the cache after any change of the table that keeps its keys.
LEMMA LoadStep ==
  ASSUME NEW loaded, rows' \subseteq MinerRecord, WellKeyed(rows'), loaded \subseteq rows',
         loadMinersConfig(loaded)
  PROVE  IInv'
<1>1. cache' = {dbRecordToConfig(r) : r \in loaded} /\ fresh' = TRUE
  BY DEF loadMinersConfig
<1>2. (CacheKeyed /\ CachedMinersExist)' /\ cache' \subseteq MinerConfig
  BY <1>1, LoadedIsHonest
<1> QED BY <1>1, <1>2 DEF IInv, InventoryTypeOK

\* An import keeps the invariant.
LEMMA ImportStep ==
  ASSUME IInv, NEW file \in YamlFiles, importMinersFromYAML(file)
  PROVE  IInv'
<1> DEFINE row(m) == [ip |-> m.ip, name |-> m.name, owner |-> m.owner, link |-> NoOwner,
                      thresholds |-> m.thresholds, status |-> "active"]
<1>1. PICK taken \in SUBSET file :
        /\ rows' = rows \cup {row(m) : m \in taken}
        /\ WellKeyed(rows')
        /\ loadMinersConfig(rows')
  BY DEF importMinersFromYAML
<1>2. \A m \in taken : m \in YamlMiner
  BY Inputs
<1>3. \A m \in taken : row(m) \in MinerRecord
  BY <1>2 DEF YamlMiner, MinerRecord
<1> HIDE DEF row
<1>4. rows' \subseteq MinerRecord
  BY <1>1, <1>3 DEF IInv, InventoryTypeOK
<1> QED BY <1>1, <1>4, LoadStep

-----------------------------------------------------------------------------
\* The invariant is inductive.
LEMMA InitIInv == InventoryInit => IInv
<1> SUFFICES ASSUME InventoryInit PROVE IInv
  OBVIOUS
<1>1. rows \subseteq MinerRecord /\ WellKeyed(rows)
  BY Inputs DEF InventoryInit
<1>2. \A e \in cache : \E r \in rows : e = [ip |-> r.ip, name |-> r.name, owner |-> r.owner]
  BY DEF InventoryInit, dbRecordToConfig
<1>3. CacheKeyed
  <2>1. SUFFICES ASSUME NEW e \in cache, NEW f \in cache, e.ip = f.ip PROVE e = f
    BY DEF CacheKeyed
  <2>2. PICK r \in rows : e = [ip |-> r.ip, name |-> r.name, owner |-> r.owner]
    BY <1>2
  <2>3. PICK s \in rows : f = [ip |-> s.ip, name |-> s.name, owner |-> s.owner]
    BY <1>2
  <2>4. r = s
    BY <1>1, <2>1, <2>2, <2>3 DEF WellKeyed
  <2> QED BY <2>2, <2>3, <2>4
<1>4. CachedMinersExist
  BY <1>2 DEF CachedMinersExist
<1>5. cache \subseteq MinerConfig
  BY <1>1, <1>2 DEF MinerConfig, MinerRecord
<1> QED BY <1>1, <1>3, <1>4, <1>5 DEF IInv, InventoryTypeOK, InventoryInit

LEMMA NextIInv == IInv /\ [InventoryNext]_inventoryVars => IInv'
<1> SUFFICES ASSUME IInv, [InventoryNext]_inventoryVars PROVE IInv'
  OBVIOUS
<1>1. ASSUME UNCHANGED inventoryVars PROVE IInv'
  BY <1>1 DEF inventoryVars, IInv, InventoryTypeOK, CacheKeyed, CachedMinersExist
<1>2. ASSUME Expire PROVE IInv'
  BY <1>2 DEF Expire, IInv, InventoryTypeOK, CacheKeyed, CachedMinersExist
<1>3. ASSUME UNCHANGED rows, NEW loaded, loaded \subseteq rows, loadMinersConfig(loaded) PROVE IInv'
  BY <1>3, LoadStep DEF IInv, InventoryTypeOK
<1>4. ASSUME ReadList PROVE IInv'
  BY <1>1, <1>3, <1>4 DEF ReadList, getMiners, inventoryVars
<1>5. ASSUME Reload PROVE IInv'
  BY <1>3, <1>5, ImportStep DEF Reload
<1>6. ASSUME NEW id \in Ids, getMinerById(id) PROVE IInv'
  <2>1. rows' = rows /\ fresh' = fresh
    BY <1>6 DEF getMinerById
  <2>2. /\ cache' \subseteq MinerConfig
        /\ CacheKeyed'
        /\ \A e \in cache' : \E r \in rows : r.ip = e.ip /\ r.name = e.name
    BY <1>6, LookedUpIsHonest DEF getMinerById
  <2> QED BY <2>1, <2>2 DEF IInv, InventoryTypeOK, CachedMinersExist
<1>7. ASSUME NEW owner \in Owners, ListForOwner(owner) PROVE IInv'
  BY <1>3, <1>7 DEF ListForOwner, getMinersByOwner
<1>8. ASSUME ListForSystem PROVE IInv'
  BY <1>3, <1>8 DEF ListForSystem
<1>9. ASSUME Request PROVE IInv'
  BY <1>6, <1>7, <1>8, <1>9, AddStep, UpdateStep, DeleteStep, TransferStep, ImportStep DEF Request
<1> QED BY <1>1, <1>2, <1>4, <1>5, <1>9, StatusStep DEF InventoryNext

LEMMA Invariance == InventorySpec => []IInv
BY InitIInv, NextIInv, PTL DEF InventorySpec

\* The table keeps its keys and the cache its shape through every sequence of operations.
THEOREM InventoryIsTyped == InventorySpec => []InventoryTypeOK
<1>1. IInv => InventoryTypeOK
  BY DEF IInv
<1> QED BY <1>1, Invariance, PTL

\* A miner the cache names is where the table has it, for every fleet and every set of
\* users (getMinerById, updateMinerStatus).
THEOREM CacheNamesRealMiners == InventorySpec => []CachedMinersExist
<1>1. IInv => CachedMinersExist
  BY DEF IInv
<1> QED BY <1>1, Invariance, PTL

-----------------------------------------------------------------------------
(* Ownership.                                                              *)

\* Rows that a step leaves under the same address have the same owner.
KeepsOwners == \A r \in rows, s \in rows' : r.ip = s.ip => r.owner = s.owner

LEMMA SameRowsKeepOwners ==
  ASSUME IInv, rows' \subseteq rows
  PROVE  KeepsOwners
BY DEF IInv, InventoryTypeOK, WellKeyed, KeepsOwners

\* A miner put under an address that was free takes nobody's miner.
LEMMA NewRowsKeepOwners ==
  ASSUME IInv, NEW new, rows' = rows \cup new, \A m \in new : \A r \in rows : r.ip # m.ip
  PROVE  KeepsOwners
BY DEF IInv, InventoryTypeOK, WellKeyed, KeepsOwners

LEMMA StatusKeepsOwners ==
  ASSUME IInv, NEW id \in Ids, NEW status \in {"online", "offline"}, updateMinerStatus(id, status)
  PROVE  KeepsOwners
<1> DEFINE ips == {e.ip : e \in {c \in cache' : c.name = id \/ c.ip = id}}
           mark(r) == IF r.ip \in ips THEN [r EXCEPT !.status = status] ELSE r
<1>1. \A s \in rows' : \E r \in rows : s = mark(r)
  BY DEF updateMinerStatus, WithStatus
<1> HIDE DEF ips
<1>2. \A r \in rows : mark(r).ip = r.ip /\ mark(r).owner = r.owner
  BY DEF IInv, InventoryTypeOK, MinerRecord
<1> HIDE DEF mark
<1> QED BY <1>1, <1>2 DEF IInv, InventoryTypeOK, WellKeyed, KeepsOwners

LEMMA UpdateKeepsOwners ==
  ASSUME IInv, NEW id \in Ids, NEW updates \in Updates, updateMiner(id, updates)
  PROVE  KeepsOwners
<1>1. PICK r \in Found(id) :
        LET m == Updated(r, updates)
        IN (m.ip # r.ip => Found(m.ip) = {}) /\ rows' = upsertMiner(m)
  BY DEF updateMiner
<1> DEFINE m == Updated(r, updates)
<1>2. r \in rows /\ r \in MinerRecord
  BY DEF Found, IInv, InventoryTypeOK
<1>3. m \in MinerRecord /\ m.owner = r.owner
  BY <1>2, UpdatedFields
<1>4. /\ m.ip # r.ip => \A s \in rows : s.ip # m.ip
      /\ rows' = {s \in rows : s.ip # m.ip} \cup {m}
  BY <1>1 DEF Found, upsertMiner
<1> HIDE DEF m
<1> QED BY <1>2, <1>3, <1>4 DEF IInv, InventoryTypeOK, WellKeyed, KeepsOwners

LEMMA ImportKeepsOwners ==
  ASSUME IInv, NEW file \in YamlFiles, importMinersFromYAML(file)
  PROVE  KeepsOwners
<1> DEFINE row(m) == [ip |-> m.ip, name |-> m.name, owner |-> m.owner, link |-> NoOwner,
                      thresholds |-> m.thresholds, status |-> "active"]
<1>1. PICK taken \in SUBSET file :
        /\ rows' = rows \cup {row(m) : m \in taken}
        /\ \A m \in taken : Found(m.ip) = {} /\ Found(m.name) = {}
  BY DEF importMinersFromYAML
<1>2. \A m \in taken : row(m).ip = m.ip /\ \A r \in rows : r.ip # m.ip
  BY <1>1 DEF Found
<1> DEFINE new == {row(m) : m \in taken}
<1> HIDE DEF row
<1>3. \A n \in new : \A r \in rows : r.ip # n.ip
  BY <1>2
<1>4. rows' = rows \cup new
  BY <1>1
<1> HIDE DEF new
<1> QED BY <1>3, <1>4, NewRowsKeepOwners

\* What a transfer changes, it changes to its owner.
LEMMA TransferGivesTo ==
  ASSUME IInv, NEW id \in Ids, NEW owner \in Owners, transferMiner(id, owner),
         NEW r \in rows, NEW s \in rows', r.ip = s.ip, r.owner # s.owner
  PROVE  s.owner = owner
<1>1. PICK q \in Found(id) : rows' = upsertMiner([q EXCEPT !.owner = owner])
  BY DEF transferMiner
<1> DEFINE m == [q EXCEPT !.owner = owner]
<1>2. m.owner = owner
  BY DEF Found, IInv, InventoryTypeOK, MinerRecord
<1>3. s \in rows \/ s = m
  BY <1>1 DEF upsertMiner
<1> HIDE DEF m
<1> QED BY <1>2, <1>3 DEF IInv, InventoryTypeOK, WellKeyed

LEMMA OwnerStep ==
  ASSUME IInv, InventoryNext,
         NEW r \in rows, NEW s \in rows', r.ip = s.ip, r.owner # s.owner
  PROVE  \E id \in Ids : transferMiner(id, s.owner)
<1>1. ~KeepsOwners
  BY DEF KeepsOwners
<1>2. ~(rows' \subseteq rows)
  BY <1>1, SameRowsKeepOwners
<1>3. ~Expire /\ ~ReadList /\ ~ListForSystem
  BY <1>2 DEF Expire, ReadList, ListForSystem
<1>4. \A owner \in Owners : ~ListForOwner(owner)
  BY <1>2 DEF ListForOwner
<1>5. \A id \in Ids : ~getMinerById(id)
  BY <1>2 DEF getMinerById
<1>6. \A id \in Ids : ~deleteMiner(id)
  BY <1>2 DEF deleteMiner
<1>7. ASSUME NEW ip \in Ips, NEW name \in Names, NEW owner \in Owners, addMiner(ip, name, owner)
      PROVE  FALSE
  <2> DEFINE m == [ip |-> ip, name |-> name, owner |-> owner, link |-> NoOwner,
                   thresholds |-> FALSE, status |-> "active"]
  <2>1. m.ip = ip /\ rows' = {q \in rows : q.ip # ip} \cup {m} /\ \A q \in rows : q.ip # ip
    BY <1>7 DEF addMiner, upsertMiner, Found
  <2> HIDE DEF m
  <2> DEFINE new == {m}
  <2>2. rows' = rows \cup new /\ \A n \in new : \A q \in rows : q.ip # n.ip
    BY <2>1
  <2> HIDE DEF new
  <2> QED BY <1>1, <2>2, NewRowsKeepOwners
<1>8. ~Reload
  BY <1>1, <1>2, ImportKeepsOwners DEF Reload
<1>9. PICK id \in Ids, owner \in Owners : transferMiner(id, owner)
  BY <1>1, <1>3, <1>4, <1>5, <1>6, <1>7, <1>8, StatusKeepsOwners, UpdateKeepsOwners,
     ImportKeepsOwners DEF InventoryNext, Request
<1> QED BY <1>9, TransferGivesTo

\* Nothing but a transfer gives a miner to someone else.
THEOREM OwnersKeepTheirMiners == InventorySpec => OwnerMovesOnlyByTransfer
<1>1. IInv /\ [InventoryNext]_inventoryVars
        => [\A r \in rows, s \in rows' :
              r.ip = s.ip /\ r.owner # s.owner => \E id \in Ids : transferMiner(id, s.owner)]_inventoryVars
  BY OwnerStep
<1> QED BY <1>1, Invariance, PTL DEF InventorySpec, OwnerMovesOnlyByTransfer

-----------------------------------------------------------------------------
(* Live statistics over the inventory.                                     *)

\* What getMiners returns names only rows of the table, whether it was loaded or not.
LEMMA ReturnedIsHonest ==
  ASSUME IInv, NEW readable, getMiners(readable)
  PROVE  /\ cache' \subseteq MinerConfig /\ CacheKeyed' /\ fresh' \in BOOLEAN
         /\ \A e \in cache' : \E r \in rows : r.ip = e.ip /\ r.name = e.name
<1>1. CASE ~fresh /\ readable
  <2>1. cache' = {dbRecordToConfig(r) : r \in rows} /\ fresh' = TRUE
    BY <1>1 DEF getMiners, loadMinersConfig
  <2>2. \A e \in cache' : \E r \in rows : e = [ip |-> r.ip, name |-> r.name, owner |-> r.owner]
    BY <2>1 DEF dbRecordToConfig
  <2>3. CacheKeyed'
    <3>1. SUFFICES ASSUME NEW e \in cache', NEW f \in cache', e.ip = f.ip PROVE e = f
      BY DEF CacheKeyed
    <3>2. PICK r \in rows : e = [ip |-> r.ip, name |-> r.name, owner |-> r.owner]
      BY <2>2
    <3>3. PICK s \in rows : f = [ip |-> s.ip, name |-> s.name, owner |-> s.owner]
      BY <2>2
    <3>4. r = s
      BY <3>1, <3>2, <3>3 DEF IInv, InventoryTypeOK, WellKeyed
    <3> QED BY <3>2, <3>3, <3>4
  <2>4. cache' \subseteq MinerConfig
    BY <2>2 DEF IInv, InventoryTypeOK, MinerConfig, MinerRecord
  <2> QED BY <2>1, <2>2, <2>3, <2>4
<1>2. CASE ~(~fresh /\ readable)
  BY <1>2 DEF getMiners, IInv, InventoryTypeOK, CacheKeyed, CachedMinersExist
<1> QED BY <1>1, <1>2

\* Writing the statuses of a list after reading it keeps the inventory's invariant, and what the
\* snapshot shows of that list is in the table (getRealMiningStats, simulateMiningStats, stopMining).
LEMMA TickStep ==
  ASSUME IInv, NEW readable, NEW seen, getMiners(readable), UpdateStatuses(cache', seen)
  PROVE  /\ IInv'
         /\ \A s \in Shown(cache', seen) : \E r \in rows' : r.ip = s.ip
<1> DEFINE mark(r) == IF \E e \in cache' : e.ip = r.ip THEN [r EXCEPT !.status = StatusOf(r, seen)] ELSE r
<1>1. \A r \in rows : /\ mark(r) \in MinerRecord /\ mark(r) \in rows'
                      /\ mark(r).ip = r.ip /\ mark(r).name = r.name
  <2>1. SUFFICES ASSUME NEW r \in rows
                 PROVE  /\ mark(r) \in MinerRecord /\ mark(r) \in rows'
                        /\ mark(r).ip = r.ip /\ mark(r).name = r.name
    OBVIOUS
  <2>2. r \in MinerRecord /\ StatusOf(r, seen) \in {"active", "online", "offline"}
    BY DEF IInv, InventoryTypeOK, StatusOf
  <2>3. [r EXCEPT !.status = StatusOf(r, seen)] \in MinerRecord
    BY <2>2 DEF MinerRecord
  <2> QED BY <2>2, <2>3 DEF UpdateStatuses, MinerRecord
<1>2. \A s \in rows' : \E r \in rows : s = mark(r)
  BY DEF UpdateStatuses
<1> HIDE DEF mark
<1>3. rows' \subseteq MinerRecord /\ WellKeyed(rows')
  BY <1>1, <1>2 DEF IInv, InventoryTypeOK, WellKeyed
<1>4. \A e \in cache' : \E s \in rows' : s.ip = e.ip /\ s.name = e.name
  <2>1. SUFFICES ASSUME NEW e \in cache' PROVE \E s \in rows' : s.ip = e.ip /\ s.name = e.name
    OBVIOUS
  <2>2. PICK r \in rows : r.ip = e.ip /\ r.name = e.name
    BY ReturnedIsHonest
  <2> QED BY <1>1, <2>2
<1>5. IInv'
  BY <1>3, <1>4, ReturnedIsHonest DEF IInv, InventoryTypeOK, CachedMinersExist
<1>6. \A s \in Shown(cache', seen) : \E e \in cache' : s.ip = e.ip
  BY DEF Shown
<1> QED BY <1>4, <1>5, <1>6

\* What a step of the live statistics may do to the snapshot, outside the push.
NoGhosts == mode.source = "prometheus" =>
              \A s \in snapshot' \ snapshot : \E r \in rows' : r.ip = s.ip

LEMMA SimulatedStep == ASSUME IInv, SimulatedStats PROVE IInv' /\ NoGhosts
<1>1. PICK seen \in SUBSET Ips : UpdateStatuses(cache', seen) /\ snapshot' = Shown(cache', seen)
  BY DEF SimulatedStats, setMiningStats
<1>2. getMiners(TRUE)
  BY DEF SimulatedStats
<1>3. IInv' /\ \A s \in Shown(cache', seen) : \E r \in rows' : r.ip = s.ip
  BY <1>1, <1>2, TickStep
<1> QED BY <1>1, <1>3 DEF NoGhosts

\* A step of the live statistics is a step of the inventory, a tick, or leaves the inventory alone.
LEMMA LiveStep == ASSUME IInv, [LiveNext]_fleetVars PROVE IInv' /\ [NoGhosts]_fleetVars
<1>1. ASSUME UNCHANGED <<inventoryVars, snapshot>> PROVE IInv' /\ NoGhosts
  BY <1>1, NextIInv DEF inventoryVars, NoGhosts
<1>2. ASSUME [InventoryNext]_inventoryVars, UNCHANGED snapshot \/ snapshot' = {} PROVE IInv' /\ NoGhosts
  BY <1>2, NextIInv DEF NoGhosts
<1>3. CASE SimulationTick
  BY <1>3, SimulatedStep DEF SimulationTick
<1>4. ASSUME NEW readable \in BOOLEAN, FetchEnd(readable) PROVE IInv' /\ NoGhosts
  <2>1. PICK seen : seen = Seen(awaiting)
    OBVIOUS
  <2>2. getMiners(readable) /\ UpdateStatuses(cache', seen) /\ snapshot' = Shown(cache', seen)
    BY <1>4, <2>1 DEF FetchEnd, setMiningStats
  <2>3. IInv' /\ \A s \in Shown(cache', seen) : \E r \in rows' : r.ip = s.ip
    BY <2>2, TickStep
  <2> QED BY <2>2, <2>3 DEF NoGhosts
<1>5. CASE Push
  <2>1. ReadList /\ mode.source = "push"
    BY <1>5 DEF Push, ReadList
  <2> QED BY <2>1, NextIInv DEF InventoryNext, NoGhosts
<1>6. CASE SchedulerReload
  BY <1>2, <1>6 DEF SchedulerReload, InventoryNext, Request
<1>7. CASE StartMining
  BY <1>1, <1>7, SimulatedStep DEF StartMining
<1>8. CASE StopMining
  <2>1. getMiners(TRUE) /\ UpdateStatuses(cache', {}) /\ snapshot' = snapshot
    BY <1>8 DEF StopMining
  <2>2. IInv'
    BY <2>1, TickStep
  <2> QED BY <2>1, <2>2 DEF NoGhosts
<1>9. ASSUME NEW name \in Names, RestartMiner(name) \/ RestartDone(name) PROVE IInv' /\ NoGhosts
  <2>1. snapshot' = snapshot /\ \E status \in {"online", "offline"} : updateMinerStatus(name, status)
    BY <1>9 DEF RestartMiner, RestartDone
  <2>2. name \in Ids
    BY DEF Ids
  <2> QED BY <1>2, <2>1, <2>2 DEF InventoryNext
<1>10. CASE Restarted \/ InventoryRequest
  BY <1>2, <1>10 DEF Restarted, InventoryRequest, InventoryNext
<1>11. CASE FetchStart \/ FetchFails \/ UNCHANGED fleetVars \/ \E ip \in Ips : MachineTurns(ip)
  BY <1>1, <1>11 DEF FetchStart, FetchFails, MachineTurns, fleetVars, liveVars
<1>12. CASE CacheExpires
  BY <1>2, <1>12 DEF CacheExpires, InventoryNext, liveVars
<1> QED BY <1>3, <1>4, <1>5, <1>6, <1>7, <1>8, <1>9, <1>10, <1>11, <1>12 DEF LiveNext

LEMMA LiveInvariance == LiveSpec => []IInv
<1>1. LiveInit => IInv
  BY InitIInv DEF LiveInit
<1>2. IInv /\ [LiveNext]_fleetVars => IInv'
  BY LiveStep
<1> QED BY <1>1, <1>2, PTL DEF LiveSpec

(* The cache names real miners also while ticks, starts, stops, restarts and pushes write to the
   inventory between the requests (getMinerById, updateMinerStatus). *)
THEOREM CacheStaysHonestLive == LiveSpec => []CachedMinersExist
<1>1. IInv => CachedMinersExist
  BY DEF IInv
<1> QED BY <1>1, LiveInvariance, PTL

(* A tick brings back no miner that was deleted while it waited for its answer, with any number of
   machines, restarts and failed reads (getRealMiningStats). *)
THEOREM TicksMakeNoGhosts == LiveSpec => NoGhostMiners
<1>1. IInv /\ [LiveNext]_fleetVars
        => [mode.source = "prometheus" =>
              \A s \in snapshot' \ snapshot : \E r \in rows' : r.ip = s.ip]_fleetVars
  BY LiveStep DEF NoGhosts
<1> QED BY <1>1, LiveInvariance, PTL DEF LiveSpec, NoGhostMiners
-----------------------------------------------------------------------------
(* TelegramBot: sequences of operations.                                   *)

\* A sequence of records each of which says what it calls.
Calls(ops) == (\E S : ops \in Seq(S)) /\ \A i \in DOMAIN ops : "op" \in DOMAIN ops[i]

Kept == {"reboot", "answer"}

\* The reboots and answers of new stand in old, as far apart.
Continues(new, old) ==
  \E k \in Nat : \A i \in DOMAIN new :
    new[i].op \in Kept => i + k \in DOMAIN old /\ new[i] = old[i + k]

Other(o) == "op" \in DOMAIN o /\ o.op \notin Kept

LEMMA CallsAreIndexed ==
  ASSUME NEW ops, Calls(ops)
  PROVE  Len(ops) \in Nat /\ DOMAIN ops = 1..Len(ops) /\ Head(ops) = ops[1]
<1>1. PICK S : ops \in Seq(S)
  BY DEF Calls
<1> QED BY <1>1

LEMMA ContinuesItself == \A ops : (\E S : ops \in Seq(S)) => Continues(ops, ops)
<1>1. SUFFICES ASSUME NEW ops, NEW S, ops \in Seq(S) PROVE Continues(ops, ops)
  OBVIOUS
<1>2. \A i \in DOMAIN ops : i + 0 = i
  BY <1>1
<1> QED BY <1>2 DEF Continues

LEMMA ContinuesOn ==
  ASSUME NEW a, NEW b, NEW c, Calls(a), Continues(a, b), Continues(b, c)
  PROVE  Continues(a, c)
<1>1. PICK j \in Nat : \A i \in DOMAIN a : a[i].op \in Kept => i + j \in DOMAIN b /\ a[i] = b[i + j]
  BY DEF Continues
<1>2. PICK k \in Nat : \A i \in DOMAIN b : b[i].op \in Kept => i + k \in DOMAIN c /\ b[i] = c[i + k]
  BY DEF Continues
<1>3. ASSUME NEW i \in DOMAIN a, a[i].op \in Kept
      PROVE  i + (j + k) \in DOMAIN c /\ a[i] = c[i + (j + k)]
  <2>1. i \in Nat
    BY CallsAreIndexed
  <2>2. i + (j + k) = (i + j) + k
    BY <2>1
  <2> QED BY <1>1, <1>2, <1>3, <2>2
<1> QED BY <1>3 DEF Continues

LEMMA TailCalls ==
  ASSUME NEW ops, Calls(ops), ops # <<>>
  PROVE  Calls(Tail(ops)) /\ Continues(Tail(ops), ops) /\ Len(Tail(ops)) = Len(ops) - 1
<1>1. PICK S : ops \in Seq(S)
  BY DEF Calls
<1>2. /\ Tail(ops) \in Seq(S) /\ Len(Tail(ops)) = Len(ops) - 1 /\ Len(ops) \in Nat
      /\ \A i \in 1..Len(Tail(ops)) : Tail(ops)[i] = ops[i + 1]
  BY <1>1, HeadTailProperties
<1>3. \A i \in DOMAIN Tail(ops) : i + 1 \in DOMAIN ops /\ Tail(ops)[i] = ops[i + 1]
  BY <1>1, <1>2
<1> QED BY <1>2, <1>3 DEF Calls, Continues

\* Another operation takes the place of the first.
LEMMA ReplacedCalls ==
  ASSUME NEW ops, Calls(ops), ops # <<>>, NEW o, Other(o)
  PROVE  LET new == <<o>> \o Tail(ops)
         IN  Calls(new) /\ Continues(new, ops) /\ new # <<>>
<1>1. PICK S : ops \in Seq(S)
  BY DEF Calls
<1> DEFINE new == <<o>> \o Tail(ops)
<1>2. /\ Tail(ops) \in Seq(S) /\ Len(Tail(ops)) = Len(ops) - 1 /\ Len(ops) \in Nat
      /\ \A i \in 1..Len(Tail(ops)) : Tail(ops)[i] = ops[i + 1]
  BY <1>1, HeadTailProperties
<1>3. new \in Seq(S \cup {o}) /\ Len(new) = Len(ops)
  BY <1>2
<1>4. DOMAIN new = 1..Len(ops) /\ DOMAIN ops = 1..Len(ops)
  BY <1>1, <1>3
<1>5. new[1] = o /\ \A i \in 2..Len(ops) : new[i] = ops[i]
  <2>1. new[1] = o
    BY <1>2
  <2>2. ASSUME NEW i \in 2..Len(ops) PROVE new[i] = ops[i]
    <3>1. new[i] = Tail(ops)[i - 1]
      BY <1>2, <2>2
    <3>2. i - 1 \in 1..Len(Tail(ops)) /\ (i - 1) + 1 = i
      BY <1>2, <2>2
    <3> QED BY <1>2, <3>1, <3>2
  <2> QED BY <2>1, <2>2
<1> HIDE DEF new
<1>6. \A i \in DOMAIN new : i = 1 \/ i \in 2..Len(ops)
  BY <1>2, <1>4
<1>7. \A i \in DOMAIN new : new[i].op \in Kept => i + 0 \in DOMAIN ops /\ new[i] = ops[i + 0]
  BY <1>4, <1>5, <1>6 DEF Other
<1>8. \A i \in DOMAIN new : "op" \in DOMAIN new[i]
  BY <1>4, <1>5, <1>6 DEF Other, Calls
<1>9. new # <<>>
  <2>1. Len(ops) # 0
    BY <1>1
  <2> QED BY <1>3, <2>1
<1> QED BY <1>3, <1>7, <1>8, <1>9 DEF new, Calls, Continues

\* What a handler does before its next call leaves its operations, drops the first or fills it in.
LEMMA BeginCalls ==
  ASSUME NEW mem, NEW ops, Calls(ops)
  PROVE  /\ Calls(Begin(mem, ops).ops) /\ Continues(Begin(mem, ops).ops, ops)
         /\ Len(ops) > 1 => Begin(mem, ops).ops # <<>>
<1>1. \E S : ops \in Seq(S)
  BY DEF Calls
<1>2. CASE Begin(mem, ops).ops = ops
  <2>1. Len(ops) > 1 => ops # <<>>
    BY <1>1
  <2> QED BY <1>1, <1>2, <2>1, ContinuesItself
<1>3. CASE Begin(mem, ops).ops = Tail(ops) /\ ops # <<>>
  <2>1. Len(ops) \in Nat
    BY CallsAreIndexed
  <2>2. Len(ops) > 1 => Tail(ops) # <<>>
    <3>1. PICK rest : rest = Tail(ops)
      OBVIOUS
    <3>2. Len(rest) = Len(ops) - 1
      BY <1>3, <3>1, TailCalls
    <3>3. Len(ops) > 1 => rest # <<>>
      BY <2>1, <3>2
    <3> QED BY <3>1, <3>3
  <2> QED BY <1>3, <2>2, TailCalls
<1>4. ASSUME ops # <<>>, NEW o, Other(o), Begin(mem, ops).ops = <<o>> \o Tail(ops)
      PROVE  /\ Calls(Begin(mem, ops).ops) /\ Continues(Begin(mem, ops).ops, ops)
             /\ Len(ops) > 1 => Begin(mem, ops).ops # <<>>
  BY <1>4, ReplacedCalls
<1>5. CASE ops = <<>> \/ Head(ops).op # "draw"
  BY <1>2, <1>5 DEF Begin
<1>6. CASE ops # <<>> /\ Head(ops).op = "draw" /\ ~enabled
  BY <1>3, <1>6 DEF Begin
<1>7. CASE ops # <<>> /\ Head(ops).op = "draw" /\ enabled
  <2> DEFINE k == Known(mem)
             first == Head(ops)
             target == IF first.target # Nothing THEN first.target ELSE Context(k).last
             back == ViewType(first.screen.view) = "pools" /\ Len(Context(k).stack) > 1
             leg == IF target = Nothing THEN "send" ELSE "edit"
             begun == [first EXCEPT !.target = target, !.context = k.current,
                                    !.screen.back = back, !.leg = leg]
  <2>1. Begin(mem, ops).ops = <<begun>> \o Tail(ops)
    BY <1>7, Zenon DEF Begin
  <2>2. "op" \in DOMAIN first /\ first.op = "draw"
    <3>1. 1 \in DOMAIN ops /\ first = ops[1]
      BY <1>1, <1>7
    <3> QED BY <1>7, <3>1 DEF Calls
  <2>3. Other(begun)
    <3> HIDE DEF first, target, back, leg, k
    <3>1. "op" \in DOMAIN begun /\ begun.op = first.op
      BY <2>2
    <3> QED BY <2>2, <3>1 DEF Other, Kept
  <2>4. PICK o : o = begun
    OBVIOUS
  <2> HIDE DEF begun
  <2> QED BY <1>4, <1>7, <2>1, <2>3, <2>4
<1> QED BY <1>5, <1>6, <1>7

-----------------------------------------------------------------------------
(* The work of commands and buttons.                                       *)

\* At most one call, and what the catch calls instead: neither reboots or answers.
Plainly(work) ==
  /\ work.ops = <<>> \/ \E o : Other(o) /\ work.ops = <<o>>
  /\ work.recovery = Nothing \/ Other(work.recovery)

LEMMA OthersAre ==
  /\ \A screen, target, refresh : Other(Draw(screen, target, refresh))
  /\ \A screen : Other(Post(screen))
  /\ \A m, msg, refresh : Other(ReadPools(m, msg, refresh))
  /\ Other(Error)
BY DEF Other, Kept, Draw, Post, ReadPools, Error

LEMMA WorkIsPlain ==
  /\ \A o, recovery : Other(o) /\ (recovery = Nothing \/ Other(recovery)) => Plainly(Work(<<o>>, recovery))
  /\ \A recovery : recovery = Nothing \/ Other(recovery) => Plainly(Work(<<>>, recovery))
BY DEF Plainly, Work

LEMMA SendersArePlain ==
  /\ \A refresh, msg : Plainly(sendMainMenu(refresh, msg))
  /\ Plainly(sendInteractiveHelp)
  /\ \A refresh, msg : Plainly(sendFarmStatus(refresh, msg))
  /\ \A refresh, msg : Plainly(sendActiveAlerts(refresh, msg))
  /\ \A refresh, msg : Plainly(sendMinersList(refresh, msg))
  /\ \A m : Plainly(searchMiners(m))
  /\ \A m, refresh, msg : Plainly(sendMinerDetails(m, refresh, msg))
  /\ \A m, refresh, msg : Plainly(sendMinerPools(m, refresh, msg))
  /\ \A m : Plainly(handleRebootRequest(m))
<1>1. /\ \A refresh, msg : Plainly(sendMainMenu(refresh, msg))
      /\ Plainly(sendInteractiveHelp)
      /\ \A refresh, msg : Plainly(sendFarmStatus(refresh, msg))
      /\ \A refresh, msg : Plainly(sendActiveAlerts(refresh, msg))
  BY OthersAre, WorkIsPlain DEF sendMainMenu, sendInteractiveHelp, sendFarmStatus, sendActiveAlerts
<1>2. \A refresh, msg : Plainly(sendMinersList(refresh, msg))
  BY OthersAre, WorkIsPlain DEF sendMinersList
<1>3. \A m : Plainly(searchMiners(m))
  BY OthersAre, WorkIsPlain DEF searchMiners
<1>4. \A m, refresh, msg : Plainly(sendMinerDetails(m, refresh, msg))
  BY OthersAre, WorkIsPlain DEF sendMinerDetails
<1>5. \A m, refresh, msg : Plainly(sendMinerPools(m, refresh, msg))
  BY OthersAre, WorkIsPlain DEF sendMinerPools
<1>6. \A m : Plainly(handleRebootRequest(m))
  BY OthersAre, WorkIsPlain DEF handleRebootRequest
<1> QED BY <1>1, <1>2, <1>3, <1>4, <1>5, <1>6

LEMMA RestoredIsPlain == \A view, msg : Plainly(Restored(view, msg))
BY SendersArePlain DEF Restored

LEMMA CommandedIsPlain == \A c \in Commands : Plainly(Commanded(c))
<1>1. \A c \in Commands : c.do \in {"start", "status", "miners", "alerts", "help", "whoami",
                                  "find", "miner", "reboot", "pools"}
  BY DEF Commands, Press
<1>2. Plainly(Work(<<Error>>, Nothing))
  BY OthersAre, WorkIsPlain
<1> QED BY <1>1, <1>2, SendersArePlain DEF Commanded

\* Of all buttons only the confirmation leads to a reboot.
LEMMA DispatchedIsPlain ==
  ASSUME NEW p, NEW msg, NEW mem, p.do # "confirm"
  PROVE  Plainly(Dispatched(p, msg, mem))
<1>1. /\ Plainly(Work(<<Draw(Screen("confirm", p.miner, FALSE), msg, TRUE)>>, Nothing))
      /\ Plainly(Work(<<>>, Nothing))
  BY OthersAre, WorkIsPlain
<1>2. CASE p.do = "back"
  BY <1>1, <1>2, RestoredIsPlain DEF Dispatched
<1>3. CASE p.do # "back"
  BY <1>1, <1>3, SendersArePlain DEF Dispatched
<1> QED BY <1>2, <1>3

-----------------------------------------------------------------------------
(* Handlers.                                                               *)

Fields == {"ops", "recovery", "press", "outer", "quiet", "failed"}

Rebooting(ops, m) == \E i \in DOMAIN ops : ops[i].op = "reboot" /\ ops[i].miner = m

\* A handler reboots once, its catch does not reboot, and when its catch has a call to make the
\* answer of the query is behind the catch of the callback handler.
Formed(hd) ==
  /\ DOMAIN hd = Fields /\ Calls(hd.ops)
  /\ \A i, j \in DOMAIN hd.ops : hd.ops[i].op = "reboot" /\ hd.ops[j].op = "reboot" => i = j
  /\ hd.recovery = Nothing \/ Other(hd.recovery)
  /\ hd.recovery = Nothing \/ hd.outer \/ \A i \in DOMAIN hd.ops : hd.ops[i].op # "answer"

LEMMA OpsReplaced ==
  ASSUME NEW hd, DOMAIN hd = Fields, NEW ops
  PROVE  LET new == [hd EXCEPT !.ops = ops]
         IN  /\ DOMAIN new = Fields /\ new.ops = ops /\ new.recovery = hd.recovery
             /\ new.press = hd.press /\ new.outer = hd.outer /\ new.quiet = hd.quiet
             /\ new.failed = hd.failed
BY DEF Fields

LEMMA ContinuesFormed ==
  ASSUME NEW hd, Formed(hd), NEW ops, Calls(ops), Continues(ops, hd.ops)
  PROVE  /\ Formed([hd EXCEPT !.ops = ops])
         /\ \A m : Rebooting(ops, m) => Rebooting(hd.ops, m)
<1>1. PICK new : new = [hd EXCEPT !.ops = ops]
  OBVIOUS
<1>2. DOMAIN new = Fields /\ new.ops = ops /\ new.recovery = hd.recovery /\ new.outer = hd.outer
  BY <1>1, OpsReplaced DEF Formed
<1>3. PICK k \in Nat : \A i \in DOMAIN ops :
        ops[i].op \in Kept => i + k \in DOMAIN hd.ops /\ ops[i] = hd.ops[i + k]
  BY DEF Continues
<1>4. \A i \in DOMAIN ops : i \in Nat
  BY CallsAreIndexed
<1>5. ASSUME NEW i \in DOMAIN ops, NEW j \in DOMAIN ops, ops[i].op = "reboot", ops[j].op = "reboot"
      PROVE  i = j
  <2>1. i + k = j + k
    BY <1>3, <1>5 DEF Formed, Kept
  <2> QED BY <1>4, <2>1
<1>6. hd.recovery = Nothing \/ hd.outer \/ \A i \in DOMAIN ops : ops[i].op # "answer"
  BY <1>3 DEF Formed, Kept
<1>7. Formed(new)
  BY <1>2, <1>5, <1>6 DEF Formed
<1>8. \A m : Rebooting(ops, m) => Rebooting(hd.ops, m)
  BY <1>3 DEF Rebooting, Kept
<1> QED BY <1>1, <1>7, <1>8

\* A handler that runs on: what is left of its operations, with its flags.
LEMMA RunsOn ==
  ASSUME DOMAIN handlers = Slots, NEW h \in Slots, NEW hd, Formed(hd), NEW mem, Run(h, hd, mem)
  PROVE  /\ DOMAIN handlers' = Slots /\ \A g \in Slots \ {h} : handlers'[g] = handlers[g]
         /\ handlers'[h] = Nothing \/
              /\ Formed(handlers'[h]) /\ handlers'[h].ops # <<>>
              /\ \A m : Rebooting(handlers'[h].ops, m) => Rebooting(hd.ops, m)
<1>1. PICK ops : ops = Begin(mem, hd.ops).ops
  OBVIOUS
<1>2. Calls(ops) /\ Continues(ops, hd.ops)
  BY <1>1, BeginCalls DEF Formed
<1>3. handlers' = [handlers EXCEPT ![h] = IF ops = <<>> THEN Nothing ELSE [hd EXCEPT !.ops = ops]]
  BY <1>1, Zenon DEF Run
<1>4. PICK next : next = [hd EXCEPT !.ops = ops]
  OBVIOUS
<1>5. Formed(next) /\ next.ops = ops /\ \A m : Rebooting(ops, m) => Rebooting(hd.ops, m)
  BY <1>2, <1>4, ContinuesFormed, OpsReplaced DEF Formed
<1> QED BY <1>3, <1>4, <1>5

LEMMA HandlerFormed ==
  ASSUME NEW work, Plainly(work), NEW press \in BOOLEAN, NEW outer \in BOOLEAN, NEW quiet \in BOOLEAN,
         press => outer \/ work.recovery = Nothing
  PROVE  LET hd == Handler(work, press, outer, quiet)
         IN  Formed(hd) /\ \A m : ~Rebooting(hd.ops, m)
<1>1. PICK hd : hd = Handler(work, press, outer, quiet)
  OBVIOUS
<1>2. /\ DOMAIN hd = Fields /\ hd.recovery = work.recovery /\ hd.outer = outer
      /\ hd.ops = work.ops \o (IF press THEN <<Answer>> ELSE <<>>)
  BY <1>1 DEF Handler, Fields
<1>3. "op" \in DOMAIN Answer /\ Answer.op = "answer"
  BY DEF Answer
<1>4. ASSUME NEW o, Other(o), work.ops = <<o>> PROVE hd.ops = IF press THEN <<o, Answer>> ELSE <<o>>
  BY <1>2, <1>4
<1>5. CASE work.ops = <<>>
  <2>1. hd.ops = IF press THEN <<Answer>> ELSE <<>>
    BY <1>2, <1>5
  <2>2. hd.ops \in Seq({Answer}) /\ \A i \in DOMAIN hd.ops : i = 1 /\ press /\ hd.ops[i] = Answer
    <3>1. CASE press
      <4>1. hd.ops = <<Answer>>
        BY <2>1, <3>1
      <4> QED BY <3>1, <4>1
    <3>2. CASE ~press
      <4>1. hd.ops = <<>>
        BY <2>1, <3>2
      <4> QED BY <4>1
    <3> QED BY <3>1, <3>2
  <2>3. Calls(hd.ops)
    BY <1>3, <2>2 DEF Calls
  <2> QED BY <1>1, <1>2, <1>3, <2>2, <2>3 DEF Formed, Plainly, Rebooting
<1>6. ASSUME NEW o, Other(o), work.ops = <<o>>
      PROVE  Formed(hd) /\ \A m : ~Rebooting(hd.ops, m)
  <2>1. /\ hd.ops \in Seq({o, Answer})
        /\ \A i \in DOMAIN hd.ops : hd.ops[i] = o \/ (press /\ hd.ops[i] = Answer)
    <3>1. CASE press
      <4>1. hd.ops = <<o, Answer>>
        BY <1>4, <1>6, <3>1
      <4> QED BY <3>1, <4>1
    <3>2. CASE ~press
      <4>1. hd.ops = <<o>>
        BY <1>4, <1>6, <3>2
      <4> QED BY <4>1
    <3> QED BY <3>1, <3>2
  <2>2. o.op \notin {"reboot", "answer"} /\ "op" \in DOMAIN o
    BY <1>6 DEF Other, Kept
  <2>3. Calls(hd.ops)
    BY <1>3, <2>1, <2>2 DEF Calls
  <2> QED BY <1>1, <1>2, <1>3, <2>1, <2>2, <2>3 DEF Formed, Plainly, Rebooting
<1> QED BY <1>1, <1>5, <1>6 DEF Plainly

\* The handler of a confirmation reboots the miner that was confirmed.
LEMMA ExecutionFormed ==
  ASSUME NEW m, NEW msg
  PROVE  LET hd == Handler(executeReboot(m, msg), TRUE, TRUE, FALSE)
         IN  /\ Formed(hd) /\ Len(hd.ops) > 1
             /\ \A n : Rebooting(hd.ops, n) => n = m
<1>1. PICK draw : draw = Draw(Screen("working", m, FALSE), msg, TRUE)
  OBVIOUS
<1>2. PICK reboot : reboot = Reboot(m, msg)
  OBVIOUS
<1>3. PICK rescue : rescue = Draw(Screen("failed", m, FALSE), msg, TRUE)
  OBVIOUS
<1>4. PICK hd : hd = Handler(executeReboot(m, msg), TRUE, TRUE, FALSE)
  OBVIOUS
<1>5. DOMAIN hd = Fields /\ hd.recovery = rescue /\ hd.outer = TRUE /\ hd.ops = <<draw, reboot>> \o <<Answer>>
  <2>1. executeReboot(m, msg) = [ops |-> <<draw, reboot>>, recovery |-> rescue]
    BY <1>1, <1>2, <1>3 DEF executeReboot, Work
  <2>2. hd = [ops |-> <<draw, reboot>> \o <<Answer>>, recovery |-> rescue, press |-> TRUE,
              outer |-> TRUE, quiet |-> FALSE, failed |-> FALSE]
    BY <1>4, <2>1 DEF Handler
  <2> QED BY <2>2 DEF Fields
<1>6. Other(draw) /\ Other(rescue)
  BY <1>1, <1>3, OthersAre
<1>7. "op" \in DOMAIN reboot /\ reboot.op = "reboot" /\ reboot.miner = m
  BY <1>2 DEF Reboot
<1>8. "op" \in DOMAIN Answer /\ Answer.op = "answer"
  BY DEF Answer
<1>9. /\ hd.ops \in Seq({draw, reboot, Answer}) /\ Len(hd.ops) = 3
      /\ DOMAIN hd.ops = {1, 2, 3} /\ hd.ops[1] = draw /\ hd.ops[2] = reboot /\ hd.ops[3] = Answer
  <2>1. PICK two : two = <<draw, reboot>>
    OBVIOUS
  <2>2. two \in Seq({draw, reboot, Answer}) /\ Len(two) = 2 /\ two[1] = draw /\ two[2] = reboot
    BY <2>1
  <2>3. PICK one : one = <<Answer>>
    OBVIOUS
  <2>4. one \in Seq({draw, reboot, Answer}) /\ Len(one) = 1 /\ one[1] = Answer
    BY <2>3
  <2>5. PICK three : three = two \o one
    OBVIOUS
  <2>6. /\ three \in Seq({draw, reboot, Answer}) /\ Len(three) = 3
        /\ three[1] = draw /\ three[2] = reboot /\ three[3] = Answer
    <3>1. PICK S : S = {draw, reboot, Answer}
      OBVIOUS
    <3>2. two \in Seq(S) /\ one \in Seq(S)
      BY <2>2, <2>4, <3>1
    <3>3. /\ three \in Seq(S) /\ Len(three) = Len(two) + Len(one)
          /\ \A i \in 1..(Len(two) + Len(one)) :
               three[i] = IF i <= Len(two) THEN two[i] ELSE one[i - Len(two)]
      BY <2>5, <3>2, ConcatProperties
    <3>4. Len(three) = 3
      BY <2>2, <2>4, <3>3
    <3>5. three[1] = draw /\ three[2] = reboot /\ three[3] = Answer
      BY <2>2, <2>4, <3>3
    <3> QED BY <3>1, <3>3, <3>4, <3>5
  <2> QED BY <1>5, <2>1, <2>3, <2>5, <2>6
<1>10. "op" \in DOMAIN draw /\ draw.op # "reboot"
  BY <1>6 DEF Other, Kept
<1>11. Calls(hd.ops)
  BY <1>7, <1>8, <1>9, <1>10 DEF Calls
<1>12. \A i \in DOMAIN hd.ops : hd.ops[i].op = "reboot" => i = 2
  BY <1>8, <1>9, <1>10
<1>13. Formed(hd)
  BY <1>5, <1>6, <1>11, <1>12 DEF Formed
<1>14. \A n : Rebooting(hd.ops, n) => n = m
  BY <1>7, <1>9, <1>12 DEF Rebooting
<1>15. Len(hd.ops) > 1
  BY <1>9
<1> QED BY <1>4, <1>13, <1>14, <1>15, Zenon

-----------------------------------------------------------------------------
(* What a step does to the handlers.                                       *)

HandlersFormed ==
  DOMAIN handlers = Slots /\ \A h \in Slots : Free(h) \/ (Formed(handlers[h]) /\ handlers[h].ops # <<>>)

Pending(h, m) == ~Free(h) /\ Rebooting(handlers[h].ops, m)

NoneAdded == \A h \in Slots, m \in Miners : Pending(h, m)' => Pending(h, m)

LEMMA GoesOn ==
  ASSUME HandlersFormed, NEW h \in Slots, ~Free(h), NEW ops, Calls(ops), Continues(ops, handlers[h].ops),
         NEW mem, Run(h, [handlers[h] EXCEPT !.ops = ops], mem)
  PROVE  HandlersFormed' /\ NoneAdded
<1>1. PICK old : old = handlers[h]
  OBVIOUS
<1>2. Formed(old)
  BY <1>1 DEF HandlersFormed
<1>3. PICK hd : hd = [old EXCEPT !.ops = ops]
  OBVIOUS
<1>4. Formed(hd) /\ hd.ops = ops /\ \A m : Rebooting(ops, m) => Rebooting(old.ops, m)
  BY <1>1, <1>2, <1>3, ContinuesFormed, OpsReplaced DEF Formed
<1>5. Run(h, hd, mem)
  BY <1>1, <1>3
<1>6. /\ DOMAIN handlers' = Slots /\ \A g \in Slots \ {h} : handlers'[g] = handlers[g]
      /\ handlers'[h] = Nothing \/
           /\ Formed(handlers'[h]) /\ handlers'[h].ops # <<>>
           /\ \A m : Rebooting(handlers'[h].ops, m) => Rebooting(hd.ops, m)
  BY <1>4, <1>5, RunsOn DEF HandlersFormed
<1>7. HandlersFormed'
  BY <1>6 DEF HandlersFormed, Free
<1>8. ASSUME NEW g \in Slots, NEW m \in Miners, Pending(g, m)' PROVE Pending(g, m)
  <2>1. CASE g = h
    BY <1>1, <1>4, <1>6, <1>8, <2>1 DEF Pending, Free
  <2>2. CASE g # h
    BY <1>6, <1>8, <2>2 DEF Pending, Free
  <2> QED BY <2>1, <2>2
<1> QED BY <1>7, <1>8 DEF NoneAdded

LEMMA Starts ==
  ASSUME HandlersFormed, NEW h \in Slots, NEW hd, Formed(hd), NEW mem, Run(h, hd, mem)
  PROVE  /\ HandlersFormed'
         /\ \A g \in Slots \ {h} : handlers'[g] = handlers[g]
         /\ \A m : Pending(h, m)' => Rebooting(hd.ops, m)
         /\ (\A m : ~Rebooting(hd.ops, m)) => NoneAdded
<1>1. /\ DOMAIN handlers' = Slots /\ \A g \in Slots \ {h} : handlers'[g] = handlers[g]
      /\ handlers'[h] = Nothing \/
           /\ Formed(handlers'[h]) /\ handlers'[h].ops # <<>>
           /\ \A m : Rebooting(handlers'[h].ops, m) => Rebooting(hd.ops, m)
  BY RunsOn DEF HandlersFormed
<1>2. HandlersFormed'
  BY <1>1 DEF HandlersFormed, Free
<1>3. \A m : Pending(h, m)' => Rebooting(hd.ops, m)
  BY <1>1 DEF Pending, Free
<1>4. ASSUME \A m : ~Rebooting(hd.ops, m), NEW g \in Slots, NEW m \in Miners, Pending(g, m)'
      PROVE  Pending(g, m)
  <2>1. g # h
    BY <1>3, <1>4
  <2> QED BY <1>1, <1>4, <2>1 DEF Pending, Free
<1> QED BY <1>1, <1>2, <1>3, <1>4 DEF NoneAdded

LEMMA GoesDown == ASSUME GoDown PROVE HandlersFormed' /\ NoneAdded
BY DEF GoDown, HandlersFormed, NoneAdded, Pending, Free

LEMMA FinishGoesOn ==
  ASSUME HandlersFormed, NEW h \in Slots, ~Free(h), NEW mem, Finish(h, mem)
  PROVE  HandlersFormed' /\ NoneAdded
<1>1. PICK ops : ops = Tail(handlers[h].ops)
  OBVIOUS
<1>2. Calls(ops) /\ Continues(ops, handlers[h].ops)
  BY <1>1, TailCalls DEF HandlersFormed, Formed
<1>3. Run(h, [handlers[h] EXCEPT !.ops = ops], mem)
  BY <1>1 DEF Finish
<1> QED BY <1>2, <1>3, GoesOn

\* The first operation is replaced by one that neither reboots nor answers.
LEMMA OtherGoesOn ==
  ASSUME HandlersFormed, NEW h \in Slots, ~Free(h), NEW mem, NEW o, Other(o),
         Run(h, [handlers[h] EXCEPT !.ops = <<o>> \o Tail(@)], mem)
  PROVE  HandlersFormed' /\ NoneAdded
<1>1. PICK ops : ops = <<o>> \o Tail(handlers[h].ops)
  OBVIOUS
<1>2. Calls(ops) /\ Continues(ops, handlers[h].ops)
  BY <1>1, ReplacedCalls DEF HandlersFormed, Formed
<1>3. Run(h, [handlers[h] EXCEPT !.ops = ops], mem)
  BY <1>1
<1> QED BY <1>2, <1>3, GoesOn

\* The first operation is a draw, of which only how it goes on changes.
LEMMA DrawGoesOn ==
  ASSUME HandlersFormed, NEW h \in Slots, Running(h, "draw"), NEW o, "op" \in DOMAIN o, o.op = "draw",
         handlers' = [handlers EXCEPT ![h].ops[1] = o]
  PROVE  HandlersFormed' /\ NoneAdded
<1>1. PICK old : old = handlers[h]
  OBVIOUS
<1>2. Formed(old) /\ old.ops # <<>> /\ Head(old.ops).op = "draw"
  BY <1>1 DEF HandlersFormed, Running
<1>3. PICK ops : ops = [old.ops EXCEPT ![1] = o]
  OBVIOUS
<1>4. PICK S : old.ops \in Seq(S)
  BY <1>2 DEF Formed, Calls
<1>5. /\ ops \in Seq(S \cup {o}) /\ DOMAIN ops = DOMAIN old.ops /\ 1 \in DOMAIN ops /\ ops # <<>>
      /\ ops[1] = o /\ \A i \in DOMAIN ops : i # 1 => ops[i] = old.ops[i]
  BY <1>2, <1>3, <1>4
<1>6. Calls(ops)
  BY <1>2, <1>5 DEF Calls, Formed
<1>7. \A i \in DOMAIN ops : ops[i].op \in Kept => i + 0 \in DOMAIN old.ops /\ ops[i] = old.ops[i + 0]
  BY <1>4, <1>5 DEF Kept
<1>8. Continues(ops, old.ops)
  BY <1>7 DEF Continues
<1>9. PICK hd : hd = [old EXCEPT !.ops = ops]
  OBVIOUS
<1>10. Formed(hd) /\ hd.ops = ops /\ \A m : Rebooting(ops, m) => Rebooting(old.ops, m)
  BY <1>2, <1>6, <1>8, <1>9, ContinuesFormed, OpsReplaced DEF Formed
<1>11. DOMAIN handlers' = Slots /\ handlers'[h] = hd /\ \A g \in Slots \ {h} : handlers'[g] = handlers[g]
  BY <1>1, <1>3, <1>9 DEF HandlersFormed
<1>12. HandlersFormed'
  BY <1>5, <1>10, <1>11 DEF HandlersFormed, Free
<1>13. ASSUME NEW g \in Slots, NEW m \in Miners, Pending(g, m)' PROVE Pending(g, m)
  <2>1. CASE g = h
    BY <1>1, <1>10, <1>11, <1>13, <2>1 DEF Pending, Free, Running
  <2>2. CASE g # h
    BY <1>11, <1>13, <2>2 DEF Pending, Free
  <2> QED BY <2>1, <2>2
<1> QED BY <1>12, <1>13 DEF NoneAdded

LEMMA PairOf == \A a, b : <<a>> \o <<b>> = <<a, b>>
<1>1. SUFFICES ASSUME NEW a, NEW b PROVE <<a>> \o <<b>> = <<a, b>>
  OBVIOUS
<1>2. PICK S : S = {a, b}
  OBVIOUS
<1>3. PICK s : s = <<a>>
  OBVIOUS
<1>4. PICK t : t = <<b>>
  OBVIOUS
<1>5. s \in Seq(S) /\ t \in Seq(S) /\ Len(s) = 1 /\ Len(t) = 1 /\ s[1] = a /\ t[1] = b
  BY <1>2, <1>3, <1>4
<1>6. PICK c : c = s \o t
  OBVIOUS
<1>7. /\ c \in Seq(S) /\ Len(c) = Len(s) + Len(t)
      /\ \A i \in 1..(Len(s) + Len(t)) : c[i] = IF i <= Len(s) THEN s[i] ELSE t[i - Len(s)]
  BY <1>5, <1>6, ConcatProperties
<1>8. Len(c) = 2 /\ c[1] = a /\ c[2] = b
  BY <1>5, <1>7
<1>9. PICK d : d = <<a, b>>
  OBVIOUS
<1>10. d \in Seq(S) /\ Len(d) = 2 /\ d[1] = a /\ d[2] = b
  BY <1>2, <1>9
<1>11. \A i \in 1..2 : c[i] = d[i]
  <2>1. \A i \in 1..2 : i = 1 \/ i = 2
    OBVIOUS
  <2> QED BY <1>8, <1>10, <2>1
<1>12. c = d
  BY <1>7, <1>8, <1>10, <1>11, SeqEqual
<1> QED BY <1>3, <1>4, <1>6, <1>9, <1>12

\* What a catch makes of a handler.
LEMMA CaughtFormed ==
  ASSUME NEW hd, DOMAIN hd = Fields, hd.recovery = Nothing,
         hd.ops \in {<<>>, <<Answer>>} \/ \E o : Other(o) /\ hd.ops \in {<<o>>, <<o, Answer>>}
  PROVE  Formed(hd) /\ \A m : ~Rebooting(hd.ops, m)
<1>1. "op" \in DOMAIN Answer /\ Answer.op = "answer"
  BY DEF Answer
<1>2. CASE hd.ops \in {<<>>, <<Answer>>}
  <2>1. hd.ops \in Seq({Answer}) /\ \A i \in DOMAIN hd.ops : hd.ops[i] = Answer
    <3>1. CASE hd.ops = <<>>
      BY <3>1
    <3>2. CASE hd.ops = <<Answer>>
      BY <3>2
    <3> QED BY <1>2, <3>1, <3>2
  <2> QED BY <1>1, <2>1 DEF Formed, Calls, Rebooting
<1>3. ASSUME NEW o, Other(o), hd.ops \in {<<o>>, <<o, Answer>>}
      PROVE  Formed(hd) /\ \A m : ~Rebooting(hd.ops, m)
  <2>1. hd.ops \in Seq({o, Answer}) /\ \A i \in DOMAIN hd.ops : hd.ops[i] \in {o, Answer}
    <3>1. CASE hd.ops = <<o>>
      BY <3>1
    <3>2. CASE hd.ops = <<o, Answer>>
      BY <3>2
    <3> QED BY <1>3, <3>1, <3>2
  <2> QED BY <1>1, <1>3, <2>1 DEF Formed, Calls, Rebooting, Other, Kept
<1> QED BY <1>2, <1>3

LEMMA ThrowGoesOn ==
  ASSUME HandlersFormed, NEW h \in Slots, ~Free(h), Throw(h)
  PROVE  HandlersFormed' /\ NoneAdded
<1>1. PICK hd : hd = handlers[h]
  OBVIOUS
<1>2. PICK mem : mem = Memory
  OBVIOUS
<1>3. PICK next : next = [hd EXCEPT !.failed = TRUE, !.recovery = Nothing]
  OBVIOUS
<1>4. Formed(hd) /\ DOMAIN hd = Fields /\ (hd.recovery = Nothing \/ Other(hd.recovery))
  BY <1>1 DEF HandlersFormed, Formed
<1>5. DOMAIN next = Fields /\ next.recovery = Nothing
  BY <1>3, <1>4 DEF Fields
<1>6. ASSUME NEW new, DOMAIN new = Fields, new.recovery = Nothing, Run(h, new, mem),
             new.ops \in {<<>>, <<Answer>>} \/ \E o : Other(o) /\ new.ops \in {<<o>>, <<o, Answer>>}
      PROVE  HandlersFormed' /\ NoneAdded
  <2>1. Formed(new) /\ \A m : ~Rebooting(new.ops, m)
    BY <1>6, CaughtFormed
  <2> QED BY <1>6, <2>1, Starts
<1>7. CASE hd.recovery # Nothing /\ Head(hd.ops).op # "answer"
  <2>1. PICK new : new = [next EXCEPT !.ops = <<hd.recovery>> \o (IF hd.press THEN <<Answer>> ELSE <<>>)]
    OBVIOUS
  <2>2. Run(h, new, mem)
    BY <1>1, <1>2, <1>3, <1>7, <2>1 DEF Throw
  <2>3. PICK o : o = hd.recovery
    OBVIOUS
  <2>4. new.ops \in {<<o>>, <<o, Answer>>}
    <3>0. new.ops = <<o>> \o (IF hd.press THEN <<Answer>> ELSE <<>>)
      BY <1>5, <2>1, <2>3 DEF Fields
    <3>1. CASE hd.press
      <4>1. new.ops = <<o>> \o <<Answer>>
        BY <3>0, <3>1
      <4> QED BY <4>1, PairOf
    <3>2. CASE ~hd.press
      <4>1. new.ops = <<o>> \o <<>>
        BY <3>0, <3>2
      <4>2. new.ops = <<o>>
        BY <4>1
      <4> QED BY <4>2
    <3> QED BY <3>1, <3>2
  <2>5. DOMAIN new = Fields /\ new.recovery = Nothing
    BY <1>5, <2>1 DEF Fields
  <2> QED BY <1>4, <1>6, <1>7, <2>2, <2>3, <2>4, <2>5
<1>8. CASE ~(hd.recovery # Nothing /\ Head(hd.ops).op # "answer") /\ hd.outer
  <2>1. PICK new : new = [next EXCEPT !.ops = <<Answer>>, !.outer = FALSE]
    OBVIOUS
  <2>2. Run(h, new, mem)
    BY <1>1, <1>2, <1>3, <1>8, <2>1 DEF Throw
  <2>3. DOMAIN new = Fields /\ new.recovery = Nothing /\ new.ops = <<Answer>>
    BY <1>5, <2>1 DEF Fields
  <2> QED BY <1>6, <2>2, <2>3
<1>9. CASE ~(hd.recovery # Nothing /\ Head(hd.ops).op # "answer") /\ ~hd.outer /\ hd.quiet
  <2>1. PICK new : new = [next EXCEPT !.ops = <<>>]
    OBVIOUS
  <2>2. Run(h, new, mem)
    BY <1>1, <1>2, <1>3, <1>9, <2>1 DEF Throw
  <2>3. DOMAIN new = Fields /\ new.recovery = Nothing /\ new.ops = <<>>
    BY <1>5, <2>1 DEF Fields
  <2> QED BY <1>6, <2>2, <2>3
<1>10. CASE ~(hd.recovery # Nothing /\ Head(hd.ops).op # "answer") /\ ~hd.outer /\ ~hd.quiet
  BY <1>1, <1>10, GoesDown DEF Throw
<1> QED BY <1>7, <1>8, <1>9, <1>10

\* Whatever Telegram or a machine answers: no reboot is added to a handler.
LEMMA AnswersAddNone ==
  ASSUME HandlersFormed, NEW h \in Slots,
         \/ EditDone(h) \/ EditUnchanged(h) \/ SendDone(h) \/ Retried(h) \/ DrawFailed(h)
         \/ CallDone(h) \/ CallFailed(h) \/ PoolsRead(h)
  PROVE  HandlersFormed' /\ NoneAdded
<1>1. PICK mem : mem = Memory
  OBVIOUS
<1>2. PICK first : first = Current(h)
  OBVIOUS
<1>3. ASSUME ~Free(h) PROVE first = handlers[h].ops[1] /\ "op" \in DOMAIN first
  <2>1. PICK ops : ops = handlers[h].ops
    OBVIOUS
  <2>2. Calls(ops) /\ ops # <<>>
    BY <1>3, <2>1 DEF HandlersFormed, Formed
  <2>3. first = ops[1] /\ 1 \in DOMAIN ops
    <3>1. PICK S : ops \in Seq(S)
      BY <2>2 DEF Calls
    <3> QED BY <1>2, <2>1, <2>2, <3>1 DEF Current
  <2> QED BY <2>1, <2>2, <2>3 DEF Calls
<1>4. CASE EditDone(h)
  <2>1. PICK after : after = Edited(Memory, Current(h))
    OBVIOUS
  <2> QED BY <1>4, <2>1, FinishGoesOn DEF EditDone, Running
<1>5. CASE EditUnchanged(h)
  BY <1>1, <1>5, FinishGoesOn DEF EditUnchanged, Running
<1>6. CASE SendDone(h)
  <2>1. PICK after : after = Sent(Memory, Current(h), Len(chat) + 1)
    OBVIOUS
  <2> QED BY <1>6, <2>1, FinishGoesOn DEF SendDone, Running
<1>7. CASE Retried(h)
  <2>1. PICK o : o = [first EXCEPT !.tries = NextAttempt(@)]
    OBVIOUS
  <2>2. Running(h, "draw") /\ first.op = "draw" /\ ~Free(h)
    BY <1>2, <1>7 DEF Retried, Running, Current
  <2>3. "op" \in DOMAIN o /\ o.op = "draw"
    BY <1>3, <2>1, <2>2
  <2>4. handlers' = [handlers EXCEPT ![h].ops[1] = o]
    BY <1>3, <1>7, <2>1, <2>2 DEF Retried
  <2> QED BY <2>2, <2>3, <2>4, DrawGoesOn
<1>8. CASE DrawFailed(h)
  <2>1. Running(h, "draw") /\ first.op = "draw" /\ ~Free(h)
    BY <1>2, <1>8 DEF DrawFailed, Running, Current
  <2>2. CASE handlers' = [handlers EXCEPT ![h].ops[1] = [@ EXCEPT !.leg = "fallback", !.tries = 0]]
    <3>1. PICK o : o = [first EXCEPT !.leg = "fallback", !.tries = 0]
      OBVIOUS
    <3>2. "op" \in DOMAIN o /\ o.op = "draw"
      BY <1>3, <2>1, <3>1
    <3>3. handlers' = [handlers EXCEPT ![h].ops[1] = o]
      BY <1>3, <2>1, <2>2, <3>1 DEF HandlersFormed
    <3> QED BY <2>1, <3>2, <3>3, DrawGoesOn
  <2>3. CASE Throw(h)
    BY <2>1, <2>3, ThrowGoesOn
  <2>4. CASE Finish(h, Memory)
    BY <1>1, <2>1, <2>4, FinishGoesOn
  <2> QED BY <1>8, <2>2, <2>3, <2>4 DEF DrawFailed
<1>9. CASE CallDone(h)
  BY <1>1, <1>9, FinishGoesOn DEF CallDone, Running
<1>10. CASE CallFailed(h)
  BY <1>10, ThrowGoesOn DEF CallFailed, Running
<1>11. CASE PoolsRead(h)
  <2>1. PICK view \in {"pools", "poolsError"} :
          Run(h, [handlers[h] EXCEPT
                    !.ops = <<Draw(Screen(view, first.miner, FALSE), first.target, first.refresh)>> \o Tail(@)],
              mem)
    BY <1>1, <1>2, <1>11 DEF PoolsRead
  <2>2. PICK o : o = Draw(Screen(view, first.miner, FALSE), first.target, first.refresh)
    OBVIOUS
  <2>3. Other(o)
    BY <2>2, OthersAre
  <2> QED BY <1>11, <2>1, <2>2, <2>3, OtherGoesOn DEF PoolsRead, Running
<1> QED BY <1>4, <1>5, <1>6, <1>7, <1>8, <1>9, <1>10, <1>11

\* A reboot is sent at most once by a handler, which is then done with it.
LEMMA RebootIsSpent ==
  ASSUME HandlersFormed, NEW h \in Slots, RebootDone(h)
  PROVE  /\ HandlersFormed' /\ NoneAdded /\ UNCHANGED taps
         /\ \A m \in Miners : ~Pending(h, m)'
         /\ \E m : /\ Pending(h, m)
                   /\ reboots' \in {reboots, [reboots EXCEPT ![m] = @ + 1]}
<1>1. PICK mem : mem = Memory
  OBVIOUS
<1>2. PICK old : old = handlers[h]
  OBVIOUS
<1>3. /\ ~Free(h) /\ Formed(old) /\ old.ops # <<>> /\ Calls(old.ops)
      /\ Head(old.ops).op = "reboot" /\ UNCHANGED taps
  BY <1>2 DEF RebootDone, Running, HandlersFormed, Formed, history
<1>4. Len(old.ops) \in Nat /\ DOMAIN old.ops = 1..Len(old.ops) /\ Head(old.ops) = old.ops[1]
  BY <1>3, CallsAreIndexed
<1>5. 1 \in DOMAIN old.ops
  <2>1. PICK S : old.ops \in Seq(S)
    BY <1>3 DEF Calls
  <2> QED BY <1>3, <2>1
<1>6. PICK sent \in BOOLEAN, success \in BOOLEAN :
        /\ reboots' = IF sent THEN [reboots EXCEPT ![Current(h).miner] = @ + 1] ELSE reboots
        /\ Run(h, [handlers[h] EXCEPT !.ops = AfterReboot(Head(@), success) \o Tail(@)], mem)
  BY <1>1 DEF RebootDone
<1>7. PICK o : AfterReboot(Head(old.ops), success) = <<o>> /\ Other(o)
  BY OthersAre DEF AfterReboot
<1>8. PICK ops : ops = <<o>> \o Tail(old.ops)
  OBVIOUS
<1>9. Calls(ops) /\ Continues(ops, old.ops)
  BY <1>3, <1>7, <1>8, ReplacedCalls
<1>10. PICK hd : hd = [old EXCEPT !.ops = ops]
  OBVIOUS
<1>11. Run(h, hd, mem)
  BY <1>2, <1>6, <1>7, <1>8, <1>10
<1>12. Formed(hd) /\ hd.ops = ops
  BY <1>3, <1>9, <1>10, ContinuesFormed, OpsReplaced DEF Formed
<1>13. \A m : ~Rebooting(ops, m)
  <2>1. PICK S : old.ops \in Seq(S)
    BY <1>3 DEF Calls
  <2>2. DOMAIN ops = DOMAIN old.ops /\ ops[1] = o /\ \A i \in DOMAIN ops : i # 1 => ops[i] = old.ops[i]
    <3>1. /\ Tail(old.ops) \in Seq(S) /\ Len(Tail(old.ops)) = Len(old.ops) - 1
          /\ \A i \in 1..Len(Tail(old.ops)) : Tail(old.ops)[i] = old.ops[i + 1]
      BY <1>3, <2>1, HeadTailProperties
    <3>2. PICK rest : rest = Tail(old.ops)
      OBVIOUS
    <3>3. ops \in Seq(S \cup {o}) /\ Len(ops) = Len(old.ops) /\ ops[1] = o
      BY <1>4, <1>8, <3>1, <3>2
    <3>4. DOMAIN ops = DOMAIN old.ops
      BY <1>4, <3>3
    <3>5. ASSUME NEW i \in DOMAIN ops, i # 1 PROVE ops[i] = old.ops[i]
      <4>1. i \in 2..Len(old.ops)
        BY <1>4, <3>4, <3>5
      <4>2. ops[i] = rest[i - 1]
        BY <1>4, <1>8, <3>1, <3>2, <4>1
      <4>3. i - 1 \in 1..Len(rest) /\ (i - 1) + 1 = i
        BY <1>4, <3>1, <3>2, <4>1
      <4> QED BY <3>1, <3>2, <4>2, <4>3
    <3> QED BY <3>3, <3>4, <3>5
  <2>3. \A i \in DOMAIN old.ops : i # 1 => old.ops[i].op # "reboot"
    BY <1>3, <1>4, <1>5 DEF Formed
  <2> QED BY <1>7, <2>2, <2>3 DEF Rebooting, Other, Kept
<1>14. HandlersFormed' /\ NoneAdded /\ \A m : ~Pending(h, m)'
  BY <1>11, <1>12, <1>13, Starts
<1>15. Pending(h, Current(h).miner)
  BY <1>2, <1>3, <1>4, <1>5 DEF Pending, Rebooting, Current
<1>16. PICK m : m = Current(h).miner
  OBVIOUS
<1> QED BY <1>3, <1>6, <1>14, <1>15, <1>16

\* A new bot asks for the menu, and the other handlers go on or are gone.
LEMMA InitialisedFormed ==
  ASSUME HandlersFormed, NEW h, NEW mem, Initialised(h, mem)
  PROVE  HandlersFormed' /\ NoneAdded
<1>1. PICK startup : startup = Handler(sendMainMenu(FALSE, Nothing), FALSE, FALSE, TRUE)
  OBVIOUS
<1>2. PICK menu : menu = Draw(Plain("menu"), Nothing, FALSE)
  OBVIOUS
<1>3. PICK first : first = Head(startup.ops)
  OBVIOUS
<1>4. /\ DOMAIN startup = Fields /\ startup.recovery = Nothing /\ first = menu
  <2>1. PICK work : work = sendMainMenu(FALSE, Nothing)
    OBVIOUS
  <2>2. work.ops = <<menu>> /\ work.recovery = Nothing
    BY <1>2, <2>1 DEF sendMainMenu, Work
  <2>3. DOMAIN startup = Fields /\ startup.recovery = Nothing /\ startup.ops = <<menu>> \o <<>>
    BY <1>1, <2>1, <2>2 DEF Handler, Fields
  <2>4. Head(<<menu>> \o <<>>) = menu
    OBVIOUS
  <2> QED BY <1>3, <2>3, <2>4
<1>5. PICK k : k = Known(mem)
  OBVIOUS
<1>6. PICK target : target = Context(k).last
  OBVIOUS
<1>7. PICK context : context = k.current
  OBVIOUS
<1>8. PICK leg : leg = IF target = Nothing THEN "send" ELSE "edit"
  OBVIOUS
<1>9. handlers' = [g \in Slots |->
          IF g = h THEN [startup EXCEPT !.ops =
                          <<[first EXCEPT !.target = target, !.context = context, !.leg = leg]>>]
          ELSE IF up THEN handlers[g] ELSE Nothing]
  BY <1>1, <1>3, <1>5, <1>6, <1>7, <1>8 DEF Initialised
<1>10. PICK o : o = [first EXCEPT !.target = target, !.context = context, !.leg = leg]
  OBVIOUS
<1>11. Other(o)
  <2>1. "op" \in DOMAIN first /\ first.op = "draw"
    BY <1>2, <1>4 DEF Draw
  <2>2. "op" \in DOMAIN o /\ o.op = "draw"
    BY <1>10, <2>1
  <2> QED BY <2>2 DEF Other, Kept
<1>12. PICK hd : hd = [startup EXCEPT !.ops = <<o>>]
  OBVIOUS
<1>13. DOMAIN hd = Fields /\ hd.recovery = Nothing /\ hd.ops = <<o>>
  BY <1>4, <1>12 DEF Fields
<1>14. Formed(hd) /\ \A m : ~Rebooting(hd.ops, m)
  BY <1>11, <1>13, CaughtFormed
<1>15. /\ DOMAIN handlers' = Slots
       /\ \A g \in Slots : handlers'[g] = IF g = h THEN hd ELSE IF up THEN handlers[g] ELSE Nothing
  BY <1>9, <1>10, <1>12
<1>16. hd.ops # <<>>
  BY <1>13
<1>17. HandlersFormed'
  BY <1>14, <1>15, <1>16 DEF HandlersFormed, Free
<1>18. NoneAdded
  BY <1>14, <1>15 DEF NoneAdded, Pending, Free
<1> QED BY <1>17, <1>18

\* A delivery to two bots starts two handlers of the same kind.
LEMMA TwiceFormed ==
  ASSUME HandlersFormed, NEW h \in Slots, NEW g \in Slots, DeliveredTwice(h, g)
  PROVE  HandlersFormed'
<1>1. PICK id, m, mem :
        LET b == Begin(mem, Handler(executeReboot(m, id), TRUE, TRUE, FALSE).ops)
            hd == [Handler(executeReboot(m, id), TRUE, TRUE, FALSE) EXCEPT !.ops = b.ops]
        IN handlers' = [handlers EXCEPT ![h] = hd, ![g] = hd]
  BY Zenon DEF DeliveredTwice
<1>2. PICK start : start = Handler(executeReboot(m, id), TRUE, TRUE, FALSE)
  OBVIOUS
<1>3. Formed(start) /\ Len(start.ops) > 1
  BY <1>2, ExecutionFormed
<1>4. PICK ops : ops = Begin(mem, start.ops).ops
  OBVIOUS
<1>5. Calls(ops) /\ Continues(ops, start.ops) /\ ops # <<>>
  BY <1>3, <1>4, BeginCalls DEF Formed
<1>6. PICK hd : hd = [start EXCEPT !.ops = ops]
  OBVIOUS
<1>7. Formed(hd) /\ hd.ops # <<>>
  BY <1>3, <1>5, <1>6, ContinuesFormed, OpsReplaced DEF Formed
<1>8. handlers' = [handlers EXCEPT ![h] = hd, ![g] = hd]
  BY <1>1, <1>2, <1>4, <1>6
<1>9. DOMAIN handlers' = Slots /\ \A s \in Slots : handlers'[s] = IF s \in {h, g} THEN hd ELSE handlers[s]
  BY <1>8 DEF HandlersFormed
<1> QED BY <1>7, <1>9 DEF HandlersFormed, Free

\* What a user's press starts: a reboot only of the miner whose confirmation was pressed.
LEMMA PressStarts ==
  ASSUME HandlersFormed, NEW h \in Slots, NEW id, NEW p, Pressed(h, id, p)
  PROVE  /\ HandlersFormed'
         /\ \A g \in Slots \ {h} : handlers'[g] = handlers[g]
         /\ p.do # "confirm" => NoneAdded /\ UNCHANGED taps
         /\ p.do = "confirm" => /\ taps' = [taps EXCEPT ![p.miner] = @ + 1]
                                /\ \A m : Pending(h, m)' => m = p.miner
<1>1. PICK mem, hd, before :
        /\ hd = Handler(Dispatched(p, id, mem), TRUE, TRUE, FALSE) /\ Run(h, hd, before)
        /\ taps' = IF p.do = "confirm" THEN [taps EXCEPT ![p.miner] = @ + 1] ELSE taps
  BY Zenon DEF Pressed
<1>2. CASE p.do # "confirm"
  <2>1. Formed(hd) /\ \A m : ~Rebooting(hd.ops, m)
    BY <1>1, <1>2, DispatchedIsPlain, HandlerFormed
  <2> QED BY <1>1, <1>2, <2>1, Starts
<1>3. CASE p.do = "confirm"
  <2>1. Dispatched(p, id, mem) = executeReboot(p.miner, id)
    BY <1>3 DEF Dispatched
  <2>2. Formed(hd) /\ \A m : Rebooting(hd.ops, m) => m = p.miner
    BY <1>1, <2>1, ExecutionFormed
  <2> QED BY <1>1, <1>3, <2>2, Starts
<1> QED BY <1>2, <1>3

LEMMA DebounceAddsNone ==
  ASSUME HandlersFormed, NEW h \in Slots, NEW id, NEW p, Debounced(h, id, p)
  PROVE  HandlersFormed' /\ NoneAdded /\ UNCHANGED taps
<1>1. PICK mem, hd : /\ hd = Handler(Work(<<>>, Nothing), TRUE, FALSE, FALSE) /\ Run(h, hd, mem)
  BY DEF Debounced
<1>2. Plainly(Work(<<>>, Nothing)) /\ Work(<<>>, Nothing).recovery = Nothing
  BY WorkIsPlain DEF Work
<1>3. Formed(hd) /\ \A m : ~Rebooting(hd.ops, m)
  BY <1>1, <1>2, HandlerFormed
<1> QED BY <1>1, <1>3, Starts DEF Debounced

LEMMA CommandAddsNone ==
  ASSUME HandlersFormed, NEW h \in Slots, Command(h)
  PROVE  HandlersFormed' /\ NoneAdded
<1>1. PICK c, mem, hd : c \in Commands /\ hd = Handler(Commanded(c), FALSE, FALSE, FALSE) /\ Run(h, hd, mem)
  BY Zenon DEF Command
<1>2. Formed(hd) /\ \A m : ~Rebooting(hd.ops, m)
  BY <1>1, CommandedIsPlain, HandlerFormed
<1> QED BY <1>1, <1>2, Starts

-----------------------------------------------------------------------------
(* The bots that poll, and the faults that are left.                       *)

Polling ==
  /\ pollers \in Nat /\ faultsLeft \in Nat
  /\ enabled => up /\ pollers > 0
  /\ ~doubled => pollers <= 1

LEMMA StepKeepsPolling == ASSUME Polling, [Next]_vars PROVE Polling' /\ (doubled => doubled')
<1>1. ASSUME UNCHANGED bot, faultsLeft' \in {faultsLeft, faultsLeft - 1}, faultsLeft' \in Nat
      PROVE  Polling' /\ (doubled => doubled')
  BY <1>1 DEF Polling, bot
<1>2. ASSUME GoDown, faultsLeft' \in Nat PROVE Polling' /\ (doubled => doubled')
  BY <1>2 DEF Polling, GoDown
<1>3. ASSUME Fault PROVE faultsLeft' \in Nat /\ faultsLeft' \in {faultsLeft, faultsLeft - 1}
  BY <1>3 DEF Fault, Polling
<1>4. ASSUME UNCHANGED faultsLeft PROVE faultsLeft' \in Nat /\ faultsLeft' \in {faultsLeft, faultsLeft - 1}
  BY <1>4 DEF Polling
<1>5. ASSUME NEW h \in Slots, Progress(h) PROVE Polling' /\ (doubled => doubled')
  <2>1. UNCHANGED faultsLeft
    BY <1>5 DEF Progress, EditDone, EditUnchanged, SendDone, Retried, DrawFailed, CallDone, CallFailed,
                RebootDone, PoolsRead, bounds
  <2>2. UNCHANGED bot \/ GoDown
    BY <1>5 DEF Progress, EditDone, EditUnchanged, SendDone, Retried, DrawFailed, CallDone, CallFailed,
                RebootDone, PoolsRead, Throw
  <2> QED BY <1>1, <1>2, <1>4, <2>1, <2>2
<1>6. ASSUME NEW h \in Slots, SettingsSaved(h) PROVE Polling' /\ (doubled => doubled')
  <2>1. enabled' = TRUE /\ up /\ up' = up /\ pollers' = pollers + 1 /\ (doubled' <=> doubled \/ pollers > 0)
    BY <1>6 DEF SettingsSaved, Initialised
  <2> QED BY <1>3, <1>6, <2>1 DEF SettingsSaved, Polling
<1>7. CASE Stopped
  BY <1>3, <1>7 DEF Stopped, Polling
<1>8. CASE Start
  <2>1. CASE stored
    BY <1>4, <1>8, <2>1 DEF Start, Initialised, Polling, bounds
  <2>2. CASE ~stored
    BY <1>4, <1>8, <2>2 DEF Start, Polling, bounds
  <2> QED BY <2>1, <2>2
<1>9. CASE Stop
  BY <1>2, <1>3, <1>9 DEF Stop
<1>10. CASE Cleanup
  BY <1>1, <1>3, <1>10 DEF Cleanup
<1>11. ASSUME NEW h \in Slots, Command(h) \/ CallbackQuery(h) PROVE Polling' /\ (doubled => doubled')
  BY <1>1, <1>4, <1>11 DEF Command, CallbackQuery
<1>12. ASSUME NEW h \in Slots, NEW g \in Slots, DeliveredTwice(h, g) PROVE Polling' /\ (doubled => doubled')
  BY <1>1, <1>4, <1>12 DEF DeliveredTwice
<1>13. ASSUME NEW id \in 1..Len(chat), UserDeletes(id) PROVE Polling' /\ (doubled => doubled')
  BY <1>1, <1>3, <1>13 DEF UserDeletes
<1>14. ASSUME NEW m \in Miners, MinerRemoved(m) PROVE Polling' /\ (doubled => doubled')
  BY <1>1, <1>3, <1>14 DEF MinerRemoved
<1>15. CASE UNCHANGED vars
  BY <1>1, <1>4, <1>15 DEF vars, bounds
<1> QED BY <1>5, <1>6, <1>7, <1>8, <1>9, <1>10, <1>11, <1>12, <1>13, <1>14, <1>15 DEF Next

-----------------------------------------------------------------------------
(* Reboots and confirmations.                                              *)

Waiting(m) == {h \in Slots : Pending(h, m)}

\* Without a second bot, the reboots sent and the handlers that may still send one are together
\* no more than the confirmations.
ConfirmationsCounted ==
  /\ taps \in [Miners -> Nat] /\ reboots \in [Miners -> Nat]
  /\ ~doubled => \A m \in Miners : reboots[m] + Cardinality(Waiting(m)) <= taps[m]

LEMMA SlotsAreFinite == IsFiniteSet(Slots)
BY BoundsAssumption, FS_Interval DEF Slots

LEMMA WaitingIsFinite == \A m : IsFiniteSet(Waiting(m)) /\ Cardinality(Waiting(m)) \in Nat
<1>1. \A m : Waiting(m) \subseteq Slots
  BY DEF Waiting
<1> QED BY <1>1, SlotsAreFinite, FS_Subset, FS_CardinalityType

LEMMA OneMore ==
  ASSUME NEW f \in [Miners -> Nat], NEW p, NEW g, g = [f EXCEPT ![p] = @ + 1]
  PROVE  g \in [Miners -> Nat] /\ \A m \in Miners : g[m] = IF m = p THEN f[m] + 1 ELSE f[m]
<1>1. \A m \in Miners : g[m] = (IF m = p THEN f[m] + 1 ELSE f[m]) /\ g[m] \in Nat
  OBVIOUS
<1>2. g = [m \in Miners |-> g[m]]
  OBVIOUS
<1> QED BY <1>1, <1>2

LEMMA NoneAddedCounts ==
  ASSUME ConfirmationsCounted, NoneAdded, UNCHANGED history, doubled => doubled'
  PROVE  ConfirmationsCounted'
<1>1. taps' = taps /\ reboots' = reboots
  BY DEF history
<1>2. ASSUME ~doubled', NEW m \in Miners PROVE (reboots[m] + Cardinality(Waiting(m)) <= taps[m])'
  <2> DEFINE old == Waiting(m)
             new == Waiting(m)'
  <2>1. new \subseteq old
    BY DEF Waiting, NoneAdded
  <2>2. IsFiniteSet(old) /\ Cardinality(old) \in Nat
    BY WaitingIsFinite
  <2>3. reboots[m] \in Nat /\ taps[m] \in Nat /\ reboots[m] + Cardinality(old) <= taps[m]
    BY <1>2 DEF ConfirmationsCounted
  <2> HIDE DEF old, new
  <2>4. Cardinality(new) <= Cardinality(old) /\ Cardinality(new) \in Nat
    BY <2>1, <2>2, FS_Subset, FS_CardinalityType
  <2> QED BY <1>1, <2>2, <2>3, <2>4 DEF new
<1> QED BY <1>1, <1>2 DEF ConfirmationsCounted

\* A reboot that may have been sent ends the handler's claim to it.
LEMMA SpentCounts ==
  ASSUME ConfirmationsCounted, NoneAdded, UNCHANGED taps, doubled => doubled',
         NEW h \in Slots, \A m \in Miners : ~Pending(h, m)',
         NEW p, Pending(h, p), reboots' \in {reboots, [reboots EXCEPT ![p] = @ + 1]}
  PROVE  ConfirmationsCounted'
<1>1. CASE reboots' = reboots
  BY <1>1, NoneAddedCounts DEF history
<1>2. CASE reboots' = [reboots EXCEPT ![p] = @ + 1]
  <2>1. reboots' \in [Miners -> Nat] /\ \A m \in Miners : reboots'[m] = IF m = p THEN reboots[m] + 1 ELSE reboots[m]
    <3>1. PICK f, g : f = reboots /\ g = reboots'
      OBVIOUS
    <3> QED BY <1>2, <3>1, OneMore DEF ConfirmationsCounted
  <2>2. ASSUME ~doubled', NEW m \in Miners PROVE (reboots[m] + Cardinality(Waiting(m)) <= taps[m])'
    <3> DEFINE old == Waiting(m)
               new == Waiting(m)'
    <3>1. IsFiniteSet(old) /\ Cardinality(old) \in Nat
      BY WaitingIsFinite
    <3>2. reboots[m] \in Nat /\ taps[m] \in Nat /\ reboots[m] + Cardinality(old) <= taps[m]
      BY <2>2 DEF ConfirmationsCounted
    <3>3. new \subseteq old /\ h \notin new /\ (m = p => h \in old)
      BY DEF Waiting, NoneAdded
    <3> HIDE DEF old, new
    <3>4. CASE m = p
      <4>1. new \subseteq old \ {h}
        BY <3>3
      <4>2. IsFiniteSet(old \ {h}) /\ Cardinality(old \ {h}) = Cardinality(old) - 1
        BY <3>1, <3>3, <3>4, FS_RemoveElement
      <4>3. Cardinality(new) <= Cardinality(old) - 1 /\ Cardinality(new) \in Nat
        BY <4>1, <4>2, FS_Subset, FS_CardinalityType
      <4> QED BY <2>1, <3>1, <3>2, <3>4, <4>3 DEF new
    <3>5. CASE m # p
      <4>1. Cardinality(new) <= Cardinality(old) /\ Cardinality(new) \in Nat
        BY <3>1, <3>3, FS_Subset, FS_CardinalityType
      <4> QED BY <2>1, <3>1, <3>2, <3>5, <4>1 DEF new
    <3> QED BY <3>4, <3>5
  <2> QED BY <2>1, <2>2 DEF ConfirmationsCounted
<1> QED BY <1>1, <1>2

\* A confirmation counts for the one handler it starts.
LEMMA TapCounts ==
  ASSUME ConfirmationsCounted, UNCHANGED reboots, doubled => doubled', NEW h \in Slots,
         \A g \in Slots \ {h} : handlers'[g] = handlers[g],
         NEW p, \A m : Pending(h, m)' => m = p, taps' = [taps EXCEPT ![p] = @ + 1]
  PROVE  ConfirmationsCounted'
<1>1. taps' \in [Miners -> Nat] /\ \A m \in Miners : taps'[m] = IF m = p THEN taps[m] + 1 ELSE taps[m]
  <2>1. PICK f, g : f = taps /\ g = taps'
    OBVIOUS
  <2> QED BY <2>1, OneMore DEF ConfirmationsCounted
<1>2. ASSUME ~doubled', NEW m \in Miners PROVE (reboots[m] + Cardinality(Waiting(m)) <= taps[m])'
  <2> DEFINE old == Waiting(m)
             new == Waiting(m)'
  <2>1. IsFiniteSet(old) /\ Cardinality(old) \in Nat
    BY WaitingIsFinite
  <2>2. reboots[m] \in Nat /\ taps[m] \in Nat /\ reboots[m] + Cardinality(old) <= taps[m]
    BY <1>2 DEF ConfirmationsCounted
  <2>3. new \subseteq old \cup {h} /\ (m # p => new \subseteq old)
    BY DEF Waiting, Pending, Free
  <2> HIDE DEF old, new
  <2>4. CASE m = p
    <3>1. /\ IsFiniteSet(old \cup {h})
          /\ Cardinality(old \cup {h}) = Cardinality(old) \/ Cardinality(old \cup {h}) = Cardinality(old) + 1
      BY <2>1, FS_AddElement
    <3>2. Cardinality(new) <= Cardinality(old \cup {h}) /\ Cardinality(new) \in Nat
      BY <2>3, <3>1, FS_Subset, FS_CardinalityType
    <3> QED BY <1>1, <2>1, <2>2, <2>4, <3>1, <3>2 DEF new
  <2>5. CASE m # p
    <3>1. Cardinality(new) <= Cardinality(old) /\ Cardinality(new) \in Nat
      BY <2>1, <2>3, <2>5, FS_Subset, FS_CardinalityType
    <3> QED BY <1>1, <2>1, <2>2, <2>5, <3>1 DEF new
  <2> QED BY <2>4, <2>5
<1> QED BY <1>1, <1>2 DEF ConfirmationsCounted

BotInv == HandlersFormed /\ Polling /\ ConfirmationsCounted

LEMMA BotInitInv == ASSUME Init PROVE BotInv
<1>1. HandlersFormed
  BY DEF Init, HandlersFormed, Free
<1>2. Polling
  BY BoundsAssumption DEF Init, Polling
<1>3. \A m : Waiting(m) = {}
  BY DEF Init, Waiting, Pending, Free
<1>4. \A m : Cardinality(Waiting(m)) = 0
  BY <1>3, FS_EmptySet
<1>5. ConfirmationsCounted
  BY <1>4 DEF Init, ConfirmationsCounted
<1> QED BY <1>1, <1>2, <1>5 DEF BotInv

LEMMA BotStepInv == ASSUME BotInv, [Next]_vars PROVE BotInv'
<1>1. HandlersFormed /\ Polling /\ ConfirmationsCounted /\ Polling' /\ (doubled => doubled')
  BY StepKeepsPolling DEF BotInv
<1>2. ASSUME HandlersFormed', NoneAdded, UNCHANGED history PROVE BotInv'
  BY <1>1, <1>2, NoneAddedCounts DEF BotInv
<1>3. ASSUME UNCHANGED handlers, UNCHANGED history PROVE BotInv'
  <2>1. HandlersFormed' /\ NoneAdded
    BY <1>1, <1>3 DEF HandlersFormed, NoneAdded, Pending, Free
  <2> QED BY <1>2, <1>3, <2>1
<1>4. ASSUME NEW h \in Slots, Progress(h) PROVE BotInv'
  <2>1. CASE RebootDone(h)
    <3>1. HandlersFormed' /\ NoneAdded /\ UNCHANGED taps /\ \A m \in Miners : ~Pending(h, m)'
      BY <1>1, <2>1, RebootIsSpent
    <3>2. PICK p : Pending(h, p) /\ reboots' \in {reboots, [reboots EXCEPT ![p] = @ + 1]}
      BY <1>1, <2>1, RebootIsSpent
    <3> QED BY <1>1, <3>1, <3>2, SpentCounts DEF BotInv
  <2>2. CASE ~RebootDone(h)
    <3>1. HandlersFormed' /\ NoneAdded
      BY <1>1, <1>4, <2>2, AnswersAddNone DEF Progress
    <3>2. UNCHANGED history
      BY <1>4, <2>2 DEF Progress, EditDone, EditUnchanged, SendDone, Retried, DrawFailed, CallDone,
                        CallFailed, PoolsRead
    <3> QED BY <1>2, <3>1, <3>2
  <2> QED BY <2>1, <2>2
<1>5. ASSUME NEW h \in Slots, Command(h) PROVE BotInv'
  BY <1>1, <1>2, <1>5, CommandAddsNone DEF Command
<1>6. ASSUME NEW h \in Slots, CallbackQuery(h) PROVE BotInv'
  <2>1. PICK id, p : Pressed(h, id, p) \/ Debounced(h, id, p)
    BY <1>6 DEF CallbackQuery
  <2>2. UNCHANGED reboots
    BY <1>6 DEF CallbackQuery
  <2>3. CASE Debounced(h, id, p)
    BY <1>1, <1>2, <2>2, <2>3, DebounceAddsNone DEF history
  <2>4. CASE Pressed(h, id, p) /\ p.do # "confirm"
    BY <1>1, <1>2, <2>2, <2>4, PressStarts DEF history
  <2>5. CASE Pressed(h, id, p) /\ p.do = "confirm"
    <3>1. PICK m : m = p.miner
      OBVIOUS
    <3>2. /\ HandlersFormed' /\ \A g \in Slots \ {h} : handlers'[g] = handlers[g]
          /\ taps' = [taps EXCEPT ![m] = @ + 1] /\ \A n : Pending(h, n)' => n = m
      BY <1>1, <2>5, <3>1, PressStarts
    <3> QED BY <1>1, <2>2, <3>2, TapCounts DEF BotInv
  <2> QED BY <2>1, <2>3, <2>4, <2>5
<1>7. ASSUME NEW h \in Slots, SettingsSaved(h) PROVE BotInv'
  <2>1. PICK mem : mem = Memory
    OBVIOUS
  <2>2. Initialised(h, mem) /\ UNCHANGED history
    BY <1>7, <2>1 DEF SettingsSaved
  <2> QED BY <1>1, <1>2, <2>2, InitialisedFormed
<1>8. CASE Start
  <2>1. CASE stored
    BY <1>1, <1>2, <1>8, <2>1, InitialisedFormed DEF Start
  <2>2. CASE ~stored
    BY <1>3, <1>8, <2>2 DEF Start
  <2> QED BY <2>1, <2>2
<1>9. CASE Stop
  BY <1>2, <1>9, GoesDown DEF Stop
<1>10. ASSUME NEW h \in Slots, NEW g \in Slots, DeliveredTwice(h, g) PROVE BotInv'
  <2>1. HandlersFormed'
    BY <1>1, <1>10, TwiceFormed
  <2>2. doubled'
    BY <1>1, <1>10 DEF DeliveredTwice, Polling
  <2>3. taps' \in [Miners -> Nat] /\ reboots' \in [Miners -> Nat]
    BY <1>1, <1>10 DEF DeliveredTwice, ConfirmationsCounted
  <2> QED BY <1>1, <2>1, <2>2, <2>3 DEF BotInv, ConfirmationsCounted
<1>11. CASE Stopped \/ Cleanup
  BY <1>3, <1>11 DEF Stopped, Cleanup
<1>12. ASSUME NEW id \in 1..Len(chat), UserDeletes(id) PROVE BotInv'
  BY <1>3, <1>12 DEF UserDeletes
<1>13. ASSUME NEW m \in Miners, MinerRemoved(m) PROVE BotInv'
  BY <1>3, <1>13 DEF MinerRemoved
<1>14. CASE UNCHANGED vars
  BY <1>3, <1>14 DEF vars
<1> QED BY <1>4, <1>5, <1>6, <1>7, <1>8, <1>9, <1>10, <1>11, <1>12, <1>13, <1>14 DEF Next

LEMMA BotInvariance == Spec => []BotInv
BY BotInitInv, BotStepInv, PTL DEF Spec

(* However many handlers are in flight, however often Telegram fails and whatever is edited, sent anew
   or retried, a miner is rebooted at most once for each confirmation while one bot polls
   (executeReboot, withTelegramRetry). *)
THEOREM RebootsFollowConfirmations == Spec => []RebootsWereConfirmed
<1>1. BotInv => RebootsWereConfirmed
  BY WaitingIsFinite DEF BotInv, ConfirmationsCounted, RebootsWereConfirmed
<1> QED BY <1>1, BotInvariance, PTL

\* A handler whose failure ends the process had no catch left.
LEMMA OnlyUnprotectedEnd ==
  ASSUME HandlersFormed, NEW h \in Slots, ~Free(h), Throw(h)
  PROVE  UNCHANGED up \/ Unprotected(handlers[h])
<1>1. PICK hd : hd = handlers[h]
  OBVIOUS
<1>2. Formed(hd) /\ hd.ops # <<>>
  BY <1>1 DEF HandlersFormed
<1>3. 1 \in DOMAIN hd.ops /\ Head(hd.ops) = hd.ops[1]
  <2>1. PICK S : hd.ops \in Seq(S)
    BY <1>2 DEF Formed, Calls
  <2> QED BY <1>2, <2>1
<1>4. CASE ~(hd.recovery # Nothing /\ Head(hd.ops).op # "answer") /\ ~hd.outer /\ ~hd.quiet
  <2>1. hd.recovery = Nothing
    BY <1>2, <1>3, <1>4 DEF Formed
  <2> QED BY <1>1, <1>4, <2>1 DEF Unprotected
<1>5. CASE ~(~(hd.recovery # Nothing /\ Head(hd.ops).op # "answer") /\ ~hd.outer /\ ~hd.quiet)
  BY <1>1, <1>5 DEF Throw, bot
<1> QED BY <1>4, <1>5

(* Whatever is in flight and whatever fails: unless somebody stops it, the process ends only at a
   failure whose handler has no catch left (server.ts, unhandledRejection). *)
THEOREM OneFailureIsSurvived == Spec => SurvivesOneFailure
<1>1. ASSUME BotInv, [Next]_vars, up, ~up'
      PROVE  faultsLeft' < faultsLeft \/ \E h \in Slots : ~Free(h) /\ Unprotected(handlers[h])
  <2>1. ASSUME NEW h \in Slots, DrawFailed(h) \/ CallFailed(h)
        PROVE  \E g \in Slots : ~Free(g) /\ Unprotected(handlers[g])
    <3>1. ~Free(h)
      BY <2>1 DEF DrawFailed, CallFailed, Running
    <3>2. Throw(h)
      BY <1>1, <2>1 DEF DrawFailed, CallFailed, bot
    <3> QED BY <1>1, <3>1, <3>2, OnlyUnprotectedEnd DEF BotInv
  <2>2. CASE Stop
    BY <1>1, <2>2 DEF Stop, Fault, BotInv, Polling
  <2>3. ASSUME NEW h \in Slots, Progress(h) PROVE DrawFailed(h) \/ CallFailed(h)
    BY <1>1, <2>3 DEF Progress, EditDone, EditUnchanged, SendDone, Retried, CallDone, RebootDone,
                      PoolsRead, bot
  <2>4. ASSUME NEW h \in Slots, Command(h) \/ CallbackQuery(h) \/ SettingsSaved(h) PROVE FALSE
    BY <1>1, <2>4 DEF Command, CallbackQuery, SettingsSaved, bot
  <2>5. ASSUME NEW h \in Slots, NEW g \in Slots, DeliveredTwice(h, g) PROVE FALSE
    BY <1>1, <2>5 DEF DeliveredTwice, bot
  <2>6. ASSUME NEW id \in 1..Len(chat), UserDeletes(id) PROVE FALSE
    BY <1>1, <2>6 DEF UserDeletes, bot
  <2>7. ASSUME NEW m \in Miners, MinerRemoved(m) PROVE FALSE
    BY <1>1, <2>7 DEF MinerRemoved, bot
  <2>8. ~Stopped /\ ~Start /\ ~Cleanup
    BY <1>1 DEF Stopped, Start, Cleanup, bot
  <2>9. ~UNCHANGED vars
    BY <1>1 DEF vars, bot
  <2> QED BY <1>1, <2>1, <2>2, <2>3, <2>4, <2>5, <2>6, <2>7, <2>8, <2>9 DEF Next
<1>2. BotInv /\ [Next]_vars =>
        [up /\ ~up' => faultsLeft' < faultsLeft
                       \/ \E h \in Slots : ~Free(h) /\ Unprotected(handlers[h])]_vars
  BY <1>1
<1> QED BY <1>2, BotInvariance, PTL DEF Spec, SurvivesOneFailure
=============================================================================
