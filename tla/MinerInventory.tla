--------------------------- MODULE MinerInventory ---------------------------
(***************************************************************************)
(* The inventory of miners: the SQLite table "miners" and the cache of it  *)
(* in backend/src/config/miners.config.ts, which every other part of the   *)
(* backend reads the fleet through.                                        *)
(*                                                                         *)
(* Every operation is one synchronous call of the single Node process, so  *)
(* it is one action.  The cache is reloaded when it is older than its      *)
(* time to live, or when a caller insists; between reloads the operations  *)
(* that write the table also patch the cache, each in its own way.         *)
(*                                                                         *)
(* A miner is its address, name, owner and what the properties tell apart: *)
(* whether it has thresholds of its own, the user it is linked to, and its *)
(* status.  Aliases, credentials, model and role are left out: they can    *)
(* make an operation refuse, which changes nothing.                        *)
(***************************************************************************)
EXTENDS FiniteSets

CONSTANTS
  Ips, Names,    \* addresses and names of miners
  Owners,        \* Telegram chat IDs
  NoOwner,       \* no owner, or no linked user
  Same,          \* a field that an update leaves out
  Tables,        \* the tables the process may start with
  YamlFiles      \* the contents miners.yaml may have, as sets of entries

ASSUME Domains ==
  /\ Ips \cap Names = {}
  /\ NoOwner \notin Owners
  /\ Same \notin Ips \cup Names \cup Owners

VARIABLES
  rows,          \* the table miners
  cache,         \* minersCache
  fresh          \* Date.now() - cacheTimestamp <= CACHE_TTL_MS

inventoryVars == <<rows, cache, fresh>>

MinerRecord ==
  [ip : Ips, name : Names, owner : Owners, link : Owners \cup {NoOwner},
   thresholds : BOOLEAN, status : {"active", "online", "offline"}]
YamlMiner == [ip : Ips, name : Names, owner : Owners, thresholds : BOOLEAN]
MinerConfig == [ip : Ips, name : Names, owner : Owners \cup {NoOwner}]

\* ip is the primary key, name is UNIQUE.
WellKeyed(table) ==
  \A r, s \in table : r.ip = s.ip \/ r.name = s.name => r = s

ASSUME Inputs ==
  /\ \A table \in Tables : table \subseteq MinerRecord /\ WellKeyed(table)
  /\ \A file \in YamlFiles : file \subseteq YamlMiner

dbRecordToConfig(r) == [ip |-> r.ip, name |-> r.name, owner |-> r.owner]

InventoryInit ==
  /\ rows \in Tables
  /\ cache = {dbRecordToConfig(r) : r \in rows}
  /\ fresh = TRUE

----------------------------------------------------------------------------
(* The table.                                                              *)

\* getMinerByName(id) || getMinerByIp(id)
Found(id) == {r \in rows : r.name = id \/ r.ip = id}

\* getMinersByOwner: by the owner column or through the linked user.
getMinersByOwner(owner) == {r \in rows : r.owner = owner \/ r.link = owner}

\* upsertMiner replaces the row with the same address, unless the name is taken.
Accepts(m) == \A r \in rows : r.name = m.name => r.ip = m.ip
upsertMiner(m) == {r \in rows : r.ip # m.ip} \cup {m}

WithStatus(ips, status) ==
  {IF r.ip \in ips THEN [r EXCEPT !.status = status] ELSE r : r \in rows}

----------------------------------------------------------------------------
(* Reading.                                                                *)

\* Five seconds pass since the last load.
Expire == fresh /\ fresh' = FALSE /\ UNCHANGED <<rows, cache>>

loadMinersConfig(table) ==
  /\ cache' = {dbRecordToConfig(r) : r \in table}
  /\ fresh' = TRUE

\* Defect: an expired list is served again.
getMinersStale(readable) == UNCHANGED <<cache, fresh>>

\* getMiners() as most callers use it: the list they get is the cache afterwards.  When
\* the table cannot be read, that is the old list.
getMiners(readable) ==
  IF ~fresh /\ readable THEN loadMinersConfig(rows) ELSE UNCHANGED <<cache, fresh>>

ReadList == getMiners(TRUE) /\ UNCHANGED rows

\* getMiners(owner, true), for a user's list; getMiners(undefined, true), for the
\* scheduler's and an administrator's.
ListForOwner(owner) == loadMinersConfig(getMinersByOwner(owner)) /\ UNCHANGED rows
ListForSystem == loadMinersConfig(rows) /\ UNCHANGED rows

\* The entries of the cache that answer to id.
Cached(id) == {e \in cache : e.name = id \/ e.ip = id}

\* A miner that is not in the cache is looked up in the table and put there.
getMinerById(id) ==
  /\ cache' = IF Cached(id) # {} THEN cache
              ELSE cache \cup {dbRecordToConfig(r) : r \in Found(id)}
  /\ UNCHANGED <<rows, fresh>>

\* The status goes to the row with the address of the entry getMinerById found.
updateMinerStatus(id, status) ==
  /\ cache' = IF Cached(id) # {} THEN cache
              ELSE cache \cup {dbRecordToConfig(r) : r \in Found(id)}
  /\ rows' = WithStatus({e.ip : e \in {c \in cache' : c.name = id \/ c.ip = id}}, status)
  /\ UNCHANGED fresh

----------------------------------------------------------------------------
(* Writing.                                                                *)

\* The entry pushed to the cache is the request's: it has no owner.
addMiner(ip, name, owner) ==
  /\ Found(ip) = {} /\ Found(name) = {}
  /\ rows' = upsertMiner([ip |-> ip, name |-> name, owner |-> owner, link |-> NoOwner,
                          thresholds |-> FALSE, status |-> "active"])
  /\ cache' = cache \cup {[ip |-> ip, name |-> name, owner |-> NoOwner]}
  /\ UNCHANGED fresh

\* A request body: the fields it has replace the old ones.
Updates == [ip : Ips \cup {Same}, name : Names \cup {Same}, owner : Owners \cup {Same}]
Chosen(new, old) == IF new = Same THEN old ELSE new

\* Defect: the request chooses the owner.
UpdatedWithOwner(r, updates) ==
  [r EXCEPT !.ip = Chosen(updates.ip, r.ip), !.name = Chosen(updates.name, r.name),
            !.owner = Chosen(updates.owner, r.owner), !.link = NoOwner, !.thresholds = FALSE]

\* The record written keeps the owner of the row and has no thresholds and no linked user.
Updated(r, updates) ==
  [r EXCEPT !.ip = Chosen(updates.ip, r.ip), !.name = Chosen(updates.name, r.name),
            !.link = NoOwner, !.thresholds = FALSE]

\* The cached entry takes whatever the request says.
Merged(e, updates) ==
  [ip |-> Chosen(updates.ip, e.ip), name |-> Chosen(updates.name, e.name),
   owner |-> Chosen(updates.owner, e.owner)]

\* A new address makes a new row: the old one stays.
updateMiner(id, updates) ==
  \E r \in Found(id) :
    LET m == Updated(r, updates)
    IN /\ m.ip # r.ip => Found(m.ip) = {}
       /\ Accepts(m)
       /\ rows' = upsertMiner(m)
       /\ IF Cached(id) = {} THEN UNCHANGED cache
          ELSE \E e \in Cached(id) : cache' = (cache \ {e}) \cup {Merged(e, updates)}
       /\ UNCHANGED fresh

\* Defect: the cache is not told.
DeleteFromTableOnly(id) ==
  \E r \in Found(id) : rows' = rows \ {r} /\ UNCHANGED <<cache, fresh>>

deleteMiner(id) ==
  \E r \in Found(id) :
    /\ rows' = rows \ {r}
    /\ IF Cached(id) = {} THEN UNCHANGED cache
       ELSE \E e \in Cached(id) : cache' = cache \ {e}
    /\ UNCHANGED fresh

\* The whole row is written back under its new owner.  The cache is not told, and the
\* linked user stays.
transferMiner(id, owner) ==
  /\ \E r \in Found(id) : rows' = upsertMiner([r EXCEPT !.owner = owner])
  /\ UNCHANGED <<cache, fresh>>

\* What inserting the entries of a file one after the other, in any order, can come to:
\* an entry is refused exactly when a row has its address or its name.
importMinersFromYAML(file) ==
  LET row(m) == [ip |-> m.ip, name |-> m.name, owner |-> m.owner, link |-> NoOwner,
                 thresholds |-> m.thresholds, status |-> "active"]
  IN \E taken \in SUBSET file :
       /\ rows' = rows \cup {row(m) : m \in taken}
       /\ \A m \in taken : Found(m.ip) = {} /\ Found(m.name) = {}
       /\ WellKeyed(rows')
       /\ \A m \in file \ taken : \E r \in rows' : r.ip = m.ip \/ r.name = m.name
       /\ loadMinersConfig(rows')

\* The process starts again: the cache is loaded, and an empty table is filled first.
Reload ==
  IF rows = {} THEN \E file \in YamlFiles : importMinersFromYAML(file)
  ELSE UNCHANGED rows /\ loadMinersConfig(rows)

----------------------------------------------------------------------------
Ids == Ips \cup Names

\* The requests of users and of the scheduler.
Request ==
  \/ \E owner \in Owners : ListForOwner(owner)
  \/ ListForSystem
  \/ \E ip \in Ips, name \in Names, owner \in Owners : addMiner(ip, name, owner)
  \/ \E id \in Ids, updates \in Updates : updateMiner(id, updates)
  \/ \E id \in Ids : deleteMiner(id)
  \/ \E id \in Ids, owner \in Owners : transferMiner(id, owner)
  \/ \E file \in YamlFiles : importMinersFromYAML(file)
  \/ \E id \in Ids : getMinerById(id)

InventoryNext ==
  \/ Expire \/ ReadList \/ Reload
  \/ \E id \in Ids, status \in {"online", "offline"} : updateMinerStatus(id, status)
  \/ Request

InventorySpec == InventoryInit /\ [][InventoryNext]_inventoryVars

----------------------------------------------------------------------------
InventoryTypeOK ==
  /\ rows \subseteq MinerRecord /\ WellKeyed(rows)
  /\ cache \subseteq MinerConfig
  /\ fresh \in BOOLEAN

\* A miner the cache has under a name is at the address the table has under that name,
\* whatever was added, renamed, moved and deleted since the cache was loaded, for the whole
\* fleet or for one user: getMinerById, which every command to a machine starts with,
\* answers with a machine that exists, and updateMinerStatus writes to its row.
CachedMinersExist ==
  \A e \in cache : \E r \in rows : r.ip = e.ip /\ r.name = e.name

\* A miner changes hands only through the administrator's transfer: no edit of it, and
\* no import of a file that names it, gives it to someone else.
OwnerMovesOnlyByTransfer ==
  [][\A r \in rows, s \in rows' :
       r.ip = s.ip /\ r.owner # s.owner => \E id \in Ids : transferMiner(id, s.owner)]_inventoryVars
=============================================================================
