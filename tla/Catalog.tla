------------------------------ MODULE Catalog -------------------------------
(***************************************************************************)
(* How the name server finds a file: an array of slots, a hash table from  *)
(* names to slots and a cache in front of it, under the requests of        *)
(* clients and the coming and going of storage servers.  Which free slot   *)
(* or which server comes first is left open.  A bucket of the hash table   *)
(* is searched for one name, so each name has a list of its own.           *)
(***************************************************************************)
EXTENDS Integers, Sequences, FiniteSets

CONSTANTS
  Name,
  Sock,       \* descriptors of the connections of storage servers
  Slot,       \* indexes of file_catalog
  CacheSize,  \* CACHE_SIZE
  NoName, NoSock, NoSlot, NoEntry,
  MaxNodes    \* bound: hash nodes of one name

ASSUME CatalogAssumption ==
  /\ NoName \notin Name /\ NoSock \notin Sock /\ NoSlot \notin Slot
  /\ NoEntry \notin [name : Name, slot : Slot \cup {NoSlot}]
  /\ CacheSize \in Nat /\ MaxNodes \in Nat \ {0}
  /\ IsFiniteSet(Slot)

VARIABLES
  slot,     \* file_catalog: what an inactive entry holds stays there
  nodes,    \* name -> slots of its hash nodes, the newest first
  cache,    \* lru_cache
  online,   \* descriptors whose ss_state is active
  doubtful  \* history: names whose entries may contradict one another

vars == <<slot, nodes, cache, online, doubtful>>

File(k, s, b) == [active |-> TRUE, name |-> k, ss |-> s, backup |-> b]
NoFile == [active |-> FALSE, name |-> NoName, ss |-> NoSock, backup |-> NoSock]

Position == 1..CacheSize

-----------------------------------------------------------------------------
(* Lookups. *)

\* The cache is asked before the hash table, and neither whether the slot is
\* in use.
Holds(p, k) == cache[p] # NoEntry /\ cache[p].name = k
Cached(k) == \E p \in Position : Holds(p, k)
CachedSlot(k) ==
  LET p == CHOOSE q \in Position : Holds(q, k) /\ \A r \in 1..(q - 1) : ~Holds(r, k)
  IN cache[p].slot

Found(k) ==
  IF Cached(k) THEN CachedSlot(k)
  ELSE IF nodes[k] # <<>> THEN Head(nodes[k]) ELSE NoSlot

\* A hit in the hash table comes to the front of the cache, and what was last
\* falls out.  A hit in the cache does not move.
Looked(k) ==
  IF ~Cached(k) /\ nodes[k] # <<>>
  THEN [p \in Position |->
         IF p = 1 THEN [name |-> k, slot |-> Head(nodes[k])] ELSE cache[p - 1]]
  ELSE cache

\* Forgets nothing.
InvalidMutant(c, ks) == c

\* invalidate_cache
Invalid(c, ks) ==
  [p \in Position |-> IF c[p] # NoEntry /\ c[p].name \in ks THEN NoEntry ELSE c[p]]

\* remove_from_hashmap, n times.
Dropped(q, n) == SubSeq(q, n + 1, Len(q))

Free == {i \in Slot : ~slot[i].active}

\* The first active one, itself or not.
BackupsMutant(s) == IF online = {} THEN {NoSock} ELSE online

\* find_backup_ss
Backups(s) == IF online \ {s} = {} THEN {NoSock} ELSE online \ {s}
FilesOf(s) == {i \in Slot : slot[i].active /\ slot[i].ss = s}
NamesOf(is) == {slot[i].name : i \in is}

-----------------------------------------------------------------------------
(* Requests of clients. *)

\* Whatever else a request does, it looks its file up first: READ, WRITE,
\* STREAM, INFO, UNDO, the checkpoint and access commands, statistics from a
\* storage server; and CREATE, DELETE and MOVE when they are refused.
Lookup(k) ==
  /\ cache' = Looked(k)
  /\ UNCHANGED <<slot, nodes, online, doubtful>>

\* Takes a slot without looking whether it is free.
CreateMutant(k, s, b, i) ==
  /\ Found(k) = NoSlot /\ s \in online /\ b \in Backups(s)
  /\ i \in Slot
  /\ Len(nodes[k]) < MaxNodes
  /\ slot' = [slot EXCEPT ![i] = File(k, s, b)]
  /\ nodes' = [nodes EXCEPT ![k] = <<i>> \o @]
  /\ cache' = Looked(k)
  /\ UNCHANGED <<online, doubtful>>

\* handle_req_create, answered RES_OK.  With no slot free the entry is written
\* before the table, where no file is looked for, and the node says slot -1.
Create(k, s, b, i) ==
  /\ Found(k) = NoSlot /\ s \in online /\ b \in Backups(s)
  /\ i \in (IF Free = {} THEN {NoSlot} ELSE Free)
  /\ Len(nodes[k]) < MaxNodes
  /\ slot' = IF i = NoSlot THEN slot ELSE [slot EXCEPT ![i] = File(k, s, b)]
  /\ nodes' = [nodes EXCEPT ![k] = <<i>> \o @]
  /\ cache' = Looked(k)
  /\ doubtful' = IF i = NoSlot THEN doubtful \cup {k} ELSE doubtful
  /\ UNCHANGED online

\* DELETE and MOVE of the file in slot i, found under the name k.
FoundOnline(k, i) == i = Found(k) /\ i # NoSlot /\ slot[i].ss \in online

Unlisted(k, i) ==
  /\ nodes' = [nodes EXCEPT ![slot[i].name] = Dropped(@, 1)]
  /\ cache' = Invalid(Looked(k), {slot[i].name})

\* handle_req_delete
Delete(k, i) ==
  /\ FoundOnline(k, i)
  /\ slot' = [slot EXCEPT ![i].active = FALSE]
  /\ Unlisted(k, i)
  /\ doubtful' = IF k \in doubtful THEN doubtful \cup {slot[i].name} ELSE doubtful
  /\ UNCHANGED online

\* Leaves the old name in the hash table.
MoveMutant(k, g, i) ==
  /\ FoundOnline(k, i)
  /\ Len(nodes[g]) < MaxNodes
  /\ slot' = [slot EXCEPT ![i].name = g]
  /\ nodes' = [nodes EXCEPT ![g] = <<i>> \o @]
  /\ cache' = Invalid(Looked(k), {slot[i].name})
  /\ doubtful' = IF nodes[g] # <<>> THEN doubtful \cup {g} ELSE doubtful
  /\ UNCHANGED online

\* handle_req_move, answered RES_OK: nothing asks whether the name is in use.
Move(k, g, i) ==
  LET old == slot[i].name
      less == [nodes EXCEPT ![old] = Dropped(@, 1)]
  IN /\ FoundOnline(k, i)
     /\ Len(less[g]) < MaxNodes
     /\ slot' = [slot EXCEPT ![i].name = g]
     /\ nodes' = [less EXCEPT ![g] = <<i>> \o @]
     /\ cache' = Invalid(Looked(k), {old})
     /\ doubtful' = doubtful \cup (IF k \in doubtful THEN {old, g}
                                   ELSE IF less[g] # <<>> THEN {g} ELSE {})
     /\ UNCHANGED online

-----------------------------------------------------------------------------
(* Storage servers. *)

\* A storage server that lists no file is taken for one that lost them, if an
\* inactive entry names its descriptor: files that were deleted, too.
Lost(s) == {i \in Free : slot[i].ss = s /\ slot[i].backup # NoSock}
Recovered(s) == {i \in Lost(s) : slot[i].backup \in online}

\* sync_files_to_recovering_ss: the entries come back, their names do not.
Recover(s) ==
  /\ s \notin online /\ Lost(s) # {}
  /\ online' = online \cup {s}
  /\ slot' = [i \in Slot |-> IF i \in Recovered(s) THEN [slot[i] EXCEPT !.active = TRUE] ELSE slot[i]]
  /\ doubtful' = doubtful \cup NamesOf(Recovered(s))
  /\ UNCHANGED <<nodes, cache>>

\* Each file of the list ks gets a slot, as long as there are any: at says which.
Room(ks) == {at \in UNION {[ls -> Free] : ls \in SUBSET ks} :
               /\ \A k, l \in DOMAIN at : at[k] = at[l] => k = l
               /\ DOMAIN at = ks \/ {at[k] : k \in DOMAIN at} = Free}

\* catalog_ss_files: nothing asks whether a name is in use.
Register(s, ks, b, at) ==
  /\ s \notin online /\ (ks = {} => Lost(s) = {})
  /\ at \in Room(ks) /\ b \in Backups(s)
  /\ \A k \in DOMAIN at : Len(nodes[k]) < MaxNodes
  /\ online' = online \cup {s}
  /\ slot' = [i \in Slot |->
       IF \E k \in DOMAIN at : at[k] = i
       THEN File(CHOOSE k \in DOMAIN at : at[k] = i, s, b) ELSE slot[i]]
  /\ nodes' = [k \in Name |-> IF k \in DOMAIN at THEN <<at[k]>> \o nodes[k] ELSE nodes[k]]
  /\ doubtful' = doubtful \cup {k \in DOMAIN at : nodes[k] # <<>>}
  /\ UNCHANGED cache

\* What the cache holds of the files stays there.
DisconnectMutant(s) ==
  /\ s \in online
  /\ online' = online \ {s}
  /\ slot' = [i \in Slot |-> [slot[i] EXCEPT !.active = @ /\ i \notin FilesOf(s)]]
  /\ nodes' = [k \in Name |->
       Dropped(nodes[k], Cardinality({i \in FilesOf(s) : slot[i].name = k}))]
  /\ UNCHANGED <<cache, doubtful>>

\* handle_disconnect: the files of the storage server leave the catalog.
Disconnect(s) ==
  /\ s \in online
  /\ online' = online \ {s}
  /\ slot' = [i \in Slot |-> [slot[i] EXCEPT !.active = @ /\ i \notin FilesOf(s)]]
  /\ nodes' = [k \in Name |->
       Dropped(nodes[k], Cardinality({i \in FilesOf(s) : slot[i].name = k}))]
  /\ cache' = Invalid(cache, NamesOf(FilesOf(s)))
  /\ UNCHANGED doubtful

\* process_ss_heartbeats, when three heartbeats could not be sent: the entries
\* are inactive, the names stay in the hash table and in the cache.
HeartbeatsFail(s) ==
  /\ s \in online
  /\ online' = online \ {s}
  /\ slot' = [i \in Slot |-> [slot[i] EXCEPT !.active = @ /\ i \notin FilesOf(s)]]
  /\ doubtful' = doubtful \cup NamesOf(FilesOf(s))
  /\ UNCHANGED <<nodes, cache>>

\* handle_client_register on a storage server's descriptor (NMChannel says how
\* it comes to that): its files stay, also when the connection ends.
TurnsClient(s) ==
  /\ s \in online
  /\ online' = online \ {s}
  /\ doubtful' = doubtful \cup NamesOf(FilesOf(s))
  /\ UNCHANGED <<slot, nodes, cache>>

\* init_server_state
Init ==
  /\ slot = [i \in Slot |-> NoFile]
  /\ nodes = [k \in Name |-> <<>>]
  /\ cache = [p \in Position |-> NoEntry]
  /\ online = {}
  /\ doubtful = {}

Restart ==
  /\ slot' = [i \in Slot |-> NoFile]
  /\ nodes' = [k \in Name |-> <<>>]
  /\ cache' = [p \in Position |-> NoEntry]
  /\ online' = {}
  /\ doubtful' = {}

Next ==
  \/ \E k \in Name :
       \/ Lookup(k)
       \/ \E s \in online, i \in Slot \cup {NoSlot} : \E b \in Backups(s) : Create(k, s, b, i)
       \/ \E i \in Slot : Delete(k, i) \/ \E g \in Name : Move(k, g, i)
  \/ \E s \in Sock :
       \/ \E ks \in SUBSET Name, b \in Backups(s) : \E at \in Room(ks) : Register(s, ks, b, at)
       \/ Recover(s) \/ Disconnect(s) \/ HeartbeatsFail(s) \/ TurnsClient(s)
  \/ Restart

Spec == Init /\ [][Next]_vars

-----------------------------------------------------------------------------
(* Properties. *)

\* Every variable has its type: a used entry names a file, its storage server
\* and another one as its backup.
TypeOK ==
  /\ slot \in [Slot -> {NoFile} \cup
       {f \in [active : BOOLEAN, name : Name, ss : Sock, backup : Sock \cup {NoSock}] :
          f.backup # f.ss}]
  /\ nodes \in [Name -> Seq(Slot \cup {NoSlot})]
  /\ cache \in [Position -> [name : Name, slot : Slot \cup {NoSlot}] \cup {NoEntry}]
  /\ online \subseteq Sock
  /\ doubtful \subseteq Name

\* The cache never tells what the hash table does not know, and no name is
\* cached twice, whatever happens to slots and storage servers
\* (hash_cache.c 21-47, catalog.c 13-33).
CacheIsInTable ==
  \A p \in Position : cache[p] # NoEntry =>
    /\ \E j \in DOMAIN nodes[cache[p].name] : nodes[cache[p].name][j] = cache[p].slot
    /\ \A q \in Position \ {p} : ~Holds(q, cache[p].name)

\* A lookup finds the one active entry of the name, at a storage server that is
\* online, or nothing when there is none; unless the name is doubtful.
ActiveNamed(k) == {i \in Slot : slot[i].active /\ slot[i].name = k}

LookupsFindTheFile ==
  \A k \in Name \ doubtful :
    IF Found(k) = NoSlot THEN ActiveNamed(k) = {}
    ELSE ActiveNamed(k) = {Found(k)} /\ slot[Found(k)].ss \in online

\* The catalog implements Directory: the cache and the hash table cannot be told
\* from a function, and lookups do not change it.
Where == [k \in Name |-> IF Found(k) = NoSlot THEN NoSock ELSE slot[Found(k)].ss]

Dir == INSTANCE Directory WITH Server <- Sock, None <- NoSock, where <- Where

ImplementsDirectory == Dir!Spec
=============================================================================
