--------------------------- MODULE Catalog_proofs ---------------------------
(* Proofs about Catalog, for every set of names, descriptors and slots and *)
(* every size of the cache: the cache agrees with the hash table, lookups  *)
(* find the file, and the catalog implements Directory. *)
EXTENDS Catalog, FiniteSetTheorems, TLAPS

FileType ==
  {f \in [active : BOOLEAN, name : Name, ss : Sock, backup : Sock \cup {NoSock}] :
     f.backup # f.ss}

EntryType == [name : Name, slot : Slot \cup {NoSlot}]

LEMMA FileFacts ==
  ASSUME NEW k \in Name, NEW s \in Sock, NEW b \in Sock \cup {NoSock}, b # s
  PROVE  /\ File(k, s, b) \in FileType
         /\ File(k, s, b).active /\ File(k, s, b).name = k /\ File(k, s, b).ss = s
BY DEF File, FileType

LEMMA NoFileFacts == ~NoFile.active /\ NoFile.name = NoName /\ NoFile.ss = NoSock
BY DEF NoFile

(* An entry that is switched on or off keeps its name and its servers.     *)
LEMMA SwitchedFacts ==
  ASSUME NEW f \in {NoFile} \cup FileType, NEW a \in BOOLEAN, f = NoFile => ~a
  PROVE  LET e == [f EXCEPT !.active = a]
         IN /\ e \in {NoFile} \cup FileType /\ e.active = a
            /\ e.name = f.name /\ e.ss = f.ss
<1>1. CASE f = NoFile
  <2>1. ~a
    BY <1>1, Zenon
  <2>2. a = FALSE
    BY <2>1, Zenon
  <2>3. [NoFile EXCEPT !.active = FALSE] = NoFile
    <3>1. ASSUME NEW c PROVE LET r == [active |-> c, name |-> NoName, ss |-> NoSock, backup |-> NoSock]
                             IN [r EXCEPT !.active = c] = r
      OBVIOUS
    <3> QED
      BY <3>1, Zenon DEF NoFile
  <2>4. NoFile.active = FALSE
    BY DEF NoFile
  <2> QED
    BY <1>1, <2>2, <2>3, <2>4
<1>2. CASE f \in FileType
  <2> DEFINE e == [f EXCEPT !.active = a]
  <2>1. f \in [active : BOOLEAN, name : Name, ss : Sock, backup : Sock \cup {NoSock}]
        /\ f.backup # f.ss
    BY <1>2 DEF FileType
  <2>2. e \in [active : BOOLEAN, name : Name, ss : Sock, backup : Sock \cup {NoSock}]
    BY <2>1
  <2>3. e.name = f.name /\ e.ss = f.ss /\ e.backup = f.backup
    BY <2>1
  <2>4. e.active = a
    BY <2>1
  <2> QED
    BY <2>1, <2>2, <2>3, <2>4 DEF FileType
<1> QED
  BY <1>1, <1>2

LEMMA RenamedFacts ==
  ASSUME NEW f \in FileType, NEW g \in Name
  PROVE  LET e == [f EXCEPT !.name = g]
         IN e \in FileType /\ e.active = f.active /\ e.name = g /\ e.ss = f.ss
BY DEF FileType

(* A descriptor is never its own backup. *)
LEMMA BackupFacts ==
  ASSUME NEW s \in Sock, online \subseteq Sock, NEW b \in Backups(s)
  PROVE  b \in Sock \cup {NoSock} /\ b # s
BY CatalogAssumption DEF Backups

(* Dropping no node, or the only one. *)
LEMMA DroppedFacts ==
  ASSUME NEW q \in Seq(Slot \cup {NoSlot})
  PROVE  /\ \A n \in Nat : Dropped(q, n) \in Seq(Slot \cup {NoSlot})
         /\ Dropped(q, 0) = q
         /\ Len(q) = 1 => Dropped(q, 1) = <<>>
<1>1. Len(q) \in Nat
  OBVIOUS
<1>2. ASSUME NEW n \in Nat PROVE Dropped(q, n) \in Seq(Slot \cup {NoSlot})
  BY <1>1 DEF Dropped
<1>3. Dropped(q, 0) = q
  BY <1>1 DEF Dropped
<1>4. Len(q) = 1 => Dropped(q, 1) = <<>>
  BY DEF Dropped
<1> QED
  BY <1>2, <1>3, <1>4

(* A list with one more node in front. *)
LEMMA PushedFacts ==
  ASSUME NEW q \in Seq(Slot \cup {NoSlot}), NEW i \in Slot \cup {NoSlot}
  PROVE  /\ <<i>> \o q \in Seq(Slot \cup {NoSlot})
         /\ \A j \in DOMAIN q : j + 1 \in DOMAIN (<<i>> \o q) /\ (<<i>> \o q)[j + 1] = q[j]
         /\ q = <<>> => <<i>> \o q = <<i>>
<1>1. <<i>> \o q \in Seq(Slot \cup {NoSlot}) /\ Len(<<i>> \o q) = Len(q) + 1
  OBVIOUS
<1>2. \A j \in 1..Len(q) : (<<i>> \o q)[j + 1] = q[j]
  OBVIOUS
<1>3. q = <<>> => <<i>> \o q = <<i>>
  OBVIOUS
<1> QED
  BY <1>1, <1>2, <1>3

-----------------------------------------------------------------------------
(* A cache c whose entries agree with the lists ns, each name cached once. *)
Listed(c, ns, p) ==
  \E j \in DOMAIN ns[c[p].name] : ns[c[p].name][j] = c[p].slot

Agrees(c, ns) ==
  \A p \in Position : c[p] # NoEntry =>
    /\ Listed(c, ns, p)
    /\ \A q \in Position \ {p} : c[q] # NoEntry => c[q].name # c[p].name

CacheType == [Position -> EntryType \cup {NoEntry}]
NodesType == [Name -> Seq(Slot \cup {NoSlot})]

LEMMA AgreesIsInTable == CacheIsInTable <=> Agrees(cache, nodes)
BY DEF CacheIsInTable, Agrees, Listed, Holds

(* The cache after a lookup. *)
LEMMA LookedFacts ==
  ASSUME NEW k \in Name, cache \in CacheType, nodes \in NodesType, Agrees(cache, nodes)
  PROVE  Looked(k) \in CacheType /\ Agrees(Looked(k), nodes)
<1>1. CASE ~(~Cached(k) /\ nodes[k] # <<>>)
  BY <1>1 DEF Looked
<1>2. CASE ~Cached(k) /\ nodes[k] # <<>>
  <2> DEFINE e == [name |-> k, slot |-> Head(nodes[k])]
             c == [p \in Position |-> IF p = 1 THEN e ELSE cache[p - 1]]
  <2>1. nodes[k] \in Seq(Slot \cup {NoSlot}) /\ nodes[k] # <<>>
    BY <1>2 DEF NodesType
  <2>2. Head(nodes[k]) = nodes[k][1] /\ 1 \in DOMAIN nodes[k]
        /\ Head(nodes[k]) \in Slot \cup {NoSlot}
    BY <2>1
  <2>3. e \in EntryType /\ e.name = k /\ e.slot = nodes[k][1] /\ e # NoEntry
    BY <2>2, CatalogAssumption DEF EntryType
  <2>4. Looked(k) = c
    BY <1>2 DEF Looked
  <2> HIDE DEF e
  <2>5. /\ CacheSize \in Nat /\ DOMAIN c = Position
        /\ \A p \in Position : c[p] = IF p = 1 THEN e ELSE cache[p - 1]
        /\ \A p \in Position \ {1} : p - 1 \in Position
    BY CatalogAssumption DEF Position
  <2>6. c \in CacheType
    BY <2>3, <2>5 DEF CacheType
  <2> HIDE DEF c
  <2>7. \A p \in Position : cache[p] # NoEntry => cache[p].name # k
    BY <1>2 DEF Cached, Holds
  <2>8. ASSUME NEW p \in Position, c[p] # NoEntry PROVE Listed(c, nodes, p)
    <3>1. CASE p = 1
      BY <2>2, <2>3, <2>5, <3>1 DEF Listed
    <3>2. CASE p # 1
      <4>1. c[p] = cache[p - 1] /\ p - 1 \in Position
        BY <2>5, <3>2
      <4>2. Listed(cache, nodes, p - 1)
        BY <2>8, <4>1 DEF Agrees
      <4> QED
        BY <4>1, <4>2 DEF Listed
    <3> QED
      BY <3>1, <3>2
  <2>9. ASSUME NEW p \in Position, NEW q \in Position \ {p}, c[p] # NoEntry, c[q] # NoEntry
        PROVE  c[q].name # c[p].name
    <3>1. CASE p = 1
      <4>1. c[p] = e /\ c[q] = cache[q - 1] /\ q - 1 \in Position
        BY <2>5, <3>1
      <4> QED
        BY <2>3, <2>7, <2>9, <4>1
    <3>2. CASE q = 1
      <4>1. c[q] = e /\ c[p] = cache[p - 1] /\ p - 1 \in Position
        BY <2>5, <3>2
      <4> QED
        BY <2>3, <2>7, <2>9, <4>1
    <3>3. CASE p # 1 /\ q # 1
      <4>1. /\ c[q] = cache[q - 1] /\ q - 1 \in Position
            /\ c[p] = cache[p - 1] /\ p - 1 \in Position
        BY <2>5, <3>3
      <4>2. q - 1 # p - 1
        BY <2>5 DEF Position
      <4> QED
        BY <2>9, <4>1, <4>2 DEF Agrees
    <3> QED
      BY <3>1, <3>2, <3>3
  <2> QED
    BY <2>4, <2>6, <2>8, <2>9 DEF Agrees
<1> QED
  BY <1>1, <1>2

(* Agreement survives when lists only get nodes in front ... *)
LEMMA Pushed ==
  ASSUME NEW c \in CacheType, NEW ns \in NodesType, NEW ms, Agrees(c, ns),
         \A k \in Name : ms[k] = ns[k] \/ \E i \in Slot \cup {NoSlot} : ms[k] = <<i>> \o ns[k]
  PROVE  Agrees(c, ms)
<1> SUFFICES ASSUME NEW p \in Position, c[p] # NoEntry PROVE Listed(c, ms, p)
  BY DEF Agrees
<1>1. c[p].name \in Name
  BY DEF CacheType, EntryType
<1> DEFINE k == c[p].name
<1> HIDE DEF k
<1>2. PICK j \in DOMAIN ns[k] : ns[k][j] = c[p].slot
  BY DEF Agrees, Listed, k
<1>3. CASE ms[k] = ns[k]
  BY <1>2, <1>3 DEF Listed, k
<1>4. ASSUME NEW i \in Slot \cup {NoSlot}, ms[k] = <<i>> \o ns[k] PROVE Listed(c, ms, p)
  <2>1. ns[k] \in Seq(Slot \cup {NoSlot})
    BY <1>1 DEF NodesType, k
  <2>2. j + 1 \in DOMAIN ms[k] /\ ms[k][j + 1] = ns[k][j]
    BY <1>2, <1>4, <2>1, PushedFacts
  <2> QED
    BY <1>2, <2>2 DEF Listed, k
<1> QED
  BY <1>1, <1>3, <1>4 DEF k

(* ... and when the names whose lists change are forgotten. *)
LEMMA Forgotten ==
  ASSUME NEW c \in CacheType, NEW ns, NEW ms, NEW ks, Agrees(c, ns),
         \A k \in Name \ ks : ms[k] = ns[k]
  PROVE  Invalid(c, ks) \in CacheType /\ Agrees(Invalid(c, ks), ms)
<1> DEFINE d == Invalid(c, ks)
<1>1. \A p \in Position : d[p] = IF c[p] # NoEntry /\ c[p].name \in ks THEN NoEntry ELSE c[p]
  BY DEF Invalid
<1>2. d \in CacheType
  BY DEF Invalid, CacheType
<1> HIDE DEF d
<1>3. ASSUME NEW p \in Position, d[p] # NoEntry
      PROVE  d[p] = c[p] /\ c[p].name \in Name \ ks /\ Listed(c, ns, p)
  BY <1>1, <1>3 DEF CacheType, EntryType, Agrees
<1>4. ASSUME NEW p \in Position, d[p] # NoEntry PROVE Listed(d, ms, p)
  BY <1>3, <1>4 DEF Listed
<1>5. ASSUME NEW p \in Position, NEW q \in Position \ {p}, d[p] # NoEntry, d[q] # NoEntry
      PROVE  d[q].name # d[p].name
  BY <1>3, <1>5 DEF Agrees
<1> QED
  BY <1>2, <1>4, <1>5 DEF Agrees, d
-----------------------------------------------------------------------------
(* A name has no node and no active entry, or one of each and they agree.  *)
Exact(k) ==
  \/ nodes[k] = <<>> /\ ActiveNamed(k) = {}
  \/ \E i \in Slot : nodes[k] = <<i>> /\ ActiveNamed(k) = {i} /\ slot[i].ss \in online

Typed ==
  /\ slot \in [Slot -> {NoFile} \cup FileType]
  /\ nodes \in NodesType /\ cache \in CacheType
  /\ online \subseteq Sock /\ doubtful \subseteq Name

IInv ==
  /\ Typed
  /\ Agrees(cache, nodes)
  /\ \A k \in Name \ doubtful : Exact(k)

LEMMA TypedIsTypeOK == Typed <=> TypeOK
BY DEF Typed, TypeOK, FileType, NodesType, CacheType, EntryType

(* A lookup finds a slot or none; and of an exact name the only one.       *)
LEMMA FoundFacts ==
  ASSUME IInv, NEW k \in Name
  PROVE  /\ Found(k) \in Slot \cup {NoSlot}
         /\ nodes[k] = <<>> => Found(k) = NoSlot
         /\ \A i \in Slot : nodes[k] = <<i>> => Found(k) = i
<1>t. nodes[k] \in Seq(Slot \cup {NoSlot}) /\ cache \in CacheType /\ Agrees(cache, nodes)
  BY DEF IInv, Typed, NodesType
<1>1. CASE Cached(k)
  <2> DEFINE P(q) == Holds(q, k) /\ \A r \in 1..(q - 1) : ~Holds(r, k)
             p == CHOOSE q \in Position : P(q)
  <2>1. PICK q \in Position : Holds(q, k)
    BY <1>1 DEF Cached
  <2>2. \A r \in Position \ {q} : ~Holds(r, k)
    BY <1>t, <2>1 DEF Agrees, Holds
  <2>3. \A r \in 1..(q - 1) : r \in Position \ {q}
    BY CatalogAssumption DEF Position
  <2>4. P(q)
    BY <2>1, <2>2, <2>3
  <2>5. p \in Position /\ P(p)
    BY <2>4
  <2>6. Found(k) = cache[p].slot
    BY <1>1 DEF Found, CachedSlot
  <2> HIDE DEF p
  <2>7. cache[p] # NoEntry /\ cache[p].name = k
    BY <2>5 DEF Holds
  <2> HIDE DEF P
  <2>8. cache[p].slot \in Slot \cup {NoSlot}
    BY <1>t, <2>5, <2>7 DEF CacheType, EntryType
  <2>9. PICK j \in DOMAIN nodes[k] : nodes[k][j] = cache[p].slot
    BY <1>t, <2>5, <2>7 DEF Agrees, Listed
  <2>10. nodes[k] # <<>>
    BY <2>9
  <2>11. ASSUME NEW i \in Slot, nodes[k] = <<i>> PROVE Found(k) = i
    BY <2>6, <2>9, <2>11
  <2> QED
    BY <2>6, <2>8, <2>10, <2>11
<1>2. CASE ~Cached(k) /\ nodes[k] = <<>>
  <2>1. Found(k) = NoSlot
    BY <1>2 DEF Found
  <2>2. ASSUME NEW i \in Slot PROVE nodes[k] # <<i>>
    <3>1. Len(<<i>>) = 1 /\ Len(<<>>) = 0
      OBVIOUS
    <3> QED
      BY <1>2, <3>1
  <2> QED
    BY <2>1, <2>2
<1>3. CASE ~Cached(k) /\ nodes[k] # <<>>
  <2>1. Found(k) = Head(nodes[k])
    BY <1>3 DEF Found
  <2>2. Head(nodes[k]) \in Slot \cup {NoSlot}
    BY <1>t, <1>3
  <2> QED
    BY <1>3, <2>1, <2>2
<1> QED
  BY <1>1, <1>2, <1>3

(* What a lookup of a name that is not doubtful tells. *)
LEMMA FoundExact ==
  ASSUME IInv, NEW k \in Name \ doubtful
  PROVE  /\ Found(k) = NoSlot => nodes[k] = <<>> /\ ActiveNamed(k) = {}
         /\ Found(k) # NoSlot => /\ Found(k) \in Slot /\ nodes[k] = <<Found(k)>>
                                 /\ ActiveNamed(k) = {Found(k)}
                                 /\ slot[Found(k)].ss \in online
<1>1. CASE nodes[k] = <<>> /\ ActiveNamed(k) = {}
  BY <1>1, FoundFacts
<1>2. ASSUME NEW i \in Slot, nodes[k] = <<i>>, ActiveNamed(k) = {i}, slot[i].ss \in online
      PROVE  Found(k) = i /\ i # NoSlot
  BY <1>2, FoundFacts, CatalogAssumption
<1> QED
  BY <1>1, <1>2 DEF IInv, Exact

(* A name stays exact when its list and its active entries do not change.  *)
LEMMA ExactStays ==
  ASSUME NEW h \in Name, Exact(h), nodes'[h] = nodes[h],
         \A i \in Slot : slot'[i].active /\ slot'[i].name = h
                         <=> slot[i].active /\ slot[i].name = h,
         \A i \in Slot : slot[i].active /\ slot[i].name = h /\ slot[i].ss \in online
                         => slot'[i].ss = slot[i].ss /\ slot[i].ss \in online'
  PROVE  Exact(h)'
<1>1. ActiveNamed(h)' = ActiveNamed(h)
  BY DEF ActiveNamed
<1>2. CASE nodes[h] = <<>> /\ ActiveNamed(h) = {}
  BY <1>1, <1>2 DEF Exact
<1>3. ASSUME NEW i \in Slot, nodes[h] = <<i>>, ActiveNamed(h) = {i}, slot[i].ss \in online
      PROVE  Exact(h)'
  <2>1. slot[i].active /\ slot[i].name = h
    BY <1>3 DEF ActiveNamed
  <2>2. slot'[i].ss = slot[i].ss /\ slot[i].ss \in online'
    BY <1>3, <2>1
  <2> QED
    BY <1>1, <1>3, <2>2 DEF Exact
<1> QED
  BY <1>2, <1>3 DEF Exact

(* The files of a storage server under one name. *)
Count(s, k) == Cardinality({i \in FilesOf(s) : slot[i].name = k})

LEMMA CountFacts ==
  ASSUME IInv, NEW s \in Sock, NEW k \in Name
  PROVE  /\ Count(s, k) \in Nat
         /\ k \notin NamesOf(FilesOf(s)) => Count(s, k) = 0
         /\ \A i \in Slot : ActiveNamed(k) = {i} /\ slot[i].ss = s => Count(s, k) = 1
<1> DEFINE F == {i \in FilesOf(s) : slot[i].name = k}
<1>1. IsFiniteSet(F)
  <2>1. F \subseteq Slot
    BY DEF FilesOf
  <2> QED
    BY <2>1, CatalogAssumption, FS_Subset
<1>2. Cardinality(F) \in Nat
  BY <1>1, FS_CardinalityType
<1>3. k \notin NamesOf(FilesOf(s)) => Cardinality(F) = 0
  <2>1. k \notin NamesOf(FilesOf(s)) => F = {}
    BY DEF NamesOf
  <2> QED
    BY <2>1, FS_EmptySet
<1>4. ASSUME NEW i \in Slot, ActiveNamed(k) = {i}, slot[i].ss = s PROVE Cardinality(F) = 1
  <2>1. F = {i}
    BY <1>4 DEF ActiveNamed, FilesOf
  <2> QED
    BY <2>1, FS_Singleton
<1> QED
  BY <1>2, <1>3, <1>4 DEF Count
-----------------------------------------------------------------------------
(* The invariant holds when the servers start, and is kept, action by      *)
(* action. *)
LEMMA Initial ==
  ASSUME slot = [i \in Slot |-> NoFile], nodes = [k \in Name |-> <<>>],
         cache = [p \in Position |-> NoEntry], online = {}, doubtful = {}
  PROVE  IInv
<1>1. Typed
  BY DEF Typed, NodesType, CacheType
<1>2. Agrees(cache, nodes)
  BY DEF Agrees
<1>3. ASSUME NEW k \in Name PROVE Exact(k)
  BY NoFileFacts DEF Exact, ActiveNamed
<1> QED
  BY <1>1, <1>2, <1>3 DEF IInv

LEMMA LookupStep ==
  ASSUME IInv, NEW k \in Name, Lookup(k)
  PROVE  IInv'
<1>1. cache' \in CacheType /\ Agrees(cache', nodes)
  BY LookedFacts DEF IInv, Typed, Lookup
<1>2. UNCHANGED <<slot, nodes, online, doubtful>>
  BY DEF Lookup
<1> QED
  BY <1>1, <1>2 DEF IInv, Typed, Agrees, Listed, Exact, ActiveNamed

LEMMA CreateStep ==
  ASSUME IInv, NEW k \in Name, NEW s \in Sock, NEW b \in Backups(s), NEW i \in Slot \cup {NoSlot},
         Create(k, s, b, i)
  PROVE  IInv'
<1>t. /\ slot \in [Slot -> {NoFile} \cup FileType] /\ nodes \in NodesType
      /\ cache \in CacheType /\ online \subseteq Sock /\ doubtful \subseteq Name
      /\ Agrees(cache, nodes) /\ nodes[k] \in Seq(Slot \cup {NoSlot})
  BY DEF IInv, Typed, NodesType
<1>b. b \in Sock \cup {NoSock} /\ b # s
  BY <1>t, BackupFacts
<1>1. /\ cache' = Looked(k) /\ nodes' = [nodes EXCEPT ![k] = <<i>> \o @]
      /\ s \in online /\ UNCHANGED online /\ Found(k) = NoSlot
      /\ doubtful' = IF i = NoSlot THEN doubtful \cup {k} ELSE doubtful
      /\ slot' = IF i = NoSlot THEN slot ELSE [slot EXCEPT ![i] = File(k, s, b)]
      /\ i # NoSlot => ~slot[i].active
  BY DEF Create, Free
<1> DEFINE e == File(k, s, b)
           q == <<i>> \o nodes[k]
<1>2. e \in FileType /\ e.active /\ e.name = k /\ e.ss = s
  BY <1>b, FileFacts
<1>3. q \in Seq(Slot \cup {NoSlot}) /\ (nodes[k] = <<>> => q = <<i>>)
  BY <1>t, PushedFacts
<1>4. nodes' = [nodes EXCEPT ![k] = q]
  BY <1>1
<1>5. slot' = IF i = NoSlot THEN slot ELSE [slot EXCEPT ![i] = e]
  BY <1>1
<1> HIDE DEF e
<1>6. cache' \in CacheType /\ Agrees(cache', nodes')
  <2>1. cache' \in CacheType /\ Agrees(cache', nodes)
    BY <1>1, <1>t, LookedFacts
  <2>2. \A h \in Name : nodes'[h] = nodes[h]
                        \/ \E j \in Slot \cup {NoSlot} : nodes'[h] = <<j>> \o nodes[h]
    BY <1>t, <1>4 DEF NodesType
  <2> QED
    BY <1>t, <2>1, <2>2, Pushed
<1> HIDE DEF q
<1>7. Typed'
  <2>1. slot' \in [Slot -> {NoFile} \cup FileType]
    BY <1>t, <1>2, <1>5
  <2>2. nodes' \in NodesType
    BY <1>t, <1>3, <1>4 DEF NodesType
  <2>3. doubtful' \subseteq Name
    BY <1>t, <1>1
  <2> QED
    BY <1>1, <1>6, <1>t, <2>1, <2>2, <2>3 DEF Typed
<1>8. ASSUME NEW h \in Name \ doubtful' PROVE Exact(h)'
  <2>0. h \in Name \ doubtful
    BY <1>1, <1>8
  <2>1. CASE h # k
    <3>1. Exact(h) /\ nodes'[h] = nodes[h]
      BY <1>4, <1>t, <2>0, <2>1 DEF IInv, NodesType
    <3>2. \A j \in Slot : slot'[j].active /\ slot'[j].name = h
                          <=> slot[j].active /\ slot[j].name = h
      BY <1>1, <1>2, <1>5, <1>t, <2>1
    <3>3. \A j \in Slot : slot[j].active /\ slot[j].name = h /\ slot[j].ss \in online
                          => slot'[j].ss = slot[j].ss /\ slot[j].ss \in online'
      BY <1>1, <1>5, <1>t
    <3> QED
      BY <3>1, <3>2, <3>3, ExactStays
  <2>2. CASE h = k
    <3>1. i \in Slot /\ i # NoSlot
      BY <1>1, <2>2, <1>8
    <3>2. nodes[k] = <<>> /\ ActiveNamed(k) = {}
      BY <1>1, <2>0, <2>2, FoundExact
    <3>3. nodes'[k] = <<i>>
      BY <1>3, <1>4, <1>t, <3>2 DEF NodesType
    <3>4. slot'[i] = e /\ \A j \in Slot \ {i} : slot'[j] = slot[j]
      BY <1>5, <1>t, <3>1
    <3>5. ActiveNamed(k)' = {i}
      BY <1>2, <3>1, <3>2, <3>4 DEF ActiveNamed
    <3>6. slot'[i].ss \in online'
      BY <1>1, <1>2, <3>4
    <3> QED
      BY <2>2, <3>1, <3>3, <3>5, <3>6 DEF Exact
  <2> QED
    BY <2>1, <2>2
<1> QED
  BY <1>6, <1>7, <1>8 DEF IInv, Agrees, Listed

(* The entry that DELETE and MOVE find is a file's. *)
LEMMA FoundOnlineFacts ==
  ASSUME IInv, NEW k \in Name, NEW i \in Slot, FoundOnline(k, i)
  PROVE  /\ slot[i] \in FileType /\ slot[i].name \in Name
         /\ slot[i].ss \in online /\ slot[i].ss \in Sock
         /\ k \notin doubtful => /\ slot[i].name = k /\ slot[i].active
                                 /\ nodes[k] = <<i>> /\ ActiveNamed(k) = {i}
<1>1. slot[i] \in {NoFile} \cup FileType /\ slot[i].ss \in online /\ online \subseteq Sock
      /\ i = Found(k) /\ i # NoSlot
  BY DEF FoundOnline, IInv, Typed
<1>2. slot[i] \in FileType
  BY <1>1, NoFileFacts, CatalogAssumption
<1>3. slot[i].name \in Name
  BY <1>2 DEF FileType
<1>4. k \notin doubtful => ActiveNamed(k) = {i} /\ nodes[k] = <<i>>
  BY <1>1, FoundExact
<1>5. k \notin doubtful => slot[i].name = k /\ slot[i].active
  BY <1>4 DEF ActiveNamed
<1> QED
  BY <1>1, <1>2, <1>3, <1>4, <1>5

LEMMA DeleteStep ==
  ASSUME IInv, NEW k \in Name, NEW i \in Slot, Delete(k, i)
  PROVE  IInv'
<1>t. /\ slot \in [Slot -> {NoFile} \cup FileType] /\ nodes \in NodesType
      /\ cache \in CacheType /\ online \subseteq Sock /\ doubtful \subseteq Name
      /\ Agrees(cache, nodes)
  BY DEF IInv, Typed
<1> DEFINE old == slot[i].name
           e   == [slot[i] EXCEPT !.active = FALSE]
           q   == Dropped(nodes[old], 1)
<1>1. /\ slot[i] \in FileType /\ old \in Name
      /\ k \notin doubtful => old = k /\ nodes[k] = <<i>> /\ ActiveNamed(k) = {i}
  BY FoundOnlineFacts DEF Delete
<1>2. /\ slot' = [slot EXCEPT ![i] = e] /\ nodes' = [nodes EXCEPT ![old] = q]
      /\ cache' = Invalid(Looked(k), {old}) /\ UNCHANGED online
      /\ doubtful' = IF k \in doubtful THEN doubtful \cup {old} ELSE doubtful
  BY <1>t, <1>1 DEF Delete, Unlisted, NodesType
<1>3. e \in {NoFile} \cup FileType /\ ~e.active
  BY <1>1, SwitchedFacts, Zenon
<1>4. q \in Seq(Slot \cup {NoSlot}) /\ (nodes[old] = <<i>> => q = <<>>)
  <2>1. nodes[old] \in Seq(Slot \cup {NoSlot})
    BY <1>t, <1>1 DEF NodesType
  <2>2. Len(<<i>>) = 1
    OBVIOUS
  <2>3. nodes[old] = <<i>> => Len(nodes[old]) = 1
    BY <2>2, Zenon
  <2> QED
    BY <2>1, <2>3, DroppedFacts
<1>5. cache' \in CacheType /\ Agrees(cache', nodes')
  <2>1. Looked(k) \in CacheType /\ Agrees(Looked(k), nodes)
    BY <1>t, LookedFacts
  <2>2. \A h \in Name \ {old} : nodes'[h] = nodes[h]
    BY <1>t, <1>2 DEF NodesType
  <2> QED
    BY <1>2, <2>1, <2>2, Forgotten
<1> HIDE DEF old, e, q
<1>6. Typed'
  BY <1>t, <1>1, <1>2, <1>3, <1>4, <1>5 DEF Typed, NodesType
<1>7. ASSUME NEW h \in Name \ doubtful' PROVE Exact(h)'
  <2>0. h \in Name \ doubtful
    BY <1>2, <1>7
  <2>1. slot'[i] = e /\ \A j \in Slot \ {i} : slot'[j] = slot[j]
    BY <1>2, <1>t
  <2>2. CASE h # old
    <3>1. Exact(h) /\ nodes'[h] = nodes[h]
      BY <1>2, <1>t, <2>0, <2>2 DEF IInv, NodesType
    <3>2. slot[i].name # h
      BY <2>2 DEF old
    <3>3. \A j \in Slot : slot'[j].active /\ slot'[j].name = h
                          <=> slot[j].active /\ slot[j].name = h
      BY <1>3, <2>1, <3>2
    <3>4. \A j \in Slot : slot[j].active /\ slot[j].name = h /\ slot[j].ss \in online
                          => slot'[j].ss = slot[j].ss /\ slot[j].ss \in online'
      BY <1>2, <2>1, <3>2
    <3> QED
      BY <3>1, <3>3, <3>4, ExactStays
  <2>3. CASE h = old
    <3>1. k \notin doubtful /\ old = k
      BY <1>1, <1>2, <2>3, <1>7
    <3>2. nodes'[h] = <<>>
      BY <1>1, <1>2, <1>4, <1>t, <2>3, <3>1 DEF NodesType
    <3>3. ActiveNamed(h)' = {}
      BY <1>1, <1>3, <2>1, <2>3, <3>1 DEF ActiveNamed
    <3> QED
      BY <3>2, <3>3 DEF Exact
  <2> QED
    BY <2>2, <2>3
<1> QED
  BY <1>5, <1>6, <1>7 DEF IInv, Agrees, Listed

LEMMA MoveStep ==
  ASSUME IInv, NEW k \in Name, NEW g \in Name, NEW i \in Slot, Move(k, g, i)
  PROVE  IInv'
<1>t. /\ slot \in [Slot -> {NoFile} \cup FileType] /\ nodes \in NodesType
      /\ cache \in CacheType /\ online \subseteq Sock /\ doubtful \subseteq Name
      /\ Agrees(cache, nodes)
  BY DEF IInv, Typed
<1> DEFINE old  == slot[i].name
           e    == [slot[i] EXCEPT !.name = g]
           less == [nodes EXCEPT ![old] = Dropped(@, 1)]
           q    == <<i>> \o less[g]
<1>1. /\ slot[i] \in FileType /\ old \in Name /\ slot[i].ss \in online
      /\ k \notin doubtful => /\ old = k /\ slot[i].active
                              /\ nodes[k] = <<i>> /\ ActiveNamed(k) = {i}
  BY FoundOnlineFacts DEF Move
<1>2. /\ slot' = [slot EXCEPT ![i] = e]
      /\ cache' = Invalid(Looked(k), {old}) /\ UNCHANGED online
      /\ doubtful' = doubtful \cup (IF k \in doubtful THEN {old, g}
                                    ELSE IF less[g] # <<>> THEN {g} ELSE {})
  BY <1>t DEF Move
<1>3. e \in FileType /\ e.active = slot[i].active /\ e.name = g /\ e.ss = slot[i].ss
  BY <1>1, RenamedFacts
<1>4. /\ less \in NodesType
      /\ \A h \in Name \ {old} : less[h] = nodes[h]
      /\ nodes[old] = <<i>> => less[old] = <<>>
  <2>1. nodes[old] \in Seq(Slot \cup {NoSlot})
    BY <1>t, <1>1 DEF NodesType
  <2>2. Len(<<i>>) = 1
    OBVIOUS
  <2>3. nodes[old] = <<i>> => Len(nodes[old]) = 1
    BY <2>2, Zenon
  <2>4. Dropped(nodes[old], 1) \in Seq(Slot \cup {NoSlot})
        /\ (nodes[old] = <<i>> => Dropped(nodes[old], 1) = <<>>)
    BY <2>1, <2>3, DroppedFacts
  <2> QED
    BY <1>t, <1>1, <2>4 DEF NodesType
<1>5. nodes' = [less EXCEPT ![g] = q]
  BY <1>4 DEF Move, NodesType
<1> HIDE DEF less, old, e
<1>6. q \in Seq(Slot \cup {NoSlot}) /\ (less[g] = <<>> => q = <<i>>)
  BY <1>4, PushedFacts DEF NodesType
<1>7. cache' \in CacheType /\ Agrees(cache', nodes')
  <2>1. Looked(k) \in CacheType /\ Agrees(Looked(k), nodes)
    BY <1>t, LookedFacts
  <2>2. cache' \in CacheType /\ Agrees(cache', less)
    BY <1>2, <1>4, <2>1, Forgotten
  <2>3. \A h \in Name : nodes'[h] = less[h]
                        \/ \E j \in Slot \cup {NoSlot} : nodes'[h] = <<j>> \o less[h]
    BY <1>4, <1>5 DEF NodesType
  <2> QED
    BY <1>4, <2>2, <2>3, Pushed
<1> HIDE DEF q
<1>8. Typed'
  <2>1. slot' \in [Slot -> {NoFile} \cup FileType]
    BY <1>t, <1>2, <1>3
  <2>2. nodes' \in NodesType
    BY <1>4, <1>5, <1>6 DEF NodesType
  <2>3. doubtful' \subseteq Name /\ online' \subseteq Sock
    BY <1>t, <1>1, <1>2
  <2> QED
    BY <1>7, <2>1, <2>2, <2>3 DEF Typed
<1>9. ASSUME NEW h \in Name \ doubtful' PROVE Exact(h)'
  <2>0. h \in Name \ doubtful
    BY <1>2, <1>9
  <2>1. slot'[i] = e /\ \A j \in Slot \ {i} : slot'[j] = slot[j]
    BY <1>2, <1>t
  <2>2. CASE h # old /\ h # g
    <3>1. Exact(h) /\ nodes'[h] = nodes[h]
      BY <1>4, <1>5, <2>0, <2>2 DEF IInv, NodesType
    <3>2. slot[i].name # h
      BY <2>2 DEF old
    <3>3. \A j \in Slot : slot'[j].active /\ slot'[j].name = h
                          <=> slot[j].active /\ slot[j].name = h
      BY <1>3, <2>1, <2>2, <3>2
    <3>4. \A j \in Slot : slot[j].active /\ slot[j].name = h /\ slot[j].ss \in online
                          => slot'[j].ss = slot[j].ss /\ slot[j].ss \in online'
      BY <1>2, <2>1, <3>2
    <3> QED
      BY <3>1, <3>3, <3>4, ExactStays
  <2>3. CASE h = g
    <3>1. k \notin doubtful /\ less[g] = <<>>
      BY <1>2, <2>3, <1>9
    <3>2. nodes'[g] = <<i>>
      BY <1>4, <1>5, <1>6, <3>1 DEF NodesType
    <3>3. \A j \in Slot \ {i} : ~(slot[j].active /\ slot[j].name = g)
      <4>1. CASE g = old
        BY <1>1, <3>1, <4>1 DEF ActiveNamed
      <4>2. CASE g # old
        <5>1. nodes[g] = <<>>
          BY <1>4, <3>1, <4>2
        <5>2. ActiveNamed(g) = {}
          BY <2>0, <2>3, <5>1, FoundFacts, FoundExact
        <5> QED
          BY <5>2 DEF ActiveNamed
      <4> QED
        BY <4>1, <4>2
    <3>4. ActiveNamed(g)' = {i}
      BY <1>1, <1>3, <2>1, <3>1, <3>3 DEF ActiveNamed
    <3>5. slot'[i].ss \in online'
      BY <1>1, <1>2, <1>3, <2>1
    <3> QED
      BY <2>3, <3>2, <3>4, <3>5 DEF Exact
  <2>4. CASE h = old /\ h # g
    <3>1. k \notin doubtful /\ old = k
      BY <1>1, <1>2, <2>4, <1>9
    <3>2. nodes'[h] = <<>>
      BY <1>1, <1>4, <1>5, <2>4, <3>1 DEF NodesType
    <3>3. ActiveNamed(h)' = {}
      BY <1>1, <1>3, <2>1, <2>4, <3>1 DEF ActiveNamed
    <3> QED
      BY <3>2, <3>3 DEF Exact
  <2> QED
    BY <2>2, <2>3, <2>4
<1> QED
  BY <1>7, <1>8, <1>9 DEF IInv, Agrees, Listed

(* The files of a storage server are switched off. *)
LEMMA SwitchedOff ==
  ASSUME Typed, NEW s \in Sock,
         slot' = [i \in Slot |-> [slot[i] EXCEPT !.active = @ /\ i \notin FilesOf(s)]]
  PROVE  /\ slot' \in [Slot -> {NoFile} \cup FileType]
         /\ \A i \in Slot : /\ slot'[i].active <=> (slot[i].active /\ slot[i].ss # s)
                            /\ slot'[i].name = slot[i].name /\ slot'[i].ss = slot[i].ss
<1>1. slot \in [Slot -> {NoFile} \cup FileType]
  BY DEF Typed
<1>2. ASSUME NEW i \in Slot
      PROVE  /\ slot'[i] \in {NoFile} \cup FileType
             /\ slot'[i].active <=> (slot[i].active /\ slot[i].ss # s)
             /\ slot'[i].name = slot[i].name /\ slot'[i].ss = slot[i].ss
  <2> DEFINE a == slot[i].active /\ i \notin FilesOf(s)
  <2>1. slot'[i] = [slot[i] EXCEPT !.active = a]
    BY Zenon
  <2>2. slot[i] \in {NoFile} \cup FileType
    BY <1>1
  <2>3. slot[i] = NoFile => ~a
    BY NoFileFacts, Zenon
  <2>4. a \in BOOLEAN
    BY Zenon
  <2>5. a <=> (slot[i].active /\ slot[i].ss # s)
    BY Zenon DEF FilesOf
  <2> HIDE DEF a
  <2>6. slot'[i] \in {NoFile} \cup FileType /\ slot'[i].active = a
        /\ slot'[i].name = slot[i].name /\ slot'[i].ss = slot[i].ss
    BY <2>1, <2>2, <2>3, <2>4, SwitchedFacts, Zenon
  <2> QED
    BY <2>5, <2>6, Zenon
<1>3. slot' = [i \in Slot |-> slot'[i]]
  BY Zenon
<1> QED
  BY <1>2, <1>3

LEMMA DisconnectStep ==
  ASSUME IInv, NEW s \in Sock, Disconnect(s)
  PROVE  IInv'
<1>t. /\ slot \in [Slot -> {NoFile} \cup FileType] /\ nodes \in NodesType
      /\ cache \in CacheType /\ online \subseteq Sock /\ doubtful \subseteq Name
      /\ Agrees(cache, nodes) /\ Typed
  BY DEF IInv, Typed
<1>1. /\ \A k \in Name : nodes'[k] = Dropped(nodes[k], Count(s, k))
      /\ nodes' = [k \in Name |-> nodes'[k]]
      /\ cache' = Invalid(cache, NamesOf(FilesOf(s)))
      /\ online' = online \ {s} /\ UNCHANGED doubtful
  BY DEF Disconnect, Count
<1>2. /\ slot' \in [Slot -> {NoFile} \cup FileType]
      /\ \A i \in Slot : /\ slot'[i].active <=> (slot[i].active /\ slot[i].ss # s)
                         /\ slot'[i].name = slot[i].name /\ slot'[i].ss = slot[i].ss
  BY <1>t, SwitchedOff DEF Disconnect
<1>3. \A k \in Name : /\ Count(s, k) \in Nat
                      /\ k \notin NamesOf(FilesOf(s)) => Count(s, k) = 0
                      /\ \A i \in Slot : ActiveNamed(k) = {i} /\ slot[i].ss = s => Count(s, k) = 1
  BY CountFacts
<1>4. \A k \in Name : /\ nodes'[k] \in Seq(Slot \cup {NoSlot})
                      /\ Count(s, k) = 0 => nodes'[k] = nodes[k]
                      /\ Len(nodes[k]) = 1 /\ Count(s, k) = 1 => nodes'[k] = <<>>
  BY <1>t, <1>1, <1>3, DroppedFacts DEF NodesType
<1>5. cache' \in CacheType /\ Agrees(cache', nodes')
  <2>1. \A k \in Name \ NamesOf(FilesOf(s)) : nodes'[k] = nodes[k]
    BY <1>3, <1>4
  <2> QED
    BY <1>t, <1>1, <2>1, Forgotten
<1>6. Typed'
  <2>1. nodes' \in NodesType
    <3>1. nodes' = [k \in Name |-> nodes'[k]]
      BY <1>1
    <3> QED
      BY <1>4, <3>1 DEF NodesType
  <2> QED
    BY <1>t, <1>1, <1>2, <1>5, <2>1 DEF Typed
<1>7. ASSUME NEW h \in Name \ doubtful' PROVE Exact(h)'
  <2>1. Exact(h)
    BY <1>1, <1>7 DEF IInv
  <2>2. CASE ActiveNamed(h) = {} /\ nodes[h] = <<>>
    <3>1. h \notin NamesOf(FilesOf(s))
      BY <2>2 DEF ActiveNamed, NamesOf, FilesOf
    <3>2. nodes'[h] = nodes[h]
      BY <1>3, <1>4, <3>1
    <3>3. ActiveNamed(h)' = {}
      BY <1>2, <2>2 DEF ActiveNamed
    <3> QED
      BY <2>2, <3>2, <3>3 DEF Exact
  <2>3. ASSUME NEW i \in Slot, nodes[h] = <<i>>, ActiveNamed(h) = {i}, slot[i].ss \in online
        PROVE  Exact(h)'
    <3>1. slot[i].active /\ slot[i].name = h
      BY <2>3 DEF ActiveNamed
    <3>2. CASE slot[i].ss = s
      <4>1. Len(<<i>>) = 1
        OBVIOUS
      <4>2. nodes'[h] = <<>>
        BY <1>3, <1>4, <2>3, <3>2, <4>1
      <4>3. ActiveNamed(h)' = {}
        BY <1>2, <2>3, <3>2 DEF ActiveNamed
      <4> QED
        BY <4>2, <4>3 DEF Exact
    <3>3. CASE slot[i].ss # s
      <4>1. h \notin NamesOf(FilesOf(s))
        BY <2>3, <3>3 DEF ActiveNamed, NamesOf, FilesOf
      <4>2. nodes'[h] = nodes[h]
        BY <1>3, <1>4, <4>1
      <4>3. ActiveNamed(h)' = {i}
        BY <1>2, <2>3, <3>3 DEF ActiveNamed
      <4>4. slot'[i].ss \in online'
        BY <1>1, <1>2, <2>3, <3>3
      <4> QED
        BY <2>3, <4>2, <4>3, <4>4 DEF Exact
    <3> QED
      BY <3>2, <3>3
  <2> QED
    BY <2>1, <2>2, <2>3 DEF Exact
<1> QED
  BY <1>5, <1>6, <1>7 DEF IInv, Agrees, Listed

(* The names of the entries that are switched off are doubtful from now on. *)
LEMMA HeartbeatsFailStep ==
  ASSUME IInv, NEW s \in Sock, HeartbeatsFail(s)
  PROVE  IInv'
<1>t. /\ nodes \in NodesType /\ cache \in CacheType /\ online \subseteq Sock
      /\ doubtful \subseteq Name /\ Agrees(cache, nodes) /\ Typed
      /\ slot \in [Slot -> {NoFile} \cup FileType]
  BY DEF IInv, Typed
<1>1. /\ online' = online \ {s} /\ UNCHANGED <<nodes, cache>>
      /\ doubtful' = doubtful \cup NamesOf(FilesOf(s))
  BY DEF HeartbeatsFail
<1>2. /\ slot' \in [Slot -> {NoFile} \cup FileType]
      /\ \A i \in Slot : /\ slot'[i].active <=> (slot[i].active /\ slot[i].ss # s)
                         /\ slot'[i].name = slot[i].name /\ slot'[i].ss = slot[i].ss
  BY <1>t, SwitchedOff DEF HeartbeatsFail
<1>3. ASSUME NEW h \in Name \ doubtful' PROVE Exact(h)'
  <2>1. \A i \in Slot : slot[i].active /\ slot[i].name = h => slot[i].ss # s
    BY <1>1, <1>3 DEF NamesOf, FilesOf
  <2>2. Exact(h)
    BY <1>1, <1>3 DEF IInv
  <2> QED
    BY <1>1, <1>2, <2>1, <2>2, ExactStays
<1>4. NamesOf(FilesOf(s)) \subseteq Name
  <2>1. ASSUME NEW i \in FilesOf(s) PROVE slot[i].name \in Name
    <3>1. i \in Slot /\ slot[i] # NoFile
      BY NoFileFacts DEF FilesOf
    <3> QED
      BY <1>t, <3>1 DEF FileType
  <2> QED
    BY <2>1 DEF NamesOf
<1> QED
  BY <1>t, <1>1, <1>2, <1>3, <1>4 DEF IInv, Typed, Agrees, Listed

LEMMA TurnsClientStep ==
  ASSUME IInv, NEW s \in Sock, TurnsClient(s)
  PROVE  IInv'
<1>t. /\ nodes \in NodesType /\ cache \in CacheType /\ online \subseteq Sock
      /\ doubtful \subseteq Name /\ Agrees(cache, nodes)
      /\ slot \in [Slot -> {NoFile} \cup FileType]
  BY DEF IInv, Typed
<1>1. /\ online' = online \ {s} /\ UNCHANGED <<slot, nodes, cache>>
      /\ doubtful' = doubtful \cup NamesOf(FilesOf(s))
  BY DEF TurnsClient
<1>3. ASSUME NEW h \in Name \ doubtful' PROVE Exact(h)'
  <2>1. \A i \in Slot : slot[i].active /\ slot[i].name = h => slot[i].ss # s
    BY <1>1, <1>3 DEF NamesOf, FilesOf
  <2>2. Exact(h)
    BY <1>1, <1>3 DEF IInv
  <2> QED
    BY <1>1, <2>1, <2>2, ExactStays
<1>4. NamesOf(FilesOf(s)) \subseteq Name
  <2>1. ASSUME NEW i \in FilesOf(s) PROVE slot[i].name \in Name
    <3>1. i \in Slot /\ slot[i] # NoFile
      BY NoFileFacts DEF FilesOf
    <3> QED
      BY <1>t, <3>1 DEF FileType
  <2> QED
    BY <2>1 DEF NamesOf
<1> QED
  BY <1>t, <1>1, <1>3, <1>4 DEF IInv, Typed, Agrees, Listed

LEMMA RecoverStep ==
  ASSUME IInv, NEW s \in Sock, Recover(s)
  PROVE  IInv'
<1>t. /\ nodes \in NodesType /\ cache \in CacheType /\ online \subseteq Sock
      /\ doubtful \subseteq Name /\ Agrees(cache, nodes)
      /\ slot \in [Slot -> {NoFile} \cup FileType]
  BY DEF IInv, Typed
<1>1. /\ online' = online \cup {s} /\ UNCHANGED <<nodes, cache>>
      /\ doubtful' = doubtful \cup NamesOf(Recovered(s))
      /\ slot' = [i \in Slot |-> IF i \in Recovered(s) THEN [slot[i] EXCEPT !.active = TRUE]
                                 ELSE slot[i]]
  BY DEF Recover
<1>2. ASSUME NEW i \in Recovered(s)
      PROVE  slot[i] \in FileType /\ slot[i].name \in Name /\ ~slot[i].active /\ i \in Slot
  <2>1. i \in Slot /\ ~slot[i].active /\ slot[i].ss = s
    BY DEF Recovered, Lost, Free
  <2>2. slot[i] # NoFile
    BY <2>1, NoFileFacts, CatalogAssumption
  <2>3. slot[i] \in FileType
    BY <1>t, <2>1, <2>2
  <2>4. slot[i].name \in Name
    BY <2>3 DEF FileType
  <2> QED
    BY <2>1, <2>3, <2>4
<1>3. ASSUME NEW i \in Recovered(s)
      PROVE  slot'[i] \in FileType /\ slot'[i].name = slot[i].name
  <2>1. slot'[i] = [slot[i] EXCEPT !.active = TRUE]
    BY <1>1, <1>2
  <2> QED
    BY <1>2, <2>1 DEF FileType
<1>4. \A i \in Slot \ Recovered(s) : slot'[i] = slot[i]
  BY <1>1
<1>5. slot' \in [Slot -> {NoFile} \cup FileType]
  BY <1>1, <1>3, <1>4, <1>t
<1>6. ASSUME NEW h \in Name \ doubtful' PROVE Exact(h)'
  <2>1. \A i \in Recovered(s) : slot[i].name # h
    BY <1>1, <1>6 DEF NamesOf
  <2>2. Exact(h)
    BY <1>1, <1>6 DEF IInv
  <2>3. \A i \in Slot : slot'[i].active /\ slot'[i].name = h <=> slot[i].active /\ slot[i].name = h
    BY <1>3, <1>4, <2>1
  <2>4. \A i \in Slot : slot[i].active /\ slot[i].name = h => slot'[i].ss = slot[i].ss
    BY <1>2, <1>4
  <2> QED
    BY <1>1, <2>2, <2>3, <2>4, ExactStays
<1>7. NamesOf(Recovered(s)) \subseteq Name
  BY <1>2 DEF NamesOf
<1> QED
  BY <1>t, <1>1, <1>5, <1>6, <1>7 DEF IInv, Typed, Agrees, Listed

(* Where the files of a storage server go: to slots of their own that were *)
(* free. *)
LEMMA RoomFacts ==
  ASSUME NEW ks \in SUBSET Name, NEW at \in Room(ks)
  PROVE  /\ DOMAIN at \subseteq ks
         /\ \A k \in DOMAIN at : at[k] \in Slot /\ ~slot[at[k]].active
         /\ \A k, l \in DOMAIN at : at[k] = at[l] => k = l
<1>1. PICK ls \in SUBSET ks : at \in [ls -> Free]
  BY DEF Room
<1>2. DOMAIN at = ls /\ \A k \in ls : at[k] \in Free
  BY <1>1
<1>3. \A k, l \in DOMAIN at : at[k] = at[l] => k = l
  BY DEF Room
<1> QED
  BY <1>2, <1>3 DEF Free

(* What is in the slots and the lists after a storage server registered.   *)
LEMMA RegisterFacts ==
  ASSUME Typed, NEW s \in Sock, NEW ks \in SUBSET Name, NEW b \in Backups(s), NEW at \in Room(ks),
         Register(s, ks, b, at)
  PROVE  /\ \A k \in DOMAIN at : slot'[at[k]] = File(k, s, b)
         /\ \A i \in Slot : (\A k \in DOMAIN at : at[k] # i) => slot'[i] = slot[i]
         /\ slot' \in [Slot -> {NoFile} \cup FileType]
         /\ nodes' \in NodesType
         /\ \A k \in DOMAIN at : /\ nodes'[k] = <<at[k]>> \o nodes[k]
                                 /\ nodes[k] = <<>> => nodes'[k] = <<at[k]>>
         /\ \A k \in Name \ DOMAIN at : nodes'[k] = nodes[k]
<1>t. /\ slot \in [Slot -> {NoFile} \cup FileType] /\ nodes \in NodesType /\ online \subseteq Sock
  BY DEF Typed
<1>r. /\ DOMAIN at \subseteq Name
      /\ \A k \in DOMAIN at : at[k] \in Slot
      /\ \A k, l \in DOMAIN at : at[k] = at[l] => k = l
  BY RoomFacts
<1> DEFINE In(i) == \E k \in DOMAIN at : at[k] = i
           Of(i) == CHOOSE k \in DOMAIN at : at[k] = i
<1>1. /\ slot' = [i \in Slot |-> IF In(i) THEN File(Of(i), s, b) ELSE slot[i]]
      /\ nodes' = [k \in Name |-> IF k \in DOMAIN at THEN <<at[k]>> \o nodes[k] ELSE nodes[k]]
  BY DEF Register
<1>2. \A i \in Slot : In(i) => Of(i) \in DOMAIN at /\ at[Of(i)] = i
  OBVIOUS
<1>3. \A k \in DOMAIN at : Of(at[k]) = k /\ In(at[k])
  BY <1>r
<1> HIDE DEF In, Of
<1>4. ASSUME NEW k \in DOMAIN at PROVE slot'[at[k]] = File(k, s, b)
  BY <1>1, <1>3, <1>r
<1>5. ASSUME NEW i \in Slot, \A k \in DOMAIN at : at[k] # i PROVE slot'[i] = slot[i]
  <2>1. ~In(i)
    BY <1>2, <1>5
  <2> QED
    BY <1>1, <2>1
<1>6. \A k \in Name : File(k, s, b) \in FileType
  BY <1>t, BackupFacts, FileFacts
<1>7. slot' \in [Slot -> {NoFile} \cup FileType]
  <2>1. ASSUME NEW i \in Slot
        PROVE  (IF In(i) THEN File(Of(i), s, b) ELSE slot[i]) \in {NoFile} \cup FileType
    BY <1>2, <1>6, <1>r, <1>t
  <2> QED
    BY <1>1, <2>1
<1>8. ASSUME NEW k \in DOMAIN at
      PROVE  /\ nodes'[k] = <<at[k]>> \o nodes[k] /\ nodes'[k] \in Seq(Slot \cup {NoSlot})
             /\ nodes[k] = <<>> => nodes'[k] = <<at[k]>>
  <2>1. k \in Name /\ at[k] \in Slot /\ nodes[k] \in Seq(Slot \cup {NoSlot})
    BY <1>r, <1>t DEF NodesType
  <2>2. nodes'[k] = <<at[k]>> \o nodes[k]
    BY <1>1, <2>1
  <2> QED
    BY <2>1, <2>2, PushedFacts
<1>9. \A k \in Name \ DOMAIN at : nodes'[k] = nodes[k]
  BY <1>1
<1>10. nodes' \in NodesType
  <2>1. ASSUME NEW k \in Name
        PROVE  (IF k \in DOMAIN at THEN <<at[k]>> \o nodes[k] ELSE nodes[k]) \in Seq(Slot \cup {NoSlot})
    BY <1>8, <1>t DEF NodesType
  <2> QED
    BY <1>1, <2>1 DEF NodesType
<1> QED
  BY <1>4, <1>5, <1>7, <1>8, <1>9, <1>10

LEMMA RegisterStep ==
  ASSUME IInv, NEW s \in Sock, NEW ks \in SUBSET Name, NEW b \in Backups(s), NEW at \in Room(ks),
         Register(s, ks, b, at)
  PROVE  IInv'
<1>t. /\ nodes \in NodesType /\ cache \in CacheType /\ online \subseteq Sock
      /\ doubtful \subseteq Name /\ Agrees(cache, nodes) /\ Typed
  BY DEF IInv, Typed
<1>r. /\ DOMAIN at \subseteq Name
      /\ \A k \in DOMAIN at : at[k] \in Slot /\ ~slot[at[k]].active
      /\ \A k, l \in DOMAIN at : at[k] = at[l] => k = l
  BY RoomFacts
<1>1. /\ online' = online \cup {s} /\ UNCHANGED cache
      /\ doubtful' = doubtful \cup {k \in DOMAIN at : nodes[k] # <<>>}
  BY DEF Register
<1>2. /\ \A k \in DOMAIN at : slot'[at[k]] = File(k, s, b)
      /\ \A i \in Slot : (\A k \in DOMAIN at : at[k] # i) => slot'[i] = slot[i]
      /\ slot' \in [Slot -> {NoFile} \cup FileType]
      /\ nodes' \in NodesType
      /\ \A k \in DOMAIN at : /\ nodes'[k] = <<at[k]>> \o nodes[k]
                              /\ nodes[k] = <<>> => nodes'[k] = <<at[k]>>
      /\ \A k \in Name \ DOMAIN at : nodes'[k] = nodes[k]
  BY <1>t, RegisterFacts
<1>3. \A k \in DOMAIN at : /\ slot'[at[k]].active /\ slot'[at[k]].name = k
                           /\ slot'[at[k]].ss = s
  BY <1>2, <1>r, <1>t, BackupFacts, FileFacts
<1>4. Agrees(cache', nodes')
  BY <1>1, <1>2, <1>r, <1>t, Pushed
<1>5. Typed'
  <2>1. doubtful' \subseteq Name
    BY <1>1, <1>r, <1>t
  <2> QED
    BY <1>1, <1>2, <1>t, <2>1 DEF Typed
<1>6. ASSUME NEW h \in Name \ doubtful' PROVE Exact(h)'
  <2>0. h \in Name \ doubtful
    BY <1>1, <1>6
  <2>1. CASE h \notin DOMAIN at
    <3>1. Exact(h) /\ nodes'[h] = nodes[h]
      BY <1>2, <2>0, <2>1 DEF IInv
    <3>2. ASSUME NEW i \in Slot
          PROVE  /\ slot'[i].active /\ slot'[i].name = h <=> slot[i].active /\ slot[i].name = h
                 /\ slot[i].active /\ slot[i].name = h => slot'[i].ss = slot[i].ss
      <4>1. CASE \E k \in DOMAIN at : at[k] = i
        BY <1>3, <1>r, <2>1, <4>1
      <4>2. CASE \A k \in DOMAIN at : at[k] # i
        <5>1. slot'[i] = slot[i]
          BY <1>2, <4>2
        <5> QED
          BY <5>1
      <4> QED
        BY <4>1, <4>2
    <3> QED
      BY <1>1, <3>1, <3>2, ExactStays
  <2>2. CASE h \in DOMAIN at
    <3>1. nodes[h] = <<>>
      BY <1>1, <1>6, <2>2
    <3>2. nodes'[h] = <<at[h]>>
      BY <1>2, <2>2, <3>1
    <3>3. ActiveNamed(h) = {}
      BY <2>0, <3>1, FoundFacts, FoundExact
    <3>4. ASSUME NEW i \in Slot \ {at[h]} PROVE ~(slot'[i].active /\ slot'[i].name = h)
      <4>1. CASE \E k \in DOMAIN at : at[k] = i
        BY <1>3, <2>2, <3>4, <4>1
      <4>2. CASE \A k \in DOMAIN at : at[k] # i
        <5>1. slot'[i] = slot[i]
          BY <1>2, <4>2
        <5> QED
          BY <3>3, <5>1 DEF ActiveNamed
      <4> QED
        BY <4>1, <4>2
    <3>5. ActiveNamed(h)' = {at[h]}
      BY <1>3, <1>r, <2>2, <3>4 DEF ActiveNamed
    <3>6. slot'[at[h]].ss \in online' /\ at[h] \in Slot
      BY <1>1, <1>3, <1>r, <2>2
    <3> QED
      BY <3>2, <3>5, <3>6 DEF Exact
  <2> QED
    BY <2>1, <2>2
<1> QED
  BY <1>1, <1>4, <1>5, <1>6, <1>t DEF IInv

LEMMA RestartStep ==
  ASSUME Restart
  PROVE  IInv'
<1> DEFINE empty == [k \in Name |-> <<>>]
<1>1. /\ slot' = [i \in Slot |-> NoFile] /\ nodes' = [k \in Name |-> <<>>]
      /\ cache' = [p \in Position |-> NoEntry] /\ online' = {} /\ doubtful' = {}
  BY DEF Restart
<1>2. Typed'
  BY <1>1 DEF Typed, NodesType, CacheType
<1>3. Agrees(cache', nodes')
  BY <1>1 DEF Agrees
<1>4. ASSUME NEW k \in Name PROVE Exact(k)'
  BY <1>1, NoFileFacts DEF Exact, ActiveNamed
<1> QED
  BY <1>2, <1>3, <1>4 DEF IInv, Agrees, Listed

LEMMA NextIInv == IInv /\ [Next]_vars => IInv'
<1> SUFFICES ASSUME IInv, [Next]_vars PROVE IInv'
  OBVIOUS
<1>1. online \subseteq Sock
  BY DEF IInv, Typed
<1>2. ASSUME UNCHANGED vars PROVE IInv'
  BY <1>2 DEF vars, IInv, Typed, Agrees, Listed, Exact, ActiveNamed
<1> QED
  BY <1>1, <1>2, LookupStep, CreateStep, DeleteStep, MoveStep, RegisterStep, RecoverStep,
     DisconnectStep, HeartbeatsFailStep, TurnsClientStep, RestartStep DEF Next

LEMMA InitIInv == Init => IInv
BY Initial DEF Init

(* The inductive invariant: names that are not doubtful have one node and  *)
(* one active entry, or neither, and the cache agrees with the nodes. *)
THEOREM CatalogInvariant == Spec => []IInv
BY InitIInv, NextIInv, PTL DEF Spec

(* Every entry that is or was in use names a file, a storage server and    *)
(* another one as its backup. *)
THEOREM CatalogTypeCorrect == Spec => []TypeOK
<1>1. IInv => TypeOK
  BY TypedIsTypeOK DEF IInv
<1> QED
  BY <1>1, CatalogInvariant, PTL

(* The cache holds what the hash table does, and each name once. *)
THEOREM CacheIsCoherent == Spec => []CacheIsInTable
<1>1. IInv => CacheIsInTable
  BY AgreesIsInTable DEF IInv
<1> QED
  BY <1>1, CatalogInvariant, PTL

(* Lookups find the one file of a name, at a storage server that is        *)
(* online, or tell that there is none: for every name that is not doubtful. *)
THEOREM LookupsAreExact == Spec => []LookupsFindTheFile
<1>1. IInv => LookupsFindTheFile
  BY FoundExact DEF LookupsFindTheFile
<1> QED
  BY <1>1, CatalogInvariant, PTL

-----------------------------------------------------------------------------
(* The refinement.  What Directory says of a name is told by the active    *)
(* entries of that name, as long as it is not doubtful. *)
LEMMA WhereFacts ==
  IInv => \A k \in Name :
    /\ Where[k] \in Sock \cup {NoSock}
    /\ Found(k) = NoSlot => Where[k] = NoSock
    /\ k \notin doubtful =>
         /\ ActiveNamed(k) = {} => Where[k] = NoSock
         /\ \A i \in ActiveNamed(k) : Where[k] = slot[i].ss /\ Where[k] # NoSock
         /\ Where[k] # NoSock <=> nodes[k] # <<>>
<1> SUFFICES ASSUME IInv, NEW k \in Name
             PROVE  /\ Where[k] \in Sock \cup {NoSock}
                    /\ Found(k) = NoSlot => Where[k] = NoSock
                    /\ k \notin doubtful =>
                         /\ ActiveNamed(k) = {} => Where[k] = NoSock
                         /\ \A i \in ActiveNamed(k) : Where[k] = slot[i].ss /\ Where[k] # NoSock
                         /\ Where[k] # NoSock <=> nodes[k] # <<>>
  OBVIOUS
<1>t. slot \in [Slot -> {NoFile} \cup FileType] /\ online \subseteq Sock
  BY DEF IInv, Typed
<1>1. Where[k] = IF Found(k) = NoSlot THEN NoSock ELSE slot[Found(k)].ss
  BY DEF Where
<1>2. Where[k] \in Sock \cup {NoSock}
  <2>1. Found(k) \in Slot \cup {NoSlot}
    BY FoundFacts
  <2>2. \A i \in Slot : slot[i].ss \in Sock \cup {NoSock}
    BY <1>t, NoFileFacts DEF FileType
  <2> QED
    BY <1>1, <2>1, <2>2
<1>3. CASE k \notin doubtful /\ Found(k) = NoSlot
  BY <1>1, <1>2, <1>3, FoundExact
<1>4. CASE k \notin doubtful /\ Found(k) # NoSlot
  <2>1. /\ Found(k) \in Slot /\ nodes[k] = <<Found(k)>>
        /\ ActiveNamed(k) = {Found(k)} /\ slot[Found(k)].ss \in online
    BY <1>4, FoundExact
  <2>2. Where[k] = slot[Found(k)].ss /\ Where[k] # NoSock
    BY <1>1, <1>4, <1>t, <2>1, CatalogAssumption
  <2>3. nodes[k] # <<>>
    BY <1>4, FoundFacts
  <2> QED
    BY <1>2, <1>4, <2>1, <2>2, <2>3
<1> QED
  BY <1>1, <1>2, <1>3, <1>4

LEMMA WhereFactsLater ==
  IInv' => \A k \in Name :
    /\ Where'[k] \in Sock \cup {NoSock}
    /\ k \notin doubtful' =>
         /\ ActiveNamed(k)' = {} => Where'[k] = NoSock
         /\ \A i \in ActiveNamed(k)' : Where'[k] = slot'[i].ss
<1>1. (IInv => \A k \in Name :
         /\ Where[k] \in Sock \cup {NoSock}
         /\ k \notin doubtful =>
              /\ ActiveNamed(k) = {} => Where[k] = NoSock
              /\ \A i \in ActiveNamed(k) : Where[k] = slot[i].ss)'
  <2>1. IInv => \A k \in Name :
         /\ Where[k] \in Sock \cup {NoSock}
         /\ k \notin doubtful =>
              /\ ActiveNamed(k) = {} => Where[k] = NoSock
              /\ \A i \in ActiveNamed(k) : Where[k] = slot[i].ss
    BY WhereFacts
  <2> QED
    BY <2>1, PTL
<1> QED
  BY <1>1

(* A name whose active entries do not change stays where it is. *)
LEMMA WhereStays ==
  ASSUME IInv, IInv', NEW h \in Name, h \notin doubtful, h \notin doubtful',
         \A i \in Slot : slot'[i].active /\ slot'[i].name = h
                         <=> slot[i].active /\ slot[i].name = h,
         \A i \in Slot : slot[i].active /\ slot[i].name = h => slot'[i].ss = slot[i].ss
  PROVE  Where'[h] = Where[h]
<1>1. ActiveNamed(h)' = ActiveNamed(h)
  BY DEF ActiveNamed
<1>2. CASE ActiveNamed(h) = {}
  BY <1>1, <1>2, WhereFacts, WhereFactsLater
<1>3. ASSUME NEW i \in ActiveNamed(h) PROVE Where'[h] = Where[h]
  <2>1. i \in Slot /\ slot[i].active /\ slot[i].name = h
    BY DEF ActiveNamed
  <2>2. slot'[i].ss = slot[i].ss
    BY <2>1
  <2> QED
    BY <1>1, <2>2, WhereFacts, WhereFactsLater
<1> QED
  BY <1>2, <1>3

(* From Settles only the names that are not doubtful are left to show. *)
LEMMA SettlesFacts ==
  ASSUME IInv', NEW w, NEW d, doubtful' = doubtful \cup d,
         \A k \in Name \ doubtful' : Where'[k] = w[k]
  PROVE  Dir!Settles(w, d)
<1>1. Where' \in [Name -> Sock \cup {NoSock}]
  <2>1. Where' = [k \in Name |-> Where'[k]]
    BY DEF Where
  <2>2. \A k \in Name : Where'[k] \in Sock \cup {NoSock}
    BY WhereFactsLater
  <2> QED
    BY <2>1, <2>2
<1> QED
  BY <1>1 DEF Dir!Settles

LEMMA LookupDoubts ==
  ASSUME IInv, IInv', NEW k \in Name, Lookup(k)
  PROVE  Dir!Doubt
<1>1. UNCHANGED <<slot, doubtful>>
  BY DEF Lookup
<1>2. \A h \in Name \ doubtful' : Where'[h] = Where[h]
  BY <1>1, WhereStays
<1>3. Dir!Settles(Where, {})
  BY <1>1, <1>2, SettlesFacts
<1> QED
  BY <1>3 DEF Dir!Doubt

LEMMA CreateCreates ==
  ASSUME IInv, IInv', NEW k \in Name, NEW s \in Sock, NEW b \in Backups(s),
         NEW i \in Slot \cup {NoSlot}, Create(k, s, b, i)
  PROVE  Dir!Create(k, s)
<1>t. slot \in [Slot -> {NoFile} \cup FileType] /\ online \subseteq Sock
  BY DEF IInv, Typed
<1> DEFINE e == File(k, s, b)
           d == IF i = NoSlot THEN {k} ELSE {}
           w == [Where EXCEPT ![k] = s]
<1>1. /\ Found(k) = NoSlot /\ doubtful' = doubtful \cup d
      /\ slot' = IF i = NoSlot THEN slot ELSE [slot EXCEPT ![i] = e]
      /\ i # NoSlot => i \in Slot /\ ~slot[i].active
  BY DEF Create, Free
<1>2. e.active /\ e.name = k /\ e.ss = s
  BY <1>t, BackupFacts, FileFacts
<1>3. Where[k] = NoSock
  BY <1>1, WhereFacts
<1>4. DOMAIN Where = Name
  BY DEF Where
<1> HIDE DEF e
<1>5. ASSUME NEW h \in Name \ doubtful' PROVE Where'[h] = w[h]
  <2>1. CASE h # k
    <3>1. \A j \in Slot : slot'[j].active /\ slot'[j].name = h
                          <=> slot[j].active /\ slot[j].name = h
      BY <1>1, <1>2, <1>t, <2>1
    <3>2. \A j \in Slot : slot[j].active /\ slot[j].name = h => slot'[j].ss = slot[j].ss
      BY <1>1, <1>t
    <3>3. h \notin doubtful /\ h \notin doubtful'
      BY <1>1, <1>5
    <3>4. Where'[h] = Where[h]
      BY <3>1, <3>2, <3>3, WhereStays
    <3> QED
      BY <1>4, <2>1, <3>4
  <2>2. CASE h = k
    <3>1. i # NoSlot
      BY <1>1, <1>5, <2>2
    <3>2. slot'[i] = e
      BY <1>1, <1>t, <3>1
    <3>3. i \in ActiveNamed(k)'
      BY <1>1, <1>2, <3>1, <3>2 DEF ActiveNamed
    <3>4. Where'[k] = s
      BY <1>2, <1>5, <2>2, <3>2, <3>3, WhereFactsLater
    <3> QED
      BY <1>4, <2>2, <3>4
  <2> QED
    BY <2>1, <2>2
<1>6. Dir!Settles(w, d)
  BY <1>1, <1>5, SettlesFacts
<1>7. d \in SUBSET {k}
  OBVIOUS
<1> QED
  BY <1>3, <1>6, <1>7 DEF Dir!Create

LEMMA DeleteDeletes ==
  ASSUME IInv, IInv', NEW k \in Name, NEW i \in Slot, Delete(k, i)
  PROVE  Dir!Delete(k)
<1>t. slot \in [Slot -> {NoFile} \cup FileType]
  BY DEF IInv, Typed
<1> DEFINE old == slot[i].name
           e   == [slot[i] EXCEPT !.active = FALSE]
           d   == IF k \in doubtful THEN {old} ELSE {}
           w   == IF k \in doubtful THEN Where ELSE [Where EXCEPT ![k] = NoSock]
<1>1. /\ slot[i] \in FileType /\ old \in Name
      /\ k \notin doubtful => old = k /\ slot[i].active /\ ActiveNamed(k) = {i}
  BY FoundOnlineFacts DEF Delete
<1>2. slot' = [slot EXCEPT ![i] = e] /\ doubtful' = doubtful \cup d
  BY DEF Delete
<1>3. e \in {NoFile} \cup FileType /\ ~e.active
  BY <1>1, SwitchedFacts, Zenon
<1>4. k \notin doubtful => Where[k] # NoSock
  BY <1>1, WhereFacts
<1>5. DOMAIN Where = Name
  BY DEF Where
<1> HIDE DEF e
<1>6. ASSUME NEW h \in Name \ doubtful' PROVE Where'[h] = w[h]
  <2>0. h \notin doubtful /\ h \notin doubtful'
    BY <1>2, <1>6
  <2>1. CASE h # old
    <3>1. \A j \in Slot : slot'[j].active /\ slot'[j].name = h
                          <=> slot[j].active /\ slot[j].name = h
      BY <1>2, <1>3, <1>t, <2>1
    <3>2. \A j \in Slot : slot[j].active /\ slot[j].name = h => slot'[j].ss = slot[j].ss
      BY <1>2, <1>t, <2>1
    <3>3. Where'[h] = Where[h]
      BY <2>0, <3>1, <3>2, WhereStays
    <3> QED
      BY <1>1, <1>5, <2>1, <3>3
  <2>2. CASE h = old
    <3>1. k \notin doubtful /\ h = k
      BY <1>1, <1>2, <1>6, <2>2
    <3>2. slot'[i] = e /\ \A j \in Slot \ {i} : slot'[j] = slot[j]
      BY <1>2, <1>t
    <3>3. ActiveNamed(k)' = {}
      BY <1>1, <1>3, <3>1, <3>2 DEF ActiveNamed
    <3>4. Where'[k] = NoSock
      BY <2>0, <3>1, <3>3, WhereFactsLater
    <3> QED
      BY <1>5, <3>1, <3>4
  <2> QED
    BY <2>1, <2>2
<1>7. Dir!Settles(w, d)
  BY <1>2, <1>6, SettlesFacts
<1>8. CASE k \in doubtful
  <2>1. Dir!Settles(Where, {old})
    BY <1>7, <1>8
  <2> QED
    BY <1>1, <1>8, <2>1 DEF Dir!Delete
<1>9. CASE k \notin doubtful
  <2>1. Dir!Settles([Where EXCEPT ![k] = NoSock], {})
    BY <1>7, <1>9
  <2> QED
    BY <1>4, <1>9, <2>1 DEF Dir!Delete
<1> QED
  BY <1>8, <1>9

LEMMA MoveMoves ==
  ASSUME IInv, IInv', NEW k \in Name, NEW g \in Name, NEW i \in Slot, Move(k, g, i)
  PROVE  Dir!Move(k, g)
<1>t. slot \in [Slot -> {NoFile} \cup FileType] /\ nodes \in NodesType
  BY DEF IInv, Typed
<1> DEFINE old  == slot[i].name
           e    == [slot[i] EXCEPT !.name = g]
           less == [nodes EXCEPT ![old] = Dropped(@, 1)]
           w    == [Where EXCEPT ![k] = NoSock, ![g] = Where[k]]
<1>1. /\ slot[i] \in FileType /\ old \in Name
      /\ k \notin doubtful => old = k /\ slot[i].active /\ nodes[k] = <<i>> /\ ActiveNamed(k) = {i}
  BY FoundOnlineFacts DEF Move
<1>2. /\ slot' = [slot EXCEPT ![i] = e]
      /\ doubtful' = doubtful \cup (IF k \in doubtful THEN {old, g}
                                    ELSE IF less[g] # <<>> THEN {g} ELSE {})
  BY DEF Move
<1>3. e.active = slot[i].active /\ e.name = g /\ e.ss = slot[i].ss
  BY <1>1, RenamedFacts
<1>4. k \notin doubtful => Where[k] # NoSock /\ Where[k] = slot[i].ss
  BY <1>1, WhereFacts
<1>5. DOMAIN Where = Name
  BY DEF Where
<1>6. slot'[i] = e /\ \A j \in Slot \ {i} : slot'[j] = slot[j]
  BY <1>2, <1>t
<1> HIDE DEF e
<1>7. k \notin doubtful =>
        doubtful' = doubtful \cup (IF g # k /\ Where[g] # NoSock THEN {g} ELSE {})
  <2> SUFFICES ASSUME k \notin doubtful
               PROVE  doubtful' = doubtful \cup (IF g # k /\ Where[g] # NoSock THEN {g} ELSE {})
    OBVIOUS
  <2>1. CASE g = k
    <3>1. less[k] = <<>>
      <4>1. nodes[k] \in Seq(Slot \cup {NoSlot}) /\ Len(<<i>>) = 1
        BY <1>t DEF NodesType
      <4>2. Len(nodes[k]) = 1
        BY <1>1, <4>1
      <4>3. Dropped(nodes[k], 1) = <<>>
        BY <4>1, <4>2, DroppedFacts
      <4> QED
        BY <1>1, <1>t, <4>3 DEF NodesType
    <3> QED
      BY <1>2, <2>1, <3>1
  <2>2. CASE g # k
    <3>1. less[g] = nodes[g]
      BY <1>1, <1>t, <2>2 DEF NodesType
    <3>2. g \notin doubtful => (nodes[g] # <<>> <=> Where[g] # NoSock)
      BY WhereFacts
    <3> HIDE DEF less
    <3>3. doubtful' = doubtful \cup (IF nodes[g] # <<>> THEN {g} ELSE {})
      BY <1>2, <3>1
    <3> QED
      BY <2>2, <3>2, <3>3
  <2> QED
    BY <2>1, <2>2
<1> HIDE DEF less
<1>8. ASSUME NEW h \in Name \ doubtful', h # old, h # g PROVE Where'[h] = Where[h]
  <2>1. \A j \in Slot : slot'[j].active /\ slot'[j].name = h
                        <=> slot[j].active /\ slot[j].name = h
    BY <1>3, <1>6, <1>8
  <2>2. \A j \in Slot : slot[j].active /\ slot[j].name = h => slot'[j].ss = slot[j].ss
    BY <1>3, <1>6
  <2>3. h \notin doubtful /\ h \notin doubtful'
    BY <1>2, <1>8
  <2> QED
    BY <2>1, <2>2, <2>3, WhereStays
<1>9. CASE k \in doubtful
  <2>1. doubtful' = doubtful \cup {g, old}
    BY <1>2, <1>9
  <2>2. \A h \in Name \ doubtful' : Where'[h] = Where[h]
    BY <1>8, <2>1
  <2>3. Dir!Settles(Where, {g, old})
    BY <2>1, <2>2, SettlesFacts
  <2> QED
    BY <1>1, <1>9, <2>3 DEF Dir!Move
<1>10. CASE k \notin doubtful
  <2> DEFINE d == IF g # k /\ Where[g] # NoSock THEN {g} ELSE {}
  <2>1. doubtful' = doubtful \cup d
    BY <1>7, <1>10
  <2>2. ASSUME NEW h \in Name \ doubtful' PROVE Where'[h] = w[h]
    <3>1. CASE h # k /\ h # g
      BY <1>1, <1>5, <1>8, <1>10, <2>2, <3>1
    <3>2. CASE h = g
      <4>1. i \in ActiveNamed(g)'
        BY <1>1, <1>3, <1>6, <1>10 DEF ActiveNamed
      <4>2. Where'[g] = slot'[i].ss
        BY <2>2, <3>2, <4>1, WhereFactsLater
      <4>3. Where'[g] = Where[k]
        BY <1>3, <1>4, <1>6, <1>10, <4>2
      <4> QED
        BY <1>5, <3>2, <4>3
    <3>3. CASE h = k /\ h # g
      <4>1. ActiveNamed(k)' = {}
        BY <1>1, <1>3, <1>6, <1>10, <3>3 DEF ActiveNamed
      <4>2. Where'[k] = NoSock
        BY <2>2, <3>3, <4>1, WhereFactsLater
      <4> QED
        BY <1>5, <3>3, <4>2
    <3> QED
      BY <3>1, <3>2, <3>3
  <2>3. Dir!Settles(w, d)
    BY <2>1, <2>2, SettlesFacts
  <2> QED
    BY <1>4, <1>10, <2>3 DEF Dir!Move
<1> QED
  BY <1>9, <1>10

LEMMA RegisterArrives ==
  ASSUME IInv, IInv', NEW s \in Sock, NEW ks \in SUBSET Name, NEW b \in Backups(s),
         NEW at \in Room(ks), Register(s, ks, b, at)
  PROVE  \E f \in SUBSET Name : Dir!Arrives(s, f)
<1>t. Typed /\ online \subseteq Sock
  BY DEF IInv, Typed
<1>r. DOMAIN at \subseteq Name /\ \A k \in DOMAIN at : at[k] \in Slot /\ ~slot[at[k]].active
  BY RoomFacts
<1> DEFINE f == DOMAIN at
           d == {k \in f : Where[k] # NoSock}
           w == [k \in Name |-> IF k \in f THEN s ELSE Where[k]]
<1>1. /\ \A k \in f : slot'[at[k]] = File(k, s, b)
      /\ \A i \in Slot : (\A k \in f : at[k] # i) => slot'[i] = slot[i]
  BY <1>t, RegisterFacts
<1>2. \A k \in f : slot'[at[k]].active /\ slot'[at[k]].name = k /\ slot'[at[k]].ss = s
  BY <1>1, <1>r, <1>t, BackupFacts, FileFacts
<1>3. doubtful' = doubtful \cup d
  <2>1. doubtful' = doubtful \cup {k \in f : nodes[k] # <<>>}
    BY DEF Register
  <2>2. \A k \in f \ doubtful : nodes[k] # <<>> <=> Where[k] # NoSock
    BY <1>r, WhereFacts
  <2> QED
    BY <2>1, <2>2
<1>4. ASSUME NEW h \in Name \ doubtful' PROVE Where'[h] = w[h]
  <2>1. CASE h \in f
    <3>1. at[h] \in ActiveNamed(h)'
      BY <1>2, <1>r, <2>1 DEF ActiveNamed
    <3>2. Where'[h] = s
      BY <1>2, <1>4, <2>1, <3>1, WhereFactsLater
    <3> QED
      BY <2>1, <3>2
  <2>2. CASE h \notin f
    <3>1. ASSUME NEW i \in Slot
          PROVE  /\ slot'[i].active /\ slot'[i].name = h <=> slot[i].active /\ slot[i].name = h
                 /\ slot[i].active /\ slot[i].name = h => slot'[i].ss = slot[i].ss
      <4>1. CASE \E k \in f : at[k] = i
        BY <1>2, <1>r, <2>2, <4>1
      <4>2. CASE \A k \in f : at[k] # i
        <5>1. slot'[i] = slot[i]
          BY <1>1, <4>2
        <5> QED
          BY <5>1
      <4> QED
        BY <4>1, <4>2
    <3>2. h \notin doubtful /\ h \notin doubtful'
      BY <1>3, <1>4
    <3>3. Where'[h] = Where[h]
      BY <3>1, <3>2, WhereStays
    <3> QED
      BY <2>2, <3>3
  <2> QED
    BY <2>1, <2>2
<1>5. Dir!Settles(w, d)
  BY <1>3, <1>4, SettlesFacts
<1>6. Dir!Arrives(s, f)
  BY <1>5 DEF Dir!Arrives
<1> QED
  BY <1>6, <1>r

LEMMA DisconnectLeaves ==
  ASSUME IInv, IInv', NEW s \in Sock, Disconnect(s)
  PROVE  Dir!Leaves(s)
<1> DEFINE w == [k \in Name |-> IF Where[k] = s THEN NoSock ELSE Where[k]]
<1>1. \A i \in Slot : /\ slot'[i].active <=> (slot[i].active /\ slot[i].ss # s)
                      /\ slot'[i].name = slot[i].name /\ slot'[i].ss = slot[i].ss
  BY SwitchedOff DEF Disconnect, IInv
<1>2. UNCHANGED doubtful
  BY DEF Disconnect
<1>3. ASSUME NEW h \in Name \ doubtful' PROVE Where'[h] = w[h]
  <2>0. h \notin doubtful /\ Exact(h)
    BY <1>2, <1>3 DEF IInv
  <2>1. CASE ActiveNamed(h) = {}
    <3>1. ActiveNamed(h)' = {}
      BY <1>1, <2>1 DEF ActiveNamed
    <3>2. Where[h] = NoSock /\ Where'[h] = NoSock
      BY <1>3, <2>0, <2>1, <3>1, WhereFacts, WhereFactsLater
    <3> QED
      BY <3>2
  <2>2. ASSUME NEW i \in Slot, ActiveNamed(h) = {i} PROVE Where'[h] = w[h]
    <3>1. Where[h] = slot[i].ss
      BY <2>0, <2>2, WhereFacts
    <3>2. CASE slot[i].ss = s
      <4>1. ActiveNamed(h)' = {}
        BY <1>1, <2>2, <3>2 DEF ActiveNamed
      <4>2. Where'[h] = NoSock
        BY <1>3, <4>1, WhereFactsLater
      <4> QED
        BY <3>1, <3>2, <4>2
    <3>3. CASE slot[i].ss # s
      <4>1. i \in ActiveNamed(h)'
        BY <1>1, <2>2, <3>3 DEF ActiveNamed
      <4>2. Where'[h] = slot[i].ss
        BY <1>1, <1>3, <4>1, WhereFactsLater
      <4> QED
        BY <3>1, <3>3, <4>2
    <3> QED
      BY <3>2, <3>3
  <2> QED
    BY <2>0, <2>1, <2>2 DEF Exact
<1>4. Dir!Settles(w, {})
  BY <1>2, <1>3, SettlesFacts
<1> QED
  BY <1>4 DEF Dir!Leaves

(* What leaves doubtful names behind changes no other name. *)
LEMMA DoubtDoubts ==
  ASSUME IInv, IInv', NEW s \in Sock, Recover(s) \/ HeartbeatsFail(s) \/ TurnsClient(s)
  PROVE  Dir!Doubt
<1> DEFINE Stays(d) == \A h \in Name \ (doubtful \cup d) : \A i \in Slot :
             /\ slot'[i].active /\ slot'[i].name = h <=> slot[i].active /\ slot[i].name = h
             /\ slot[i].active /\ slot[i].name = h => slot'[i].ss = slot[i].ss
<1>t. slot \in [Slot -> {NoFile} \cup FileType] /\ doubtful' \subseteq Name
  BY DEF IInv, Typed
<1>1. \E d : doubtful' = doubtful \cup d /\ Stays(d)
  <2>1. CASE Recover(s)
    <3> DEFINE d == NamesOf(Recovered(s))
    <3>1. /\ doubtful' = doubtful \cup d
          /\ \A i \in Recovered(s) : slot'[i] = [slot[i] EXCEPT !.active = TRUE] /\ slot[i].name \in d
                                     /\ ~slot[i].active
          /\ \A i \in Slot \ Recovered(s) : slot'[i] = slot[i]
      BY <2>1 DEF Recover, Recovered, Lost, Free, NamesOf
    <3>2. ASSUME NEW i \in Recovered(s) PROVE slot'[i].name = slot[i].name
      <4>1. i \in Slot /\ slot[i].ss = s
        BY DEF Recovered, Lost, Free
      <4>2. slot[i] \in FileType
        BY <1>t, <4>1, NoFileFacts, CatalogAssumption
      <4> QED
        BY <3>1, <4>2 DEF FileType
    <3>3. Stays(d)
      BY <3>1, <3>2
    <3> QED
      BY <3>1, <3>3
  <2>2. CASE HeartbeatsFail(s)
    <3> DEFINE d == NamesOf(FilesOf(s))
    <3>1. /\ doubtful' = doubtful \cup d
          /\ \A i \in Slot : /\ slot'[i].active <=> (slot[i].active /\ slot[i].ss # s)
                             /\ slot'[i].name = slot[i].name /\ slot'[i].ss = slot[i].ss
      BY <2>2, SwitchedOff DEF HeartbeatsFail, IInv
    <3>2. \A i \in Slot : slot[i].active /\ slot[i].ss = s => slot[i].name \in d
      BY DEF NamesOf, FilesOf
    <3>3. Stays(d)
      BY <3>1, <3>2
    <3> QED
      BY <3>1, <3>3
  <2>3. CASE TurnsClient(s)
    <3>1. UNCHANGED slot /\ doubtful' = doubtful \cup NamesOf(FilesOf(s))
      BY <2>3 DEF TurnsClient
    <3>2. Stays(NamesOf(FilesOf(s)))
      BY <3>1
    <3> QED
      BY <3>1, <3>2
  <2> QED
    BY <2>1, <2>2, <2>3
<1>2. PICK d : doubtful' = doubtful \cup d /\ Stays(d)
  BY <1>1
<1>3. \A h \in Name \ doubtful' : Where'[h] = Where[h]
  BY <1>2, WhereStays
<1>4. Dir!Settles(Where, d)
  BY <1>2, <1>3, SettlesFacts
<1>5. d \in SUBSET Name
  BY <1>2, <1>t
<1> QED
  BY <1>4, <1>5 DEF Dir!Doubt

(* With nothing listed, nothing is anywhere. *)
LEMMA RestartResets ==
  ASSUME IInv', Restart
  PROVE  Dir!Reset
<1>1. slot' = [i \in Slot |-> NoFile] /\ doubtful' = {}
  BY DEF Restart
<1>2. ASSUME NEW k \in Name PROVE Where'[k] = NoSock
  <2>1. ActiveNamed(k)' = {}
    BY <1>1, NoFileFacts DEF ActiveNamed
  <2> QED
    BY <1>1, <2>1, WhereFactsLater
<1>3. Where' = [k \in Name |-> Where'[k]]
  BY DEF Where
<1>4. Where' = [k \in Name |-> NoSock]
  BY <1>2, <1>3
<1> QED
  BY <1>1, <1>4 DEF Dir!Reset

LEMMA DirectoryInit == Init => Dir!Init
<1> SUFFICES ASSUME Init PROVE Dir!Init
  OBVIOUS
<1>1. IInv /\ slot = [i \in Slot |-> NoFile] /\ doubtful = {}
  BY InitIInv DEF Init
<1>2. ASSUME NEW k \in Name PROVE Where[k] = NoSock
  <2>1. ActiveNamed(k) = {}
    BY <1>1, NoFileFacts DEF ActiveNamed
  <2> QED
    BY <1>1, <2>1, WhereFacts
<1>3. Where = [k \in Name |-> Where[k]]
  BY DEF Where
<1>4. Where = [k \in Name |-> NoSock]
  BY <1>2, <1>3
<1> QED
  BY <1>1, <1>4 DEF Dir!Init

LEMMA DirectoryNext == IInv /\ IInv' /\ [Next]_vars => [Dir!Next]_Dir!vars
<1> SUFFICES ASSUME IInv, IInv', [Next]_vars PROVE [Dir!Next]_Dir!vars
  OBVIOUS
<1>1. online \subseteq Sock
  BY DEF IInv, Typed
<1>2. CASE UNCHANGED vars
  <2>1. UNCHANGED <<slot, nodes, cache, doubtful>>
    BY <1>2 DEF vars
  <2>2. UNCHANGED Where
    BY <2>1 DEF Where, Found, Cached, CachedSlot, Holds
  <2> QED
    BY <2>1, <2>2 DEF Dir!vars
<1>3. ASSUME NEW k \in Name, Lookup(k) PROVE Dir!Next
  BY <1>3, LookupDoubts DEF Dir!Next
<1>4. ASSUME NEW k \in Name, NEW s \in online, NEW i \in Slot \cup {NoSlot}, NEW b \in Backups(s),
             Create(k, s, b, i)
      PROVE  Dir!Next
  BY <1>1, <1>4, CreateCreates DEF Dir!Next
<1>5. ASSUME NEW k \in Name, NEW i \in Slot, Delete(k, i) PROVE Dir!Next
  BY <1>5, DeleteDeletes DEF Dir!Next
<1>6. ASSUME NEW k \in Name, NEW g \in Name, NEW i \in Slot, Move(k, g, i) PROVE Dir!Next
  BY <1>6, MoveMoves DEF Dir!Next
<1>7. ASSUME NEW s \in Sock, NEW ks \in SUBSET Name, NEW b \in Backups(s), NEW at \in Room(ks),
             Register(s, ks, b, at)
      PROVE  Dir!Next
  BY <1>7, RegisterArrives DEF Dir!Next
<1>8. ASSUME NEW s \in Sock, Disconnect(s) PROVE Dir!Next
  BY <1>8, DisconnectLeaves DEF Dir!Next
<1>9. ASSUME NEW s \in Sock, Recover(s) \/ HeartbeatsFail(s) \/ TurnsClient(s) PROVE Dir!Next
  BY <1>9, DoubtDoubts DEF Dir!Next
<1>10. ASSUME Restart PROVE Dir!Next
  BY <1>10, RestartResets DEF Dir!Next
<1> QED
  BY <1>2, <1>3, <1>4, <1>5, <1>6, <1>7, <1>8, <1>9, <1>10 DEF Next

(* Hash table, cache and slots cannot be told from a function from names to *)
(* storage servers that changes as Directory says. *)
THEOREM CatalogIsDirectory == Spec => ImplementsDirectory
BY DirectoryInit, DirectoryNext, CatalogInvariant, PTL DEF Spec, ImplementsDirectory, Dir!Spec
=============================================================================
