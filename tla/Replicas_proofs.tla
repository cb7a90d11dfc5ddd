-------------------------- MODULE Replicas_proofs ---------------------------
(* Proofs about Replicas, for every set of machines, names, descriptors,    *)
(* slots and contents, any number of failures and of doubtful names: the    *)
(* name server does what Catalog says, what it lists is stored, and         *)
(* originals contain what was committed.                                    *)
EXTENDS Replicas, Catalog_proofs

Content == Version \cup Gone
DiskType == [Machine -> [Name -> Content]]

(* What is on the disks after one machine was told about one name ...       *)
LEMMA PutFacts ==
  ASSUME NEW ds \in DiskType, NEW s, NEW k \in Name, NEW c \in Content,
         at \in [Sock -> Machine \cup {Nobody}]
  PROVE  /\ Put(ds, s, k, c) \in DiskType
         /\ \A m \in Machine, h \in Name :
              Put(ds, s, k, c)[m][h] = IF s \in Sock /\ at[s] = m /\ h = k THEN c ELSE ds[m][h]
<1>1. CASE s \in Sock /\ at[s] # Nobody
  <2>1. Put(ds, s, k, c) = [ds EXCEPT ![at[s]] = [ds[at[s]] EXCEPT ![k] = c]] /\ at[s] \in Machine
    BY <1>1 DEF Put
  <2> QED
    BY <1>1, <2>1 DEF DiskType
<1>2. CASE ~(s \in Sock /\ at[s] # Nobody)
  <2>1. Put(ds, s, k, c) = ds
    BY <1>2 DEF Put
  <2> QED
    BY <1>2, <2>1, ReplicasAssumption
<1> QED
  BY <1>1, <1>2

LEMMA PutElsewhere ==
  ASSUME NEW ds \in DiskType, NEW s, NEW k \in Name, NEW c \in Content,
         at \in [Sock -> Machine \cup {Nobody}]
  PROVE  /\ Put(ds, s, k, c) \in DiskType
         /\ \A m \in Machine, h \in Name \ {k} : Put(ds, s, k, c)[m][h] = ds[m][h]
<1>1. CASE s \in Sock /\ at[s] # Nobody
  <2>1. Put(ds, s, k, c) = [ds EXCEPT ![at[s]] = [ds[at[s]] EXCEPT ![k] = c]] /\ at[s] \in Machine
    BY <1>1 DEF Put
  <2> QED
    BY <2>1 DEF DiskType
<1>2. CASE ~(s \in Sock /\ at[s] # Nobody)
  <2>1. Put(ds, s, k, c) = ds
    BY <1>2 DEF Put
  <2> QED
    BY <2>1
<1> QED
  BY <1>1, <1>2

(* ... or got copies of several.                                            *)
LEMMA ReplicatedFacts ==
  ASSUME NEW ds \in DiskType, NEW b, NEW ks, at \in [Sock -> Machine \cup {Nobody}]
  PROVE  /\ Replicated(ds, b, ks) \in DiskType
         /\ \A m \in Machine, h \in Name :
              Replicated(ds, b, ks)[m][h] =
                IF b \in Sock /\ at[b] = m /\ h \in ks THEN Empty ELSE ds[m][h]
<1>1. CASE b \in Sock /\ at[b] # Nobody
  <2> DEFINE d == [k \in Name |-> IF k \in ks THEN Empty ELSE ds[at[b]][k]]
  <2>1. Replicated(ds, b, ks) = [ds EXCEPT ![at[b]] = d] /\ at[b] \in Machine
    BY <1>1 DEF Replicated
  <2>2. d \in [Name -> Content]
    BY <2>1, ReplicasAssumption DEF DiskType, Content, Gone
  <2>3. \A h \in Name : d[h] = IF h \in ks THEN Empty ELSE ds[at[b]][h]
    OBVIOUS
  <2> HIDE DEF d
  <2>4. Replicated(ds, b, ks) \in DiskType
    BY <2>1, <2>2 DEF DiskType
  <2>5. ASSUME NEW m \in Machine, NEW h \in Name
        PROVE  Replicated(ds, b, ks)[m][h] =
                 IF b \in Sock /\ at[b] = m /\ h \in ks THEN Empty ELSE ds[m][h]
    BY <1>1, <2>1, <2>3 DEF DiskType
  <2> QED
    BY <2>4, <2>5
<1>2. CASE ~(b \in Sock /\ at[b] # Nobody)
  <2>1. Replicated(ds, b, ks) = ds
    BY <1>2 DEF Replicated
  <2> QED
    BY <1>2, <2>1, ReplicasAssumption
<1> QED
  BY <1>1, <1>2

-----------------------------------------------------------------------------
(* The name server does what Catalog says.                                  *)
LEMMA RNextIsNext ==
  ASSUME RNext
  PROVE  [Next]_vars
<1>1. ASSUME NEW k \in Name, RLookup(k) PROVE Next
  BY <1>1 DEF RLookup, Next
<1>2. ASSUME NEW k \in Name, NEW v, Write(k, v) PROVE Next
  BY <1>2 DEF Write, Next
<1>3. ASSUME NEW k \in Name, NEW s \in online, NEW i \in Slot \cup {NoSlot}, NEW b \in Backups(s),
             RCreate(k, s, b, i)
      PROVE  Next
  BY <1>3 DEF RCreate, Next
<1>4. ASSUME NEW k \in Name, NEW i \in Slot, RDelete(k, i) PROVE Next
  BY <1>4 DEF RDelete, Next
<1>5. ASSUME NEW k \in Name, NEW g \in Name, NEW i \in Slot, RMove(k, g, i) PROVE Next
  BY <1>5 DEF RMove, Next
<1>6. ASSUME NEW s \in Sock, NEW m \in Machine, RRecover(m, s) PROVE Next
  BY <1>6 DEF RRecover, Next
<1>7. ASSUME NEW s \in Sock, NEW m \in Machine, NEW b \in Backups(s), NEW to \in Room(Files(m)),
             RRegister(m, s, b, to)
      PROVE  Next
  <2>1. Files(m) \in SUBSET Name
    BY DEF Files
  <2> QED
    BY <1>7, <2>1 DEF RRegister, Next
<1>8. ASSUME NEW s \in Sock, Ends(s) PROVE UNCHANGED vars
  BY <1>8 DEF Ends
<1>9. ASSUME NEW s \in Sock, RDisconnect(s) PROVE Next
  BY <1>9 DEF RDisconnect, Next
<1>10. ASSUME NEW s \in Sock, RHeartbeatsFail(s) \/ RTurnsClient(s) PROVE Next
  BY <1>10 DEF RHeartbeatsFail, RTurnsClient, Next
<1>11. RRestart => Next
  BY DEF RRestart, Next
<1>12. ASSUME NEW k \in Name, NEW i \in Slot, RUndo(k, i) PROVE Next
  BY <1>12 DEF RUndo, Next
<1> QED
  BY <1>1, <1>2, <1>3, <1>4, <1>5, <1>6, <1>7, <1>8, <1>9, <1>10, <1>11, <1>12
     DEF RNext, Requests, Undos, Arrivals, Failures

(* Replicas adds storage servers to Catalog and takes nothing away: all     *)
(* that holds of the catalog holds here.                                    *)
THEOREM ReplicasImplementCatalog == RSpec => Spec
<1>1. RInit => Init
  BY DEF RInit
<1>2. [RNext]_rvars => [Next]_vars
  BY RNextIsNext DEF rvars, vars
<1> QED
  BY <1>1, <1>2, PTL DEF RSpec, Spec

-----------------------------------------------------------------------------
(* The inductive invariant. *)
RTyped ==
  /\ disk \in DiskType
  /\ at \in [Sock -> Machine \cup {Nobody}]
  /\ committed \in [Name -> Content]
  /\ home \in [Name -> Machine \cup {Nobody}]
  /\ forked \subseteq Name

\* What is listed is stored, for every active entry of a name.
Stored ==
  \A k \in Name \ doubtful : \A i \in ActiveNamed(k) :
    at[slot[i].ss] # Nobody => disk[at[slot[i].ss]][k] # Missing

RInv == RTyped /\ Stored /\ OriginalIsCommitted

(* An active entry of a name that is not doubtful is at a storage server    *)
(* that is online. *)
LEMMA OnlineFacts ==
  ASSUME IInv, NEW k \in Name \ doubtful, NEW i \in ActiveNamed(k)
  PROVE  /\ i \in Slot /\ slot[i].active /\ slot[i].name = k
         /\ slot[i].ss \in online /\ slot[i].ss \in Sock
<1>1. slot[i].ss \in online
  BY DEF IInv, Exact
<1> QED
  BY <1>1 DEF ActiveNamed, IInv, Typed

(* Entries after an action are those from before, at the same place, except *)
(* for what CREATE, MOVE and a storage server that registers add.           *)
Remains(k, i) == k \in Name \ doubtful /\ i \in ActiveNamed(k) /\ slot'[i].ss = slot[i].ss

LEMMA RemainsQuietly ==
  ASSUME IInv,
         \/ \E k \in Name : Lookup(k)
         \/ \E s \in Sock : Disconnect(s) \/ HeartbeatsFail(s) \/ TurnsClient(s) \/ Recover(s),
         NEW h \in Name \ doubtful', NEW i \in ActiveNamed(h)'
  PROVE  Remains(h, i)
<1>t. Typed /\ slot \in [Slot -> {NoFile} \cup FileType]
  BY DEF IInv, Typed
<1>i. i \in Slot /\ slot'[i].active /\ slot'[i].name = h
  BY DEF ActiveNamed
<1>1. CASE \E k \in Name : Lookup(k)
  BY <1>1, <1>i DEF Lookup, Remains, ActiveNamed
<1>2. ASSUME NEW s \in Sock, Disconnect(s) \/ HeartbeatsFail(s) PROVE Remains(h, i)
  <2>1. \A j \in Slot : /\ slot'[j].active <=> (slot[j].active /\ slot[j].ss # s)
                        /\ slot'[j].name = slot[j].name /\ slot'[j].ss = slot[j].ss
    BY <1>2, <1>t, SwitchedOff DEF Disconnect, HeartbeatsFail
  <2>2. doubtful \subseteq doubtful'
    BY <1>2 DEF Disconnect, HeartbeatsFail
  <2> QED
    BY <1>i, <2>1, <2>2 DEF Remains, ActiveNamed
<1>3. ASSUME NEW s \in Sock, TurnsClient(s) PROVE Remains(h, i)
  BY <1>3, <1>i DEF TurnsClient, Remains, ActiveNamed
<1>4. ASSUME NEW s \in Sock, Recover(s) PROVE Remains(h, i)
  <2>1. /\ doubtful' = doubtful \cup NamesOf(Recovered(s))
        /\ slot' = [j \in Slot |-> IF j \in Recovered(s) THEN [slot[j] EXCEPT !.active = TRUE]
                                   ELSE slot[j]]
    BY <1>4 DEF Recover
  <2>2. CASE i \in Recovered(s)
    <3>1. slot[i].ss = s
      BY <2>2 DEF Recovered, Lost
    <3>2. slot[i] \in FileType
      BY <1>i, <1>t, <3>1, NoFileFacts, CatalogAssumption
    <3>3. slot'[i].name = slot[i].name
      BY <1>i, <2>1, <2>2, <3>2 DEF FileType
    <3>4. h \in NamesOf(Recovered(s))
      BY <1>i, <2>2, <3>3 DEF NamesOf
    <3> QED
      BY <2>1, <3>4
  <2>3. CASE i \notin Recovered(s)
    <3>1. slot'[i] = slot[i]
      BY <1>i, <2>1, <2>3
    <3>2. slot[i].active /\ slot[i].name = h /\ slot'[i].ss = slot[i].ss
      BY <1>i, <3>1, Zenon
    <3>3. h \in Name \ doubtful
      BY <2>1
    <3> QED
      BY <1>i, <3>2, <3>3 DEF Remains, ActiveNamed
  <2> QED
    BY <2>2, <2>3
<1> QED
  BY <1>1, <1>2, <1>3, <1>4

LEMMA RemainsCreate ==
  ASSUME IInv, NEW k \in Name, NEW s \in Sock, NEW b \in Backups(s), NEW j \in Slot \cup {NoSlot},
         Create(k, s, b, j), NEW h \in Name \ doubtful', NEW i \in ActiveNamed(h)'
  PROVE  Remains(h, i) \/ (h = k /\ slot'[i].ss = s)
<1>t. slot \in [Slot -> {NoFile} \cup FileType] /\ online \subseteq Sock
  BY DEF IInv, Typed
<1>i. i \in Slot /\ slot'[i].active /\ slot'[i].name = h
  BY DEF ActiveNamed
<1>1. /\ doubtful \subseteq doubtful'
      /\ slot' = IF j = NoSlot THEN slot ELSE [slot EXCEPT ![j] = File(k, s, b)]
  BY DEF Create
<1>2. File(k, s, b).name = k /\ File(k, s, b).ss = s
  BY <1>t, BackupFacts, FileFacts
<1> QED
  BY <1>1, <1>2, <1>i, <1>t DEF Remains, ActiveNamed

\* Under a name that is not doubtful its own file is deleted.
LEMMA RemainsDelete ==
  ASSUME IInv, NEW k \in Name, NEW j \in Slot, Delete(k, j),
         NEW h \in Name \ doubtful', NEW i \in ActiveNamed(h)'
  PROVE  Remains(h, i) /\ h # k
<1>t. slot \in [Slot -> {NoFile} \cup FileType]
  BY DEF IInv, Typed
<1>i. i \in Slot /\ slot'[i].active /\ slot'[i].name = h
  BY DEF ActiveNamed
<1> DEFINE e == [slot[j] EXCEPT !.active = FALSE]
<1>1. /\ slot[j] \in FileType
      /\ k \notin doubtful => ActiveNamed(k) = {j}
  BY FoundOnlineFacts DEF Delete
<1>2. doubtful \subseteq doubtful' /\ slot' = [slot EXCEPT ![j] = e]
  BY DEF Delete
<1>3. ~e.active
  BY <1>1 DEF FileType
<1> HIDE DEF e
<1>4. i # j /\ slot'[i] = slot[i]
  BY <1>2, <1>3, <1>i, <1>t
<1> QED
  BY <1>1, <1>2, <1>4, <1>i DEF Remains, ActiveNamed

\* The file of a name that is not doubtful is the new name's only one.
LEMMA RemainsMove ==
  ASSUME IInv, NEW k \in Name, NEW g \in Name, NEW j \in Slot, Move(k, g, j),
         NEW h \in Name \ doubtful', NEW i \in ActiveNamed(h)'
  PROVE  (Remains(h, i) /\ h # k /\ h # g) \/ (h = g /\ i = j /\ slot'[j].ss = slot[j].ss)
<1>t. slot \in [Slot -> {NoFile} \cup FileType] /\ nodes \in NodesType
  BY DEF IInv, Typed
<1>i. i \in Slot /\ slot'[i].active /\ slot'[i].name = h
  BY DEF ActiveNamed
<1> DEFINE e    == [slot[j] EXCEPT !.name = g]
           less == [nodes EXCEPT ![slot[j].name] = Dropped(@, 1)]
<1>1. /\ slot[j] \in FileType
      /\ k \notin doubtful => slot[j].name = k /\ ActiveNamed(k) = {j}
  BY FoundOnlineFacts DEF Move
<1>2. /\ slot' = [slot EXCEPT ![j] = e]
      /\ doubtful' = doubtful \cup (IF k \in doubtful THEN {slot[j].name, g}
                                    ELSE IF less[g] # <<>> THEN {g} ELSE {})
  BY DEF Move
<1>3. e.active = slot[j].active /\ e.name = g /\ e.ss = slot[j].ss
  BY <1>1, RenamedFacts
<1>4. k \notin doubtful /\ g # k => less[g] = nodes[g]
  BY <1>1, <1>t DEF NodesType
<1> HIDE DEF e, less
<1>5. slot'[j] = e /\ \A x \in Slot \ {j} : slot'[x] = slot[x]
  BY <1>2, <1>t
<1>6. CASE i = j
  BY <1>3, <1>5, <1>6, <1>i
<1>7. CASE i # j
  <2>1. Remains(h, i)
    BY <1>2, <1>5, <1>7, <1>i DEF Remains, ActiveNamed
  <2>2. h # k
    BY <1>1, <1>2, <1>7, <2>1 DEF Remains
  <2>3. h # g
    <3>1. SUFFICES ASSUME h = g PROVE FALSE
      OBVIOUS
    <3>2. k \notin doubtful /\ g # k /\ nodes[g] = <<>>
      BY <1>2, <1>4, <2>2, <3>1
    <3>3. ActiveNamed(g) = {}
      BY <2>1, <3>1, <3>2, FoundFacts, FoundExact DEF Remains
    <3> QED
      BY <2>1, <3>1, <3>3 DEF Remains
  <2> QED
    BY <2>1, <2>2, <2>3
<1> QED
  BY <1>6, <1>7

LEMMA RemainsRegister ==
  ASSUME IInv, NEW s \in Sock, NEW ks \in SUBSET Name, NEW b \in Backups(s), NEW to \in Room(ks),
         Register(s, ks, b, to), NEW h \in Name \ doubtful', NEW i \in ActiveNamed(h)'
  PROVE  Remains(h, i) \/ (h \in ks /\ slot'[i].ss = s)
<1>t. Typed /\ online \subseteq Sock
  BY DEF IInv, Typed
<1>i. i \in Slot /\ slot'[i].active /\ slot'[i].name = h
  BY DEF ActiveNamed
<1>r. DOMAIN to \subseteq ks
  BY RoomFacts
<1>1. /\ \A k \in DOMAIN to : slot'[to[k]] = File(k, s, b)
      /\ \A j \in Slot : (\A k \in DOMAIN to : to[k] # j) => slot'[j] = slot[j]
  BY <1>t, RegisterFacts
<1>2. \A k \in DOMAIN to : slot'[to[k]].name = k /\ slot'[to[k]].ss = s
  BY <1>1, <1>r, <1>t, BackupFacts, FileFacts
<1>3. CASE \E k \in DOMAIN to : to[k] = i
  BY <1>2, <1>3, <1>i, <1>r
<1>4. CASE \A k \in DOMAIN to : to[k] # i
  <2>1. slot'[i] = slot[i]
    BY <1>1, <1>4, <1>i
  <2>2. doubtful \subseteq doubtful'
    BY DEF Register
  <2> QED
    BY <1>i, <2>1, <2>2 DEF Remains, ActiveNamed
<1> QED
  BY <1>3, <1>4
-----------------------------------------------------------------------------
(* The invariant is kept, action by action.  The state of the disks after   *)
(* an action that changes none, and after each that does. *)
LEMMA StoredQuietly ==
  ASSUME IInv, RInv,
         \/ \E k \in Name : Lookup(k)
         \/ \E s \in Sock : Disconnect(s) \/ HeartbeatsFail(s) \/ TurnsClient(s) \/ Recover(s),
         UNCHANGED <<disk, history>>, at' \in [Sock -> Machine \cup {Nobody}],
         \A s \in online : at'[s] = at[s]
  PROVE  RInv'
<1>1. ASSUME NEW h \in Name \ doubtful', NEW i \in ActiveNamed(h)',
             at'[slot'[i].ss] # Nobody
      PROVE  disk'[at'[slot'[i].ss]][h] # Missing
  <2>1. h \in Name \ doubtful /\ i \in ActiveNamed(h) /\ slot'[i].ss = slot[i].ss
    BY RemainsQuietly DEF Remains
  <2>2. slot[i].ss \in online
    BY <2>1, OnlineFacts
  <2> QED
    BY <1>1, <2>1, <2>2 DEF RInv, Stored
<1> QED
  BY <1>1 DEF RInv, RTyped, Stored, OriginalIsCommitted, history

(* A change of a file that tells its users and does not remove it. *)
LEMMA ChangeStored ==
  ASSUME IInv, RInv, NEW k \in Name, NEW s \in Sock, NEW v \in Content,
         Lookup(k), at[s] # Nobody, v # Missing \/ disk[at[s]][k] = Missing,
         disk' = Put(disk, s, k, v), committed' = [committed EXCEPT ![k] = v],
         forked' = IF at[s] # home[k] THEN forked \cup {k} ELSE forked,
         UNCHANGED <<at, home>>
  PROVE  RInv'
<1>t. /\ disk \in DiskType /\ at \in [Sock -> Machine \cup {Nobody}]
      /\ committed \in [Name -> Content] /\ home \in [Name -> Machine \cup {Nobody}]
      /\ forked \subseteq Name
  BY DEF RInv, RTyped
<1>1. UNCHANGED <<at, home, slot, doubtful>>
  BY DEF Lookup
<1>2. at[s] \in Machine
  BY <1>t
<1>3. /\ disk' \in DiskType
      /\ \A m \in Machine, h \in Name :
           disk'[m][h] = IF at[s] = m /\ h = k THEN v ELSE disk[m][h]
  BY <1>2, <1>t, PutFacts, SMTT(30)
<1>4. RTyped'
  BY <1>1, <1>3, <1>t DEF RTyped
<1>5. Stored'
  <2>1. ASSUME NEW h \in Name \ doubtful', NEW i \in ActiveNamed(h)', at'[slot'[i].ss] # Nobody
        PROVE  disk'[at'[slot'[i].ss]][h] # Missing
    <3>1. h \in Name \ doubtful /\ i \in ActiveNamed(h) /\ slot'[i].ss = slot[i].ss
      BY <1>1, RemainsQuietly DEF Remains
    <3>2. slot[i].ss \in Sock
      BY <3>1, OnlineFacts
    <3>3. disk[at[slot[i].ss]][h] # Missing /\ at[slot[i].ss] \in Machine
      BY <1>1, <1>t, <2>1, <3>1, <3>2 DEF RInv, Stored
    <3> QED
      BY <1>1, <1>3, <3>1, <3>3
  <2> QED
    BY <2>1 DEF Stored
<1>6. OriginalIsCommitted'
  <2>1. ASSUME NEW h \in Name \ forked'
        PROVE  committed'[h] = IF home'[h] = Nobody THEN Missing ELSE disk'[home'[h]][h]
    <3>1. committed[h] = IF home[h] = Nobody THEN Missing ELSE disk[home[h]][h]
      BY <1>1, <2>1 DEF RInv, OriginalIsCommitted
    <3>2. home[h] \in Machine \cup {Nobody} /\ at[s] \in Machine
      BY <1>1, <1>2, <1>t
    <3>3. CASE h = k
      <4>1. at[s] = home[k]
        BY <1>1, <2>1, <3>3
      <4> QED
        BY <1>1, <1>3, <1>t, <3>2, <3>3, <4>1
    <3>4. CASE h # k
      BY <1>1, <1>3, <1>t, <3>1, <3>2, <3>4
    <3> QED
      BY <3>3, <3>4
  <2> QED
    BY <2>1 DEF OriginalIsCommitted
<1> QED
  BY <1>4, <1>5, <1>6 DEF RInv

LEMMA WriteStored ==
  ASSUME IInv, RInv, NEW k \in Name, NEW v \in Version, Write(k, v)
  PROVE  RInv'
<1> DEFINE s == Located(k)
<1>1. /\ at[s] # Nobody /\ Lookup(k) /\ UNCHANGED <<at, home>> /\ s # NoSock
      /\ disk' = Put(disk, s, k, v) /\ committed' = [committed EXCEPT ![k] = v]
      /\ forked' = IF at[s] # home[k] THEN forked \cup {k} ELSE forked
  BY DEF Write
<1>2. s \in Sock
  <2>1. online \subseteq Sock
    BY DEF IInv, Typed
  <2> QED
    BY <1>1, <2>1 DEF Located
<1>3. v \in Content /\ v # Missing
  BY ReplicasAssumption DEF Content
<1> HIDE DEF s
<1> QED
  BY <1>1, <1>2, <1>3, ChangeStored

(* An UNDO may leave the .bak only, and does not remove that. *)
LEMMA RestoredFacts ==
  ASSUME NEW c \in Content, NEW d \in Restored(c)
  PROVE  d \in Content /\ (d # Missing \/ c = Missing)
BY ReplicasAssumption DEF Restored, Content, Gone

LEMMA RUndoStored ==
  ASSUME IInv, RInv, NEW k \in Name, NEW j \in Slot, RUndo(k, j)
  PROVE  RInv'
<1> DEFINE s == slot[j].ss
<1>1. s \in Sock
  BY FoundOnlineFacts DEF RUndo
<1>2. PICK c \in Restored(disk[at[s]][k]) :
        disk' = Put(disk, s, k, c) /\ committed' = [committed EXCEPT ![k] = c]
  BY DEF RUndo
<1>3. /\ at[s] # Nobody /\ Lookup(k) /\ UNCHANGED <<at, home>>
      /\ forked' = IF at[s] # home[k] THEN forked \cup {k} ELSE forked
  BY DEF RUndo
<1> HIDE DEF s
<1>4. disk[at[s]][k] \in Content
  BY <1>1, <1>3 DEF RInv, RTyped, DiskType
<1>5. c \in Content /\ (c # Missing \/ disk[at[s]][k] = Missing)
  BY <1>4, RestoredFacts
<1> QED
  BY <1>1, <1>2, <1>3, <1>5, ChangeStored

LEMMA RCreateStored ==
  ASSUME IInv, RInv, NEW k \in Name, NEW s \in Sock, NEW b \in Backups(s),
         NEW j \in Slot \cup {NoSlot}, RCreate(k, s, b, j)
  PROVE  RInv'
<1>t. /\ disk \in DiskType /\ at \in [Sock -> Machine \cup {Nobody}]
      /\ committed \in [Name -> Content] /\ home \in [Name -> Machine \cup {Nobody}]
      /\ forked \subseteq Name /\ Empty \in Content /\ Empty # Missing
  BY ReplicasAssumption DEF RInv, RTyped, Content, Gone
<1>1. PICK ks \in SUBSET {k} :
        /\ at[s] # Nobody /\ Create(k, s, b, j) /\ UNCHANGED <<at, forked>>
        /\ disk' = Replicated(Put(disk, s, k, Empty), b, ks)
        /\ committed' = [committed EXCEPT ![k] = Empty]
        /\ home' = [home EXCEPT ![k] = at[s]]
  BY DEF RCreate
<1>2. /\ disk' \in DiskType
      /\ \A m \in Machine, h \in Name :
           disk'[m][h] = IF h = k /\ (at[s] = m \/ (b \in Sock /\ at[b] = m /\ k \in ks))
                         THEN Empty ELSE disk[m][h]
  <2> DEFINE ds == Put(disk, s, k, Empty)
  <2>1. /\ ds \in DiskType
        /\ \A m \in Machine, h \in Name :
             ds[m][h] = IF at[s] = m /\ h = k THEN Empty ELSE disk[m][h]
    BY <1>t, PutFacts
  <2> HIDE DEF ds
  <2>2. /\ disk' \in DiskType
        /\ \A m \in Machine, h \in Name :
             disk'[m][h] = IF b \in Sock /\ at[b] = m /\ h \in ks THEN Empty ELSE ds[m][h]
    BY <1>1, <1>t, <2>1, ReplicatedFacts DEF ds
  <2>3. \A h \in Name : h \in ks <=> (h = k /\ k \in ks)
    OBVIOUS
  <2> QED
    BY <2>1, <2>2, <2>3
<1>3. RTyped'
  BY <1>1, <1>2, <1>t DEF RTyped
<1>4. Stored'
  <2>1. ASSUME NEW h \in Name \ doubtful', NEW i \in ActiveNamed(h)', at'[slot'[i].ss] # Nobody
        PROVE  disk'[at'[slot'[i].ss]][h] # Missing
    <3>1. CASE Remains(h, i)
      <4>1. h \in Name \ doubtful /\ i \in ActiveNamed(h) /\ slot'[i].ss = slot[i].ss
        BY <3>1 DEF Remains
      <4>2. slot[i].ss \in Sock
        BY <4>1, OnlineFacts
      <4>3. disk[at[slot[i].ss]][h] # Missing /\ at[slot[i].ss] \in Machine
        BY <1>1, <1>t, <2>1, <4>1, <4>2 DEF RInv, Stored
      <4> QED
        BY <1>1, <1>2, <1>t, <4>1, <4>3
    <3>2. CASE h = k /\ slot'[i].ss = s
      BY <1>1, <1>2, <1>t, <3>2
    <3> QED
      BY <1>1, <3>1, <3>2, RemainsCreate
  <2> QED
    BY <2>1 DEF Stored
<1>5. OriginalIsCommitted'
  <2>1. ASSUME NEW h \in Name \ forked'
        PROVE  committed'[h] = IF home'[h] = Nobody THEN Missing ELSE disk'[home'[h]][h]
    <3>1. committed[h] = IF home[h] = Nobody THEN Missing ELSE disk[home[h]][h]
      BY <1>1, <2>1 DEF RInv, OriginalIsCommitted
    <3>2. home[h] \in Machine \cup {Nobody} /\ at[s] \in Machine
      BY <1>1, <1>t
    <3>3. CASE h = k
      BY <1>1, <1>2, <1>t, <3>2, <3>3
    <3>4. CASE h # k
      BY <1>1, <1>2, <1>t, <3>1, <3>2, <3>4
    <3> QED
      BY <3>3, <3>4
  <2> QED
    BY <2>1 DEF OriginalIsCommitted
<1> QED
  BY <1>3, <1>4, <1>5 DEF RInv

LEMMA RDeleteStored ==
  ASSUME IInv, RInv, NEW k \in Name, NEW j \in Slot, RDelete(k, j)
  PROVE  RInv'
<1>t. /\ disk \in DiskType /\ at \in [Sock -> Machine \cup {Nobody}]
      /\ committed \in [Name -> Content] /\ home \in [Name -> Machine \cup {Nobody}]
      /\ forked \subseteq Name /\ Missing \in Content
  BY DEF RInv, RTyped, Content, Gone
<1>1. /\ Delete(k, j) /\ UNCHANGED <<at, forked>>
      /\ committed' = [committed EXCEPT ![k] = Missing]
      /\ home' = [home EXCEPT ![k] = Nobody]
  BY DEF RDelete
<1>2. /\ disk' \in DiskType
      /\ \A m \in Machine, h \in Name \ {k} : disk'[m][h] = disk[m][h]
  <2> DEFINE backup == IF slot[j].backup \in online THEN slot[j].backup ELSE NoSock
  <2>1. PICK ds \in {disk, Put(disk, backup, k, Missing)} :
          disk' = Put(ds, slot[j].ss, k, Missing)
    BY DEF RDelete
  <2> HIDE DEF backup
  <2>2. ASSUME NEW x \in DiskType, NEW r
        PROVE  /\ Put(x, r, k, Missing) \in DiskType
               /\ \A m \in Machine, h \in Name \ {k} : Put(x, r, k, Missing)[m][h] = x[m][h]
    BY <1>t, PutElsewhere
  <2>3. ds \in DiskType /\ \A m \in Machine, h \in Name \ {k} : ds[m][h] = disk[m][h]
    BY <1>t, <2>2
  <2>4. Put(ds, slot[j].ss, k, Missing) \in DiskType
        /\ \A m \in Machine, h \in Name \ {k} :
             Put(ds, slot[j].ss, k, Missing)[m][h] = ds[m][h]
    BY <2>2, <2>3
  <2> QED
    BY <2>1, <2>3, <2>4
<1>3. RTyped'
  BY <1>1, <1>2, <1>t DEF RTyped
<1>4. Stored'
  <2>1. ASSUME NEW h \in Name \ doubtful', NEW i \in ActiveNamed(h)', at'[slot'[i].ss] # Nobody
        PROVE  disk'[at'[slot'[i].ss]][h] # Missing
    <3>1. h \in Name \ doubtful /\ i \in ActiveNamed(h) /\ slot'[i].ss = slot[i].ss /\ h # k
      BY <1>1, RemainsDelete DEF Remains
    <3>2. slot[i].ss \in Sock
      BY <3>1, OnlineFacts
    <3>3. disk[at[slot[i].ss]][h] # Missing /\ at[slot[i].ss] \in Machine
      BY <1>1, <1>t, <2>1, <3>1, <3>2 DEF RInv, Stored
    <3> QED
      BY <1>1, <1>2, <3>1, <3>3
  <2> QED
    BY <2>1 DEF Stored
<1>5. OriginalIsCommitted'
  <2>1. ASSUME NEW h \in Name \ forked'
        PROVE  committed'[h] = IF home'[h] = Nobody THEN Missing ELSE disk'[home'[h]][h]
    <3>1. committed[h] = IF home[h] = Nobody THEN Missing ELSE disk[home[h]][h]
      BY <1>1, <2>1 DEF RInv, OriginalIsCommitted
    <3>2. home[h] \in Machine \cup {Nobody}
      BY <1>t
    <3>3. CASE h = k
      BY <1>1, <1>t, <3>3
    <3>4. CASE h # k
      BY <1>1, <1>2, <1>t, <3>1, <3>2, <3>4
    <3> QED
      BY <3>3, <3>4
  <2> QED
    BY <2>1 DEF OriginalIsCommitted
<1> QED
  BY <1>3, <1>4, <1>5 DEF RInv

LEMMA RMoveStored ==
  ASSUME IInv, RInv, NEW k \in Name, NEW g \in Name, NEW j \in Slot, RMove(k, g, j)
  PROVE  RInv'
<1> DEFINE m == at[slot[j].ss]
<1>t. /\ disk \in DiskType /\ at \in [Sock -> Machine \cup {Nobody}]
      /\ committed \in [Name -> Content] /\ home \in [Name -> Machine \cup {Nobody}]
      /\ forked \subseteq Name
  BY DEF RInv, RTyped
<1>1. /\ Move(k, g, j) /\ UNCHANGED at
      /\ m # Nobody /\ disk[m][k] \notin Gone
      /\ disk' = [disk EXCEPT ![m] = [@ EXCEPT ![k] = Missing, ![g] = disk[m][k]]]
      /\ committed' = [committed EXCEPT ![k] = Missing, ![g] = committed[k]]
      /\ home' = [home EXCEPT ![k] = Nobody, ![g] = m]
      /\ forked' = IF k \in forked \/ m # home[k] THEN forked \cup {g} ELSE forked
  BY DEF RMove
<1>2. m \in Machine
  <2>1. slot[j].ss \in Sock
    BY <1>1, FoundOnlineFacts DEF Move
  <2> QED
    BY <1>1, <1>t, <2>1
<1>3. slot'[j].ss = slot[j].ss
  <2>1. slot[j] \in FileType /\ slot' = [slot EXCEPT ![j].name = g]
    BY <1>1, FoundOnlineFacts DEF Move
  <2>2. slot \in [Slot -> {NoFile} \cup FileType]
    BY DEF IInv, Typed
  <2>3. slot'[j] = [slot[j] EXCEPT !.name = g]
    BY <2>1, <2>2
  <2> QED
    BY <2>1, <2>3, RenamedFacts
<1>4. at'[slot'[j].ss] = m
  BY <1>1, <1>3
<1> HIDE DEF m
<1>5. /\ disk' \in DiskType
      /\ \A x \in Machine, h \in Name :
           disk'[x][h] = IF x = m /\ h = g THEN disk[m][k]
                         ELSE IF x = m /\ h = k THEN Missing ELSE disk[x][h]
  <2> DEFINE d == [disk[m] EXCEPT ![k] = Missing, ![g] = disk[m][k]]
  <2>1. disk[m] \in [Name -> Content] /\ disk[m][k] \in Content /\ Missing \in Content
    BY <1>2, <1>t DEF DiskType, Content, Gone
  <2>2. /\ d \in [Name -> Content]
        /\ \A h \in Name : d[h] = IF h = g THEN disk[m][k] ELSE IF h = k THEN Missing ELSE disk[m][h]
    BY <2>1
  <2>3. disk' = [disk EXCEPT ![m] = d]
    BY <1>1, <1>t DEF DiskType
  <2> HIDE DEF d
  <2>4. \A x \in Machine : disk'[x] = IF x = m THEN d ELSE disk[x]
    BY <1>t, <2>3 DEF DiskType
  <2> QED
    BY <1>2, <1>t, <2>2, <2>3, <2>4 DEF DiskType
<1>6. RTyped'
  <2>1. committed' \in [Name -> Content] /\ home' \in [Name -> Machine \cup {Nobody}]
    BY <1>1, <1>2, <1>t DEF Content, Gone
  <2> QED
    BY <1>1, <1>5, <1>t, <2>1 DEF RTyped
<1>7. Stored'
  <2>1. ASSUME NEW h \in Name \ doubtful', NEW i \in ActiveNamed(h)', at'[slot'[i].ss] # Nobody
        PROVE  disk'[at'[slot'[i].ss]][h] # Missing
    <3>1. CASE Remains(h, i) /\ h # k /\ h # g
      <4>1. h \in Name \ doubtful /\ i \in ActiveNamed(h) /\ slot'[i].ss = slot[i].ss
        BY <3>1 DEF Remains
      <4>2. slot[i].ss \in Sock
        BY <4>1, OnlineFacts
      <4>3. disk[at[slot[i].ss]][h] # Missing /\ at[slot[i].ss] \in Machine
        BY <1>1, <1>t, <2>1, <4>1, <4>2 DEF RInv, Stored
      <4> QED
        BY <1>1, <1>5, <3>1, <4>1, <4>3
    <3>2. CASE h = g /\ i = j
      BY <1>1, <1>2, <1>4, <1>5, <3>2 DEF Gone
    <3> QED
      BY <1>1, <3>1, <3>2, RemainsMove
  <2> QED
    BY <2>1 DEF Stored
<1>8. OriginalIsCommitted'
  <2>1. ASSUME NEW h \in Name \ forked'
        PROVE  committed'[h] = IF home'[h] = Nobody THEN Missing ELSE disk'[home'[h]][h]
    <3>0. h \in Name \ forked
      BY <1>1, <2>1
    <3>1. committed[h] = IF home[h] = Nobody THEN Missing ELSE disk[home[h]][h]
      BY <3>0 DEF RInv, OriginalIsCommitted
    <3>2. home[h] \in Machine \cup {Nobody}
      BY <1>t
    <3>3. CASE h = g
      <4>1. k \notin forked /\ m = home[k]
        BY <1>1, <2>1, <3>3
      <4>2. committed[k] = disk[m][k]
        BY <1>1, <4>1 DEF RInv, OriginalIsCommitted
      <4>3. committed'[h] = committed[k] /\ home'[h] = m
        BY <1>1, <1>t, <3>3
      <4>4. m # Nobody
        BY <1>1
      <4> QED
        BY <1>2, <1>5, <3>3, <4>2, <4>3, <4>4
    <3>4. CASE h = k /\ h # g
      BY <1>1, <1>t, <3>4
    <3>5. CASE h # k /\ h # g
      BY <1>1, <1>5, <1>t, <3>1, <3>2, <3>5
    <3> QED
      BY <3>3, <3>4, <3>5
  <2> QED
    BY <2>1 DEF OriginalIsCommitted
<1> QED
  BY <1>6, <1>7, <1>8 DEF RInv

LEMMA RRegisterStored ==
  ASSUME IInv, RInv, NEW s \in Sock, NEW m \in Machine, NEW b \in Backups(s),
         NEW to \in Room(Files(m)), RRegister(m, s, b, to)
  PROVE  RInv'
<1>t. /\ disk \in DiskType /\ at \in [Sock -> Machine \cup {Nobody}]
      /\ committed \in [Name -> Content] /\ home \in [Name -> Machine \cup {Nobody}]
      /\ forked \subseteq Name /\ Empty # Missing /\ Files(m) \in SUBSET Name
  BY ReplicasAssumption DEF RInv, RTyped, Files
<1>1. PICK ks \in SUBSET DOMAIN to :
        /\ at' = [at EXCEPT ![s] = m] /\ Register(s, Files(m), b, to)
        /\ UNCHANGED <<committed, home>>
        /\ disk' = Replicated(disk, b, ks) /\ forked' = forked \cup Hit(b, ks)
  BY DEF RRegister
<1>2. s \notin online
  BY <1>1 DEF Register
<1>3. /\ disk' \in DiskType
      /\ \A x \in Machine, h \in Name :
           disk'[x][h] = IF b \in Sock /\ at[b] = x /\ h \in ks THEN Empty ELSE disk[x][h]
  BY <1>1, <1>t, ReplicatedFacts
<1>4. RTyped'
  <2>1. Hit(b, ks) \subseteq Name
    BY <1>t, RoomFacts DEF Hit
  <2> QED
    BY <1>1, <1>3, <1>t, <2>1 DEF RTyped
<1>5. Stored'
  <2>1. ASSUME NEW h \in Name \ doubtful', NEW i \in ActiveNamed(h)', at'[slot'[i].ss] # Nobody
        PROVE  disk'[at'[slot'[i].ss]][h] # Missing
    <3>1. CASE Remains(h, i)
      <4>1. h \in Name \ doubtful /\ i \in ActiveNamed(h) /\ slot'[i].ss = slot[i].ss
        BY <3>1 DEF Remains
      <4>2. slot[i].ss \in Sock /\ slot[i].ss \in online
        BY <4>1, OnlineFacts
      <4>3. at'[slot'[i].ss] = at[slot[i].ss]
        BY <1>1, <1>2, <1>t, <4>1, <4>2
      <4>4. disk[at[slot[i].ss]][h] # Missing /\ at[slot[i].ss] \in Machine
        BY <1>t, <2>1, <4>1, <4>2, <4>3 DEF RInv, Stored
      <4> QED
        BY <1>3, <1>t, <4>3, <4>4
    <3>2. CASE h \in Files(m) /\ slot'[i].ss = s
      <4>1. at'[s] = m /\ disk[m][h] # Missing
        BY <1>1, <1>t, <3>2 DEF Files, Gone
      <4> QED
        BY <1>3, <1>t, <3>2, <4>1
    <3> QED
      BY <1>1, <1>t, <3>1, <3>2, RemainsRegister
  <2> QED
    BY <2>1 DEF Stored
<1>6. OriginalIsCommitted'
  <2>1. ASSUME NEW h \in Name \ forked'
        PROVE  committed'[h] = IF home'[h] = Nobody THEN Missing ELSE disk'[home'[h]][h]
    <3>1. committed[h] = IF home[h] = Nobody THEN Missing ELSE disk[home[h]][h]
      BY <1>1, <2>1 DEF RInv, OriginalIsCommitted
    <3>2. CASE home[h] = Nobody
      BY <1>1, <3>1, <3>2
    <3>3. CASE home[h] # Nobody
      <4>1. home[h] \in Machine
        BY <1>t, <3>3
      <4>2. ~(b \in Sock /\ at[b] = home[h] /\ h \in ks)
        BY <1>1, <2>1, <3>3 DEF Hit
      <4> QED
        BY <1>1, <1>3, <3>1, <3>3, <4>1, <4>2
    <3> QED
      BY <3>2, <3>3
  <2> QED
    BY <2>1 DEF OriginalIsCommitted
<1> QED
  BY <1>4, <1>5, <1>6 DEF RInv

LEMMA EndsStored ==
  ASSUME IInv, RInv, NEW s \in Sock, Ends(s)
  PROVE  RInv'
<1>t. at \in [Sock -> Machine \cup {Nobody}]
  BY DEF RInv, RTyped
<1>1. at' = [at EXCEPT ![s] = Nobody] /\ UNCHANGED <<slot, doubtful, disk, committed, home, forked>>
  BY DEF Ends, vars, history
<1>2. \A x \in Sock : at'[x] # Nobody => at'[x] = at[x]
  BY <1>1, <1>t
<1>3. ASSUME NEW h \in Name \ doubtful', NEW i \in ActiveNamed(h)', at'[slot'[i].ss] # Nobody
      PROVE  disk'[at'[slot'[i].ss]][h] # Missing
  <2>1. h \in Name \ doubtful /\ i \in ActiveNamed(h) /\ slot' = slot
    BY <1>1 DEF ActiveNamed
  <2>2. slot[i].ss \in Sock
    BY <2>1, OnlineFacts
  <2> QED
    BY <1>1, <1>2, <1>3, <2>1, <2>2 DEF RInv, Stored
<1> QED
  BY <1>1, <1>3, <1>t DEF RInv, RTyped, Stored, OriginalIsCommitted

LEMMA RRestartStored ==
  ASSUME RInv, RRestart
  PROVE  RInv'
<1>1. /\ slot' = [i \in Slot |-> NoFile] /\ at' = [s \in Sock |-> Nobody]
      /\ UNCHANGED <<disk, committed, home, forked>>
  BY DEF RRestart, Restart, history
<1>2. \A h \in Name : ActiveNamed(h)' = {}
  BY <1>1, NoFileFacts DEF ActiveNamed
<1> QED
  BY <1>1, <1>2 DEF RInv, RTyped, Stored, OriginalIsCommitted

LEMMA RInitRInv == RInit => RInv
<1> SUFFICES ASSUME RInit PROVE RInv
  OBVIOUS
<1>1. \A h \in Name : ActiveNamed(h) = {}
  BY NoFileFacts DEF RInit, Init, ActiveNamed
<1>2. /\ disk = [m \in Machine |-> [k \in Name |-> Missing]] /\ at = [s \in Sock |-> Nobody]
      /\ committed = [k \in Name |-> Missing] /\ home = [k \in Name |-> Nobody] /\ forked = {}
  BY DEF RInit
<1>3. RTyped
  BY <1>2 DEF RTyped, DiskType, Content, Gone
<1>4. OriginalIsCommitted
  BY <1>2 DEF OriginalIsCommitted
<1>5. Stored
  BY <1>1 DEF Stored
<1> QED
  BY <1>3, <1>4, <1>5 DEF RInv

LEMMA RNextRInv == IInv /\ RInv /\ [RNext]_rvars => RInv'
<1> SUFFICES ASSUME IInv, RInv, [RNext]_rvars PROVE RInv'
  OBVIOUS
<1>t. online \subseteq Sock /\ at \in [Sock -> Machine \cup {Nobody}]
  BY DEF IInv, Typed, RInv, RTyped
<1>1. CASE UNCHANGED rvars
  BY <1>1 DEF rvars, vars, disks, history, RInv, RTyped, Stored, OriginalIsCommitted, ActiveNamed
<1>2. ASSUME NEW k \in Name, RLookup(k) PROVE RInv'
  BY <1>2, <1>t, StoredQuietly DEF RLookup, disks
<1>3. ASSUME NEW k \in Name, NEW v \in Version, Write(k, v) PROVE RInv'
  BY <1>3, WriteStored
<1>4. ASSUME NEW k \in Name, NEW s \in online, NEW i \in Slot \cup {NoSlot}, NEW b \in Backups(s),
             RCreate(k, s, b, i)
      PROVE  RInv'
  BY <1>4, <1>t, RCreateStored
<1>5. ASSUME NEW k \in Name, NEW i \in Slot, RDelete(k, i) PROVE RInv'
  BY <1>5, RDeleteStored
<1>6. ASSUME NEW k \in Name, NEW g \in Name, NEW i \in Slot, RMove(k, g, i) PROVE RInv'
  BY <1>6, RMoveStored
<1>7. ASSUME NEW s \in Sock, NEW m \in Machine, RRecover(m, s) PROVE RInv'
  <2>1. s \notin online /\ Recover(s) /\ UNCHANGED <<disk, history>>
    BY <1>7 DEF RRecover, Recover
  <2>2. at' = at \/ at' = [at EXCEPT ![s] = m]
    BY <1>7 DEF RRecover
  <2>3. at' \in [Sock -> Machine \cup {Nobody}] /\ \A x \in online : at'[x] = at[x]
    BY <1>t, <2>1, <2>2
  <2> QED
    BY <2>1, <2>3, StoredQuietly
<1>8. ASSUME NEW s \in Sock, NEW m \in Machine, NEW b \in Backups(s), NEW to \in Room(Files(m)),
             RRegister(m, s, b, to)
      PROVE  RInv'
  BY <1>8, RRegisterStored
<1>9. ASSUME NEW s \in Sock, Ends(s) PROVE RInv'
  BY <1>9, EndsStored
<1>10. ASSUME NEW s \in Sock, RDisconnect(s) \/ RHeartbeatsFail(s) \/ RTurnsClient(s) PROVE RInv'
  BY <1>10, <1>t, StoredQuietly DEF RDisconnect, RHeartbeatsFail, RTurnsClient, disks
<1>11. ASSUME RRestart PROVE RInv'
  BY <1>11, RRestartStored
<1>12. ASSUME NEW k \in Name, NEW i \in Slot, RUndo(k, i) PROVE RInv'
  BY <1>12, RUndoStored
<1> QED
  BY <1>1, <1>2, <1>3, <1>4, <1>5, <1>6, <1>7, <1>8, <1>9, <1>10, <1>11, <1>12
     DEF RNext, Requests, Undos, Arrivals, Failures

(* The invariant: what Catalog's says, and that files and contents are      *)
(* where they belong. *)
THEOREM ReplicasInvariant == RSpec => [](IInv /\ RInv)
<1>1. RSpec => []IInv
  BY ReplicasImplementCatalog, CatalogInvariant, PTL
<1> QED
  BY <1>1, RInitRInv, RNextRInv, PTL DEF RSpec

Counted == failures \in 0..MaxFailures

(* Every variable has its type; what failed is counted up to the bound. *)
THEOREM ReplicasTypeCorrect == RSpec => []ReplicasTypeOK
<1>1. RInit => Counted
  BY ReplicasAssumption DEF RInit, Counted
<1>2. Counted /\ [RNext]_rvars => Counted'
  BY ReplicasAssumption DEF RNext, rvars, Fails, Counted
<1>3. RInv /\ Counted => ReplicasTypeOK
  BY DEF RInv, RTyped, DiskType, Content, ReplicasTypeOK, Counted
<1> QED
  BY <1>1, <1>2, <1>3, ReplicasInvariant, PTL DEF RSpec

(* A file that the catalog lists under a name that is not doubtful is on    *)
(* the disk of its storage server, if that one runs: at its place, or as    *)
(* the .bak that an UNDO of a file never written makes of it. *)
THEOREM ListedFilesAreStored == RSpec => []ListedIsStored
<1>1. IInv /\ RInv => ListedIsStored
  BY FoundExact DEF RInv, Stored, ListedIsStored
<1> QED
  BY <1>1, ReplicasInvariant, PTL

(* Nothing but a second original or a replication onto it changes what the  *)
(* original of a file contains behind its users' back. *)
THEOREM OriginalsAreCommitted == RSpec => []OriginalIsCommitted
<1>1. RInv => OriginalIsCommitted
  BY DEF RInv
<1> QED
  BY <1>1, ReplicasInvariant, PTL

(* What was committed to a file is on some disk, through every end and      *)
(* return of storage servers, as long as the file has one original that     *)
(* nobody replicates onto: Replicas_Lost shows that this is needed.         *)
THEOREM KeptUnlessForked ==
  RSpec => [](\A k \in Name \ forked :
                committed[k] # Missing => \E m \in Machine : disk[m][k] = committed[k])
<1>1. RInv => \A k \in Name \ forked :
        committed[k] # Missing => \E m \in Machine : disk[m][k] = committed[k]
  <2> SUFFICES ASSUME RInv, NEW k \in Name \ forked, committed[k] # Missing
               PROVE  \E m \in Machine : disk[m][k] = committed[k]
    OBVIOUS
  <2>1. home[k] # Nobody /\ disk[home[k]][k] = committed[k]
    BY DEF RInv, OriginalIsCommitted
  <2>2. home[k] \in Machine
    BY <2>1 DEF RInv, RTyped
  <2> QED
    BY <2>1, <2>2
<1> QED
  BY <1>1, ReplicasInvariant, PTL

(* Disks and machines do not change what the catalog promises. *)
THEOREM ReplicasAreDirectory == RSpec => ImplementsDirectory
BY ReplicasImplementCatalog, CatalogIsDirectory, PTL
=============================================================================
