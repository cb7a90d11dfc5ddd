------------------------------ MODULE Replicas ------------------------------
(***************************************************************************)
(* Files on the disks of several storage servers, their backups, and what  *)
(* becomes of both when storage servers end and come back.  Every action   *)
(* is an action of Catalog joined with what the storage servers do.  A     *)
(* READ or WRITE uses the address it was given before anything else        *)
(* happens.  REPLICATE_FILE and the backup's DELETE take effect at once    *)
(* or, as nobody waits for an answer, are lost.  FileHistory says what     *)
(* UNDO and REVERT restore; here it may be any content.                    *)
(***************************************************************************)
EXTENDS Catalog

CONSTANTS
  Machine,  \* storage servers, each with a disk
  Nobody,
  Version,  \* contents of files
  Empty, Missing,
  Away,     \* of a file of which only the .bak is there
  MaxFailures,  \* bound: storage servers that end or are given up, restarts, UNDOs
  MaxDoubt      \* bound: names doubtful at a time

ASSUME ReplicasAssumption ==
  /\ Nobody \notin Machine /\ Empty \in Version
  /\ Missing \notin Version /\ Away \notin Version \cup {Missing}
  /\ MaxFailures \in Nat /\ MaxDoubt \in Nat /\ IsFiniteSet(Name)

VARIABLES
  disk,       \* machine -> name -> the file's content, Away or Missing
  at,         \* descriptor -> the machine at the other end of the connection
  committed,  \* history: name -> what its users were told it contains
  home,       \* history: name -> the machine where the file was created
  forked,     \* history: names with copies that went ways of their own
  failures    \* what failed or was undone so far

disks == <<disk, at>>
history == <<committed, home, forked>>
rvars == <<vars, disks, history, failures>>

Running == {at[s] : s \in Sock} \ {Nobody}
Gone == {Missing, Away}
Files(m) == {k \in Name : disk[m][k] \notin Gone}

\* The disks after the machine at descriptor s, if there is one, was told that
\* k contains c.
Put(ds, s, k, c) ==
  IF s \in Sock /\ at[s] # Nobody THEN [ds EXCEPT ![at[s]][k] = c] ELSE ds

\* handle_ss_replicate_file creates the copy, or empties what is there.
Replicated(ds, b, ks) ==
  IF b \in Sock /\ at[b] # Nobody
  THEN [ds EXCEPT ![at[b]] = [k \in Name |-> IF k \in ks THEN Empty ELSE @[k]]]
  ELSE ds

\* Names whose original the replication ks to b empties.
Hit(b, ks) == {k \in ks : b \in Sock /\ at[b] # Nobody /\ at[b] = home[k]}

-----------------------------------------------------------------------------
(* Requests of clients. *)

\* handle_req_read_write_stream: where a READ or WRITE is sent to.
Located(k) ==
  IF Found(k) = NoSlot THEN NoSock
  ELSE LET f == slot[Found(k)]
       IN IF f.ss \in online THEN f.ss
          ELSE IF f.backup \in online THEN f.backup ELSE NoSock

RLookup(k) == Lookup(k) /\ UNCHANGED <<disks, history>>

\* A WRITE session that commits v.
Write(k, v) ==
  LET s == Located(k)
  IN /\ s # NoSock /\ at[s] # Nobody
     /\ disk[at[s]][k] \notin Gone \cup {v}
     /\ Lookup(k)
     /\ disk' = Put(disk, s, k, v)
     /\ committed' = [committed EXCEPT ![k] = v]
     /\ forked' = IF at[s] # home[k] THEN forked \cup {k} ELSE forked
     /\ UNCHANGED <<at, home>>

\* A file without a .bak becomes one.
Restored(c) ==
  IF c = Away THEN Version ELSE Version \cup {IF c = Missing THEN Missing ELSE Away}

\* UNDO, and REVERT, which restores no more.  The copy at the backup does not
\* change, and the answer of the storage server is not looked at.
RUndo(k, i) ==
  LET m == at[slot[i].ss]
  IN /\ FoundOnline(k, i) /\ Lookup(k) /\ m # Nobody
     /\ \E c \in Restored(disk[m][k]) :
          /\ disk' = Put(disk, slot[i].ss, k, c)
          /\ committed' = [committed EXCEPT ![k] = c]
     /\ forked' = IF m # home[k] THEN forked \cup {k} ELSE forked
     /\ UNCHANGED <<at, home>>

\* A copy the name server does not know of is left behind.
RCreate(k, s, b, i) ==
  /\ at[s] # Nobody /\ Create(k, s, b, i)
  /\ \E ks \in SUBSET {k} :
       /\ disk' = Replicated(Put(disk, s, k, Empty), b, ks)
       /\ committed' = [committed EXCEPT ![k] = Empty]
       /\ home' = [home EXCEPT ![k] = at[s]]
       /\ UNCHANGED <<at, forked>>

\* The answers of server and backup do not matter: the client is told OK.
RDelete(k, i) ==
  /\ Delete(k, i)
  /\ \E ds \in {disk, Put(disk, IF slot[i].backup \in online THEN slot[i].backup ELSE NoSock,
                          k, Missing)} :
       disk' = Put(ds, slot[i].ss, k, Missing)
  /\ committed' = [committed EXCEPT ![k] = Missing]
  /\ home' = [home EXCEPT ![k] = Nobody]
  /\ UNCHANGED <<at, forked>>

\* The catalog keeps the name.
RMoveListedMutant(k, g, i) ==
  LET m == at[slot[i].ss]
  IN /\ FoundOnline(k, i) /\ Lookup(k)
     /\ m # Nobody /\ disk[m][k] \notin Gone
     /\ disk' = [disk EXCEPT ![m] = [@ EXCEPT ![k] = Missing, ![g] = disk[m][k]]]
     /\ committed' = [committed EXCEPT ![k] = Missing, ![g] = committed[k]]
     /\ home' = [home EXCEPT ![k] = Nobody, ![g] = m]
     /\ forked' = IF k \in forked \/ m # home[k] THEN forked \cup {g} ELSE forked
     /\ UNCHANGED at

\* Makes a new file of that name.
RMoveMutant(k, g, i) ==
  LET m == at[slot[i].ss]
  IN /\ Move(k, g, i)
     /\ m # Nobody /\ disk[m][k] \notin Gone
     /\ disk' = [disk EXCEPT ![m] = [@ EXCEPT ![k] = Missing, ![g] = Empty]]
     /\ committed' = [committed EXCEPT ![k] = Missing, ![g] = committed[k]]
     /\ home' = [home EXCEPT ![k] = Nobody, ![g] = m]
     /\ forked' = IF k \in forked \/ m # home[k] THEN forked \cup {g} ELSE forked
     /\ UNCHANGED at

\* handle_ss_move renames the file; the backup is not told.
RMove(k, g, i) ==
  LET m == at[slot[i].ss]
  IN /\ Move(k, g, i)
     /\ m # Nobody /\ disk[m][k] \notin Gone
     /\ disk' = [disk EXCEPT ![m] = [@ EXCEPT ![k] = Missing, ![g] = disk[m][k]]]
     /\ committed' = [committed EXCEPT ![k] = Missing, ![g] = committed[k]]
     /\ home' = [home EXCEPT ![k] = Nobody, ![g] = m]
     /\ forked' = IF k \in forked \/ m # home[k] THEN forked \cup {g} ELSE forked
     /\ UNCHANGED at

-----------------------------------------------------------------------------
(* Storage servers. *)

Fails == failures < MaxFailures /\ failures' = failures + 1

\* Marks the descriptor, not who is there.
EndsMutant(s) ==
  /\ at[s] # Nobody
  /\ at' = [at EXCEPT ![s] = NoSock]
  /\ UNCHANGED <<vars, disk, history>>

\* The process ends, by itself or with its machine; the disk remains.
Ends(s) ==
  /\ at[s] # Nobody
  /\ at' = [at EXCEPT ![s] = Nobody]
  /\ UNCHANGED <<vars, disk, history>>

RDisconnect(s) ==
  /\ at[s] = Nobody
  /\ Disconnect(s)
  /\ UNCHANGED <<disks, history>>

RHeartbeatsFail(s) == HeartbeatsFail(s) /\ UNCHANGED <<disks, history>>
RTurnsClient(s) == TurnsClient(s) /\ UNCHANGED <<disks, history>>

\* A storage server lists all that is on its disk, the copies it holds for
\* others too; each file it lists is replicated.
RRegister(m, s, b, to) ==
  /\ m \notin Running /\ at[s] = Nobody
  /\ at' = [at EXCEPT ![s] = m]
  /\ Register(s, Files(m), b, to)
  /\ \E ks \in SUBSET DOMAIN to :
       /\ disk' = Replicated(disk, b, ks)
       /\ forked' = forked \cup Hit(b, ks)
  /\ UNCHANGED <<committed, home>>

\* The content of the backups is sent before the answer: a storage server that
\* is sent any does not find RES_OK where it looks for it, and ends.  If the
\* backup is gone, nobody knows what file size the name server works with.
RRecover(m, s) ==
  LET backups == {<<at[slot[i].backup], slot[i].name>> : i \in Recovered(s)}
      sent == \E c \in backups : c[1] # Nobody /\ disk[c[1]][c[2]] \notin Gone \cup {Empty}
      unknown == \E c \in backups : c[1] = Nobody
  IN /\ m \notin Running /\ at[s] = Nobody /\ Files(m) = {}
     /\ at' \in (IF sent THEN {} ELSE {[at EXCEPT ![s] = m]})
                \cup (IF sent \/ unknown THEN {at} ELSE {})
     /\ Recover(s)
     /\ UNCHANGED <<disk, history>>

\* Storage servers end when they lose the name server.
RRestart ==
  /\ Restart
  /\ at' = [s \in Sock |-> Nobody]
  /\ UNCHANGED <<disk, history>>

RInit ==
  /\ Init
  /\ disk = [m \in Machine |-> [k \in Name |-> Missing]]
  /\ at = [s \in Sock |-> Nobody]
  /\ committed = [k \in Name |-> Missing]
  /\ home = [k \in Name |-> Nobody]
  /\ forked = {}
  /\ failures = 0

Requests ==
  \E k \in Name :
    \/ RLookup(k)
    \/ \E v \in Version \ {Empty} : Write(k, v)
    \/ \E s \in online, i \in Slot \cup {NoSlot} : \E b \in Backups(s) : RCreate(k, s, b, i)
    \/ \E i \in Slot : RDelete(k, i) \/ \E g \in Name : RMove(k, g, i)

Undos == \E k \in Name, i \in Slot : RUndo(k, i)

Arrivals ==
  \E s \in {x \in Sock : at[x] = Nobody}, m \in Machine \ Running :
    \/ RRecover(m, s)
    \/ \E b \in Backups(s) : \E to \in Room(Files(m)) : RRegister(m, s, b, to)

Failures ==
  \/ \E s \in Sock : Ends(s) \/ RHeartbeatsFail(s) \/ RTurnsClient(s)
  \/ RRestart

RNext ==
  /\ \/ (Requests \/ Arrivals \/ \E s \in Sock : RDisconnect(s)) /\ UNCHANGED failures
     \/ (Failures \/ Undos) /\ Fails
  /\ Cardinality(doubtful') <= MaxDoubt

RSpec == RInit /\ [][RNext]_rvars

-----------------------------------------------------------------------------
(* Properties. *)

\* Every variable has its type.
ReplicasTypeOK ==
  /\ disk \in [Machine -> [Name -> Version \cup Gone]]
  /\ at \in [Sock -> Machine \cup {Nobody}]
  /\ committed \in [Name -> Version \cup Gone]
  /\ home \in [Name -> Machine \cup {Nobody}]
  /\ forked \subseteq Name
  /\ failures \in 0..MaxFailures

\* A file that the catalog lists is on the disk of its storage server, if only
\* as the .bak that an UNDO has made of it (storage/handlers.c:172).
ListedIsStored ==
  \A k \in Name \ doubtful :
    Found(k) # NoSlot /\ at[slot[Found(k)].ss] # Nobody =>
      disk[at[slot[Found(k)].ss]][k] # Missing

\* The original of a file contains what was committed, wherever storage servers
\* were when, unless its copies went ways of their own.
OriginalIsCommitted ==
  \A k \in Name \ forked :
    committed[k] = IF home[k] = Nobody THEN Missing ELSE disk[home[k]][k]

\* While a storage server that is online has what was committed to a file, a
\* READ or WRITE of it is sent to some storage server: "If a storage server goes
\* offline, client requests are redirected to a backup server" (README.md 41).
Redirected ==
  \A k \in Name \ doubtful :
    /\ committed[k] # Missing
    /\ \E s \in online : at[s] # Nobody /\ disk[at[s]][k] = committed[k]
    => Located(k) # NoSock

\* What was committed is on some disk (README.md 41).
CommittedIsKept ==
  \A k \in Name : committed[k] # Missing => \E m \in Machine : disk[m][k] = committed[k]
=============================================================================
