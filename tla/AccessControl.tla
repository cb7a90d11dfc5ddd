---------------------------- MODULE AccessControl ----------------------------
(***************************************************************************)
(* Who may use a document.  The name server keeps an access list in the    *)
(* file's catalog entry; the storage server keeps a copy in its .metadata  *)
(* file, brought up to date by messages that nobody answers, and the copy  *)
(* replaces the list when the storage server registers again.  Users ask   *)
(* for access in a queue that owners look through with CHECKREQUESTS.      *)
(* The storage server may end while it changes a file and its record, and  *)
(* while it writes .metadata anew.  Answers to CREATE, DELETE and MOVE are *)
(* taken to reach the request they belong to.  MOVE onto a name in use is  *)
(* left to Catalog: names have one entry here.                             *)
(***************************************************************************)
EXTENDS Integers, Sequences, FiniteSets, SequencesExt

CONSTANTS
  Name,         \* names of users, as ADDACCESS may put them on a list
  User,         \* bound: the users who log in
  System,       \* "system", the owner of a file without metadata
  Path,
  NoEntry, NoRecord,
  MaxPerms,     \* MAX_PERMISSIONS_PER_FILE
  MaxRequests,  \* MAX_ACCESS_REQUESTS
  GivenPerm,    \* bound: permissions that ADDACCESS gives
  AskedPerm,    \* bound: permissions that requests ask for
  MaxIds,       \* bound: requests made
  MaxFiles,     \* bound: paths with a file or a record, when one is created
  MaxQueue      \* bound: messages the storage server has not read

Perm == {"READ_ONLY", "READ_WRITE"}

Grant == [user : Name, perm : Perm]

\* An entry, or a record: the owner and the access list.
Listing(o, acl) == [owner |-> o, acl |-> acl]
ListingType == [owner : User \cup {System}, acl : BoundedSeq(Grant, MaxPerms)]

ASSUME AccessAssumption ==
  /\ User \subseteq Name /\ System \notin Name /\ GivenPerm \subseteq Perm
  /\ AskedPerm \subseteq Perm
  /\ NoEntry \notin ListingType /\ NoRecord \notin ListingType
  /\ MaxPerms \in Nat \ {0} /\ MaxRequests \in Nat \ {0}
  /\ MaxIds \in Nat \ {0} /\ MaxQueue \in Nat \ {0} /\ MaxFiles \in Nat

VARIABLES
  entry,     \* path -> its entry in file_catalog
  record,    \* path -> its record in .metadata
  stored,    \* paths of the files on the storage server's disk
  queue,     \* messages on their way to the storage server
  up,        \* the storage server is registered
  requests,  \* active access_requests
  nextId,    \* next_request_id
  shown,     \* user -> the requests that CHECKREQUESTS has shown
  said       \* history: path -> who created the file that its record is about, or
             \* will be, whether it got that record, and what its owner granted since

vars == <<entry, record, stored, queue, up, requests, nextId, shown, said>>

Request == [id : 1..MaxIds, path : Path, user : User, perm : Perm]
Message == [op : {"add"}, path : Path, user : Name, perm : Perm]
             \cup [op : {"rem"}, path : Path, user : Name, perm : {"NO_PERM"}]

Said(o, saved) == [by |-> o, saved |-> saved, granted |-> {}]
Nobodys == Said(System, FALSE)

-----------------------------------------------------------------------------
(* Access lists. *)

Entries(acl) == {acl[i] : i \in DOMAIN acl}
Users(acl)   == {e.user : e \in Entries(acl)}
First(acl, u) ==
  CHOOSE i \in DOMAIN acl : acl[i].user = u /\ \A j \in 1..(i - 1) : acl[j].user # u

\* get_permission
Permission(e, u) ==
  IF e.owner = u THEN "READ_WRITE"
  ELSE IF u \in Users(e.acl) THEN e.acl[First(e.acl, u)].perm
  ELSE "NO_PERM"

\* The name server changes the user's entry or adds one ...
Fits(acl, u) == u \in Users(acl) \/ Len(acl) < MaxPerms

Granting(acl, u, p) ==
  IF u \in Users(acl) THEN [acl EXCEPT ![First(acl, u)].perm = p]
  ELSE Append(acl, [user |-> u, perm |-> p])

\* ... and removes all the user has.
Kept(acl, u) ==
  LET kept[i \in 0..Len(acl)] ==
        IF i = 0 THEN <<>>
        ELSE IF acl[i].user = u THEN kept[i - 1]
        ELSE Append(kept[i - 1], acl[i])
  IN kept

Revoking(acl, u) == Kept(acl, u)[Len(acl)]

-----------------------------------------------------------------------------
(* The metadata file.  It has room for MAX_FILES_PER_SS records: whether   *)
(* one more fits depends on other files, which are not modelled.           *)

Records(recs) == {f \in Path : recs[f] # NoRecord}

\* load_file_metadata
Load(recs, f) == IF recs[f] = NoRecord THEN Listing(System, <<>>) ELSE recs[f]

\* save_file_metadata: without room a new file gets no record.
Save(recs, f, r, room) ==
  IF room \/ f \in Records(recs) THEN [recs EXCEPT ![f] = r] ELSE recs

\* What fopen(".metadata", "w") and a rewrite that does not come to its end may
\* leave of the records: which is a matter of their order.
Torn(recs) ==
  {[f \in Path |-> IF f \in kept THEN recs[f] ELSE NoRecord] : kept \in SUBSET Records(recs)}

\* Nothing asks whether the array is full.
SavesMutant(acl, m) == m.op = "add" \/ m.user \in Users(acl)

\* handle_ss_add_access appends, whoever is on the list already;
\* handle_ss_rem_access removes the user's first entry.
Saves(acl, m) == IF m.op = "add" THEN Len(acl) < MaxPerms ELSE m.user \in Users(acl)

Changed(acl, m) ==
  IF m.op = "add" THEN Append(acl, [user |-> m.user, perm |-> m.perm])
  ELSE RemoveAt(acl, First(acl, m.user))

\* Saves the user's name in place of the owner's.
AppliedMutant(recs, m, room) ==
  LET r == Load(recs, m.path)
  IN IF Saves(r.acl, m) THEN Save(recs, m.path, Listing(m.user, Changed(r.acl, m)), room)
     ELSE recs

Applied(recs, m, room) ==
  LET r == Load(recs, m.path)
  IN IF Saves(r.acl, m) THEN Save(recs, m.path, Listing(r.owner, Changed(r.acl, m)), room)
     ELSE recs

-----------------------------------------------------------------------------
(* Requests to the name server; a refused one changes nothing. *)

Listed(f)  == entry[f] # NoEntry
Owns(o, f) == Listed(f) /\ entry[f].owner = o

Send(op, f, u, p) ==
  /\ Len(queue) < MaxQueue
  /\ queue' = Append(queue, [op |-> op, path |-> f, user |-> u, perm |-> p])

\* CREATE, DELETE and MOVE wait for the storage server's answer: by then it has
\* read everything before.
Answered == up /\ queue = <<>>

HasSpace(f) == Cardinality(stored \cup Records(record) \cup {f}) <= MaxFiles

Create(o, f) ==
  /\ ~Listed(f) /\ Answered /\ HasSpace(f)
  /\ entry' = [entry EXCEPT ![f] = Listing(o, <<>>)]
  /\ \E room \in BOOLEAN : record' = Save(record, f, Listing(o, <<>>), room)
  /\ stored' = stored \cup {f}
  /\ said' = [said EXCEPT ![f] = Said(o, f \in Records(record'))]
  /\ UNCHANGED <<queue, up, requests, nextId, shown>>

\* Requests for the file stay in the queue.
Delete(o, f) ==
  /\ Owns(o, f) /\ Answered
  /\ entry' = [entry EXCEPT ![f] = NoEntry]
  /\ record' = [record EXCEPT ![f] = NoRecord]
  /\ stored' = stored \ {f}
  /\ said' = [said EXCEPT ![f] = Nobodys]
  /\ UNCHANGED <<queue, up, requests, nextId, shown>>

\* The record is loaded, deleted and saved under the new name; what was stored
\* there is replaced.
Move(o, f, g) ==
  /\ Owns(o, f) /\ Answered
  /\ g = f \/ ~Listed(g)
  /\ entry' = [entry EXCEPT ![f] = NoEntry, ![g] = entry[f]]
  /\ \E room \in BOOLEAN :
       /\ f \in Records(record) => room
       /\ record' = Save([record EXCEPT ![f] = NoRecord], g, Load(record, f), room)
  /\ stored' = (stored \ {f}) \cup {g}
  /\ said' = [said EXCEPT ![f] = Nobodys, ![g] = said[f]]
  /\ UNCHANGED <<queue, up, requests, nextId, shown>>

\* What ADDACCESS and an approval share: what is granted, and what the owner
\* who granted it meant.
Granted(f, u, p, meant) ==
  /\ Fits(entry[f].acl, u)
  /\ entry' = [entry EXCEPT ![f].acl = Granting(@, u, p)]
  /\ Send("add", f, u, p)
  /\ said' = [said EXCEPT
       ![meant.path].granted = @ \cup {[user |-> meant.user, perm |-> meant.perm]}]
  /\ UNCHANGED <<record, stored, up>>

AddAccess(o, f, u, p) ==
  /\ Owns(o, f)
  /\ Granted(f, u, p, [path |-> f, user |-> u, perm |-> p])
  /\ UNCHANGED <<requests, nextId, shown>>

RemAccess(o, f, u) ==
  /\ Owns(o, f)
  /\ IF u \in Users(entry[f].acl) THEN Send("rem", f, u, "NO_PERM") ELSE UNCHANGED queue
  /\ entry' = [entry EXCEPT ![f].acl = Revoking(@, u)]
  /\ UNCHANGED <<record, stored, up, requests, nextId, shown, said>>

\* The identifier of a request is its place in the queue.
NewIdMutant == Cardinality(requests) + 1

NewId == nextId

RequestAccess(u, f, p) ==
  /\ Listed(f)
  /\ Cardinality(requests) < MaxRequests /\ nextId <= MaxIds
  /\ requests' = requests \cup {[id |-> NewId, path |-> f, user |-> u, perm |-> p]}
  /\ nextId' = nextId + 1
  /\ UNCHANGED <<entry, record, stored, queue, up, shown, said>>

\* The list a client shows; the user answers its items one by one, while
\* other sessions of the same user may be answering theirs.
CheckRequests(o) ==
  /\ shown' = [shown EXCEPT ![o] = @ \cup {r \in requests : Owns(o, r.path)}]
  /\ UNCHANGED <<entry, record, stored, queue, up, requests, nextId, said>>

\* An answer carries the identifier only.
Answers(o, item, r) == item \in shown[o] /\ r.id = item.id /\ Owns(o, r.path)

Approve(o, item) == \E r \in requests :
  /\ Answers(o, item, r)
  /\ Granted(r.path, r.user, r.perm, item)
  /\ requests' = requests \ {r}
  /\ UNCHANGED <<nextId, shown>>

Deny(o, item) == \E r \in requests :
  /\ Answers(o, item, r)
  /\ requests' = requests \ {r}
  /\ UNCHANGED <<entry, record, stored, queue, up, nextId, shown, said>>

-----------------------------------------------------------------------------
(* The storage server. *)

Read ==
  /\ up /\ queue # <<>>
  /\ \E room \in BOOLEAN : record' = Applied(record, Head(queue), room)
  /\ queue' = Tail(queue)
  /\ UNCHANGED <<entry, stored, up, requests, nextId, shown, said>>

Delisted == entry' = [f \in Path |-> NoEntry]

\* The storage server is gone; said' is about, but a file without a record is
\* nobody's from now on.
Ended(about) ==
  /\ up' = FALSE /\ queue' = <<>> /\ Delisted
  /\ said' = [f \in Path |-> IF record'[f] = NoRecord THEN Nobodys ELSE about[f]]

Gone(about) == Ended(about) /\ UNCHANGED <<requests, nextId, shown>>

Dies == up /\ UNCHANGED <<record, stored>> /\ Gone(said)

\* While the metadata file is written for an ADDACCESS or a REMACCESS.
DiesInRead ==
  /\ up /\ queue # <<>>
  /\ Saves(Load(record, Head(queue).path).acl, Head(queue))
  /\ \E room \in BOOLEAN : record' \in Torn(Applied(record, Head(queue), room))
  /\ UNCHANGED stored
  /\ Gone(said)

\* Between the new file and its record, or while that is written.
DiesInCreate(o, f) ==
  /\ ~Listed(f) /\ Answered /\ HasSpace(f)
  /\ stored' = stored \cup {f}
  /\ \/ UNCHANGED record /\ Gone(said)
     \/ /\ \E room \in BOOLEAN : record' \in Torn(Save(record, f, Listing(o, <<>>), room))
        /\ Gone([said EXCEPT ![f] = Said(o, TRUE)])

\* After the file was removed: before its record is deleted, or meanwhile.
DiesInDelete(o, f) ==
  /\ Owns(o, f) /\ Answered
  /\ stored' = stored \ {f}
  /\ record' \in {record} \cup Torn([record EXCEPT ![f] = NoRecord])
  /\ Gone(said)

\* After the file was renamed: before its record is deleted or meanwhile, or
\* while it is saved under the new name.
DiesInMove(o, f, g) ==
  /\ Owns(o, f) /\ Answered
  /\ g = f \/ ~Listed(g)
  /\ stored' = (stored \ {f}) \cup {g}
  /\ LET deleted == [record EXCEPT ![f] = NoRecord]
     IN \/ record' \in {record} \cup Torn(deleted) /\ Gone(said)
        \/ /\ \E room \in BOOLEAN :
                /\ f \in Records(record) => room
                /\ record' \in Torn(Save(deleted, g, Load(record, f), room))
           /\ Gone([said EXCEPT ![g] = said[f]])

\* The scan stops at MAX_FILES_PER_SS files, in the order of the directory:
\* it may miss any of these.
Register == \E found \in SUBSET stored :
  /\ ~up
  /\ up' = TRUE
  /\ entry' = [f \in Path |-> IF f \in found THEN Load(record, f) ELSE NoEntry]
  /\ UNCHANGED <<record, stored, queue, requests, nextId, shown, said>>

\* The name server ends, and with it every storage server and client session.
NameServerRestarts ==
  /\ requests' = {} /\ nextId' = 1 /\ shown' = [u \in User |-> {}]
  /\ UNCHANGED <<record, stored>>
  /\ Ended(said)

-----------------------------------------------------------------------------
Init ==
  /\ entry = [f \in Path |-> NoEntry] /\ record = [f \in Path |-> NoRecord]
  /\ stored = {} /\ queue = <<>> /\ up = FALSE
  /\ requests = {} /\ nextId = 1 /\ shown = [u \in User |-> {}]
  /\ said = [f \in Path |-> Nobodys]

Next ==
  \/ \E o \in User, f \in Path :
       \/ Create(o, f) \/ DiesInCreate(o, f) \/ Delete(o, f) \/ DiesInDelete(o, f)
       \/ \E g \in Path : Move(o, f, g) \/ DiesInMove(o, f, g)
       \/ \E u \in Name : RemAccess(o, f, u) \/ \E p \in GivenPerm : AddAccess(o, f, u, p)
       \/ \E p \in AskedPerm : RequestAccess(o, f, p)
  \/ \E o \in User : CheckRequests(o) \/ \E item \in shown[o] : Approve(o, item) \/ Deny(o, item)
  \/ Read \/ DiesInRead \/ Dies \/ Register \/ NameServerRestarts

Spec == Init /\ [][Next]_vars

-----------------------------------------------------------------------------
(* Properties *)

(* Every variable has its type; no access list is longer than its array.   *)
TypeOK ==
  /\ entry \in [Path -> ListingType \cup {NoEntry}]
  /\ record \in [Path -> ListingType \cup {NoRecord}]
  /\ stored \subseteq Path
  /\ queue \in BoundedSeq(Message, MaxQueue)
  /\ up \in BOOLEAN
  /\ requests \subseteq Request /\ Cardinality(requests) <= MaxRequests
  /\ nextId \in 1..(MaxIds + 1)
  /\ shown \in [User -> SUBSET Request]
  /\ said \in [Path -> [by : User \cup {System}, saved : BOOLEAN, granted : SUBSET Grant]]

(* Nobody has, or will have after any restart, an access that the owner of *)
(* the file did not grant since it was created: not by ADDACCESS and not   *)
(* by approving a request as it was shown.  Identifiers of requests are    *)
(* never used twice, no message outlives its file, and a server that ends  *)
(* while it writes loses records but mixes none.  (The file is the one its *)
(* record is about: a CREATE or MOVE cut short leaves a new file to the    *)
(* record of an earlier one of its name.  And what the owner took away may *)
(* come back: a REMACCESS can be lost, and the storage server keeps every  *)
(* entry it was sent, storage/handlers.c:190.)                             *)
OnlyGranted ==
  /\ \A f \in Path :
       /\ Listed(f) => Entries(entry[f].acl) \subseteq said[f].granted
       /\ f \in Records(record) => Entries(record[f].acl) \subseteq said[f].granted
  /\ \A m \in Entries(queue) :
       m.op = "add" => [user |-> m.user, perm |-> m.perm] \in said[m.path].granted

(* A file never falls to another user, and to "system" only where no       *)
(* record was saved of it when it was created, for want of room            *)
(* (metadata.c:54).  A file whose record was lost, with a storage server   *)
(* that ended while it wrote (metadata.c:64, 151), is nobody's from then   *)
(* on.  (The file is the one its record is about, as above.)               *)
OwnerStays ==
  \A f \in Path : Listed(f) =>
    entry[f].owner = said[f].by \/ (entry[f].owner = System /\ ~said[f].saved)
=============================================================================
