---------------------------- MODULE EditSessions ----------------------------
(***************************************************************************)
(* Write sessions of one storage server: the table of documents held in    *)
(* memory, the table of sentence locks, the per-socket sessions and the    *)
(* heap the sentence nodes live in.  The server is a single select() loop, *)
(* so each handler is one atomic step; what interleaves are the handlers   *)
(* of different sockets.  The words of a sentence are abstracted away: a   *)
(* document is the list of the addresses of its sentence nodes, which is   *)
(* what locks and sessions refer to.                                       *)
(*                                                                         *)
(* A definition whose name ends in Mutant is a mistake the definition      *)
(* after it avoids; the runs' properties fail with it in that one's place. *)
(***************************************************************************)
EXTENDS Integers, Sequences, FiniteSets

CONSTANTS
  File,      \* names of the files clients write to
  Sock,      \* file descriptors of client connections (reused after close)
  Addr,      \* addresses malloc can return for a sentence node
  NoFile,    \* the filename of an unused slot
  NoAddr,    \* the NULL sentence pointer
  NoSock,    \* the socket of an unused lock slot
  MaxLocks,  \* size of global_locks
  MaxDocs,   \* size of active_documents
  MaxLoad,   \* bound: sentences in a file when it is loaded
  MaxNew     \* bound: sentences that one commit leaves in place of its target

ASSUME NullAssumption ==
  NoFile \notin File /\ NoAddr \notin Addr /\ NoSock \notin Sock

ASSUME BoundAssumption ==
  /\ MaxLocks \in Nat \ {0} /\ MaxDocs \in Nat \ {0}
  /\ MaxLoad \in Nat \ {0} /\ MaxNew \in Nat
  /\ IsFiniteSet(Sock)

\* Every client that writes at the same time finds a slot in global_locks.
EnoughLocks == Cardinality(Sock) =< MaxLocks

VARIABLES
  docs,      \* active_documents: slot -> the document loaded in it
  locks,     \* global_locks: slot -> the lock kept in it
  sessions,  \* write_sessions: socket -> its session
  heap,      \* sentence node -> slot it was allocated for, 0 when free
  conn,      \* connection state: what the server has yet to read from it
  gone       \* sockets whose client has closed its end

vars == <<docs, locks, sessions, heap, conn, gone>>

DocSlot  == 1..MaxDocs
LockSlot == 1..MaxLocks

NoSessionMutant == [active |-> FALSE, doc |-> -1, ptr |-> NoAddr]  \* no index is -1

NoDoc     == [active |-> FALSE, file |-> NoFile, head |-> <<>>, users |-> 0]
NoLock    == [active |-> FALSE, file |-> NoFile, ptr |-> NoAddr, sock |-> NoSock]
NoSession == [active |-> FALSE, doc |-> 0, ptr |-> NoAddr]

(* "open": accepted, no request sent; "asked" and "etirw": a request       *)
(* (REQ_CLIENT_WRITE, REQ_ETIRW) waits in the socket; "editing": the lock  *)
(* was granted; "refused": ETIRW met an error that keeps the session.      *)
Phase == {"closed", "open", "asked", "editing", "etirw", "refused"}

Doc     == [active : BOOLEAN, file : File \cup {NoFile}, head : Seq(Addr), users : Int]
Lock    == [active : BOOLEAN, file : File \cup {NoFile},
            ptr : Addr \cup {NoAddr}, sock : Sock \cup {NoSock}]
Session == [active : BOOLEAN, doc : 0..MaxDocs, ptr : Addr \cup {NoAddr}]

-----------------------------------------------------------------------------
(* Tables and heap *)

First(S) == {i \in S : \A j \in S : i =< j}   \* the slot a linear scan finds

Nodes(q) == {q[k] : k \in DOMAIN q}

Distinct(q) == \A j, k \in DOMAIN q : q[j] = q[k] => j = k

FreeAddr == {a \in Addr : heap[a] = 0}

\* Lists of newly allocated nodes, of a length in lo..hi.
FreshLists(lo, hi) ==
  {q \in UNION {[1..k -> FreeAddr] : k \in lo..hi} : Distinct(q)}

Claim(h, q, i) == [a \in Addr |-> IF a \in Nodes(q) THEN i ELSE h[a]]
Release(h, S)  == [a \in Addr |-> IF a \in S THEN 0 ELSE h[a]]

\* find_lock: the slots that match; the code takes the first.
Held(f, p) ==
  {i \in LockSlot : locks[i].active /\ locks[i].file = f /\ locks[i].ptr = p}

FreeLocks == {i \in LockSlot : ~locks[i].active}

LoadedAt(f) == {i \in DocSlot : docs[i].active /\ docs[i].file = f}
FreeDocs    == {i \in DocSlot : ~docs[i].active}

\* Loads without looking for the document in memory first.
FindOrLoadMutant(f) ==
  {[slot |-> i,
    doc  |-> [active |-> TRUE, file |-> f, head |-> q, users |-> 0],
    heap |-> Claim(heap, q, i)] :
      i \in First(FreeDocs), q \in FreshLists(1, MaxLoad)}

\* The slot, document and heap that find_or_load_active_doc can return.
FindOrLoad(f) ==
  IF LoadedAt(f) # {}
  THEN {[slot |-> i, doc |-> docs[i], heap |-> heap] : i \in First(LoadedAt(f))}
  ELSE {[slot |-> i,
         doc  |-> [active |-> TRUE, file |-> f, head |-> q, users |-> 0],
         heap |-> Claim(heap, q, i)] :
           i \in First(FreeDocs), q \in FreshLists(1, MaxLoad)}

\* Takes the first slot, used or not.
CreateLockMutant(f, p, s) ==
  locks' = [locks EXCEPT ![1] = [active |-> TRUE, file |-> f, ptr |-> p, sock |-> s]]

\* create_lock: when every slot is taken it reports -1 and changes nothing.
CreateLock(f, p, s) ==
  \/ /\ FreeLocks = {}
     /\ UNCHANGED locks
  \/ \E i \in First(FreeLocks) :
       locks' = [locks EXCEPT ![i] =
                   [active |-> TRUE, file |-> f, ptr |-> p, sock |-> s]]

ReleaseLock(f, p) ==
  locks' = [i \in LockSlot |-> IF i \in First(Held(f, p)) THEN NoLock ELSE locks[i]]

CloseSock(s) ==
  /\ conn' = [conn EXCEPT ![s] = "closed"]
  /\ gone' = gone \ {s}

-----------------------------------------------------------------------------
(* Clients *)

\* WRITE opens a connection of its own ...
Connect(s) ==
  /\ conn[s] = "closed"
  /\ conn' = [conn EXCEPT ![s] = "open"]
  /\ UNCHANGED <<docs, locks, sessions, heap, gone>>

\* ... and sends REQ_CLIENT_WRITE on it.
SendWrite(s) ==
  /\ conn[s] = "open" /\ s \notin gone
  /\ conn' = [conn EXCEPT ![s] = "asked"]
  /\ UNCHANGED <<docs, locks, sessions, heap, gone>>

SendEtirw(s) ==
  /\ conn[s] = "editing" /\ s \notin gone
  /\ conn' = [conn EXCEPT ![s] = "etirw"]
  /\ UNCHANGED <<docs, locks, sessions, heap, gone>>

\* The client closes its socket: end of input, a crash, or an error reply.
Hangup(s) ==
  /\ conn[s] # "closed" /\ s \notin gone
  /\ gone' = gone \cup {s}
  /\ UNCHANGED <<docs, locks, sessions, heap, conn>>

-----------------------------------------------------------------------------
(* handle_client_write *)

\* No slot is free, or the file cannot be opened.
LoadFails(s, f) ==
  /\ conn[s] = "asked"
  /\ LoadedAt(f) = {}
  /\ CloseSock(s)
  /\ UNCHANGED <<docs, locks, sessions, heap>>

\* Sentence index out of range: the document stays loaded.
InvalidSentence(s, o) ==
  /\ conn[s] = "asked"
  /\ docs' = [docs EXCEPT ![o.slot] = o.doc]
  /\ heap' = o.heap
  /\ CloseSock(s)
  /\ UNCHANGED <<locks, sessions>>

LockConflict(s, f, o) ==
  /\ conn[s] = "asked"
  /\ \E a \in Nodes(o.doc.head) : Held(f, a) # {}
  /\ docs' = [docs EXCEPT ![o.slot] = o.doc]
  /\ heap' = o.heap
  /\ CloseSock(s)
  /\ UNCHANGED <<locks, sessions>>

\* Does not ask whether the sentence is locked.
GrantMutant(s, f, o, n) ==
  /\ conn[s] = "asked"
  /\ CreateLock(f, o.doc.head[n], s)
  /\ docs' = [docs EXCEPT ![o.slot] = [o.doc EXCEPT !.users = @ + 1]]
  /\ heap' = o.heap
  /\ sessions' = [sessions EXCEPT ![s] =
                    [active |-> TRUE, doc |-> o.slot, ptr |-> o.doc.head[n]]]
  /\ conn' = [conn EXCEPT ![s] = "editing"]
  /\ UNCHANGED gone

\* Sentence n of f is free: create_lock's result is not looked at.
Grant(s, f, o, n) ==
  LET target == o.doc.head[n]
  IN /\ conn[s] = "asked"
     /\ Held(f, target) = {}
     /\ CreateLock(f, target, s)
     /\ docs' = [docs EXCEPT ![o.slot] = [o.doc EXCEPT !.users = @ + 1]]
     /\ heap' = o.heap
     /\ sessions' = [sessions EXCEPT ![s] =
                       [active |-> TRUE, doc |-> o.slot, ptr |-> target]]
     /\ conn' = [conn EXCEPT ![s] = "editing"]
     /\ UNCHANGED gone

-----------------------------------------------------------------------------
(* End of a session *)

\* Frees the list while one user is left.
EndSessionMutant(s, hd, h) ==
  LET d    == sessions[s].doc
      left == docs[d].users - 1
  IN /\ ReleaseLock(docs[d].file, sessions[s].ptr)
     /\ sessions' = [sessions EXCEPT ![s] = NoSession]
     /\ \/ /\ left > 1
           /\ docs' = [docs EXCEPT ![d].head = hd, ![d].users = left]
           /\ heap' = h
        \/ /\ left =< 1
           /\ docs' = [docs EXCEPT ![d] = NoDoc]
           /\ heap' = Release(h, Nodes(hd))
     /\ CloseSock(s)

\* release_lock, then release_active_doc, which frees the list when the last
\* user leaves; hd and h are the list and the heap the handler leaves behind.
EndSession(s, hd, h) ==
  LET d    == sessions[s].doc
      left == docs[d].users - 1
  IN /\ ReleaseLock(docs[d].file, sessions[s].ptr)
     /\ sessions' = [sessions EXCEPT ![s] = NoSession]
     /\ \/ /\ left > 0
           /\ docs' = [docs EXCEPT ![d].head = hd, ![d].users = left]
           /\ heap' = h
        \/ /\ left =< 0
           /\ docs' = [docs EXCEPT ![d] = NoDoc]
           /\ heap' = Release(h, Nodes(hd))
     /\ CloseSock(s)

\* The locked sentence is no longer in the list: an error reply, nothing else.
EtirwNotFound(s) ==
  /\ conn[s] = "etirw" /\ sessions[s].active
  /\ sessions[s].ptr \notin Nodes(docs[sessions[s].doc].head)
  /\ conn' = [conn EXCEPT ![s] = "refused"]
  /\ UNCHANGED <<docs, locks, sessions, heap, gone>>

\* An edit index out of range: the list is untouched, the session ends.
EtirwApplyFails(s) ==
  /\ conn[s] = "etirw" /\ sessions[s].active
  /\ sessions[s].ptr \in Nodes(docs[sessions[s].doc].head)
  /\ EndSession(s, docs[sessions[s].doc].head, heap)

\* The rest of the list is not hung on the new nodes.
SplicedMutant(hd, n, new) == SubSeq(hd, 1, n - 1) \o new

\* The new nodes go to the end of the list.
SplicedLastMutant(hd, n, new) == SubSeq(hd, 1, n - 1) \o SubSeq(hd, n + 1, Len(hd)) \o new

\* The list after the n-th node made way for the nodes new.  With no new node
\* there is no last_new to hang the rest on, and the list ends before n.
Spliced(hd, n, new) ==
  SubSeq(hd, 1, n - 1) \o
    (IF new = <<>> THEN <<>> ELSE new \o SubSeq(hd, n + 1, Len(hd)))

\* The target is replaced and freed.  Whether the word count then lets the
\* list be written to disk or not, memory keeps it.
EtirwSplice(s, n, new) ==
  LET d  == sessions[s].doc
      p  == sessions[s].ptr
      hd == docs[d].head
  IN /\ conn[s] = "etirw" /\ sessions[s].active
     /\ hd[n] = p
     /\ EndSession(s, Spliced(hd, n, new), Release(Claim(heap, new, d), {p}))

\* The clean-up of a disconnect: nothing at all ...
DisconnectMutant(s) ==
  /\ s \in gone /\ conn[s] \in {"open", "editing", "refused"}
  /\ CloseSock(s)
  /\ UNCHANGED <<docs, locks, sessions, heap>>

\* ... without release_active_doc ...
DisconnectUsersMutant(s) ==
  /\ s \in gone /\ conn[s] \in {"open", "editing", "refused"}
  /\ \/ /\ sessions[s].active
        /\ ReleaseLock(docs[sessions[s].doc].file, sessions[s].ptr)
     \/ ~sessions[s].active /\ UNCHANGED locks
  /\ sessions' = [sessions EXCEPT ![s] = NoSession]
  /\ CloseSock(s)
  /\ UNCHANGED <<docs, heap>>

\* ... without release_lock ...
DisconnectLockMutant(s) ==
  /\ s \in gone /\ conn[s] \in {"open", "editing", "refused"}
  /\ sessions' = [sessions EXCEPT ![s] = NoSession]
  /\ CloseSock(s)
  /\ UNCHANGED <<docs, locks, heap>>

\* ... or only for a session that ETIRW has not refused.
DisconnectRefusedMutant(s) ==
  /\ s \in gone /\ conn[s] \in {"open", "editing"}
  /\ \/ /\ sessions[s].active
        /\ EndSession(s, docs[sessions[s].doc].head, heap)
     \/ /\ ~sessions[s].active
        /\ CloseSock(s)
        /\ UNCHANGED <<docs, locks, sessions, heap>>

\* handle_client_disconnect: everything sent before the end was handled.
Disconnect(s) ==
  /\ s \in gone /\ conn[s] \in {"open", "editing", "refused"}
  /\ \/ /\ sessions[s].active
        /\ EndSession(s, docs[sessions[s].doc].head, heap)
     \/ /\ ~sessions[s].active
        /\ CloseSock(s)
        /\ UNCHANGED <<docs, locks, sessions, heap>>

-----------------------------------------------------------------------------
Init ==
  /\ docs = [i \in DocSlot |-> NoDoc]
  /\ locks = [i \in LockSlot |-> NoLock]
  /\ sessions = [s \in Sock |-> NoSession]
  /\ heap = [a \in Addr |-> 0]
  /\ conn = [s \in Sock |-> "closed"]
  /\ gone = {}

\* The server process ends (error_exit, a crash) and is started again: the
\* tables are in memory only and every connection is gone.
Restart ==
  /\ docs' = [i \in DocSlot |-> NoDoc]
  /\ locks' = [i \in LockSlot |-> NoLock]
  /\ sessions' = [s \in Sock |-> NoSession]
  /\ heap' = [a \in Addr |-> 0]
  /\ conn' = [s \in Sock |-> "closed"]
  /\ gone' = {}

ClientWrite(s) ==
  \E f \in File :
    \/ LoadFails(s, f)
    \/ \E o \in FindOrLoad(f) :
         \/ InvalidSentence(s, o)
         \/ LockConflict(s, f, o)
         \/ \E n \in DOMAIN o.doc.head : Grant(s, f, o, n)

Etirw(s) ==
  \/ EtirwNotFound(s)
  \/ EtirwApplyFails(s)
  \/ /\ sessions[s].active
     /\ \E n \in DOMAIN docs[sessions[s].doc].head, new \in FreshLists(0, MaxNew) :
          EtirwSplice(s, n, new)

Next ==
  \/ \E s \in Sock :
       \/ Connect(s) \/ SendWrite(s) \/ SendEtirw(s) \/ Hangup(s)
       \/ ClientWrite(s) \/ Etirw(s) \/ Disconnect(s)
  \/ Restart

\* The loop serves every readable socket, and the client program closes its
\* connection after any answer to ETIRW; nothing makes a user type ETIRW.
Fairness ==
  \A s \in Sock :
    /\ WF_vars(ClientWrite(s)) /\ WF_vars(Etirw(s)) /\ WF_vars(Disconnect(s))
    /\ WF_vars(conn[s] = "refused" /\ Hangup(s))

Spec     == Init /\ [][Next]_vars
FairSpec == Spec /\ Fairness

-----------------------------------------------------------------------------
(* Properties *)

(* Every variable has its type. *)
TypeOK ==
  /\ docs \in [DocSlot -> Doc]
  /\ locks \in [LockSlot -> Lock]
  /\ sessions \in [Sock -> Session]
  /\ heap \in [Addr -> 0..MaxDocs]
  /\ conn \in [Sock -> Phase]
  /\ gone \in SUBSET Sock

Editors(i) == {s \in Sock : sessions[s].active /\ sessions[s].doc = i}

(* num_users_editing is the number of sessions on the document, whichever  *)
(* way each began and ended; an unloaded slot has none.  It decides when   *)
(* release_active_doc frees the list the other sessions point into.        *)
UsersAreSessions ==
  \A i \in DocSlot :
    /\ docs[i].users = Cardinality(Editors(i))
    /\ ~docs[i].active => Editors(i) = {}

(* A lock is held by a live session on that very sentence: no path out of  *)
(* a session (commit, refusal, disconnect) leaves a lock nobody releases.  *)
LockHasOwner ==
  \A i \in LockSlot : locks[i].active =>
    /\ locks[i].sock \in Sock
    /\ LET e == sessions[locks[i].sock]
       IN /\ e.active /\ e.ptr = locks[i].ptr
          /\ docs[e.doc].file = locks[i].file

(* Two sessions never edit the same sentence node. *)
MutualExclusion ==
  \A s, t \in Sock :
    sessions[s].active /\ sessions[t].active /\ sessions[s].ptr = sessions[t].ptr
      => s = t

(* Neither a session nor a document points to a node that was freed, or    *)
(* that was freed and is now a sentence of another document.               *)
NoDanglingPointer ==
  /\ \A s \in Sock : sessions[s].active => heap[sessions[s].ptr] = sessions[s].doc
  /\ \A i \in DocSlot : \A a \in Nodes(docs[i].head) : heap[a] = i

(* A file is loaded in one slot at most: two copies would each be flushed  *)
(* over the other. *)
OneCopyPerFile ==
  \A i, j \in DocSlot :
    docs[i].active /\ docs[j].active /\ docs[i].file = docs[j].file => i = j

(* A socket the server closed keeps no session: the next client that gets  *)
(* the same descriptor would inherit it.                                   *)
SessionNeedsConnection ==
  \A s \in Sock : sessions[s].active <=> conn[s] \in {"editing", "etirw", "refused"}

(* An ETIRW that reached the server ends its session, even when the server *)
(* refuses it and leaves the connection open: the sentence is free again.  *)
CommitEnds == \A s \in Sock : conn[s] = "etirw" ~> ~sessions[s].active

(* Seen through the pointers of the sessions, the lock table, the user     *)
(* counts and the heap do what SentenceLock promises.                      *)
Editing == INSTANCE SentenceLock WITH
  Client <- Sock, Sentence <- Addr, None <- NoAddr,
  holds <- [s \in Sock |-> sessions[s].ptr]

ImplementsSentenceLock == Editing!Spec
=============================================================================
