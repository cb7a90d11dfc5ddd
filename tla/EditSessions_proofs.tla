------------------------ MODULE EditSessions_proofs ------------------------
(* Proofs about EditSessions, for every value of its constants.            *)
EXTENDS EditSessions, FiniteSetTheorems, TLAPS

-----------------------------------------------------------------------------
(* Operators *)

(* A list of new nodes is a list of free addresses without repetition. *)
LEMMA FreshListsType ==
  ASSUME NEW lo \in Nat, NEW hi \in Nat, NEW q \in FreshLists(lo, hi)
  PROVE  /\ q \in Seq(Addr)
         /\ Distinct(q)
         /\ \A a \in Nodes(q) : a \in Addr /\ heap[a] = 0
<1>1. PICK k \in lo..hi : q \in [1..k -> FreeAddr]
  BY DEF FreshLists
<1>2. q \in Seq(FreeAddr)
  BY <1>1
<1>3. q \in Seq(Addr)
  BY <1>1, <1>2 DEF FreeAddr
<1> QED
  BY <1>1, <1>3 DEF FreshLists, FreeAddr, Nodes

(* The nodes of a concatenation, and when it repeats none. *)
LEMMA ConcatNodes ==
  ASSUME NEW p \in Seq(Addr), NEW q \in Seq(Addr)
  PROVE  /\ p \o q \in Seq(Addr)
         /\ Nodes(p \o q) = Nodes(p) \cup Nodes(q)
<1>1. /\ p \o q \in Seq(Addr) /\ Len(p \o q) = Len(p) + Len(q)
      /\ \A k \in 1..Len(p) : (p \o q)[k] = p[k]
      /\ \A k \in 1..Len(q) : (p \o q)[k + Len(p)] = q[k]
  OBVIOUS
<1>2. Nodes(p \o q) \subseteq Nodes(p) \cup Nodes(q)
  BY DEF Nodes
<1>3. Nodes(p) \subseteq Nodes(p \o q)
  BY <1>1 DEF Nodes
<1>4. Nodes(q) \subseteq Nodes(p \o q)
  <2> SUFFICES ASSUME NEW k \in 1..Len(q) PROVE q[k] \in Nodes(p \o q)
    BY SMTT(30) DEF Nodes
  <2>1. k + Len(p) \in DOMAIN (p \o q)
    BY <1>1, SMTT(30)
  <2> QED
    BY <1>1, <2>1, SMTT(30) DEF Nodes
<1> QED
  BY <1>1, <1>2, <1>3, <1>4

LEMMA ConcatDistinct ==
  ASSUME NEW p \in Seq(Addr), NEW q \in Seq(Addr), Distinct(p), Distinct(q),
         Nodes(p) \cap Nodes(q) = {}
  PROVE  Distinct(p \o q)
<1>1. \A j \in DOMAIN p, k \in DOMAIN q : p[j] # q[k]
  BY DEF Nodes
<1> SUFFICES ASSUME NEW j \in 1..(Len(p) + Len(q)), NEW k \in 1..(Len(p) + Len(q)),
                    (p \o q)[j] = (p \o q)[k]
             PROVE  j = k
  BY DEF Distinct
<1> QED
  BY <1>1 DEF Distinct

(* The nodes before and after the n-th are the others. *)
LEMMA CutNodes ==
  ASSUME NEW hd \in Seq(Addr), NEW n \in DOMAIN hd, Distinct(hd)
  PROVE  LET pre  == SubSeq(hd, 1, n - 1)
             post == SubSeq(hd, n + 1, Len(hd))
         IN /\ pre \in Seq(Addr) /\ post \in Seq(Addr)
            /\ Distinct(pre) /\ Distinct(post)
            /\ Nodes(pre) \subseteq Nodes(hd) \ {hd[n]}
            /\ Nodes(post) \subseteq Nodes(hd) \ {hd[n]}
            /\ Nodes(pre) \cap Nodes(post) = {}
<1> DEFINE pre  == SubSeq(hd, 1, n - 1)
           post == SubSeq(hd, n + 1, Len(hd))
<1>1. /\ pre \in Seq(Addr) /\ Len(pre) = n - 1
      /\ \A k \in 1..(n - 1) : pre[k] = hd[k]
  OBVIOUS
<1>2. /\ post \in Seq(Addr) /\ Len(post) = Len(hd) - n
      /\ \A k \in 1..(Len(hd) - n) : post[k] = hd[n + k]
  OBVIOUS
<1> HIDE DEF pre, post
<1>3. \A k \in DOMAIN pre : k \in DOMAIN hd /\ k < n /\ pre[k] = hd[k]
  BY <1>1
<1>4. \A k \in DOMAIN post : n + k \in DOMAIN hd /\ n < n + k /\ post[k] = hd[n + k]
  BY <1>2
<1>5. Distinct(pre)
  BY <1>3 DEF Distinct
<1>6. Distinct(post)
  BY <1>2, <1>4 DEF Distinct
<1>7. Nodes(pre) \subseteq Nodes(hd) \ {hd[n]}
  BY <1>3 DEF Distinct, Nodes
<1>8. Nodes(post) \subseteq Nodes(hd) \ {hd[n]}
  <2> SUFFICES ASSUME NEW k \in DOMAIN post PROVE post[k] \in Nodes(hd) \ {hd[n]}
    BY DEF Nodes
  <2> QED
    BY <1>4, n + k # n DEF Distinct, Nodes
<1>9. Nodes(pre) \cap Nodes(post) = {}
  <2> SUFFICES ASSUME NEW j \in DOMAIN pre, NEW k \in DOMAIN post, pre[j] = post[k]
               PROVE  FALSE
    BY DEF Nodes
  <2> QED
    BY <1>3, <1>4, j # n + k DEF Distinct
<1> QED
  BY <1>1, <1>2, <1>5, <1>6, <1>7, <1>8, <1>9 DEF pre, post

(* A spliced list is made of the new nodes and of old ones other than the  *)
(* target, and repeats none.                                               *)
LEMMA SplicedFacts ==
  ASSUME NEW hd \in Seq(Addr), NEW n \in DOMAIN hd, NEW new \in Seq(Addr),
         Distinct(hd), Distinct(new), Nodes(hd) \cap Nodes(new) = {}
  PROVE  /\ Spliced(hd, n, new) \in Seq(Addr)
         /\ Nodes(Spliced(hd, n, new)) \subseteq (Nodes(hd) \ {hd[n]}) \cup Nodes(new)
         /\ Distinct(Spliced(hd, n, new))
<1> DEFINE pre  == SubSeq(hd, 1, n - 1)
           post == SubSeq(hd, n + 1, Len(hd))
           tail == IF new = <<>> THEN <<>> ELSE new \o post
<1>1. /\ pre \in Seq(Addr) /\ post \in Seq(Addr)
      /\ Distinct(pre) /\ Distinct(post)
      /\ Nodes(pre) \subseteq Nodes(hd) \ {hd[n]}
      /\ Nodes(post) \subseteq Nodes(hd) \ {hd[n]}
      /\ Nodes(pre) \cap Nodes(post) = {}
  BY CutNodes
<1>2. Spliced(hd, n, new) = pre \o tail
  BY DEF Spliced
<1> HIDE DEF pre, post
<1>3. /\ tail \in Seq(Addr) /\ Distinct(tail)
      /\ Nodes(tail) \subseteq Nodes(post) \cup Nodes(new)
  <2>1. CASE new = <<>>
    BY <2>1 DEF Distinct, Nodes
  <2>2. CASE new # <<>>
    BY <1>1, <2>2, ConcatNodes, ConcatDistinct
  <2> QED
    BY <2>1, <2>2
<1> HIDE DEF tail
<1> QED
  BY <1>1, <1>2, <1>3, ConcatNodes, ConcatDistinct

(* What find_or_load_active_doc returns: the loaded document, or a new one *)
(* in a free slot, made of new nodes.                                      *)
Loaded(o) == docs[o.slot].active /\ o.doc = docs[o.slot] /\ o.heap = heap

NewlyLoaded(o) ==
  /\ ~docs[o.slot].active
  /\ o.doc.users = 0
  /\ o.heap = Claim(heap, o.doc.head, o.slot)
  /\ LoadedAt(o.doc.file) = {}
  /\ Distinct(o.doc.head)
  /\ \A a \in Nodes(o.doc.head) : heap[a] = 0

LEMMA FindOrLoadFacts ==
  ASSUME TypeOK, NEW f \in File, NEW o \in FindOrLoad(f)
  PROVE  /\ o.slot \in DocSlot
         /\ o.doc \in Doc /\ o.doc.active /\ o.doc.file = f
         /\ o.heap \in [Addr -> 0..MaxDocs]
         /\ Loaded(o) \/ NewlyLoaded(o)
<1> USE BoundAssumption
<1>1. CASE LoadedAt(f) # {}
  BY <1>1 DEF FindOrLoad, First, LoadedAt, DocSlot, TypeOK, Loaded
<1>2. CASE LoadedAt(f) = {}
  <2>1. PICK i \in First(FreeDocs), q \in FreshLists(1, MaxLoad) :
          o = [slot |-> i,
               doc  |-> [active |-> TRUE, file |-> f, head |-> q, users |-> 0],
               heap |-> Claim(heap, q, i)]
    BY <1>2 DEF FindOrLoad
  <2>2. i \in DocSlot /\ i \in 0..MaxDocs /\ ~docs[i].active
    BY DEF First, FreeDocs, DocSlot
  <2>3. /\ q \in Seq(Addr)
        /\ Distinct(q)
        /\ \A a \in Nodes(q) : heap[a] = 0
    BY FreshListsType
  <2>4. Claim(heap, q, i) \in [Addr -> 0..MaxDocs]
    BY <2>2 DEF Claim, TypeOK
  <2> QED
    BY <1>2, <2>1, <2>2, <2>3, <2>4 DEF Doc, NewlyLoaded
<1> QED
  BY <1>1, <1>2

-----------------------------------------------------------------------------
(* The inductive invariant *)

\* An active session is on a loaded document.
SessionOnDoc ==
  \A s \in Sock : sessions[s].active =>
    /\ sessions[s].doc \in DocSlot /\ sessions[s].ptr \in Addr
    /\ docs[sessions[s].doc].active

\* A loaded document has a name, an unloaded one no node.
DocNamed ==
  \A i \in DocSlot :
    /\ docs[i].active => docs[i].file \in File
    /\ ~docs[i].active => docs[i].head = <<>>

\* A document's list repeats no node and has only nodes allocated for it.
HeadsOwned ==
  \A i \in DocSlot :
    /\ Distinct(docs[i].head)
    /\ \A a \in Nodes(docs[i].head) : heap[a] = i

\* No sentence has two locks.
LockUnique ==
  \A i, j \in LockSlot :
    /\ locks[i].active /\ locks[j].active
    /\ locks[i].file = locks[j].file /\ locks[i].ptr = locks[j].ptr
    => i = j

IInv ==
  /\ TypeOK /\ SessionOnDoc /\ DocNamed /\ HeadsOwned
  /\ UsersAreSessions /\ SessionNeedsConnection
  /\ LockUnique /\ LockHasOwner /\ OneCopyPerFile

-----------------------------------------------------------------------------
(* The four kinds of step: most of an invariant is about only one of them. *)

HasSession(ph) == ph \in {"editing", "etirw", "refused"}

\* Only the connection moves.
ConnStep(s) ==
  /\ UNCHANGED <<docs, locks, sessions, heap>>
  /\ gone' \in SUBSET Sock
  /\ \E ph \in Phase :
       /\ conn' = [conn EXCEPT ![s] = ph]
       /\ HasSession(ph) <=> HasSession(conn[s])

\* A refused WRITE that leaves a document in memory.
LoadStep(s, f, o) ==
  /\ conn[s] = "asked"
  /\ o \in FindOrLoad(f)
  /\ docs' = [docs EXCEPT ![o.slot] = o.doc]
  /\ heap' = o.heap
  /\ UNCHANGED <<locks, sessions>>
  /\ CloseSock(s)

GrantStep(s, f, o, n) ==
  /\ o \in FindOrLoad(f) /\ n \in DOMAIN o.doc.head
  /\ Grant(s, f, o, n)

\* A session ends; of the nodes in use, only its own sentence may be freed
\* before the document is.
EndStep(s, hd, h) ==
  /\ HasSession(conn[s]) /\ sessions[s].active
  /\ hd \in Seq(Addr) /\ Distinct(hd)
  /\ h \in [Addr -> 0..MaxDocs]
  /\ \A a \in Nodes(hd) : h[a] = sessions[s].doc
  /\ \A a \in Addr :
       heap[a] # 0 /\ (a # sessions[s].ptr \/ heap[a] # sessions[s].doc) => h[a] = heap[a]
  /\ EndSession(s, hd, h)

StepOf(s) ==
  \/ ConnStep(s)
  \/ \E f \in File : \E o \in FindOrLoad(f) : LoadStep(s, f, o)
  \/ \E f \in File : \E o \in FindOrLoad(f) : \E n \in DOMAIN o.doc.head :
       GrantStep(s, f, o, n)
  \/ \E hd, h : EndStep(s, hd, h)

(* A commit ends its session with a list of its own nodes. *)
LEMMA SpliceEnds ==
  ASSUME IInv, NEW s \in Sock, NEW n \in DOMAIN docs[sessions[s].doc].head,
         NEW new \in FreshLists(0, MaxNew), EtirwSplice(s, n, new)
  PROVE  LET d == sessions[s].doc
         IN EndStep(s, Spliced(docs[d].head, n, new),
                    Release(Claim(heap, new, d), {sessions[s].ptr}))
<1> DEFINE d  == sessions[s].doc
           p  == sessions[s].ptr
           hd == docs[d].head
<1> USE BoundAssumption
<1>1. /\ hd[n] = p
      /\ EndSession(s, Spliced(hd, n, new), Release(Claim(heap, new, d), {p}))
  BY DEF EtirwSplice
<1> DEFINE h == Release(Claim(heap, new, d), {p})
<1>2. /\ sessions[s].active /\ HasSession(conn[s])
      /\ d \in DocSlot /\ d \in 0..MaxDocs /\ p \in Addr
  BY DEF EtirwSplice, IInv, SessionOnDoc, HasSession, DocSlot
<1>3. hd \in Seq(Addr) /\ Distinct(hd) /\ \A a \in Nodes(hd) : heap[a] = d
  BY <1>2 DEF IInv, TypeOK, Doc, HeadsOwned
<1>4. new \in Seq(Addr) /\ Distinct(new) /\ \A a \in Nodes(new) : a \in Addr /\ heap[a] = 0
  BY FreshListsType
<1>5. Nodes(hd) \cap Nodes(new) = {}
  BY <1>2, <1>3, <1>4 DEF DocSlot
<1>6. /\ Spliced(hd, n, new) \in Seq(Addr) /\ Distinct(Spliced(hd, n, new))
      /\ Nodes(Spliced(hd, n, new)) \subseteq (Nodes(hd) \ {p}) \cup Nodes(new)
  BY <1>1, <1>3, <1>4, <1>5, SplicedFacts
<1>7. h \in [Addr -> 0..MaxDocs]
  BY <1>2 DEF IInv, TypeOK, Claim, Release
<1>8. p \in Nodes(hd) /\ Nodes(hd) \subseteq Addr
  BY <1>1, <1>3 DEF Nodes
<1>9. \A a \in Nodes(Spliced(hd, n, new)) : h[a] = d
  BY <1>3, <1>4, <1>5, <1>6, <1>8 DEF Claim, Release
<1>10. \A a \in Addr : heap[a] # 0 /\ (a # p \/ heap[a] # d) => h[a] = heap[a]
  BY <1>3, <1>4, <1>8 DEF Claim, Release
<1> QED
  BY <1>1, <1>2, <1>6, <1>7, <1>9, <1>10 DEF EndStep

(* An end that keeps the list as it is. *)
LEMMA PlainEnds ==
  ASSUME IInv, NEW s \in Sock, sessions[s].active, HasSession(conn[s]),
         EndSession(s, docs[sessions[s].doc].head, heap)
  PROVE  EndStep(s, docs[sessions[s].doc].head, heap)
<1>1. sessions[s].doc \in DocSlot
  BY DEF IInv, SessionOnDoc
<1> QED
  BY <1>1 DEF EndStep, IInv, TypeOK, Doc, HeadsOwned

(* Every step of a socket is one of the four. *)
LEMMA StepKinds ==
  ASSUME IInv, Next
  PROVE  Restart \/ \E s \in Sock : StepOf(s)
<1> SUFFICES ASSUME ~Restart PROVE \E s \in Sock : StepOf(s)
  OBVIOUS
<1>1. PICK s \in Sock :
        \/ Connect(s) \/ SendWrite(s) \/ SendEtirw(s) \/ Hangup(s)
        \/ ClientWrite(s) \/ Etirw(s) \/ Disconnect(s)
  BY DEF Next
<1>2. conn \in [Sock -> Phase] /\ gone \subseteq Sock /\ TypeOK
  BY DEF IInv, TypeOK
<1>3. CASE Connect(s) \/ SendWrite(s) \/ SendEtirw(s) \/ EtirwNotFound(s)
  BY <1>2, <1>3
     DEF Connect, SendWrite, SendEtirw, EtirwNotFound, StepOf, ConnStep, HasSession, Phase
<1>4. CASE Hangup(s)
  <2>1. conn' = [conn EXCEPT ![s] = conn[s]]
    BY <1>2, <1>4 DEF Hangup
  <2> QED
    BY <1>2, <1>4, <2>1 DEF Hangup, StepOf, ConnStep
<1>5. CASE ClientWrite(s)
  <2>1. PICK f \in File :
          \/ LoadFails(s, f)
          \/ \E o \in FindOrLoad(f) :
               \/ InvalidSentence(s, o)
               \/ LockConflict(s, f, o)
               \/ \E n \in DOMAIN o.doc.head : Grant(s, f, o, n)
    BY <1>5 DEF ClientWrite
  <2>2. CASE LoadFails(s, f)
    BY <1>2, <2>2 DEF LoadFails, CloseSock, StepOf, ConnStep, HasSession, Phase
  <2>3. CASE \E o \in FindOrLoad(f) : InvalidSentence(s, o) \/ LockConflict(s, f, o)
    BY <2>3 DEF InvalidSentence, LockConflict, StepOf, LoadStep
  <2>4. CASE \E o \in FindOrLoad(f) : \E n \in DOMAIN o.doc.head : Grant(s, f, o, n)
    BY <2>4 DEF StepOf, GrantStep
  <2> QED
    BY <2>1, <2>2, <2>3, <2>4
<1>6. CASE EtirwApplyFails(s)
  BY <1>6, PlainEnds DEF EtirwApplyFails, HasSession, StepOf
<1>7. CASE \E n \in DOMAIN docs[sessions[s].doc].head, new \in FreshLists(0, MaxNew) :
             EtirwSplice(s, n, new)
  BY <1>7, SpliceEnds DEF StepOf
<1>8. CASE Disconnect(s)
  <2>1. CASE sessions[s].active
    <3>1. HasSession(conn[s])
      BY <2>1 DEF IInv, SessionNeedsConnection, HasSession
    <3> QED
      BY <1>8, <2>1, <3>1, PlainEnds DEF Disconnect, StepOf
  <2>2. CASE ~sessions[s].active
    <3>1. ~HasSession(conn[s])
      BY <2>2 DEF IInv, SessionNeedsConnection, HasSession
    <3> QED
      BY <1>2, <1>8, <2>2, <3>1
         DEF Disconnect, CloseSock, StepOf, ConnStep, HasSession, Phase
  <2> QED
    BY <2>1, <2>2
<1> QED
  BY <1>1, <1>3, <1>4, <1>5, <1>6, <1>7, <1>8 DEF Etirw

-----------------------------------------------------------------------------
(* Each part of the invariant is preserved by each kind of step. *)

LEMMA TypeStep ==
  ASSUME IInv, NEW s \in Sock, StepOf(s)
  PROVE  TypeOK'
<1> USE BoundAssumption, TypeOK DEF IInv
<1>1. CASE ConnStep(s)
  BY <1>1 DEF TypeOK, ConnStep
<1>2. ASSUME NEW f \in File, NEW o \in FindOrLoad(f), LoadStep(s, f, o)
      PROVE  TypeOK'
  BY <1>2, FindOrLoadFacts DEF TypeOK, LoadStep, CloseSock, Phase
<1>3. ASSUME NEW f \in File, NEW o \in FindOrLoad(f), NEW n \in DOMAIN o.doc.head,
             GrantStep(s, f, o, n)
      PROVE  TypeOK'
  <2>1. /\ o.slot \in DocSlot /\ o.doc \in Doc /\ o.heap \in [Addr -> 0..MaxDocs]
        /\ o.slot \in 0..MaxDocs
    BY FindOrLoadFacts DEF DocSlot
  <2>2. o.doc.head[n] \in Addr
    BY <2>1 DEF Doc
  <2>3. docs' \in [DocSlot -> Doc]
    <3>1. [o.doc EXCEPT !.users = @ + 1] \in Doc
      <4>1. o.doc.users + 1 \in Int
        BY <2>1 DEF Doc
      <4> QED
        BY <2>1, <4>1 DEF Doc
    <3> QED
      BY <1>3, <2>1, <3>1 DEF TypeOK, GrantStep, Grant
  <2>4. locks' \in [LockSlot -> Lock]
    <3>1. [active |-> TRUE, file |-> f, ptr |-> o.doc.head[n], sock |-> s] \in Lock
      BY <2>2 DEF Lock
    <3> QED
      BY <1>3, <3>1 DEF TypeOK, GrantStep, Grant, CreateLock, First, FreeLocks
  <2>5. sessions' \in [Sock -> Session]
    BY <1>3, <2>1, <2>2 DEF TypeOK, GrantStep, Grant, Session
  <2>6. heap' \in [Addr -> 0..MaxDocs] /\ conn' \in [Sock -> Phase] /\ gone' \in SUBSET Sock
    BY <1>3, <2>1 DEF TypeOK, GrantStep, Grant, Phase
  <2> QED
    BY <2>3, <2>4, <2>5, <2>6 DEF TypeOK
<1>4. ASSUME NEW hd, NEW h, EndStep(s, hd, h)
      PROVE  TypeOK'
  <2>1. sessions[s].doc \in DocSlot
    BY <1>4 DEF SessionOnDoc, EndStep
  <2>2. docs' \in [DocSlot -> Doc]
    <3>1. NoDoc \in Doc
      BY DEF NoDoc, Doc
    <3>2. docs[sessions[s].doc].users - 1 \in Int
      BY <2>1 DEF TypeOK, Doc
    <3>3. [docs[sessions[s].doc] EXCEPT !.head = hd, !.users = docs[sessions[s].doc].users - 1]
            \in Doc
      BY <1>4, <2>1, <3>2, ZenonT(40) DEF TypeOK, EndStep, Doc
    <3> QED
      BY <1>4, <2>1, <3>1, <3>3, ZenonT(40) DEF TypeOK, EndStep, EndSession
  <2>3. locks' \in [LockSlot -> Lock]
    BY <1>4 DEF TypeOK, EndStep, EndSession, ReleaseLock, NoLock, Lock
  <2>4. sessions' \in [Sock -> Session]
    BY <1>4 DEF TypeOK, EndStep, EndSession, NoSession, Session
  <2>5. heap' \in [Addr -> 0..MaxDocs]
    <3>1. 0 \in 0..MaxDocs
      OBVIOUS
    <3>2. Release(h, Nodes(hd)) \in [Addr -> 0..MaxDocs]
      BY <1>4, <3>1 DEF EndStep, Release
    <3> QED
      BY <1>4, <3>2 DEF EndStep, EndSession
  <2>6. conn' \in [Sock -> Phase] /\ gone' \in SUBSET Sock
    BY <1>4 DEF TypeOK, EndStep, EndSession, CloseSock, Phase
  <2> QED
    BY <2>2, <2>3, <2>4, <2>5, <2>6 DEF TypeOK
<1> QED
  BY <1>1, <1>2, <1>3, <1>4 DEF StepOf

(* The connection and the session of a socket change together. *)
LEMMA ConnectionStep ==
  ASSUME IInv, NEW s \in Sock, StepOf(s)
  PROVE  SessionNeedsConnection'
<1> USE TypeOK DEF IInv
<1>1. CASE ConnStep(s)
  BY <1>1 DEF TypeOK, ConnStep, HasSession, SessionNeedsConnection
<1>2. ASSUME NEW f \in File, NEW o \in FindOrLoad(f), LoadStep(s, f, o)
      PROVE  SessionNeedsConnection'
  BY <1>2 DEF TypeOK, LoadStep, CloseSock, SessionNeedsConnection
<1>3. ASSUME NEW f \in File, NEW o \in FindOrLoad(f), NEW n \in DOMAIN o.doc.head,
             GrantStep(s, f, o, n)
      PROVE  SessionNeedsConnection'
  BY <1>3 DEF TypeOK, GrantStep, Grant, SessionNeedsConnection
<1>4. ASSUME NEW hd, NEW h, EndStep(s, hd, h)
      PROVE  SessionNeedsConnection'
  BY <1>4 DEF TypeOK, EndStep, EndSession, CloseSock, NoSession, SessionNeedsConnection
<1> QED
  BY <1>1, <1>2, <1>3, <1>4 DEF StepOf

(* When the last user leaves, no other session is on the document. *)
LEMMA LastEditor ==
  ASSUME IInv, NEW s \in Sock, sessions[s].active
  PROVE  LET d == sessions[s].doc
         IN /\ IsFiniteSet(Editors(d))
            /\ Cardinality(Editors(d) \ {s}) = docs[d].users - 1
            /\ docs[d].users - 1 =< 0 => Editors(d) = {s}
            /\ docs[d].users \in Nat \ {0}
<1> DEFINE d == sessions[s].doc
<1>1. d \in DocSlot /\ s \in Editors(d)
  BY DEF IInv, SessionOnDoc, Editors
<1>2. IsFiniteSet(Editors(d))
  BY BoundAssumption, FS_Subset DEF Editors
<1>3. docs[d].users = Cardinality(Editors(d))
  BY <1>1 DEF IInv, UsersAreSessions
<1>4. /\ IsFiniteSet(Editors(d) \ {s})
      /\ Cardinality(Editors(d) \ {s}) = Cardinality(Editors(d)) - 1
  BY <1>1, <1>2, FS_RemoveElement
<1>5. Cardinality(Editors(d) \ {s}) \in Nat /\ Cardinality(Editors(d)) \in Nat
  BY <1>2, <1>4, FS_CardinalityType
<1>6. ASSUME docs[d].users - 1 =< 0 PROVE Editors(d) = {s}
  <2>1. Cardinality(Editors(d) \ {s}) = 0
    BY <1>3, <1>4, <1>5, <1>6
  <2>2. Editors(d) \ {s} = {}
    BY <1>4, <2>1, FS_EmptySet
  <2> QED
    BY <1>1, <2>2
<1> QED
  BY <1>2, <1>3, <1>4, <1>5, <1>6

(* What an end of session changes in the tables, one document at a time. *)
LEMMA EndEffect ==
  ASSUME IInv, NEW s \in Sock, NEW hd, NEW h, EndStep(s, hd, h)
  PROVE  LET d == sessions[s].doc
         IN /\ d \in DocSlot /\ s \in Editors(d)
            /\ \A i \in DocSlot : i # d => docs'[i] = docs[i]
            /\ \A t \in Sock : sessions'[t] = IF t = s THEN NoSession ELSE sessions[t]
            /\ \/ /\ docs[d].users - 1 > 0
                  /\ docs'[d].active /\ docs'[d].file = docs[d].file
                  /\ docs'[d].head = hd /\ docs'[d].users = docs[d].users - 1
                  /\ heap' = h
               \/ /\ docs[d].users - 1 =< 0 /\ Editors(d) = {s}
                  /\ docs'[d] = NoDoc
                  /\ heap' = Release(h, Nodes(hd))
<1> DEFINE d == sessions[s].doc
<1>1. d \in DocSlot /\ s \in Editors(d) /\ docs[d].active
  BY DEF EndStep, IInv, SessionOnDoc, Editors
<1>2. docs[d].users - 1 =< 0 => Editors(d) = {s}
  BY LastEditor DEF EndStep
<1>3. docs \in [DocSlot -> Doc] /\ sessions \in [Sock -> Session]
  BY DEF IInv, TypeOK
<1>4. \A t \in Sock : sessions'[t] = IF t = s THEN NoSession ELSE sessions[t]
  BY <1>3 DEF EndStep, EndSession
<1>5. docs[d].users - 1 \in Int
  BY <1>1, <1>3 DEF Doc
<1>6. CASE docs[d].users - 1 > 0
  <2>1. /\ docs' = [docs EXCEPT ![d].head = hd, ![d].users = docs[d].users - 1]
        /\ heap' = h
    BY <1>5, <1>6 DEF EndStep, EndSession
  <2> QED
    BY <1>1, <1>3, <1>4, <1>6, <2>1 DEF Doc
<1>7. CASE docs[d].users - 1 =< 0
  <2>1. /\ docs' = [docs EXCEPT ![d] = NoDoc]
        /\ heap' = Release(h, Nodes(hd))
    BY <1>5, <1>7 DEF EndStep, EndSession
  <2> QED
    BY <1>1, <1>2, <1>3, <1>4, <1>7, <2>1
<1> QED
  BY <1>5, <1>6, <1>7

(* What granting a sentence changes in the tables. *)
LEMMA GrantEffect ==
  ASSUME IInv, NEW s \in Sock, NEW f \in File, NEW o \in FindOrLoad(f),
         NEW n \in DOMAIN o.doc.head, GrantStep(s, f, o, n)
  PROVE  /\ ~sessions[s].active
         /\ \A i \in DocSlot : i # o.slot => docs'[i] = docs[i]
         /\ docs'[o.slot].active /\ docs'[o.slot].file = f
         /\ docs'[o.slot].head = o.doc.head
         /\ docs'[o.slot].users = o.doc.users + 1
         /\ \A t \in Sock : sessions'[t] =
              IF t = s THEN [active |-> TRUE, doc |-> o.slot, ptr |-> o.doc.head[n]]
              ELSE sessions[t]
<1>1. /\ o.slot \in DocSlot /\ o.doc \in Doc /\ o.doc.active /\ o.doc.file = f
  BY FindOrLoadFacts DEF IInv
<1>2. ~sessions[s].active
  BY DEF GrantStep, Grant, IInv, SessionNeedsConnection
<1> QED
  BY <1>1, <1>2 DEF GrantStep, Grant, IInv, TypeOK, Doc

(* The user count of a document follows its sessions. *)
LEMMA UsersStep ==
  ASSUME IInv, NEW s \in Sock, StepOf(s)
  PROVE  UsersAreSessions'
<1> USE DEF IInv
<1>0. \A i \in DocSlot : IsFiniteSet(Editors(i))
  BY BoundAssumption, FS_Subset DEF Editors
<1>1. CASE ConnStep(s)
  BY <1>1 DEF ConnStep, UsersAreSessions, Editors
<1>2. ASSUME NEW f \in File, NEW o \in FindOrLoad(f), LoadStep(s, f, o)
      PROVE  UsersAreSessions'
  <2>1. o.slot \in DocSlot /\ o.doc.active /\ (Loaded(o) \/ NewlyLoaded(o))
    BY FindOrLoadFacts
  <2>2. \A i \in DocSlot : Editors(i)' = Editors(i)
    BY <1>2 DEF LoadStep, Editors
  <2>3. docs[o.slot].users = o.doc.users
    <3>1. CASE Loaded(o)
      BY <3>1 DEF Loaded
    <3>2. CASE NewlyLoaded(o)
      <4>1. Editors(o.slot) = {} /\ docs[o.slot].users = Cardinality(Editors(o.slot))
        BY <2>1, <3>2 DEF NewlyLoaded, UsersAreSessions
      <4> QED
        BY <3>2, <4>1, FS_EmptySet DEF NewlyLoaded
    <3> QED
      BY <2>1, <3>1, <3>2
  <2> QED
    BY <1>2, <2>1, <2>2, <2>3 DEF LoadStep, UsersAreSessions, TypeOK
<1>3. ASSUME NEW f \in File, NEW o \in FindOrLoad(f), NEW n \in DOMAIN o.doc.head,
             GrantStep(s, f, o, n)
      PROVE  UsersAreSessions'
  <2>1. o.slot \in DocSlot /\ (Loaded(o) \/ NewlyLoaded(o))
    BY FindOrLoadFacts
  <2>0. /\ ~sessions[s].active
        /\ \A i \in DocSlot : i # o.slot => docs'[i] = docs[i]
        /\ docs'[o.slot].active /\ docs'[o.slot].users = o.doc.users + 1
        /\ \A t \in Sock : sessions'[t] =
             IF t = s THEN [active |-> TRUE, doc |-> o.slot, ptr |-> o.doc.head[n]]
             ELSE sessions[t]
    BY <1>3, GrantEffect
  <2>2. \A i \in DocSlot :
          Editors(i)' = IF i = o.slot THEN Editors(i) \cup {s} ELSE Editors(i)
    BY <2>0 DEF Editors
  <2>3. o.doc.users = Cardinality(Editors(o.slot))
    <3>1. CASE Loaded(o)
      BY <2>1, <3>1 DEF Loaded, UsersAreSessions
    <3>2. CASE NewlyLoaded(o)
      <4>1. Editors(o.slot) = {}
        BY <2>1, <3>2 DEF NewlyLoaded, UsersAreSessions
      <4> QED
        BY <3>2, <4>1, FS_EmptySet DEF NewlyLoaded
    <3> QED
      BY <2>1, <3>1, <3>2
  <2>4. Cardinality(Editors(o.slot) \cup {s}) = Cardinality(Editors(o.slot)) + 1
    <3>1. s \notin Editors(o.slot)
      BY <2>0 DEF Editors
    <3> QED
      BY <1>0, <2>1, <3>1, FS_AddElement
  <2>5. ASSUME NEW i \in DocSlot
        PROVE  /\ docs'[i].users = Cardinality(Editors(i)')
               /\ ~docs'[i].active => Editors(i)' = {}
    BY <2>0, <2>1, <2>2, <2>3, <2>4 DEF UsersAreSessions
  <2> QED
    BY <2>5 DEF UsersAreSessions
<1>4. ASSUME NEW hd, NEW h, EndStep(s, hd, h)
      PROVE  UsersAreSessions'
  <2> DEFINE d == sessions[s].doc
  <2>1. \A i \in DocSlot : Editors(i)' = IF i = d THEN Editors(i) \ {s} ELSE Editors(i)
    BY <1>4, EndEffect DEF Editors, NoSession
  <2>2. /\ Cardinality(Editors(d) \ {s}) = docs[d].users - 1
        /\ docs[d].users - 1 =< 0 => Editors(d) = {s}
    BY <1>4, LastEditor DEF EndStep
  <2>3. ASSUME NEW i \in DocSlot
        PROVE  /\ docs'[i].users = Cardinality(Editors(i)')
               /\ ~docs'[i].active => Editors(i)' = {}
    <3>1. CASE i # d
      BY <1>4, <2>1, <3>1, EndEffect DEF UsersAreSessions
    <3>2. CASE i = d
      <4>1. Editors(i)' = Editors(i) \ {s}
        BY <2>1, <3>2
      <4>2. CASE docs'[i].active
        <5>1. docs'[i].users = docs[d].users - 1
          BY <1>4, <3>2, <4>2, EndEffect DEF NoDoc
        <5> QED
          BY <2>2, <3>2, <4>1, <4>2, <5>1
      <4>3. CASE ~docs'[i].active
        <5>1. docs'[i] = NoDoc /\ Editors(i) = {s}
          BY <1>4, <3>2, <4>3, EndEffect
        <5>2. Editors(i)' = {}
          BY <4>1, <5>1
        <5>3. Cardinality({}) = 0
          BY FS_EmptySet
        <5>4. Cardinality(Editors(i)') = Cardinality({})
          BY <5>2
        <5> QED
          BY <5>1, <5>2, <5>3, <5>4 DEF NoDoc
      <4> QED
        BY <4>2, <4>3
    <3> QED
      BY <3>1, <3>2
  <2> QED
    BY <2>3 DEF UsersAreSessions
<1> QED
  BY <1>1, <1>2, <1>3, <1>4 DEF StepOf

(* Sessions stay on loaded documents, and loaded documents keep names. *)
LEMMA DocumentStep ==
  ASSUME IInv, NEW s \in Sock, StepOf(s)
  PROVE  SessionOnDoc' /\ DocNamed' /\ OneCopyPerFile'
<1> USE DEF IInv
<1>1. CASE ConnStep(s)
  BY <1>1 DEF ConnStep, SessionOnDoc, DocNamed, OneCopyPerFile
<1>2. ASSUME NEW f \in File, NEW o \in FindOrLoad(f), LoadStep(s, f, o)
      PROVE  SessionOnDoc' /\ DocNamed' /\ OneCopyPerFile'
  <2>1. /\ o.slot \in DocSlot /\ o.doc.active /\ o.doc.file = f
        /\ Loaded(o) \/ NewlyLoaded(o)
    BY FindOrLoadFacts
  <2>2. \A i \in DocSlot : docs'[i] = IF i = o.slot THEN o.doc ELSE docs[i]
    BY <1>2, <2>1 DEF LoadStep, TypeOK
  <2>3. UNCHANGED sessions
    BY <1>2 DEF LoadStep
  <2>4. OneCopyPerFile'
    BY <2>1, <2>2 DEF OneCopyPerFile, Loaded, NewlyLoaded, LoadedAt
  <2> QED
    BY <2>1, <2>2, <2>3, <2>4 DEF SessionOnDoc, DocNamed
<1>3. ASSUME NEW f \in File, NEW o \in FindOrLoad(f), NEW n \in DOMAIN o.doc.head,
             GrantStep(s, f, o, n)
      PROVE  SessionOnDoc' /\ DocNamed' /\ OneCopyPerFile'
  <2>1. /\ o.slot \in DocSlot /\ o.doc \in Doc /\ o.doc.file = f
        /\ Loaded(o) \/ NewlyLoaded(o)
    BY FindOrLoadFacts
  <2>2. /\ \A i \in DocSlot : i # o.slot => docs'[i] = docs[i]
        /\ docs'[o.slot].active /\ docs'[o.slot].file = f
        /\ \A t \in Sock : sessions'[t] =
             IF t = s THEN [active |-> TRUE, doc |-> o.slot, ptr |-> o.doc.head[n]]
             ELSE sessions[t]
    BY <1>3, GrantEffect
  <2>3. o.doc.head[n] \in Addr
    BY <2>1 DEF Doc
  <2>4. OneCopyPerFile'
    BY <2>1, <2>2 DEF OneCopyPerFile, Loaded, NewlyLoaded, LoadedAt
  <2>5. SessionOnDoc'
    BY <2>1, <2>2, <2>3 DEF SessionOnDoc
  <2> QED
    BY <2>1, <2>2, <2>4, <2>5 DEF DocNamed
<1>4. ASSUME NEW hd, NEW h, EndStep(s, hd, h)
      PROVE  SessionOnDoc' /\ DocNamed' /\ OneCopyPerFile'
  <2> DEFINE d == sessions[s].doc
  <2>0. docs[d].active
    BY <1>4 DEF EndStep, SessionOnDoc
  <2>1. /\ d \in DocSlot
        /\ \A i \in DocSlot : i # d => docs'[i] = docs[i]
        /\ \A t \in Sock : sessions'[t] = IF t = s THEN NoSession ELSE sessions[t]
        /\ \/ docs'[d].active /\ docs'[d].file = docs[d].file
           \/ docs'[d] = NoDoc /\ Editors(d) = {s}
    BY <1>4, EndEffect
  <2>2. SessionOnDoc'
    <3> SUFFICES ASSUME NEW t \in Sock, sessions'[t].active
                 PROVE  /\ sessions'[t].doc \in DocSlot /\ sessions'[t].ptr \in Addr
                        /\ docs'[sessions'[t].doc].active
      BY DEF SessionOnDoc
    <3>1. t # s /\ sessions'[t] = sessions[t]
      BY <2>1 DEF NoSession
    <3>2. docs'[d] = NoDoc /\ Editors(d) = {s} => sessions[t].doc # d
      BY <3>1 DEF Editors
    <3> QED
      BY <2>1, <3>1, <3>2 DEF SessionOnDoc
  <2>3. DocNamed'
    BY <2>0, <2>1 DEF DocNamed, NoDoc
  <2>4. OneCopyPerFile'
    BY <2>0, <2>1 DEF OneCopyPerFile, NoDoc
  <2> QED
    BY <2>2, <2>3, <2>4
<1> QED
  BY <1>1, <1>2, <1>3, <1>4 DEF StepOf

(* A list keeps to its own nodes: a new one is made of free addresses, and *)
(* an end of session frees nothing of another document.                    *)
LEMMA HeadsStep ==
  ASSUME IInv, NEW s \in Sock, StepOf(s)
  PROVE  HeadsOwned'
<1> USE DEF IInv
<1>0. \A i \in DocSlot : Nodes(docs[i].head) \subseteq Addr
  BY DEF TypeOK, Doc, Nodes
<1>1. CASE ConnStep(s)
  BY <1>1 DEF ConnStep, HeadsOwned
<1>2. ASSUME NEW f \in File, NEW o \in FindOrLoad(f),
             \A i \in DocSlot : i # o.slot => docs'[i].head = docs[i].head,
             docs'[o.slot].head = o.doc.head, heap' = o.heap
      PROVE  HeadsOwned'
  <2>1. /\ o.slot \in DocSlot /\ o.doc \in Doc
        /\ Loaded(o) \/ NewlyLoaded(o)
    BY FindOrLoadFacts
  <2>2. CASE Loaded(o)
    BY <1>2, <2>1, <2>2 DEF Loaded, HeadsOwned
  <2>3. CASE NewlyLoaded(o)
    <3>1. Nodes(o.doc.head) \subseteq Addr
      BY <2>1 DEF Doc, Nodes
    <3>2. \A a \in Addr :
            heap'[a] = IF a \in Nodes(o.doc.head) THEN o.slot ELSE heap[a]
      BY <1>2, <2>3 DEF NewlyLoaded, Claim
    <3>3. ASSUME NEW i \in DocSlot
          PROVE  Distinct(docs'[i].head) /\ \A a \in Nodes(docs'[i].head) : heap'[a] = i
      <4>1. CASE i = o.slot
        BY <1>2, <2>3, <3>1, <3>2, <4>1 DEF NewlyLoaded
      <4>2. CASE i # o.slot
        <5>1. docs'[i].head = docs[i].head
          BY <1>2, <4>2
        <5>2. \A a \in Nodes(docs[i].head) : heap[a] = i /\ i # 0 /\ a \in Addr
          BY <1>0 DEF HeadsOwned, DocSlot
        <5> QED
          BY <2>3, <3>2, <5>1, <5>2 DEF NewlyLoaded, HeadsOwned
      <4> QED
        BY <4>1, <4>2
    <3> QED
      BY <3>3 DEF HeadsOwned
  <2> QED
    BY <2>1, <2>2, <2>3
<1>3. ASSUME NEW f \in File, NEW o \in FindOrLoad(f), LoadStep(s, f, o)
      PROVE  HeadsOwned'
  <2>1. /\ \A i \in DocSlot : i # o.slot => docs'[i].head = docs[i].head
        /\ docs'[o.slot].head = o.doc.head /\ heap' = o.heap
    BY <1>3, FindOrLoadFacts DEF LoadStep, TypeOK
  <2> QED
    BY <1>2, <2>1
<1>4. ASSUME NEW f \in File, NEW o \in FindOrLoad(f), NEW n \in DOMAIN o.doc.head,
             GrantStep(s, f, o, n)
      PROVE  HeadsOwned'
  <2>1. /\ \A i \in DocSlot : i # o.slot => docs'[i].head = docs[i].head
        /\ docs'[o.slot].head = o.doc.head
    BY <1>4, FindOrLoadFacts DEF GrantStep, Grant, TypeOK, Doc
  <2>2. heap' = o.heap
    BY <1>4 DEF GrantStep, Grant
  <2> QED
    BY <1>2, <2>1, <2>2
<1>5. ASSUME NEW hd, NEW h, EndStep(s, hd, h)
      PROVE  HeadsOwned'
  <2> DEFINE d == sessions[s].doc
  <2>1. /\ d \in DocSlot
        /\ \A i \in DocSlot : i # d => docs'[i] = docs[i]
        /\ \/ docs'[d].head = hd /\ heap' = h
           \/ docs'[d] = NoDoc /\ heap' = Release(h, Nodes(hd))
    BY <1>5, EndEffect
  <2>2. /\ Distinct(hd) /\ \A a \in Nodes(hd) : h[a] = d
        /\ \A a \in Addr : heap[a] # 0 /\ heap[a] # d => h[a] = heap[a]
    BY <1>5 DEF EndStep
  <2>3. ASSUME NEW i \in DocSlot
        PROVE  Distinct(docs'[i].head) /\ \A a \in Nodes(docs'[i].head) : heap'[a] = i
    <3>1. CASE i = d
      BY <2>1, <2>2, <3>1 DEF NoDoc, Distinct, Nodes
    <3>2. CASE i # d
      <4>1. docs'[i] = docs[i]
        BY <2>1, <3>2
      <4>2. \A a \in Nodes(docs[i].head) : a \in Addr /\ heap[a] = i /\ i # 0 /\ i # d
        BY <1>0, <3>2 DEF HeadsOwned, DocSlot
      <4>3. \A a \in Nodes(docs[i].head) : h[a] = i /\ a \notin Nodes(hd)
        BY <2>2, <4>2
      <4> QED
        BY <2>1, <4>1, <4>2, <4>3 DEF HeadsOwned, Release
    <3> QED
      BY <3>1, <3>2
  <2> QED
    BY <2>3 DEF HeadsOwned
<1> QED
  BY <1>1, <1>3, <1>4, <1>5 DEF StepOf

(* Locks: one per sentence, each owned by the session it was made for. *)
LEMMA LocksStep ==
  ASSUME IInv, NEW s \in Sock, StepOf(s)
  PROVE  LockUnique' /\ LockHasOwner'
<1> USE DEF IInv
<1>1. CASE ConnStep(s)
  BY <1>1 DEF ConnStep, LockUnique, LockHasOwner
<1>2. ASSUME NEW f \in File, NEW o \in FindOrLoad(f), LoadStep(s, f, o)
      PROVE  LockUnique' /\ LockHasOwner'
  <2>1. o.slot \in DocSlot /\ (Loaded(o) \/ NewlyLoaded(o))
    BY FindOrLoadFacts
  <2>2. /\ UNCHANGED <<locks, sessions>>
        /\ \A i \in DocSlot : docs[i].active => docs'[i] = docs[i]
    BY <1>2, <2>1 DEF LoadStep, Loaded, NewlyLoaded, TypeOK
  <2>3. LockHasOwner'
    BY <2>2 DEF LockHasOwner, SessionOnDoc
  <2> QED
    BY <2>2, <2>3 DEF LockUnique
<1>3. ASSUME NEW f \in File, NEW o \in FindOrLoad(f), NEW n \in DOMAIN o.doc.head,
             GrantStep(s, f, o, n)
      PROVE  LockUnique' /\ LockHasOwner'
  <2> DEFINE p == o.doc.head[n]
             new == [active |-> TRUE, file |-> f, ptr |-> p, sock |-> s]
  <2>1. /\ o.slot \in DocSlot /\ o.doc.file = f
        /\ Loaded(o) \/ NewlyLoaded(o)
    BY FindOrLoadFacts
  <2>2. /\ ~sessions[s].active
        /\ \A i \in DocSlot : i # o.slot => docs'[i] = docs[i]
        /\ docs'[o.slot].active /\ docs'[o.slot].file = f
        /\ \A t \in Sock : sessions'[t] =
             IF t = s THEN [active |-> TRUE, doc |-> o.slot, ptr |-> p] ELSE sessions[t]
    BY <1>3, GrantEffect
  <2>3. \A i \in DocSlot : docs[i].active => docs'[i].file = docs[i].file
    BY <2>1, <2>2 DEF Loaded, NewlyLoaded
  <2>4. Held(f, p) = {}
    BY <1>3 DEF GrantStep, Grant
  <2>5. CASE UNCHANGED locks
    <3>1. LockHasOwner'
      BY <2>2, <2>3, <2>5 DEF LockHasOwner, SessionOnDoc
    <3> QED
      BY <2>5, <3>1 DEF LockUnique
  <2>6. ASSUME NEW i \in LockSlot, \A j \in LockSlot : locks'[j] = IF j = i THEN new ELSE locks[j]
        PROVE  LockUnique' /\ LockHasOwner'
    <3>1. LockUnique'
      BY <2>4, <2>6 DEF LockUnique, Held
    <3>2. LockHasOwner'
      BY <2>2, <2>3, <2>6 DEF LockHasOwner, SessionOnDoc
    <3> QED
      BY <3>1, <3>2
  <2>7. \/ UNCHANGED locks
        \/ \E i \in LockSlot : \A j \in LockSlot : locks'[j] = IF j = i THEN new ELSE locks[j]
    BY <1>3 DEF GrantStep, Grant, CreateLock, First, FreeLocks, TypeOK
  <2> QED
    BY <2>5, <2>6, <2>7
<1>4. ASSUME NEW hd, NEW h, EndStep(s, hd, h)
      PROVE  LockUnique' /\ LockHasOwner'
  <2> DEFINE d == sessions[s].doc
             p == sessions[s].ptr
  <2>1. /\ d \in DocSlot
        /\ \A i \in DocSlot : i # d => docs'[i] = docs[i]
        /\ \A t \in Sock : sessions'[t] = IF t = s THEN NoSession ELSE sessions[t]
        /\ \/ docs'[d].active /\ docs'[d].file = docs[d].file
           \/ docs'[d] = NoDoc /\ Editors(d) = {s}
    BY <1>4, EndEffect
  <2>2. \A i \in LockSlot :
          locks'[i] = IF i \in First(Held(docs[d].file, p)) THEN NoLock ELSE locks[i]
    BY <1>4 DEF EndStep, EndSession, ReleaseLock
  <2>3. \A i \in LockSlot : locks[i].active /\ locks[i].sock = s
                              => i \in First(Held(docs[d].file, p))
    <3> SUFFICES ASSUME NEW i \in LockSlot, locks[i].active, locks[i].sock = s
                 PROVE  i \in First(Held(docs[d].file, p))
      OBVIOUS
    <3>1. i \in Held(docs[d].file, p)
      BY DEF LockHasOwner, Held
    <3>2. Held(docs[d].file, p) = {i}
      BY <3>1 DEF Held, LockUnique
    <3> QED
      BY <3>2 DEF First, LockSlot
  <2>4. LockUnique'
    BY <2>2 DEF LockUnique, NoLock
  <2>5. LockHasOwner'
    <3> SUFFICES ASSUME NEW i \in LockSlot, locks'[i].active
                 PROVE  /\ locks'[i].sock \in Sock
                        /\ LET e == sessions'[locks'[i].sock]
                           IN /\ e.active /\ e.ptr = locks'[i].ptr
                              /\ docs'[e.doc].file = locks'[i].file
      BY DEF LockHasOwner
    <3>1. locks'[i] = locks[i] /\ locks[i].active /\ locks[i].sock # s
      BY <2>2, <2>3 DEF NoLock
    <3> DEFINE t == locks[i].sock
    <3>2. /\ t \in Sock /\ t # s /\ sessions[t].active
          /\ sessions[t].ptr = locks[i].ptr /\ docs[sessions[t].doc].file = locks[i].file
          /\ sessions[t].doc \in DocSlot
      BY <3>1 DEF LockHasOwner, SessionOnDoc
    <3>3. sessions'[t] = sessions[t]
      BY <2>1, <3>2
    <3>4. docs'[d] = NoDoc /\ Editors(d) = {s} => sessions[t].doc # d
      BY <3>2 DEF Editors
    <3>5. docs'[sessions[t].doc].file = docs[sessions[t].doc].file
      BY <2>1, <3>2, <3>4
    <3> QED
      BY <3>1, <3>2, <3>3, <3>5
  <2> QED
    BY <2>4, <2>5
<1> QED
  BY <1>1, <1>2, <1>3, <1>4 DEF StepOf

-----------------------------------------------------------------------------
(* Theorems that need nothing of the number of lock slots *)

LEMMA InitIInv == Init => IInv
<1> SUFFICES ASSUME Init PROVE IInv
  OBVIOUS
<1> USE BoundAssumption DEF Init, NoDoc, NoLock, NoSession
<1>1. TypeOK
  BY DEF TypeOK, Doc, Lock, Session, Phase
<1>2. UsersAreSessions
  <2>1. \A i \in DocSlot : Editors(i) = {}
    BY DEF Editors
  <2>2. \A i \in DocSlot : docs[i].users = Cardinality(Editors(i))
    BY <2>1, FS_EmptySet
  <2> QED
    BY <2>1, <2>2 DEF UsersAreSessions
<1>3. SessionOnDoc /\ DocNamed /\ HeadsOwned /\ SessionNeedsConnection
  BY DEF SessionOnDoc, DocNamed, HeadsOwned, SessionNeedsConnection, Distinct, Nodes
<1>4. LockUnique /\ LockHasOwner /\ OneCopyPerFile
  BY DEF LockUnique, LockHasOwner, OneCopyPerFile
<1> QED
  BY <1>1, <1>2, <1>3, <1>4 DEF IInv

\* A restart leads to an initial state.
LEMMA RestartInit == Restart => Init'
BY DEF Restart, Init

LEMMA NextIInv == IInv /\ [Next]_vars => IInv'
<1> SUFFICES ASSUME IInv, [Next]_vars PROVE IInv'
  OBVIOUS
<1>0. CASE Restart
  BY <1>0, RestartInit, InitIInv, PTL
<1>1. CASE Next /\ ~Restart
  <2>1. PICK s \in Sock : StepOf(s)
    BY <1>1, StepKinds
  <2> QED
    BY <2>1, TypeStep, DocumentStep, HeadsStep, UsersStep, ConnectionStep, LocksStep
       DEF IInv
<1>2. CASE UNCHANGED vars
  BY <1>2 DEF vars, IInv, TypeOK, SessionOnDoc, DocNamed, HeadsOwned, UsersAreSessions,
              Editors, SessionNeedsConnection, LockUnique, LockHasOwner, OneCopyPerFile
<1> QED
  BY <1>0, <1>1, <1>2

(* The inductive invariant holds of every behaviour. *)
THEOREM InductiveInvariant == Spec => []IInv
BY InitIInv, NextIInv, PTL DEF Spec

(* Every variable keeps its type. *)
THEOREM TypeCorrect == Spec => []TypeOK
BY InductiveInvariant, PTL DEF IInv

(* num_users_editing counts the sessions on the document, so the list that *)
(* sessions point into is freed by the last of them and by no other.       *)
THEOREM UsersCounted == Spec => []UsersAreSessions
BY InductiveInvariant, PTL DEF IInv

(* No lock outlives the session it was made for, however that session ends *)
(* and even after locks ran out.                                           *)
THEOREM LocksOwned == Spec => []LockHasOwner
BY InductiveInvariant, PTL DEF IInv

(* No file is in memory twice. *)
THEOREM OneCopy == Spec => []OneCopyPerFile
BY InductiveInvariant, PTL DEF IInv

(* A descriptor the server closed carries no session over to the client    *)
(* that gets it next.                                                      *)
THEOREM SessionsConnected == Spec => []SessionNeedsConnection
BY InductiveInvariant, PTL DEF IInv

-----------------------------------------------------------------------------
(* Theorems under EnoughLocks: every session gets a lock *)

\* An active session holds the lock on its sentence.
SessionHasLock ==
  \A s \in Sock : sessions[s].active =>
    \E i \in LockSlot :
      /\ locks[i].active /\ locks[i].sock = s
      /\ locks[i].ptr = sessions[s].ptr
      /\ locks[i].file = docs[sessions[s].doc].file

\* The sentence of an active session is a node of its document, or was one.
SessionOwnsNode ==
  \A s \in Sock :
    IF sessions[s].active THEN heap[sessions[s].ptr] = sessions[s].doc
    ELSE sessions[s] = NoSession

LInv == IInv /\ SessionHasLock /\ SessionOwnsNode

(* Locks make sessions exclusive: one node belongs to one document, one    *)
(* document has one name, and one sentence has one lock.                   *)
LEMMA LocksExclude == LInv => MutualExclusion
<1> SUFFICES ASSUME LInv, NEW s \in Sock, NEW t \in Sock,
                    sessions[s].active, sessions[t].active,
                    sessions[s].ptr = sessions[t].ptr
             PROVE  s = t
  BY DEF MutualExclusion
<1>1. sessions[s].doc = sessions[t].doc
  BY DEF LInv, SessionOwnsNode
<1>2. PICK i \in LockSlot : /\ locks[i].active /\ locks[i].sock = s
                            /\ locks[i].ptr = sessions[s].ptr
                            /\ locks[i].file = docs[sessions[s].doc].file
  BY DEF LInv, SessionHasLock
<1>3. PICK j \in LockSlot : /\ locks[j].active /\ locks[j].sock = t
                            /\ locks[j].ptr = sessions[t].ptr
                            /\ locks[j].file = docs[sessions[t].doc].file
  BY DEF LInv, SessionHasLock
<1>4. i = j
  BY <1>1, <1>2, <1>3 DEF LInv, IInv, LockUnique
<1> QED
  BY <1>2, <1>3, <1>4

(* A socket without a session finds a free slot: each lock in use belongs  *)
(* to a different one of the other sockets.                                *)
LEMMA FreeLockExists ==
  ASSUME IInv, EnoughLocks, NEW s \in Sock, ~sessions[s].active
  PROVE  FreeLocks # {}
<1> SUFFICES ASSUME FreeLocks = {} PROVE FALSE
  OBVIOUS
<1> DEFINE owner == [i \in LockSlot |-> locks[i].sock]
<1>1. \A i \in LockSlot : locks[i].active
  BY DEF FreeLocks
<1>2. \A i \in LockSlot : /\ locks[i].sock \in Sock /\ locks[i].sock # s
                          /\ locks[i].ptr = sessions[locks[i].sock].ptr
                          /\ locks[i].file = docs[sessions[locks[i].sock].doc].file
  BY <1>1 DEF IInv, LockHasOwner
<1>3. owner \in Injection(LockSlot, Sock \ {s})
  <2>1. \A i, j \in LockSlot : owner[i] = owner[j] => i = j
    BY <1>1, <1>2 DEF IInv, LockUnique
  <2> QED
    BY <1>2, <2>1 DEF Injection, IsInjective
<1>4. /\ IsFiniteSet(Sock \ {s}) /\ Cardinality(Sock \ {s}) = Cardinality(Sock) - 1
      /\ Cardinality(Sock) \in Nat
  BY BoundAssumption, FS_RemoveElement, FS_CardinalityType
<1>5. Cardinality(LockSlot) =< Cardinality(Sock \ {s})
  BY <1>3, <1>4, FS_Injection
<1>6. Cardinality(LockSlot) = MaxLocks
  BY BoundAssumption, FS_Interval DEF LockSlot
<1> QED
  BY <1>4, <1>5, <1>6, BoundAssumption DEF EnoughLocks

LEMMA InitLInv == Init => LInv
BY InitIInv DEF LInv, Init, SessionHasLock, SessionOwnsNode, NoSession

(* The node of a session survives every step but the end of that session. *)
LEMMA OwnsNodeStep ==
  ASSUME LInv, NEW s \in Sock, StepOf(s)
  PROVE  SessionOwnsNode'
<1> USE DEF LInv
<1>0. \A t \in Sock : sessions[t].active =>
        /\ sessions[t].ptr \in Addr /\ sessions[t].doc \in DocSlot
        /\ heap[sessions[t].ptr] = sessions[t].doc /\ heap[sessions[t].ptr] # 0
  BY DEF IInv, SessionOnDoc, SessionOwnsNode, DocSlot
<1>1. CASE ConnStep(s)
  BY <1>1 DEF ConnStep, SessionOwnsNode
<1>2. ASSUME NEW f \in File, NEW o \in FindOrLoad(f)
      PROVE  \A t \in Sock : sessions[t].active => o.heap[sessions[t].ptr] = sessions[t].doc
  <2>1. Loaded(o) \/ NewlyLoaded(o)
    BY FindOrLoadFacts DEF IInv
  <2> QED
    BY <1>0, <2>1 DEF Loaded, NewlyLoaded, Claim
<1>3. ASSUME NEW f \in File, NEW o \in FindOrLoad(f), LoadStep(s, f, o)
      PROVE  SessionOwnsNode'
  BY <1>2, <1>3 DEF LoadStep, SessionOwnsNode
<1>4. ASSUME NEW f \in File, NEW o \in FindOrLoad(f), NEW n \in DOMAIN o.doc.head,
             GrantStep(s, f, o, n)
      PROVE  SessionOwnsNode'
  <2>1. heap' = o.heap
    BY <1>4 DEF GrantStep, Grant
  <2>2. \A t \in Sock : sessions'[t] =
          IF t = s THEN [active |-> TRUE, doc |-> o.slot, ptr |-> o.doc.head[n]]
          ELSE sessions[t]
    BY <1>4, GrantEffect
  <2>3. o.heap[o.doc.head[n]] = o.slot
    <3>1. /\ o.slot \in DocSlot /\ o.doc \in Doc
          /\ Loaded(o) \/ NewlyLoaded(o)
      BY FindOrLoadFacts DEF IInv
    <3>2. o.doc.head[n] \in Nodes(o.doc.head) /\ o.doc.head[n] \in Addr
      BY <3>1 DEF Nodes, Doc
    <3> QED
      BY <3>1, <3>2 DEF Loaded, NewlyLoaded, Claim, IInv, HeadsOwned
  <2> QED
    BY <1>2, <2>1, <2>2, <2>3 DEF SessionOwnsNode
<1>5. ASSUME NEW hd, NEW h, EndStep(s, hd, h)
      PROVE  SessionOwnsNode'
  <2> DEFINE d == sessions[s].doc
  <2>1. /\ \A t \in Sock : sessions'[t] = IF t = s THEN NoSession ELSE sessions[t]
        /\ heap' = h \/ (Editors(d) = {s} /\ heap' = Release(h, Nodes(hd)))
    BY <1>5, EndEffect
  <2>2. /\ \A a \in Nodes(hd) : h[a] = d
        /\ \A a \in Addr : heap[a] # 0 /\ a # sessions[s].ptr => h[a] = heap[a]
        /\ sessions[s].active
    BY <1>5 DEF EndStep
  <2>3. ASSUME NEW t \in Sock, t # s, sessions[t].active
        PROVE  heap'[sessions[t].ptr] = sessions[t].doc
    <3>1. sessions[t].ptr # sessions[s].ptr
      BY <2>2, <2>3, LocksExclude DEF MutualExclusion
    <3>2. h[sessions[t].ptr] = sessions[t].doc
      BY <1>0, <2>2, <2>3, <3>1
    <3>3. Editors(d) = {s} => sessions[t].ptr \notin Nodes(hd)
      BY <2>2, <2>3, <3>2 DEF Editors
    <3> QED
      BY <1>0, <2>1, <2>3, <3>2, <3>3 DEF Release
  <2>4. ASSUME NEW t \in Sock
        PROVE  IF sessions'[t].active THEN heap'[sessions'[t].ptr] = sessions'[t].doc
               ELSE sessions'[t] = NoSession
    <3>1. CASE t = s \/ ~sessions[t].active
      <4>1. sessions'[t] = NoSession
        BY <2>1, <3>1 DEF SessionOwnsNode
      <4> QED
        BY <4>1 DEF NoSession
    <3>2. CASE t # s /\ sessions[t].active
      BY <2>1, <2>3, <3>2
    <3> QED
      BY <3>1, <3>2
  <2> QED
    BY <2>4 DEF SessionOwnsNode
<1> QED
  BY <1>1, <1>3, <1>4, <1>5 DEF StepOf

(* A session keeps its lock: release_lock by another session cannot match  *)
(* it, because that session is on another sentence.                        *)
LEMMA HasLockStep ==
  ASSUME LInv, EnoughLocks, NEW s \in Sock, StepOf(s)
  PROVE  SessionHasLock'
<1> USE DEF LInv
<1>1. CASE ConnStep(s)
  BY <1>1 DEF ConnStep, SessionHasLock
<1>2. ASSUME NEW f \in File, NEW o \in FindOrLoad(f), LoadStep(s, f, o)
      PROVE  SessionHasLock'
  <2>1. o.slot \in DocSlot /\ (Loaded(o) \/ NewlyLoaded(o))
    BY FindOrLoadFacts DEF IInv
  <2>2. /\ UNCHANGED <<locks, sessions>>
        /\ \A i \in DocSlot : docs[i].active => docs'[i] = docs[i]
    BY <1>2, <2>1 DEF LoadStep, Loaded, NewlyLoaded, IInv, TypeOK
  <2> QED
    BY <2>2 DEF SessionHasLock, IInv, SessionOnDoc
<1>3. ASSUME NEW f \in File, NEW o \in FindOrLoad(f), NEW n \in DOMAIN o.doc.head,
             GrantStep(s, f, o, n)
      PROVE  SessionHasLock'
  <2> DEFINE p == o.doc.head[n]
             new == [active |-> TRUE, file |-> f, ptr |-> p, sock |-> s]
  <2>1. o.slot \in DocSlot /\ o.doc.file = f /\ (Loaded(o) \/ NewlyLoaded(o))
    BY FindOrLoadFacts DEF IInv
  <2>2. /\ ~sessions[s].active
        /\ \A i \in DocSlot : i # o.slot => docs'[i] = docs[i]
        /\ docs'[o.slot].active /\ docs'[o.slot].file = f
        /\ \A t \in Sock : sessions'[t] =
             IF t = s THEN [active |-> TRUE, doc |-> o.slot, ptr |-> p] ELSE sessions[t]
    BY <1>3, GrantEffect
  <2>3. \A i \in DocSlot : docs[i].active => docs'[i].file = docs[i].file
    BY <2>1, <2>2 DEF Loaded, NewlyLoaded
  <2>4. FreeLocks # {}
    BY <2>2, FreeLockExists
  <2>5. PICK i \in LockSlot :
          /\ ~locks[i].active
          /\ \A j \in LockSlot : locks'[j] = IF j = i THEN new ELSE locks[j]
    BY <1>3, <2>4 DEF GrantStep, Grant, CreateLock, First, FreeLocks, IInv, TypeOK
  <2> QED
    BY <2>2, <2>3, <2>5 DEF SessionHasLock, IInv, SessionOnDoc
<1>4. ASSUME NEW hd, NEW h, EndStep(s, hd, h)
      PROVE  SessionHasLock'
  <2> DEFINE d == sessions[s].doc
  <2>1. /\ d \in DocSlot
        /\ \A i \in DocSlot : i # d => docs'[i] = docs[i]
        /\ \A t \in Sock : sessions'[t] = IF t = s THEN NoSession ELSE sessions[t]
        /\ \/ docs'[d].active /\ docs'[d].file = docs[d].file
           \/ docs'[d] = NoDoc /\ Editors(d) = {s}
    BY <1>4, EndEffect
  <2>2. \A i \in LockSlot : locks[i].ptr # sessions[s].ptr => locks'[i] = locks[i]
    BY <1>4 DEF EndStep, EndSession, ReleaseLock, First, Held
  <2>3. ASSUME NEW t \in Sock, t # s, sessions[t].active
        PROVE  \E i \in LockSlot :
                 /\ locks'[i].active /\ locks'[i].sock = t
                 /\ locks'[i].ptr = sessions[t].ptr
                 /\ locks'[i].file = docs'[sessions[t].doc].file
    <3>1. sessions[t].ptr # sessions[s].ptr
      BY <1>4, <2>3, LocksExclude DEF EndStep, MutualExclusion
    <3>2. docs'[sessions[t].doc].file = docs[sessions[t].doc].file
      BY <2>1, <2>3 DEF Editors, IInv, SessionOnDoc
    <3>3. PICK i \in LockSlot :
            /\ locks[i].active /\ locks[i].sock = t
            /\ locks[i].ptr = sessions[t].ptr
            /\ locks[i].file = docs[sessions[t].doc].file
      BY <2>3 DEF SessionHasLock
    <3> QED
      BY <2>2, <3>1, <3>2, <3>3
  <2> QED
    BY <2>1, <2>3 DEF SessionHasLock, NoSession
<1> QED
  BY <1>1, <1>2, <1>3, <1>4 DEF StepOf

LEMMA NextLInv == EnoughLocks /\ LInv /\ [Next]_vars => LInv'
<1> SUFFICES ASSUME EnoughLocks, LInv, [Next]_vars PROVE LInv'
  OBVIOUS
<1>1. IInv'
  BY NextIInv DEF LInv
<1>2. CASE Restart
  BY <1>2, RestartInit, InitLInv, PTL
<1>3. CASE Next /\ ~Restart
  <2>1. PICK s \in Sock : StepOf(s)
    BY <1>3, StepKinds DEF LInv
  <2> QED
    BY <1>1, <2>1, OwnsNodeStep, HasLockStep DEF LInv
<1>4. CASE UNCHANGED vars
  BY <1>1, <1>4 DEF vars, LInv, SessionHasLock, SessionOwnsNode
<1> QED
  BY <1>2, <1>3, <1>4

(* With a lock slot for every connection each session owns its sentence.   *)
THEOREM LockInvariant == EnoughLocks => (Spec => []LInv)
<1> SUFFICES ASSUME EnoughLocks PROVE Spec => []LInv
  OBVIOUS
<1>1. LInv /\ [Next]_vars => LInv'
  BY NextLInv
<1> QED
  BY <1>1, InitLInv, PTL DEF Spec

(* With a lock slot for every writer, two sessions never edit the same     *)
(* sentence.  EditSessions_Shared.cfg shows that the premise is needed.    *)
THEOREM Exclusion == EnoughLocks => (Spec => []MutualExclusion)
<1> SUFFICES ASSUME EnoughLocks PROVE Spec => []MutualExclusion
  OBVIOUS
<1> QED
  BY LockInvariant, LocksExclude, PTL

(* With a lock slot for every writer, no session and no document points to *)
(* a node that was freed.                                                  *)
THEOREM NoUseAfterFree == EnoughLocks => (Spec => []NoDanglingPointer)
<1> SUFFICES ASSUME EnoughLocks PROVE Spec => []NoDanglingPointer
  OBVIOUS
<1>1. LInv => NoDanglingPointer
  BY DEF LInv, IInv, SessionOwnsNode, HeadsOwned, NoDanglingPointer
<1> QED
  BY <1>1, LockInvariant, PTL

-----------------------------------------------------------------------------
(* Refinement *)

(* A step of the storage server is an Acquire, a Release or a stutter of   *)
(* the abstract lock.                                                      *)
LEMMA NextRefines ==
  ASSUME LInv, EnoughLocks, [Next]_vars, LInv'
  PROVE  [Editing!Next]_([s \in Sock |-> sessions[s].ptr])
<1> DEFINE holds == [s \in Sock |-> sessions[s].ptr]
<1>0. /\ sessions \in [Sock -> Session] /\ sessions' \in [Sock -> Session]
      /\ \A t \in Sock : sessions[t].active \/ sessions[t] = NoSession
  BY DEF LInv, IInv, TypeOK, SessionOwnsNode
<1>1. CASE UNCHANGED vars
  BY <1>1 DEF vars
<1>2. CASE Restart
  <2>1. holds' = [s \in Sock |-> NoAddr]
    BY <1>2 DEF Restart, NoSession
  <2> QED
    BY <2>1 DEF Editing!Next, Editing!Reset
<1>3. CASE Next /\ ~Restart
  <2>1. PICK s \in Sock : StepOf(s)
    BY <1>3, StepKinds DEF LInv
  <2>2. CASE UNCHANGED sessions
    BY <2>2
  <2>3. ASSUME NEW f \in File, NEW o \in FindOrLoad(f), NEW n \in DOMAIN o.doc.head,
               GrantStep(s, f, o, n)
        PROVE  Editing!Acquire(s, o.doc.head[n]) /\ o.doc.head[n] \in Addr
    <3>1. /\ ~sessions[s].active
          /\ \A t \in Sock : sessions'[t] =
               IF t = s THEN [active |-> TRUE, doc |-> o.slot, ptr |-> o.doc.head[n]]
               ELSE sessions[t]
      BY <2>3, GrantEffect DEF LInv
    <3>2. o.doc.head[n] \in Addr
      BY FindOrLoadFacts DEF LInv, IInv, Doc
    <3>3. \A t \in Sock : sessions[t].ptr # o.doc.head[n]
      <4> SUFFICES ASSUME NEW t \in Sock, sessions[t].ptr = o.doc.head[n] PROVE FALSE
        OBVIOUS
      <4>1. sessions[t].active
        BY <1>0, <3>2, NullAssumption DEF NoSession
      <4>2. sessions'[t].active /\ sessions'[s].active /\ t # s
            /\ sessions'[t].ptr = sessions'[s].ptr
        BY <3>1, <4>1
      <4>3. MutualExclusion'
        BY LocksExclude, PTL
      <4> QED
        BY <4>2, <4>3 DEF MutualExclusion
    <3>4. sessions[s].ptr = NoAddr
      BY <1>0, <3>1 DEF NoSession
    <3>5. holds' = [holds EXCEPT ![s] = o.doc.head[n]]
      <4>1. \A t \in Sock :
              sessions'[t].ptr = IF t = s THEN o.doc.head[n] ELSE sessions[t].ptr
        BY <3>1
      <4> QED
        BY <4>1
    <3> QED
      BY <3>2, <3>3, <3>4, <3>5 DEF Editing!Acquire
  <2>4. ASSUME NEW hd, NEW h, EndStep(s, hd, h)
        PROVE  Editing!Release(s)
    <3>1. /\ \A t \in Sock : sessions'[t] = IF t = s THEN NoSession ELSE sessions[t]
          /\ sessions[s].active
      BY <2>4, EndEffect DEF LInv, EndStep
    <3>2. sessions[s].ptr # NoAddr
      BY <3>1, NullAssumption DEF LInv, IInv, SessionOnDoc
    <3>3. holds' = [holds EXCEPT ![s] = NoAddr]
      <4>1. \A t \in Sock :
              sessions'[t].ptr = IF t = s THEN NoAddr ELSE sessions[t].ptr
        BY <3>1 DEF NoSession
      <4> QED
        BY <4>1
    <3> QED
      BY <3>2, <3>3 DEF Editing!Release
  <2> QED
    BY <2>1, <2>2, <2>3, <2>4 DEF StepOf, ConnStep, LoadStep, Editing!Next
<1> QED
  BY <1>1, <1>2, <1>3

(* With a lock slot for every writer the session tables implement          *)
(* sentence-level locking.                                                 *)
THEOREM Refinement == EnoughLocks => (Spec => ImplementsSentenceLock)
<1> SUFFICES ASSUME EnoughLocks PROVE Spec => Editing!Spec
  BY DEF ImplementsSentenceLock
<1>1. Init => Editing!Init
  BY DEF Init, NoSession, Editing!Init
<1>2. LInv /\ [Next]_vars /\ LInv' => [Editing!Next]_([s \in Sock |-> sessions[s].ptr])
  BY NextRefines
<1>3. Spec => []LInv
  BY LockInvariant
<1> QED
  BY <1>1, <1>2, <1>3, PTL DEF Spec, Editing!Spec
=============================================================================
