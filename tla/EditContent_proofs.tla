------------------------- MODULE EditContent_proofs -------------------------
(* Proofs about EditContent: it keeps all that EditSessions promises, and  *)
(* no commit moves the words of a sentence that another session edits.     *)
EXTENDS EditContent, EditSessions_proofs, Document_proofs

(* Words and edits come on top of a step of EditSessions or leave it still. *)
LEMMA ContentStep == [CNext]_allVars => [Next]_vars
<1> SUFFICES ASSUME [CNext]_allVars PROVE [Next]_vars
  OBVIOUS
<1>1. CASE UNCHANGED allVars
  BY <1>1 DEF allVars
<1>2. CASE CRestart
  BY <1>2 DEF CRestart, Next
<1>3. ASSUME NEW s \in Sock,
             \/ (Connect(s) \/ SendWrite(s) \/ SendEtirw(s) \/ Hangup(s)) /\ UNCHANGED cvars
             \/ \E f \in File : CLoadFails(s, f) \/ CInvalidSentence(s, f)
                                  \/ CLockConflict(s, f) \/ CGrant(s, f)
             \/ \E at \in 0..MaxAt, content \in Inputs : WriteUpdate(s, at, content)
             \/ CEtirw(s)
             \/ CDisconnect(s)
      PROVE  [Next]_vars
  <2>1. CASE Connect(s) \/ SendWrite(s) \/ SendEtirw(s) \/ Hangup(s)
    BY <2>1 DEF Next
  <2>2. CASE \E f \in File : CLoadFails(s, f) \/ CInvalidSentence(s, f)
                               \/ CLockConflict(s, f) \/ CGrant(s, f)
    <3>1. ClientWrite(s)
      BY <2>2 DEF CLoadFails, CInvalidSentence, CLockConflict, CGrant, ClientWrite
    <3> QED
      BY <3>1 DEF Next
  <2>3. CASE \E at \in 0..MaxAt, content \in Inputs : WriteUpdate(s, at, content)
    BY <2>3 DEF WriteUpdate
  <2>4. CASE CEtirw(s)
    <3>1. Restart \/ Etirw(s)
      BY <2>4 DEF CEtirw, CApplyFails, CommitRejected, CommitSaved, Applied, DiesInSave, Etirw
    <3> QED
      BY <3>1 DEF Next
  <2>5. CASE CDisconnect(s)
    BY <2>5 DEF CDisconnect, Next
  <2> QED
    BY <1>3, <2>1, <2>2, <2>3, <2>4, <2>5
<1> QED
  BY <1>1, <1>2, <1>3 DEF CNext

(* With words and files added, the server still behaves as EditSessions    *)
(* says: what is proved there holds here. *)
THEOREM ContentRefines == CSpec => Spec
BY ContentStep, PTL DEF CSpec, CInit, Spec

(* So a lock means with words and files what it means without.             *)
THEOREM ContentLocks == EnoughLocks => (CSpec => ImplementsSentenceLock)
BY ContentRefines, Refinement, PTL

-----------------------------------------------------------------------------
(* Nobody changes the words under an editor. *)

\* The records of work have their fields.
WorkShape ==
  /\ DOMAIN work = Sock
  /\ \A s \in Sock :
       work[s] = [orig |-> work[s].orig, edits |-> work[s].edits, virtual |-> work[s].virtual]

BInv == WorkShape /\ BaselineUnmoved

(* The text of a node in use before and after a step stays: only new nodes *)
(* are written, and a node in use is not new.                              *)
LEMMA TextKept ==
  ASSUME LInv, CNext, NEW t \in Sock, sessions[t].active, sessions'[t] = sessions[t],
         heap'[sessions[t].ptr] # 0
  PROVE  text'[sessions[t].ptr] = text[sessions[t].ptr]
<1> DEFINE p == sessions[t].ptr
<1> USE BoundAssumption
<1>1. p \in Addr /\ heap[p] # 0 /\ TypeOK
  BY DEF LInv, IInv, SessionOnDoc, SessionOwnsNode, DocSlot
<1>2. ASSUME NEW f \in File, NEW o \in FindOrLoad(f), Opens(f, o)
      PROVE  text'[p] = text[p]
  <2>1. Loaded(o) \/ NewlyLoaded(o)
    BY <1>1, FindOrLoadFacts
  <2>2. CASE Loaded(o)
    BY <1>2, <2>2 DEF Loaded, Opens
  <2>3. CASE NewlyLoaded(o)
    <3>1. p \notin Nodes(o.doc.head)
      BY <1>1, <2>3 DEF NewlyLoaded
    <3>2. \E list : Write(o.doc.head, list)
      BY <1>2, <2>3 DEF NewlyLoaded, Opens
    <3> QED
      BY <1>1, <3>1, <3>2 DEF Write
  <2> QED
    BY <2>1, <2>2, <2>3
<1>3. CASE Write(<<>>, <<>>)
  BY <1>1, <1>3 DEF Write, Nodes
<1>4. ASSUME NEW new \in FreshLists(0, MaxNew), NEW list, Write(new, list)
      PROVE  text'[p] = text[p]
  <2>1. p \notin Nodes(new)
    BY <1>1, FreshListsType
  <2> QED
    BY <1>1, <1>4, <2>1 DEF Write
<1>5. ~Restart
  BY DEF Restart, NoSession
<1>6. ASSUME NEW s \in Sock, CEtirw(s)
      PROVE  text'[p] = text[p]
  <2>1. CASE UNCHANGED cvars
    BY <2>1 DEF cvars
  <2>2. CASE CApplyFails(s)
    BY <1>3, <2>2 DEF CApplyFails
  <2>3. ASSUME NEW n, NEW list, Applied(s, n, list)
        PROVE  text'[p] = text[p]
    BY <1>4, <2>3 DEF Applied
  <2> QED
    BY <1>5, <1>6, <2>1, <2>2, <2>3 DEF CEtirw, CommitRejected, CommitSaved, DiesInSave
<1>7. ASSUME NEW s \in Sock, NEW f \in File,
             CInvalidSentence(s, f) \/ CLockConflict(s, f) \/ CGrant(s, f)
      PROVE  text'[p] = text[p]
  BY <1>2, <1>7 DEF CInvalidSentence, CLockConflict, CGrant
<1>8. CASE \E s \in Sock : CDisconnect(s)
  BY <1>3, <1>8 DEF CDisconnect
<1>9. CASE UNCHANGED text
  BY <1>9
<1> QED
  BY <1>5, <1>6, <1>7, <1>8, <1>9 DEF CNext, CRestart, CLoadFails, WriteUpdate, cvars

(* The fields of work stay as they are. *)
LEMMA ShapeStep == WorkShape /\ [CNext]_allVars => WorkShape'
<1> SUFFICES ASSUME WorkShape, [CNext]_allVars PROVE WorkShape'
  OBVIOUS
<1> USE DEF WorkShape, NoWork
<1>1. CASE UNCHANGED work
  BY <1>1
<1>2. CASE work' = [s \in Sock |-> NoWork]
  BY <1>2
<1>3. CASE \E s \in Sock : work' = [work EXCEPT ![s] = NoWork]
  BY <1>3
<1>4. ASSUME NEW s \in Sock, NEW at, NEW content, WriteUpdate(s, at, content)
      PROVE  WorkShape'
  BY <1>4 DEF WriteUpdate
<1>5. ASSUME NEW s \in Sock, NEW f, CGrant(s, f)
      PROVE  WorkShape'
  <2>1. PICK k : work' = [work EXCEPT ![s] = [NoWork EXCEPT !.orig = k]]
    BY <1>5 DEF CGrant
  <2> QED
    BY <2>1
<1>6. ASSUME NEW s \in Sock, CEtirw(s)
      PROVE  \/ UNCHANGED work
             \/ work' = [work EXCEPT ![s] = NoWork]
             \/ work' = [t \in Sock |-> NoWork]
  BY <1>6 DEF CEtirw, cvars, CApplyFails, CommitRejected, CommitSaved, Applied, DiesInSave
<1>7. CASE UNCHANGED cvars
  BY <1>1, <1>7 DEF cvars
<1> QED
  BY <1>1, <1>2, <1>3, <1>4, <1>5, <1>6, <1>7
  DEF CNext, allVars, cvars, CRestart, CDisconnect, CLoadFails, CInvalidSentence, CLockConflict

(* A session that a step leaves alone keeps its baseline. *)
LEMMA OthersKept ==
  ASSUME LInv, LInv', BInv, CNext, NEW t \in Sock, sessions[t].active,
         sessions'[t] = sessions[t], work'[t].orig = work[t].orig
  PROVE  Len(text'[sessions'[t].ptr].words) = work'[t].orig
<1>1. heap'[sessions[t].ptr] # 0
  BY BoundAssumption DEF LInv, IInv, SessionOnDoc, SessionOwnsNode, DocSlot
<1> QED
  BY <1>1, TextKept DEF BInv, BaselineUnmoved

(* Every step keeps the word count of each locked sentence, and a grant    *)
(* records it. *)
LEMMA BaselineStep ==
  ASSUME LInv, LInv', BInv, CNext
  PROVE  BaselineUnmoved'
<1> SUFFICES ASSUME NEW t \in Sock, sessions'[t].active
             PROVE  Len(text'[sessions'[t].ptr].words) = work'[t].orig
  BY DEF BaselineUnmoved
<1>0. /\ sessions \in [Sock -> Session] /\ DOMAIN work = Sock /\ WorkShape
  BY DEF LInv, IInv, TypeOK, BInv, WorkShape
<1>1. ~Restart
  BY DEF Restart, NoSession
<1>2. CASE UNCHANGED <<sessions, work>>
  BY <1>2, OthersKept
<1>3. ASSUME NEW s \in Sock, NEW hd, NEW h, EndSession(s, hd, h),
             work' = [work EXCEPT ![s] = NoWork]
      PROVE  Len(text'[sessions'[t].ptr].words) = work'[t].orig
  <2>1. sessions' = [sessions EXCEPT ![s] = NoSession]
    BY <1>3 DEF EndSession
  <2>2. t # s
    BY <1>0, <2>1 DEF NoSession
  <2> QED
    BY <1>0, <1>3, <2>1, <2>2, OthersKept
<1>4. ASSUME NEW s \in Sock, CDisconnect(s)
      PROVE  Len(text'[sessions'[t].ptr].words) = work'[t].orig
  <2>1. CASE ~sessions[s].active /\ UNCHANGED sessions
    <3>1. t # s
      BY <2>1
    <3> QED
      BY <1>0, <1>4, <2>1, <3>1, OthersKept DEF CDisconnect
  <2> QED
    BY <1>3, <1>4, <2>1 DEF CDisconnect, Disconnect
<1>5. ASSUME NEW s \in Sock, CEtirw(s)
      PROVE  Len(text'[sessions'[t].ptr].words) = work'[t].orig
  <2>1. CASE EtirwNotFound(s) /\ UNCHANGED cvars
    BY <1>2, <2>1 DEF EtirwNotFound, cvars
  <2>2. CASE CApplyFails(s)
    BY <1>3, <2>2 DEF CApplyFails, EtirwApplyFails
  <2>3. ASSUME NEW n, NEW list, Applied(s, n, list)
        PROVE  Len(text'[sessions'[t].ptr].words) = work'[t].orig
    BY <1>3, <2>3 DEF Applied, EtirwSplice
  <2> QED
    BY <1>1, <1>5, <2>1, <2>2, <2>3 DEF CEtirw, CommitRejected, CommitSaved, DiesInSave
<1>6. ASSUME NEW s \in Sock, NEW f \in File, CGrant(s, f)
      PROVE  Len(text'[sessions'[t].ptr].words) = work'[t].orig
  <2>1. PICK o \in FindOrLoad(f) : \E n \in DOMAIN o.doc.head :
          /\ Grant(s, f, o, n)
          /\ work' = [work EXCEPT ![s] =
                        [NoWork EXCEPT !.orig = Len(text'[o.doc.head[n]].words)]]
    BY <1>6 DEF CGrant
  <2>2. PICK n \in DOMAIN o.doc.head :
          /\ sessions' = [sessions EXCEPT ![s] =
                            [active |-> TRUE, doc |-> o.slot, ptr |-> o.doc.head[n]]]
          /\ work' = [work EXCEPT ![s] =
                        [NoWork EXCEPT !.orig = Len(text'[o.doc.head[n]].words)]]
    BY <2>1 DEF Grant
  <2>3. CASE t = s
    BY <1>0, <2>2, <2>3 DEF NoWork
  <2>4. CASE t # s
    BY <1>0, <2>2, <2>4, OthersKept
  <2> QED
    BY <2>3, <2>4
<1>7. ASSUME NEW s \in Sock, NEW at, NEW content, WriteUpdate(s, at, content)
      PROVE  Len(text'[sessions'[t].ptr].words) = work'[t].orig
  <2>1. sessions' = sessions
    BY <1>7 DEF WriteUpdate, vars
  <2>2. work'[t].orig = work[t].orig
    BY <1>0, <1>7 DEF WriteUpdate, WorkShape
  <2> QED
    BY <2>1, <2>2, OthersKept
<1>8. ASSUME NEW s \in Sock, NEW f \in File,
             CLoadFails(s, f) \/ CInvalidSentence(s, f) \/ CLockConflict(s, f)
      PROVE  UNCHANGED <<sessions, work>>
  BY <1>8 DEF CLoadFails, LoadFails, CInvalidSentence, InvalidSentence, CLockConflict,
              LockConflict, cvars
<1>9. ASSUME NEW s \in Sock, Connect(s) \/ SendWrite(s) \/ SendEtirw(s) \/ Hangup(s),
             UNCHANGED cvars
      PROVE  UNCHANGED <<sessions, work>>
  BY <1>9 DEF Connect, SendWrite, SendEtirw, Hangup, cvars
<1> QED
  BY <1>1, <1>2, <1>4, <1>5, <1>6, <1>7, <1>8, <1>9 DEF CNext, CRestart

(* With a lock slot for every writer, a sentence that is being edited      *)
(* keeps the words it had when its lock was granted, whatever the commits  *)
(* of others do to the document: the offset handle_etirw computes is 0.    *)
THEOREM Baseline == EnoughLocks => (CSpec => []BaselineUnmoved)
<1> SUFFICES ASSUME EnoughLocks PROVE CSpec => []BaselineUnmoved
  OBVIOUS
<1>1. CSpec => []LInv
  BY ContentRefines, LockInvariant
<1>2. CInit => BInv
  BY DEF CInit, Init, NoSession, NoWork, BInv, WorkShape, BaselineUnmoved
<1>3. LInv /\ LInv' /\ BInv /\ [CNext]_allVars => BInv'
  <2> SUFFICES ASSUME LInv, LInv', BInv, [CNext]_allVars PROVE BInv'
    OBVIOUS
  <2>1. CASE CNext
    BY <2>1, BaselineStep, ShapeStep DEF BInv
  <2>2. CASE UNCHANGED allVars
    BY <2>2 DEF allVars, cvars, vars, BInv, WorkShape, BaselineUnmoved
  <2> QED
    BY <2>1, <2>2
<1>4. BInv => BaselineUnmoved
  BY DEF BInv
<1> QED
  BY <1>1, <1>2, <1>3, <1>4, PTL DEF CSpec

-----------------------------------------------------------------------------
(* What a save replaces is in the .bak. *)

(* A step leaves both copies of every file alone, or makes one file its    *)
(* .bak before anything else is in its place. *)
LEMMA DiskStep ==
  [CNext]_allVars =>
    \/ UNCHANGED <<disk, bak>>
    \/ \E f, file : /\ disk' = [disk EXCEPT ![f] = file]
                     /\ bak' = [bak EXCEPT ![f] = disk[f]]
<1> SUFFICES ASSUME [CNext]_allVars
             PROVE  \/ UNCHANGED <<disk, bak>>
                    \/ \E f, file : /\ disk' = [disk EXCEPT ![f] = file]
                                     /\ bak' = [bak EXCEPT ![f] = disk[f]]
  OBVIOUS
<1>1. CASE UNCHANGED <<disk, bak>>
  BY <1>1
<1>2. ASSUME NEW s \in Sock, NEW n, NEW list, CommitSaved(s, n, list)
      PROVE  \E f, file : /\ disk' = [disk EXCEPT ![f] = file]
                          /\ bak' = [bak EXCEPT ![f] = disk[f]]
  BY <1>2 DEF CommitSaved
<1>3. ASSUME NEW s \in Sock, NEW n, NEW list, DiesInSave(s, n, list)
      PROVE  \E f, file : /\ disk' = [disk EXCEPT ![f] = file]
                          /\ bak' = [bak EXCEPT ![f] = disk[f]]
  BY <1>3 DEF DiesInSave
<1>4. ASSUME NEW s \in Sock, CEtirw(s)
      PROVE  \/ UNCHANGED <<disk, bak>>
             \/ \E n, list : CommitSaved(s, n, list) \/ DiesInSave(s, n, list)
  BY <1>4 DEF CEtirw, CApplyFails, CommitRejected, cvars
<1> QED
  BY <1>1, <1>2, <1>3, <1>4
  DEF CNext, allVars, cvars, CRestart, CDisconnect, CLoadFails, CInvalidSentence,
      CLockConflict, CGrant, WriteUpdate

(* A save that drops words committed to a file, done or cut short, leaves  *)
(* them in the .bak: whatever the edits, the locks and the files are.      *)
THEOREM LossBackedUp == CSpec => LossIsBackedUp
<1> DEFINE Shape == DOMAIN disk = File /\ DOMAIN bak = File
           Kept(f, file) == file # Missing /\ committed[f] \subseteq WordsIn(file)
           Backed == \A f \in File : Kept(f, disk[f]) => Kept(f, disk'[f]) \/ Kept(f, bak'[f])
<1>1. CInit => Shape
  BY DEF CInit
<1>2. Shape /\ [CNext]_allVars => Shape'
  BY DiskStep
<1>3. Shape /\ [CNext]_allVars => Backed
  <2> SUFFICES ASSUME Shape, [CNext]_allVars, NEW f \in File, Kept(f, disk[f])
               PROVE  Kept(f, disk'[f]) \/ Kept(f, bak'[f])
    OBVIOUS
  <2> HIDE DEF Kept
  <2>1. CASE UNCHANGED <<disk, bak>>
    BY <2>1
  <2>2. ASSUME NEW g, NEW file, disk' = [disk EXCEPT ![g] = file],
               bak' = [bak EXCEPT ![g] = disk[g]]
        PROVE  Kept(f, disk'[f]) \/ Kept(f, bak'[f])
    BY <2>2
  <2> QED
    BY <2>1, <2>2, DiskStep
<1>4. Backed <=> \A f \in File :
        LET kept(file) == file # Missing /\ committed[f] \subseteq WordsIn(file)
        IN kept(disk[f]) => kept(disk'[f]) \/ kept(bak'[f])
  OBVIOUS
<1> QED
  BY <1>1, <1>2, <1>3, <1>4, PTL DEF CSpec, LossIsBackedUp

-----------------------------------------------------------------------------
(* What a splice does to the sentences themselves. *)

(* A list is what is before a sentence, the sentence and what is after it. *)
LEMMA AroundFacts ==
  ASSUME NEW mem \in Seq(Sentence), NEW n \in DOMAIN mem
  PROVE  LET pre  == SubSeq(mem, 1, n - 1)
             post == SubSeq(mem, n + 1, Len(mem))
         IN /\ pre \in Seq(Sentence) /\ post \in Seq(Sentence)
            /\ mem[n] \in Sentence /\ <<mem[n]>> \in Seq(Sentence)
            /\ Len(pre) = n - 1 /\ Len(post) = Len(mem) - n
            /\ \A k \in 1..(n - 1) : pre[k] = mem[k]
            /\ \A k \in 1..(Len(mem) - n) : post[k] = mem[n + k]
            /\ mem = pre \o (<<mem[n]>> \o post)
            /\ n \in Nat /\ Len(mem) \in Nat /\ 1 =< n /\ n =< Len(mem)
<1> DEFINE N    == Len(mem)
           pre  == SubSeq(mem, 1, n - 1)
           post == SubSeq(mem, n + 1, N)
           mid  == <<mem[n]>>
           rest == mid \o post
<1>1. /\ n \in Nat /\ N \in Nat /\ 1 =< n /\ n =< N /\ DOMAIN mem = 1..N
      /\ n - 1 \in 0..N /\ n \in 0..N
      /\ mem[n] \in Sentence
  OBVIOUS
<1>2. pre \in Seq(Sentence) /\ Len(pre) = n - 1 /\ \A k \in 1..(n - 1) : pre[k] = mem[k]
  BY <1>1
<1>3. post \in Seq(Sentence) /\ Len(post) = N - n /\ \A k \in 1..(N - n) : post[k] = mem[n + k]
  <2>1. post \in Seq(Sentence) /\ Len(post) = N - n
    BY <1>1, CutFacts
  <2>2. \A k \in 1..(N - n) : post[k] = mem[n + k]
    BY <1>1
  <2> QED
    BY <2>1, <2>2
<1>4. mid \in Seq(Sentence) /\ Len(mid) = 1 /\ mid[1] = mem[n]
  BY <1>1
<1> HIDE DEF N, pre, post, mid
<1>5. /\ rest \in Seq(Sentence) /\ Len(rest) = 1 + (N - n)
      /\ \A k \in 1..1 : rest[k] = mid[k]
      /\ \A k \in 1..(1 + (N - n)) : k > 1 => (k - 1 \in 1..(N - n) /\ rest[k] = post[k - 1])
  <2>1. /\ rest \in Seq(Sentence) /\ Len(rest) = Len(mid) + Len(post)
        /\ \A k \in 1..Len(mid) : rest[k] = mid[k]
        /\ \A k \in 1..(Len(mid) + Len(post)) :
             k > Len(mid) => (k - Len(mid) \in 1..Len(post) /\ rest[k] = post[k - Len(mid)])
    BY <1>3, <1>4, ConcatAt
  <2> HIDE DEF rest
  <2> QED
    BY <1>3, <1>4, <2>1
<1> HIDE DEF rest
<1>6. ASSUME NEW k \in 1..N, k > n - 1
      PROVE  mem[k] = rest[k - (n - 1)]
  <2>1. CASE k = n
    <3>1. k - (n - 1) = 1 /\ 1 \in 1..1
      BY <1>1, <2>1
    <3> QED
      BY <1>4, <1>5, <2>1, <3>1
  <2>2. CASE k > n
    <3> DEFINE j == k - (n - 1)
    <3>1. /\ j \in 1..(1 + (N - n)) /\ j > 1 /\ j - 1 \in 1..(N - n) /\ n + (j - 1) = k
      <4>1. n \in Nat /\ N \in Nat /\ k \in 1..N /\ 1 =< n
        BY <1>1
      <4> QED
        BY <2>2, <4>1
    <3> HIDE DEF j
    <3>2. rest[j] = mem[n + (j - 1)]
      BY <1>3, <1>5, <3>1
    <3> QED
      BY <3>1, <3>2 DEF j
  <2> QED
    BY <1>1, <1>6, <2>1, <2>2
<1>7. Len(mem) = Len(pre) + Len(rest)
  BY <1>1, <1>2, <1>5 DEF N
<1>8. \A k \in 1..Len(pre) : mem[k] = pre[k]
  BY <1>2
<1>9. \A k \in 1..Len(mem) : k > Len(pre) => mem[k] = rest[k - Len(pre)]
  BY <1>2, <1>6 DEF N
<1>10. mem = pre \o rest
  BY <1>2, <1>5, <1>7, <1>8, <1>9, ConcatOf
<1> QED
  BY <1>1, <1>2, <1>3, <1>4, <1>10 DEF N, pre, post, mid, rest

(* The sentences around the replaced one stay, in their places. *)
LEMMA MergedType ==
  ASSUME NEW mem \in Seq(Sentence), NEW n \in DOMAIN mem, NEW list \in Seq(Sentence)
  PROVE  Spliced(mem, n, list) \in Seq(Sentence)
<1>1. /\ SubSeq(mem, 1, n - 1) \in Seq(Sentence)
      /\ SubSeq(mem, n + 1, Len(mem)) \in Seq(Sentence) /\ <<>> \in Seq(Sentence)
  BY AroundFacts
<1>2. list \o SubSeq(mem, n + 1, Len(mem)) \in Seq(Sentence)
  BY <1>1, ConcatAt
<1> QED
  BY <1>1, <1>2, ConcatAt DEF Spliced

(* No open sentence comes to stand before another: the last of the new     *)
(* ones may be open only where the old one was, at the end.                *)
LEMMA SpliceOpen ==
  ASSUME NEW mem \in Seq(Sentence), NEW n \in DOMAIN mem, NEW list \in Seq(Sentence),
         OpenLast(mem), EndsIn(list, mem[n].delim)
  PROVE  OpenLast(Spliced(mem, n, list))
<1> DEFINE N    == Len(mem)
           L    == Len(list)
           pre  == SubSeq(mem, 1, n - 1)
           post == SubSeq(mem, n + 1, N)
           rest == list \o post
           whole == pre \o rest
<1>1. /\ pre \in Seq(Sentence) /\ post \in Seq(Sentence)
      /\ Len(pre) = n - 1 /\ Len(post) = N - n
      /\ \A k \in 1..(n - 1) : pre[k] = mem[k]
      /\ \A k \in 1..(N - n) : post[k] = mem[n + k]
      /\ n \in Nat /\ N \in Nat /\ 1 =< n /\ n =< N
  BY AroundFacts
<1>2. DOMAIN mem = 1..N /\ L \in Nat /\ DOMAIN list = 1..L /\ Len(list) = L
  OBVIOUS
<1>3. Spliced(mem, n, list) = IF list = <<>> THEN pre \o <<>> ELSE whole
  BY DEF Spliced
<1>4. pre \o <<>> = pre
  BY <1>1
<1> HIDE DEF N, L, pre, post
<1>5. \A k \in 1..(n - 1) : pre[k].delim # Open
  BY <1>1, <1>2 DEF OpenLast, N
<1>6. \A k \in 1..L : list[k].delim \in Mark \/ (k = L /\ list[k].delim = mem[n].delim)
  <2>1. \A k \in DOMAIN list :
          list[k].delim \in Mark \/ (k = L /\ list[k].delim = mem[n].delim)
    BY <1>2 DEF EndsIn
  <2> HIDE DEF L
  <2>2. ASSUME NEW k \in 1..L PROVE k \in DOMAIN list
    BY <1>2
  <2> QED
    BY <2>1, <2>2
<1>7. CASE list = <<>>
  <2>1. DOMAIN pre = 1..(n - 1)
    BY <1>1
  <2> QED
    BY <1>3, <1>4, <1>5, <1>7, <2>1 DEF OpenLast
<1>8. CASE list # <<>>
  <2>1. /\ rest \in Seq(Sentence) /\ Len(rest) = L + (N - n)
        /\ \A k \in 1..L : rest[k] = list[k]
        /\ \A k \in 1..(L + (N - n)) :
             k > L => (k - L \in 1..(N - n) /\ rest[k] = post[k - L])
    <3>1. /\ rest \in Seq(Sentence) /\ Len(rest) = L + Len(post)
          /\ \A k \in 1..L : rest[k] = list[k]
          /\ \A k \in 1..(L + Len(post)) :
               k > L => (k - L \in 1..Len(post) /\ rest[k] = post[k - L])
      BY <1>1, ConcatAt, ZenonT(40) DEF L
    <3> HIDE DEF rest
    <3> QED
      BY <1>1, <3>1
  <2> HIDE DEF rest
  <2>2. /\ whole \in Seq(Sentence) /\ Len(whole) = (n - 1) + (L + (N - n))
        /\ \A k \in 1..(n - 1) : whole[k] = pre[k]
        /\ \A k \in 1..((n - 1) + (L + (N - n))) :
             k > n - 1 => (k - (n - 1) \in 1..(L + (N - n)) /\ whole[k] = rest[k - (n - 1)])
    <3>1. /\ whole \in Seq(Sentence) /\ Len(whole) = Len(pre) + Len(rest)
          /\ \A k \in 1..Len(pre) : whole[k] = pre[k]
          /\ \A k \in 1..(Len(pre) + Len(rest)) :
               k > Len(pre) => (k - Len(pre) \in 1..Len(rest) /\ whole[k] = rest[k - Len(pre)])
      BY <1>1, <2>1, ConcatAt, ZenonT(40)
    <3> HIDE DEF whole
    <3> QED
      BY <1>1, <2>1, <3>1
  <2>3. DOMAIN whole = 1..((n - 1) + (L + (N - n)))
    BY <2>2
  <2> HIDE DEF whole
  <2>4. ASSUME NEW k \in 1..((n - 1) + (L + (N - n))), whole[k].delim = Open
        PROVE  k = (n - 1) + (L + (N - n))
    <3> DEFINE j == k - (n - 1)
    <3>1. k > n - 1
      <4>1. k =< n - 1 => k \in 1..(n - 1)
        BY <1>1
      <4> QED
        BY <1>1, <1>5, <2>2, <2>4, <4>1
    <3>2. j \in 1..(L + (N - n)) /\ rest[j].delim = Open
      BY <2>2, <2>4, <3>1
    <3>3. j = L + (N - n) => k = (n - 1) + (L + (N - n))
      BY <1>1, <1>2
    <3> HIDE DEF j
    <3>4. CASE j \in 1..L
      <4>1. list[j].delim = Open
        BY <2>1, <3>2, <3>4
      <4>2. j = L /\ mem[n].delim = Open
        <5>1. list[j].delim \in Mark \/ (j = L /\ list[j].delim = mem[n].delim)
          BY <1>6, <3>4
        <5> QED
          BY <4>1, <5>1, OpenIsNoMark
      <4>3. n = N
        BY <4>2 DEF OpenLast, N
      <4> QED
        BY <1>1, <1>2, <3>3, <4>2, <4>3
    <3>5. CASE j > L
      <4> DEFINE i == j - L
      <4>1. i \in 1..(N - n) /\ post[i].delim = Open
        BY <2>1, <3>2, <3>5
      <4>2. i = N - n => j = L + (N - n)
        BY <1>1, <1>2, <3>2
      <4> HIDE DEF i
      <4>3. n + i \in DOMAIN mem /\ mem[n + i].delim = Open
        BY <1>1, <1>2, <4>1, SMTT(30)
      <4>4. n + i = N
        BY <4>3 DEF OpenLast, N
      <4> QED
        BY <1>1, <3>3, <4>1, <4>2, <4>4
    <3> QED
      BY <1>2, <3>2, <3>4, <3>5
  <2> QED
    BY <1>3, <1>8, <2>2, <2>3, <2>4 DEF OpenLast
<1> QED
  BY <1>7, <1>8

(* A sentence without words still comes only at the end. *)
LEMMA SpliceBlank ==
  ASSUME NEW mem \in Seq(Sentence), NEW n \in DOMAIN mem, NEW list \in Seq(Sentence),
         BlankLast(mem), Worded(list)
  PROVE  BlankLast(Spliced(mem, n, list))
<1> DEFINE N    == Len(mem)
           L    == Len(list)
           pre  == SubSeq(mem, 1, n - 1)
           post == SubSeq(mem, n + 1, N)
           rest == list \o post
           whole == pre \o rest
<1>1. /\ pre \in Seq(Sentence) /\ post \in Seq(Sentence)
      /\ Len(pre) = n - 1 /\ Len(post) = N - n
      /\ \A k \in 1..(n - 1) : pre[k] = mem[k]
      /\ \A k \in 1..(N - n) : post[k] = mem[n + k]
      /\ n \in Nat /\ N \in Nat /\ 1 =< n /\ n =< N
  BY AroundFacts
<1>2. DOMAIN mem = 1..N /\ L \in Nat /\ DOMAIN list = 1..L /\ Len(list) = L
  OBVIOUS
<1>3. Spliced(mem, n, list) = IF list = <<>> THEN pre \o <<>> ELSE whole
  BY DEF Spliced
<1>4. pre \o <<>> = pre
  BY <1>1
<1> HIDE DEF N, L, pre, post
<1>5. \A k \in 1..(n - 1) : pre[k].words # <<>>
  BY <1>1, <1>2 DEF BlankLast, N
<1>6. CASE list = <<>>
  <2>1. DOMAIN pre = 1..(n - 1)
    BY <1>1
  <2> QED
    BY <1>3, <1>4, <1>5, <1>6, <2>1 DEF BlankLast
<1>7. CASE list # <<>>
  <2>1. /\ rest \in Seq(Sentence) /\ Len(rest) = L + (N - n)
        /\ \A k \in 1..L : rest[k] = list[k]
        /\ \A k \in 1..(L + (N - n)) :
             k > L => (k - L \in 1..(N - n) /\ rest[k] = post[k - L])
    <3>1. /\ rest \in Seq(Sentence) /\ Len(rest) = L + Len(post)
          /\ \A k \in 1..L : rest[k] = list[k]
          /\ \A k \in 1..(L + Len(post)) :
               k > L => (k - L \in 1..Len(post) /\ rest[k] = post[k - L])
      BY <1>1, ConcatAt, ZenonT(40) DEF L
    <3> HIDE DEF rest
    <3> QED
      BY <1>1, <3>1
  <2> HIDE DEF rest
  <2>2. /\ whole \in Seq(Sentence) /\ Len(whole) = (n - 1) + (L + (N - n))
        /\ \A k \in 1..(n - 1) : whole[k] = pre[k]
        /\ \A k \in 1..((n - 1) + (L + (N - n))) :
             k > n - 1 => (k - (n - 1) \in 1..(L + (N - n)) /\ whole[k] = rest[k - (n - 1)])
    <3>1. /\ whole \in Seq(Sentence) /\ Len(whole) = Len(pre) + Len(rest)
          /\ \A k \in 1..Len(pre) : whole[k] = pre[k]
          /\ \A k \in 1..(Len(pre) + Len(rest)) :
               k > Len(pre) => (k - Len(pre) \in 1..Len(rest) /\ whole[k] = rest[k - Len(pre)])
      BY <1>1, <2>1, ConcatAt, ZenonT(40)
    <3> HIDE DEF whole
    <3> QED
      BY <1>1, <2>1, <3>1
  <2>3. DOMAIN whole = 1..((n - 1) + (L + (N - n)))
    BY <2>2
  <2> HIDE DEF whole
  <2>4. ASSUME NEW k \in 1..((n - 1) + (L + (N - n))), whole[k].words = <<>>
        PROVE  k = (n - 1) + (L + (N - n)) /\ whole[k].delim = Open
    <3> DEFINE j == k - (n - 1)
    <3>1. k > n - 1
      <4>1. ASSUME k =< n - 1 PROVE FALSE
        <5>1. k \in 1..(n - 1)
          BY <1>1, <4>1
        <5> QED
          BY <1>5, <2>2, <2>4, <5>1
      <4> QED
        BY <1>1, <4>1
    <3>2. j \in 1..(L + (N - n)) /\ whole[k] = rest[j]
      BY <2>2, <3>1
    <3>3. j = L + (N - n) => k = (n - 1) + (L + (N - n))
      BY <1>1, <1>2
    <3> HIDE DEF j
    <3>4. j \notin 1..L
      BY <1>2, <2>1, <2>4, <3>2 DEF Worded
    <3>5. j > L
      BY <1>2, <3>2, <3>4
    <3> DEFINE i == j - L
    <3>6. i \in 1..(N - n) /\ whole[k] = post[i]
      BY <2>1, <3>2, <3>5
    <3>7. i = N - n => j = L + (N - n)
      BY <1>1, <1>2, <3>2
    <3> HIDE DEF i
    <3>8. n + i \in DOMAIN mem /\ whole[k] = mem[n + i]
      BY <1>1, <1>2, <3>6
    <3>9. n + i = N /\ whole[k].delim = Open
      BY <2>4, <3>8 DEF BlankLast, N
    <3> QED
      BY <1>1, <3>3, <3>6, <3>7, <3>9
  <2>5. BlankLast(whole)
    BY <2>2, <2>3, <2>4 DEF BlankLast
  <2> QED
    BY <1>3, <1>7, <2>5 DEF whole
<1> QED
  BY <1>6, <1>7

\* list has the words of the sentence it replaces, and W.
Absorbs(mem, n, list, W) ==
  /\ mem \in Seq(Sentence) /\ n \in DOMAIN mem /\ list \in Seq(Sentence)
  /\ BlankLast(mem) /\ (list = <<>> => mem[n].words = <<>>)
  /\ WordsOf(Flush(list)) = WordsOf(mem[n].words) \cup W

(* The words before and after the replaced sentence stay; it may vanish    *)
(* only when it had none. *)
LEMMA SpliceWords ==
  ASSUME NEW mem, NEW n, NEW list, NEW W, Absorbs(mem, n, list, W)
  PROVE  LET m == Spliced(mem, n, list)
         IN /\ Len(Words(m)) - Len(Words(mem)) = Len(Words(list)) - Len(mem[n].words)
            /\ WordsOf(Flush(m)) = WordsOf(Flush(mem)) \cup W
<1>0. /\ mem \in Seq(Sentence) /\ n \in DOMAIN mem /\ list \in Seq(Sentence)
      /\ BlankLast(mem) /\ (list = <<>> => mem[n].words = <<>>)
      /\ WordsOf(Flush(list)) = WordsOf(mem[n].words) \cup W
  BY DEF Absorbs
<1> USE <1>0
<1> DEFINE pre  == SubSeq(mem, 1, n - 1)
           post == SubSeq(mem, n + 1, Len(mem))
           mid  == <<mem[n]>>
           m    == Spliced(mem, n, list)
<1>1. /\ pre \in Seq(Sentence) /\ post \in Seq(Sentence)
      /\ mem[n] \in Sentence /\ mid \in Seq(Sentence)
      /\ mem = pre \o (mid \o post)
      /\ Len(post) = Len(mem) - n
  BY AroundFacts
<1>2. ASSUME NEW b \in Seq(Sentence)
      PROVE  /\ Len(Words(pre \o (b \o post)))
                  = Len(Words(pre)) + (Len(Words(b)) + Len(Words(post)))
             /\ WordsOf(Flush(pre \o (b \o post)))
                  = WordsOf(Flush(pre)) \cup WordsOf(Flush(b)) \cup WordsOf(Flush(post))
  <2>1. b \o post \in Seq(Sentence)
    BY <1>1, ConcatAt
  <2> HIDE DEF pre, post
  <2>2. /\ Flush(pre) \in Seq(Text) /\ Flush(b) \in Seq(Text) /\ Flush(post) \in Seq(Text)
        /\ Words(pre) \in Seq(Word) /\ Words(b) \in Seq(Word) /\ Words(post) \in Seq(Word)
    BY <1>1, FlushFacts
  <2>3. /\ Flush(b \o post) = Flush(b) \o Flush(post)
        /\ Words(b \o post) = Words(b) \o Words(post)
    BY <1>1, FlushConcat
  <2>4. /\ Flush(pre \o (b \o post)) = Flush(pre) \o (Flush(b) \o Flush(post))
        /\ Words(pre \o (b \o post)) = Words(pre) \o (Words(b) \o Words(post))
    <3> DEFINE c == b \o post
    <3>1. c \in Seq(Sentence)
      BY <2>1
    <3> HIDE DEF c
    <3>2. Flush(pre \o c) = Flush(pre) \o Flush(c) /\ Words(pre \o c) = Words(pre) \o Words(c)
      BY <1>1, <3>1, FlushConcat
    <3> QED
      BY <2>3, <3>2 DEF c
  <2>5. /\ Words(b) \o Words(post) \in Seq(Word)
        /\ Len(Words(b) \o Words(post)) = Len(Words(b)) + Len(Words(post))
    BY <2>2, ConcatAt
  <2>6. Len(Words(pre) \o (Words(b) \o Words(post)))
          = Len(Words(pre)) + Len(Words(b) \o Words(post))
    BY <2>2, <2>5, ConcatAt
  <2>7. Flush(b) \o Flush(post) \in Seq(Text)
    BY <2>2, ConcatAt
  <2>8. /\ WordsOf(Flush(b) \o Flush(post)) = WordsOf(Flush(b)) \cup WordsOf(Flush(post))
        /\ WordsOf(Flush(pre) \o (Flush(b) \o Flush(post)))
             = WordsOf(Flush(pre)) \cup WordsOf(Flush(b) \o Flush(post))
    BY <2>2, <2>7, WordsOfConcat
  <2> QED
    BY <2>4, <2>5, <2>6, <2>8
<1>3. Words(mid) = mem[n].words /\ WordsOf(Flush(mid)) = WordsOf(mem[n].words)
  <2>1. Words(mid) = mem[n].words /\ Flush(mid) = Written(mem[n])
    BY <1>1, FlushOne
  <2>2. /\ mem[n].words \in Seq(Word) /\ mem[n].words \in Seq(Text)
        /\ mem[n].delim \in Mark \cup {Open}
    BY <1>1, TextTypes DEF Sentence
  <2>3. CASE mem[n].delim = Open
    <3>1. Written(mem[n]) = mem[n].words
      BY <2>2, <2>3 DEF Written
    <3> QED
      BY <2>1, <3>1
  <2>4. CASE mem[n].delim # Open
    <3>1. Written(mem[n]) = Append(mem[n].words, mem[n].delim)
      BY <2>2, <2>4 DEF Written
    <3>2. mem[n].delim \in Text /\ mem[n].delim \notin Word
      BY <2>2, <2>4, WordAssumption DEF Text
    <3>3. {mem[n].delim} \cap Word = {}
      BY <3>2
    <3>4. WordsOf(Append(mem[n].words, mem[n].delim))
            = WordsOf(mem[n].words) \cup ({mem[n].delim} \cap Word)
      BY <2>2, <3>2, WordsOfAppend
    <3>5. Flush(mid) = Append(mem[n].words, mem[n].delim)
      BY <2>1, <3>1
    <3>6. WordsOf(Flush(mid)) = WordsOf(mem[n].words)
      BY <3>3, <3>4, <3>5
    <3> QED
      BY <2>1, <3>6
  <2> QED
    BY <2>3, <2>4
<1>4. m = pre \o (list \o post)
  <2>1. CASE list = <<>>
    <3>1. n = Len(mem)
      BY <2>1 DEF BlankLast
    <3>2. post = <<>>
      BY <1>1, <3>1
    <3>3. list \o post = <<>>
      BY <2>1, <3>2
    <3>4. m = pre \o <<>>
      BY <2>1 DEF Spliced
    <3> QED
      BY <3>3, <3>4
  <2>2. CASE list # <<>>
    BY <2>2 DEF Spliced
  <2> QED
    BY <2>1, <2>2
<1>5. /\ Words(pre) \in Seq(Word) /\ Words(mid) \in Seq(Word)
      /\ Words(post) \in Seq(Word) /\ Words(list) \in Seq(Word)
  BY <1>1, FlushFacts
<1>6. Len(Words(m)) - Len(Words(mem)) = Len(Words(list)) - Len(mem[n].words)
  <2> DEFINE i == Len(Words(pre))
             j == Len(Words(mid))
             k == Len(Words(post))
             l == Len(Words(list))
  <2>1. i \in Nat /\ j \in Nat /\ k \in Nat /\ l \in Nat
    <3> HIDE DEF pre, mid, post
    <3> QED
      BY <1>5
  <2>2. Len(Words(m)) = i + (l + k)
    BY <1>2, <1>4
  <2>3. Len(Words(pre \o (mid \o post))) = i + (j + k)
    BY <1>1, <1>2
  <2>4. Len(Words(mem)) = i + (j + k)
    BY <1>1, <2>3
  <2>5. Len(mem[n].words) = j
    BY <1>3
  <2> HIDE DEF i, j, k, l
  <2>6. (i + (l + k)) - (i + (j + k)) = l - j
    BY <2>1
  <2> QED
    BY <2>2, <2>4, <2>5, <2>6 DEF l
<1>7. WordsOf(Flush(m)) = WordsOf(Flush(mem)) \cup W
  <2>1. WordsOf(Flush(m))
          = WordsOf(Flush(pre)) \cup WordsOf(Flush(list)) \cup WordsOf(Flush(post))
    BY <1>2, <1>4
  <2>2. WordsOf(Flush(pre \o (mid \o post)))
          = WordsOf(Flush(pre)) \cup WordsOf(Flush(mid)) \cup WordsOf(Flush(post))
    BY <1>1, <1>2
  <2>3. WordsOf(Flush(mem))
          = WordsOf(Flush(pre)) \cup WordsOf(mem[n].words) \cup WordsOf(Flush(post))
    BY <1>1, <1>3, <2>2
  <2> QED
    BY <2>1, <2>3
<1> QED
  BY <1>6, <1>7

-----------------------------------------------------------------------------
(* What the steps do to the documents in memory, sentence by sentence. *)

\* The values that stand under the nodes q.
Under(q, T) == [k \in DOMAIN q |-> T[q[k]]]

LEMMA UnderType ==
  ASSUME NEW q \in Seq(Addr), NEW T \in [Addr -> Sentence]
  PROVE  /\ Under(q, T) \in Seq(Sentence) /\ Len(Under(q, T)) = Len(q)
         /\ \A k \in 1..Len(q) : Under(q, T)[k] = T[q[k]] /\ q[k] \in Addr
<1>1. DOMAIN q = 1..Len(q) /\ Len(q) \in Nat /\ \A k \in 1..Len(q) : q[k] \in Addr
  OBVIOUS
<1>2. Under(q, T) = [k \in 1..Len(q) |-> T[q[k]]]
  BY <1>1 DEF Under
<1> QED
  BY <1>1, <1>2

LEMMA UnderConcat ==
  ASSUME NEW p \in Seq(Addr), NEW q \in Seq(Addr), NEW T \in [Addr -> Sentence]
  PROVE  Under(p \o q, T) = Under(p, T) \o Under(q, T)
<1> DEFINE c == p \o q
           u == Under(p, T)
           v == Under(q, T)
           w == Under(c, T)
           m == Len(p)
           n == Len(q)
<1>1. /\ c \in Seq(Addr) /\ Len(c) = m + n
      /\ \A k \in 1..m : c[k] = p[k]
      /\ \A k \in 1..(m + n) : k > m => (k - m \in 1..n /\ c[k] = q[k - m])
  BY ConcatAt
<1>2. /\ u \in Seq(Sentence) /\ Len(u) = m /\ \A k \in 1..m : u[k] = T[p[k]]
      /\ v \in Seq(Sentence) /\ Len(v) = n /\ \A k \in 1..n : v[k] = T[q[k]]
  BY UnderType
<1>3. m \in Nat /\ n \in Nat
  OBVIOUS
<1> HIDE DEF c
<1>4. w \in Seq(Sentence) /\ Len(w) = Len(c) /\ \A k \in 1..Len(c) : w[k] = T[c[k]]
  BY <1>1, UnderType
<1> HIDE DEF u, v, w, m, n
<1>5. \A k \in 1..Len(u) : w[k] = u[k]
  <2>1. ASSUME NEW k \in 1..m PROVE w[k] = u[k]
    <3>1. k \in 1..Len(c)
      BY <1>1, <1>3
    <3>2. w[k] = T[c[k]] /\ c[k] = p[k] /\ u[k] = T[p[k]]
      BY <1>1, <1>2, <1>4, <3>1
    <3> QED
      BY <3>2
  <2> QED
    BY <1>2, <2>1
<1>6. \A k \in 1..Len(w) : k > Len(u) => w[k] = v[k - Len(u)]
  BY <1>1, <1>2, <1>4
<1>7. Len(w) = Len(u) + Len(v)
  BY <1>1, <1>2, <1>4
<1>8. w = u \o v
  <2>1. u \in Seq(Sentence) /\ v \in Seq(Sentence) /\ w \in Seq(Sentence)
    BY <1>2, <1>4
  <2> QED
    BY <1>5, <1>6, <1>7, <2>1, ConcatOf
<1> QED
  BY <1>8 DEF u, v, w, c

(* The nodes before and after the n-th hold the sentences before and after *)
(* it. *)
LEMMA UnderCut ==
  ASSUME NEW q \in Seq(Addr), NEW n \in DOMAIN q, NEW T \in [Addr -> Sentence]
  PROVE  LET pre  == SubSeq(q, 1, n - 1)
             post == SubSeq(q, n + 1, Len(q))
         IN /\ pre \in Seq(Addr) /\ post \in Seq(Addr)
            /\ Under(pre, T) = SubSeq(Under(q, T), 1, n - 1)
            /\ Under(post, T) = SubSeq(Under(q, T), n + 1, Len(Under(q, T)))
<1> DEFINE N    == Len(q)
           u    == Under(q, T)
           pre  == SubSeq(q, 1, n - 1)
           post == SubSeq(q, n + 1, N)
<1>1. N \in Nat /\ DOMAIN q = 1..N /\ n \in Nat /\ 1 =< n /\ n =< N
  OBVIOUS
<1>2. u \in Seq(Sentence) /\ Len(u) = N /\ \A k \in 1..N : u[k] = T[q[k]]
  BY UnderType
<1>3. /\ pre \in Seq(Addr) /\ Len(pre) = n - 1 /\ \A k \in 1..(n - 1) : pre[k] = q[k]
  BY <1>1
<1>4. /\ post \in Seq(Addr) /\ Len(post) = N - n
      /\ \A k \in 1..(N - n) : post[k] = q[n + k]
  <2>1. n \in 0..Len(q)
    BY <1>1
  <2>2. post \in Seq(Addr) /\ Len(post) = N - n
    BY <2>1, CutFacts
  <2>3. \A k \in 1..(N - n) : post[k] = q[n + k]
    BY <1>1
  <2> QED
    BY <2>2, <2>3
<1> HIDE DEF N, u, pre, post
<1>5. /\ Under(pre, T) \in Seq(Sentence) /\ Len(Under(pre, T)) = n - 1
      /\ \A k \in 1..(n - 1) : Under(pre, T)[k] = T[q[k]]
  BY <1>3, UnderType
<1>6. /\ Under(post, T) \in Seq(Sentence) /\ Len(Under(post, T)) = N - n
      /\ \A k \in 1..(N - n) : Under(post, T)[k] = T[q[n + k]]
  <2>1. /\ Under(post, T) \in Seq(Sentence) /\ Len(Under(post, T)) = Len(post)
        /\ \A k \in 1..Len(post) : Under(post, T)[k] = T[post[k]]
    BY <1>4, UnderType
  <2> QED
    BY <1>4, <2>1
<1>7. Under(pre, T) = SubSeq(u, 1, n - 1)
  <2> DEFINE w == SubSeq(u, 1, n - 1)
  <2>1. w \in Seq(Sentence) /\ Len(w) = n - 1 /\ \A k \in 1..(n - 1) : w[k] = u[k]
    BY <1>1, <1>2
  <2> HIDE DEF w
  <2>2. \A k \in 1..(n - 1) : k \in 1..N
    BY <1>1
  <2>3. \A k \in 1..(n - 1) : Under(pre, T)[k] = w[k]
    BY <1>2, <1>5, <2>1, <2>2
  <2> QED
    BY <1>5, <2>1, <2>3, SameSequence DEF w
<1>8. Under(post, T) = SubSeq(u, n + 1, Len(u))
  <2> DEFINE w == SubSeq(u, n + 1, Len(u))
  <2>1. w \in Seq(Sentence) /\ Len(w) = N - n
    <3>1. n \in 0..Len(u)
      BY <1>1, <1>2
    <3> QED
      BY <1>2, <3>1, CutFacts
  <2>2. \A k \in 1..(N - n) : w[k] = u[n + k]
    BY <1>1, <1>2
  <2> HIDE DEF w
  <2>3. \A k \in 1..(N - n) : n + k \in 1..N
    BY <1>1
  <2>4. \A k \in 1..(N - n) : Under(post, T)[k] = w[k]
    BY <1>2, <1>6, <2>2, <2>3
  <2> QED
    BY <1>6, <2>1, <2>4, SameSequence DEF w
<1> QED
  BY <1>3, <1>4, <1>7, <1>8 DEF u, pre, post, N

\* The nodes new take the place of the n-th of q and hold list, while the
\* nodes that stay hold what they held before.
Replaces(q, n, new, list, T, U) ==
  /\ q \in Seq(Addr) /\ n \in DOMAIN q /\ Distinct(q)
  /\ new \in Seq(Addr) /\ list \in Seq(Sentence) /\ Len(new) = Len(list)
  /\ Nodes(q) \cap Nodes(new) = {}
  /\ T \in [Addr -> Sentence] /\ U \in [Addr -> Sentence]
  /\ \A k \in DOMAIN new : U[new[k]] = list[k]
  /\ \A a \in Nodes(Spliced(q, n, new)) \ Nodes(new) : U[a] = T[a]

(* Splicing the nodes and writing the new ones splices the sentences. *)
LEMMA UnderSpliced ==
  ASSUME NEW q, NEW n, NEW new, NEW list, NEW T, NEW U, Replaces(q, n, new, list, T, U)
  PROVE  Under(Spliced(q, n, new), U) = Spliced(Under(q, T), n, list)
<1> USE DEF Replaces
<1> DEFINE pre  == SubSeq(q, 1, n - 1)
           post == SubSeq(q, n + 1, Len(q))
           rest == new \o post
           u    == Under(q, T)
<1>1. /\ pre \in Seq(Addr) /\ post \in Seq(Addr)
      /\ Under(pre, T) = SubSeq(u, 1, n - 1)
      /\ Under(post, T) = SubSeq(u, n + 1, Len(u))
  BY UnderCut
<1>2. Nodes(pre) \subseteq Nodes(q) /\ Nodes(post) \subseteq Nodes(q)
  BY CutNodes
<1>3. Spliced(q, n, new) = IF new = <<>> THEN pre \o <<>> ELSE pre \o rest
  BY DEF Spliced
<1>4. Spliced(u, n, list) =
        SubSeq(u, 1, n - 1)
          \o IF list = <<>> THEN <<>> ELSE list \o SubSeq(u, n + 1, Len(u))
  BY DEF Spliced
<1>5. new = <<>> <=> list = <<>>
  OBVIOUS
<1> HIDE DEF pre, post, u
<1>6. ASSUME NEW p \in Seq(Addr), Nodes(p) \subseteq Nodes(q),
             Nodes(p) \subseteq Nodes(Spliced(q, n, new))
      PROVE  Under(p, U) = Under(p, T)
  <2>1. \A k \in DOMAIN p : p[k] \in Nodes(p)
    BY DEF Nodes
  <2>2. \A k \in DOMAIN p : U[p[k]] = T[p[k]]
    BY <1>6, <2>1
  <2> QED
    BY <2>2 DEF Under
<1>7. CASE new = <<>>
  <2>1. Spliced(q, n, new) = pre
    BY <1>1, <1>3, <1>7
  <2>2. Under(pre, U) = Under(pre, T)
    BY <1>1, <1>2, <1>6, <2>1
  <2>3. Under(pre, T) \in Seq(Sentence)
    BY <1>1, UnderType
  <2>4. Under(pre, T) \o <<>> = Under(pre, T)
    BY <2>3
  <2> QED
    BY <1>1, <1>4, <1>5, <1>7, <2>1, <2>2, <2>4 DEF u
<1>8. CASE new # <<>>
  <2>1. rest \in Seq(Addr) /\ Nodes(rest) = Nodes(new) \cup Nodes(post)
    BY <1>1, ConcatNodes
  <2>2. Under(rest, U) = Under(new, U) \o Under(post, U)
    BY <1>1, UnderConcat
  <2> HIDE DEF rest
  <2>3. Spliced(q, n, new) = pre \o rest /\ Nodes(pre \o rest) = Nodes(pre) \cup Nodes(rest)
    BY <1>1, <1>3, <1>8, <2>1, ConcatNodes
  <2>4. Under(pre, U) = Under(pre, T)
    BY <1>1, <1>2, <1>6, <2>3
  <2>5. Under(post, U) = Under(post, T)
    BY <1>1, <1>2, <1>6, <2>1, <2>3
  <2>6. Under(new, U) = list
    <3>1. /\ Under(new, U) \in Seq(Sentence) /\ Len(Under(new, U)) = Len(new)
          /\ \A k \in 1..Len(new) : Under(new, U)[k] = U[new[k]]
      BY UnderType
    <3>2. \A k \in 1..Len(new) : U[new[k]] = list[k]
      OBVIOUS
    <3>3. \A k \in 1..Len(Under(new, U)) : Under(new, U)[k] = list[k]
      BY <3>1, <3>2
    <3>4. Len(Under(new, U)) = Len(list)
      BY <3>1
    <3> QED
      BY <3>1, <3>3, <3>4, SameSequence
  <2>7. Under(pre \o rest, U) = Under(pre, U) \o Under(rest, U)
    BY <1>1, <2>1, UnderConcat
  <2> QED
    BY <1>1, <1>4, <1>5, <1>8, <2>2, <2>3, <2>4, <2>5, <2>6, <2>7 DEF u
<1> QED
  BY <1>7, <1>8

(* The types that ContentTypeOK gives, with the domains of the files.      *)
CTypes ==
  /\ text \in [Addr -> Sentence]
  /\ work \in [Sock -> Work]
  /\ disk \in [File -> {Missing} \cup Seq(Text)]
  /\ bak \in [File -> {Missing} \cup Seq(Text)]
  /\ typed \subseteq Inputs
  /\ committed \in [File -> SUBSET Word]

LEMMA BlankType == Blank \in Sentence
<1>1. <<>> \in Seq(Word)
  OBVIOUS
<1> QED
  BY <1>1 DEF Blank, Sentence

(* Writing q gives its nodes the sentences of list and keeps the text of   *)
(* every other node in use. *)
LEMMA WriteFacts ==
  ASSUME text \in [Addr -> Sentence], NEW q \in Seq(Addr), NEW list \in Seq(Sentence),
         Len(q) = Len(list), Distinct(q), Write(q, list)
  PROVE  /\ text' \in [Addr -> Sentence]
         /\ \A k \in DOMAIN q : heap'[q[k]] # 0 => text'[q[k]] = list[k]
         /\ \A a \in Addr \ Nodes(q) : heap'[a] # 0 => text'[a] = text[a]
<1>1. /\ DOMAIN q = 1..Len(q) /\ DOMAIN list = 1..Len(list)
      /\ \A k \in 1..Len(list) : list[k] \in Sentence
      /\ \A k \in 1..Len(q) : q[k] \in Addr
  OBVIOUS
<1>2. ASSUME NEW a \in Nodes(q)
      PROVE  (CHOOSE k \in DOMAIN q : q[k] = a) \in DOMAIN q
             /\ q[CHOOSE k \in DOMAIN q : q[k] = a] = a
  BY DEF Nodes
<1>3. ASSUME NEW k \in DOMAIN q
      PROVE  (CHOOSE j \in DOMAIN q : q[j] = q[k]) = k /\ q[k] \in Nodes(q) /\ q[k] \in Addr
  <2>1. q[k] \in Nodes(q) /\ q[k] \in Addr
    BY DEF Nodes
  <2> QED
    BY <1>2, <2>1 DEF Distinct
<1>4. ASSUME NEW a \in Addr
      PROVE  text'[a] \in Sentence
  BY <1>1, <1>2, BlankType DEF Write
<1>5. text' \in [Addr -> Sentence]
  <2>1. text' = [a \in Addr |-> text'[a]]
    BY DEF Write
  <2> QED
    BY <1>4, <2>1
<1>6. ASSUME NEW k \in DOMAIN q, heap'[q[k]] # 0 PROVE text'[q[k]] = list[k]
  BY <1>3, <1>6 DEF Write
<1> QED
  BY <1>5, <1>6 DEF Write

-----------------------------------------------------------------------------
\* What a step can leave of the document in slot i.
Same(i) ==
  /\ docs'[i].active <=> docs[i].active
  /\ docs'[i].file = docs[i].file /\ Mem(i)' = Mem(i)

Emptied(i) == ~docs'[i].active /\ Mem(i)' = <<>>

NewIn(d, f) ==
  /\ d \in DocSlot /\ ~docs[d].active /\ disk[f] \in Seq(Text)
  /\ docs'[d].active /\ docs'[d].file = f /\ Mem(d)' = Parse(disk[f])
  /\ \A i \in DocSlot \ {d} : Same(i)

LEMMA MemType ==
  ASSUME TypeOK, text \in [Addr -> Sentence], NEW i \in DocSlot
  PROVE  /\ Mem(i) = Under(docs[i].head, text)
         /\ Mem(i) \in Seq(Sentence) /\ DOMAIN Mem(i) = DOMAIN docs[i].head
         /\ Len(Mem(i)) = Len(docs[i].head)
<1>1. docs[i].head \in Seq(Addr)
  BY DEF TypeOK, Doc
<1>2. Mem(i) = Under(docs[i].head, text)
  BY DEF Mem, Under
<1> QED
  BY <1>1, <1>2, UnderType DEF Under

LEMMA SameMem ==
  ASSUME NEW i \in DocSlot, docs'[i].head = docs[i].head,
         \A a \in Nodes(docs[i].head) : text'[a] = text[a]
  PROVE  Mem(i)' = Mem(i)
<1>1. \A k \in DOMAIN docs[i].head : docs[i].head[k] \in Nodes(docs[i].head)
  BY DEF Nodes
<1>2. \A k \in DOMAIN docs[i].head : text'[docs[i].head[k]] = text[docs[i].head[k]]
  BY <1>1
<1>3. Mem(i)' = [k \in DOMAIN docs'[i].head |-> text'[docs'[i].head[k]]]
  BY DEF Mem
<1> QED
  BY <1>2, <1>3 DEF Mem

(* A document whose record and nodes a step leaves alone keeps its text. *)
LEMMA NodesKept ==
  ASSUME IInv, IInv', NEW i \in DocSlot, docs'[i].head = docs[i].head,
         \A a \in Addr : heap[a] # 0 /\ heap'[a] # 0 => text'[a] = text[a]
  PROVE  Mem(i)' = Mem(i)
<1>1. \A a \in Nodes(docs[i].head) : a \in Addr /\ heap[a] = i /\ heap'[a] = i /\ i # 0
  <2>1. Nodes(docs[i].head) \subseteq Addr
    BY DEF IInv, TypeOK, Doc, Nodes
  <2> QED
    BY <2>1 DEF IInv, HeadsOwned, DocSlot
<1> QED
  BY <1>1, SameMem

(* A WRITE that reaches the document finds it in memory as it is, or reads *)
(* it from disk into a slot that was free. *)
LEMMA OpenEffect ==
  ASSUME IInv, IInv', CTypes, NEW f \in File, NEW o \in FindOrLoad(f), Opens(f, o),
         \A i \in DocSlot : i # o.slot => docs'[i] = docs[i],
         docs'[o.slot].active, docs'[o.slot].file = f, docs'[o.slot].head = o.doc.head,
         heap' = o.heap
  PROVE  /\ text' \in [Addr -> Sentence]
         /\ (\A i \in DocSlot : Same(i)) \/ NewIn(o.slot, f)
<1> DEFINE d == o.slot
           q == o.doc.head
           list == Parse(disk[f])
<1>1. /\ d \in DocSlot /\ o.doc \in Doc /\ o.doc.file = f /\ o.doc.active
      /\ Loaded(o) \/ NewlyLoaded(o)
  BY FindOrLoadFacts DEF IInv
<1>2. text \in [Addr -> Sentence] /\ q \in Seq(Addr)
  BY <1>1 DEF CTypes, Doc
<1>3. CASE Loaded(o)
  <2>1. docs[d].active /\ docs[d].file = f /\ docs'[d].head = docs[d].head /\ text' = text
    BY <1>1, <1>3 DEF Loaded, Opens
  <2>2. ASSUME NEW i \in DocSlot PROVE Same(i)
    <3>1. docs'[i].head = docs[i].head
      BY <2>1
    <3>2. Mem(i)' = Mem(i)
      BY <2>1, <3>1, SameMem
    <3> QED
      BY <2>1, <3>2 DEF Same
  <2> QED
    BY <1>2, <2>1, <2>2
<1>4. CASE NewlyLoaded(o)
  <2>1. /\ ~docs[d].active /\ Distinct(q) /\ \A a \in Nodes(q) : heap[a] = 0
        /\ disk[f] # Missing /\ Len(q) = Len(list) /\ Write(q, list)
    BY <1>4 DEF NewlyLoaded, Opens
  <2>2. disk[f] \in Seq(Text)
    BY <2>1 DEF CTypes
  <2>3. list \in Seq(Sentence)
    BY <2>2, ParseFacts
  <2>4. /\ text' \in [Addr -> Sentence]
        /\ \A k \in DOMAIN q : heap'[q[k]] # 0 => text'[q[k]] = list[k]
        /\ \A a \in Addr \ Nodes(q) : heap'[a] # 0 => text'[a] = text[a]
    BY <1>2, <2>1, <2>3, WriteFacts
  <2> HIDE DEF list
  <2>5. \A k \in DOMAIN q : heap'[q[k]] = d /\ d # 0
    BY <1>1 DEF IInv, HeadsOwned, Nodes, DocSlot
  <2>6. Mem(d)' = list
    <3>1. Mem(d)' = Under(q, text')
      BY DEF Mem, Under
    <3>2. /\ Under(q, text') \in Seq(Sentence) /\ Len(Under(q, text')) = Len(q)
          /\ \A k \in 1..Len(q) : Under(q, text')[k] = text'[q[k]]
      BY <1>2, <2>4, UnderType
    <3>3. \A k \in DOMAIN q : text'[q[k]] = list[k]
      BY <2>4, <2>5
    <3>4. \A k \in 1..Len(q) : text'[q[k]] = list[k]
      BY <1>2, <3>3
    <3>5. \A k \in 1..Len(Under(q, text')) : Under(q, text')[k] = list[k]
      BY <3>2, <3>4
    <3>6. Len(Under(q, text')) = Len(list)
      BY <2>1, <3>2
    <3> QED
      BY <2>3, <3>1, <3>2, <3>5, <3>6, SameSequence
  <2>7. ASSUME NEW i \in DocSlot \ {d} PROVE Same(i)
    <3>1. docs'[i] = docs[i]
      OBVIOUS
    <3>2. \A a \in Addr : heap[a] # 0 /\ heap'[a] # 0 => text'[a] = text[a]
      BY <2>1, <2>4
    <3>3. Mem(i)' = Mem(i)
      BY <3>1, <3>2, NodesKept
    <3> QED
      BY <3>1, <3>3 DEF Same
  <2> QED
    BY <1>1, <2>1, <2>2, <2>4, <2>6, <2>7 DEF NewIn, list
<1> QED
  BY <1>1, <1>3, <1>4

(* A session that ends without a commit leaves its document as it was, or  *)
(* takes it out of memory. *)
LEMMA LeaveEffect ==
  ASSUME IInv, IInv', CTypes, NEW s \in Sock, EndStep(s, docs[sessions[s].doc].head, heap),
         Write(<<>>, <<>>)
  PROVE  /\ text' \in [Addr -> Sentence]
         /\ \A i \in DocSlot : Same(i) \/ Emptied(i)
<1> DEFINE d == sessions[s].doc
           hd == docs[d].head
<1>1. /\ d \in DocSlot
      /\ \A i \in DocSlot : i # d => docs'[i] = docs[i]
      /\ \/ docs'[d].active /\ docs'[d].file = docs[d].file /\ docs'[d].head = hd
         \/ docs'[d] = NoDoc
  BY EndEffect
<1>2. docs[d].active
  BY DEF EndStep, IInv, SessionOnDoc
<1>3. text \in [Addr -> Sentence] /\ <<>> \in Seq(Addr) /\ <<>> \in Seq(Sentence)
      /\ Distinct(<<>>) /\ Nodes(<<>>) = {} /\ Len(<<>>) = Len(<<>>)
  BY DEF CTypes, Distinct, Nodes
<1>4. /\ text' \in [Addr -> Sentence]
      /\ \A a \in Addr : heap'[a] # 0 => text'[a] = text[a]
  BY <1>3, WriteFacts
<1>5. ASSUME NEW i \in DocSlot, docs'[i].head = docs[i].head
      PROVE  Mem(i)' = Mem(i)
  BY <1>4, <1>5, NodesKept
<1>6. ASSUME NEW i \in DocSlot, docs'[i] = NoDoc PROVE Emptied(i)
  <2>1. ~docs'[i].active /\ docs'[i].head = <<>>
    BY <1>6 DEF NoDoc
  <2>2. Mem(i)' = <<>>
    BY <2>1 DEF Mem
  <2> QED
    BY <2>1, <2>2 DEF Emptied
<1> QED
  BY <1>1, <1>2, <1>4, <1>5, <1>6 DEF Same

(* A commit puts the new sentences in the place of the old one, and no     *)
(* other document notices. *)
LEMMA CommitEffect ==
  ASSUME IInv, IInv', CTypes, NEW s \in Sock, NEW n \in DOMAIN docs[sessions[s].doc].head,
         NEW list \in Seq(Sentence), Applied(s, n, list), NEW d, d = sessions[s].doc
  PROVE  /\ text' \in [Addr -> Sentence]
         /\ d \in DocSlot /\ docs[d].active /\ docs[d].file \in File
         /\ docs[d].head[n] = sessions[s].ptr /\ sessions[s].active
         /\ \A i \in DocSlot \ {d} : Same(i)
         /\ \/ Emptied(d)
            \/ /\ docs'[d].active /\ docs'[d].file = docs[d].file
               /\ Mem(d)' = Merged(s, n, list)
<1> DEFINE hd == docs[d].head
<1>1. PICK new \in FreshLists(0, MaxNew) :
        Len(new) = Len(list) /\ EtirwSplice(s, n, new) /\ Write(new, list)
  BY DEF Applied
<1> DEFINE after == Spliced(hd, n, new)
<1>2. /\ new \in Seq(Addr) /\ Distinct(new) /\ \A a \in Nodes(new) : heap[a] = 0
  BY BoundAssumption, FreshListsType
<1>3. /\ text' \in [Addr -> Sentence] /\ text \in [Addr -> Sentence]
      /\ \A k \in DOMAIN new : heap'[new[k]] # 0 => text'[new[k]] = list[k]
      /\ \A a \in Addr \ Nodes(new) : heap'[a] # 0 => text'[a] = text[a]
  <2>1. text \in [Addr -> Sentence]
    BY DEF CTypes
  <2> QED
    BY <1>1, <1>2, <2>1, WriteFacts
<1>4. EndStep(s, after, Release(Claim(heap, new, d), {sessions[s].ptr}))
  BY <1>1, SpliceEnds
<1>5. /\ d \in DocSlot
      /\ \A i \in DocSlot : i # d => docs'[i] = docs[i]
      /\ \/ docs'[d].active /\ docs'[d].file = docs[d].file /\ docs'[d].head = after
         \/ docs'[d] = NoDoc
  BY <1>4, EndEffect
<1>6. /\ sessions[s].active /\ docs[d].active /\ docs[d].file \in File
      /\ hd[n] = sessions[s].ptr
  BY <1>1, <1>5 DEF EtirwSplice, IInv, SessionOnDoc, DocNamed
<1>7. ASSUME NEW i \in DocSlot \ {d} PROVE Same(i)
  <2>1. docs'[i] = docs[i]
    BY <1>5
  <2>2. \A a \in Addr : heap[a] # 0 /\ heap'[a] # 0 => text'[a] = text[a]
    BY <1>2, <1>3
  <2>3. Mem(i)' = Mem(i)
    BY <2>1, <2>2, NodesKept
  <2> QED
    BY <2>1, <2>3 DEF Same
<1>8. CASE docs'[d] = NoDoc
  <2>1. ~docs'[d].active /\ docs'[d].head = <<>>
    BY <1>8 DEF NoDoc
  <2>2. Mem(d)' = <<>>
    BY <2>1 DEF Mem
  <2>3. Emptied(d)
    BY <2>1, <2>2 DEF Emptied
  <2> QED
    BY <1>3, <1>5, <1>6, <1>7, <2>3
<1>9. CASE docs'[d].active /\ docs'[d].file = docs[d].file /\ docs'[d].head = after
  <2>1. hd \in Seq(Addr) /\ Distinct(hd) /\ \A a \in Nodes(hd) : heap[a] = d /\ d # 0
    BY <1>5 DEF IInv, TypeOK, Doc, HeadsOwned, DocSlot
  <2>2. Nodes(hd) \cap Nodes(new) = {}
    BY <1>2, <2>1
  <2>3. /\ after \in Seq(Addr)
        /\ Nodes(after) \subseteq (Nodes(hd) \ {hd[n]}) \cup Nodes(new)
    BY <1>2, <2>1, <2>2, SplicedFacts
  <2> HIDE DEF after
  <2>4. \A a \in Nodes(after) : a \in Addr /\ heap'[a] = d /\ d # 0
    <3>1. Nodes(after) \subseteq Addr
      BY <2>3 DEF Nodes
    <3> QED
      BY <1>5, <1>9, <3>1 DEF IInv, HeadsOwned, DocSlot
  <2>5. \A a \in Nodes(after) \ Nodes(new) : text'[a] = text[a]
    BY <1>3, <2>4
  <2>6. \A k \in DOMAIN new : text'[new[k]] = list[k]
    <3>1. ASSUME NEW k \in DOMAIN new PROVE new[k] \in Nodes(after)
      <4> DEFINE pre  == SubSeq(hd, 1, n - 1)
                 post == SubSeq(hd, n + 1, Len(hd))
      <4>1. new # <<>>
        BY <1>2, <3>1
      <4>2. pre \in Seq(Addr) /\ post \in Seq(Addr)
        BY <2>1, CutNodes
      <4>3. after = pre \o (new \o post)
        BY <4>1 DEF after, Spliced
      <4> HIDE DEF pre, post
      <4>4. new \o post \in Seq(Addr) /\ Nodes(new \o post) = Nodes(new) \cup Nodes(post)
        BY <1>2, <4>2, ConcatNodes
      <4> DEFINE c == new \o post
      <4>5. c \in Seq(Addr) /\ Nodes(c) = Nodes(new) \cup Nodes(post) /\ after = pre \o c
        BY <4>3, <4>4
      <4> HIDE DEF c
      <4>6. Nodes(after) = Nodes(pre) \cup Nodes(c)
        BY <4>2, <4>5, ConcatNodes
      <4>7. new[k] \in Nodes(new)
        BY DEF Nodes
      <4> QED
        BY <4>5, <4>6, <4>7
    <3> QED
      BY <1>3, <2>4, <3>1
  <2>7. Under(after, text') = Spliced(Under(hd, text), n, list)
    <3> DEFINE T == text
               U == text'
    <3>1. T \in [Addr -> Sentence] /\ U \in [Addr -> Sentence]
      BY <1>3
    <3>2. \A a \in Nodes(Spliced(hd, n, new)) \ Nodes(new) : U[a] = T[a]
      BY <2>5 DEF after
    <3>3. \A k \in DOMAIN new : U[new[k]] = list[k]
      BY <2>6
    <3>4. n \in DOMAIN hd /\ Len(new) = Len(list)
      BY <1>1
    <3> HIDE DEF T, U, hd
    <3>5. Replaces(hd, n, new, list, T, U)
      BY <1>2, <2>1, <2>2, <3>1, <3>2, <3>3, <3>4 DEF Replaces
    <3>6. Under(Spliced(hd, n, new), U) = Spliced(Under(hd, T), n, list)
      BY <3>5, UnderSpliced
    <3> QED
      BY <3>6 DEF T, U, after
  <2>8. Mem(d)' = Under(after, text') /\ Mem(d) = Under(hd, text)
    BY <1>9 DEF Mem, Under
  <2>9. Mem(d)' = Merged(s, n, list)
    BY <2>7, <2>8 DEF Merged
  <2> QED
    BY <1>3, <1>5, <1>6, <1>7, <1>9, <2>9
<1> QED
  BY <1>5, <1>8, <1>9

-----------------------------------------------------------------------------
(* The kinds of step, as the documents and files see them. *)

(* The queued edits are those of the session, the first perhaps moved. *)
LEMMA QueuedFacts ==
  ASSUME CTypes, NEW s \in Sock, sessions[s].ptr \in Addr
  PROVE  /\ work[s].edits \in Seq(Edit) /\ Queued(s) \in Seq(Edit)
         /\ Len(Queued(s)) = Len(work[s].edits)
         /\ DOMAIN Queued(s) = 1..Len(work[s].edits)
         /\ DOMAIN work[s].edits = 1..Len(work[s].edits)
         /\ \A k \in 1..Len(work[s].edits) :
              /\ Queued(s)[k].content = work[s].edits[k].content
              /\ Queued(s)[k].at = IF k = 1 THEN work[s].edits[k].at
                                        + (Len(text[sessions[s].ptr].words) - work[s].orig)
                                   ELSE work[s].edits[k].at
<1> DEFINE edits  == work[s].edits
           offset == Len(text[sessions[s].ptr].words) - work[s].orig
           q      == Queued(s)
           N      == Len(edits)
<1>1. edits \in Seq(Edit) /\ work[s].orig \in Nat
  BY DEF CTypes, Work, Edit
<1>2. text[sessions[s].ptr].words \in Seq(Word)
  BY DEF CTypes, Sentence
<1>3. offset \in Int
  BY <1>1, <1>2
<1>4. q = [k \in DOMAIN edits |-> IF k = 1 THEN [edits[k] EXCEPT !.at = @ + offset] ELSE edits[k]]
  BY DEF Queued
<1> HIDE DEF edits, offset, q
<1>5. N \in Nat /\ DOMAIN edits = 1..N /\ \A k \in 1..N : edits[k] \in Edit
  BY <1>1
<1>6. ASSUME NEW e \in Edit
      PROVE  LET m == [e EXCEPT !.at = @ + offset]
             IN m \in Edit /\ m.at = e.at + offset /\ m.content = e.content
  BY <1>3 DEF Edit
<1>7. ASSUME NEW k \in 1..N
      PROVE  /\ q[k] \in Edit /\ q[k].content = edits[k].content
             /\ q[k].at = IF k = 1 THEN edits[k].at + offset ELSE edits[k].at
  <2>1. edits[k] \in Edit /\ k \in DOMAIN edits
    BY <1>5
  <2>2. CASE k = 1
    <3>1. q[k] = [edits[k] EXCEPT !.at = @ + offset]
      BY <1>4, <2>1, <2>2
    <3> QED
      BY <1>6, <2>1, <2>2, <3>1
  <2>3. CASE k # 1
    <3>1. q[k] = edits[k]
      BY <1>4, <2>1, <2>3
    <3> QED
      BY <2>1, <2>3, <3>1
  <2> QED
    BY <2>2, <2>3
<1>8. DOMAIN q = 1..N
  BY <1>4, <1>5
<1>9. q \in Seq(Edit) /\ Len(q) = N
  <2>1. q = [k \in 1..N |-> q[k]]
    BY <1>4, <1>5
  <2>2. [k \in 1..N |-> q[k]] \in Seq(Edit) /\ Len([k \in 1..N |-> q[k]]) = N
    BY <1>5, <1>7
  <2> QED
    BY <2>1, <2>2
<1> QED
  BY <1>1, <1>5, <1>7, <1>8, <1>9 DEF edits, offset, q

\* An ETIRW whose edits apply makes list of the n-th sentence.
Targets(s, n, list) ==
  /\ sessions[s].active /\ n \in DOMAIN docs[sessions[s].doc].head
  /\ docs[sessions[s].doc].head[n] = sessions[s].ptr
  /\ EditsApply(text[sessions[s].ptr].words, Queued(s))
  /\ list = ApplyEdits(text[sessions[s].ptr], Queued(s))

LEMMA TargetFacts ==
  ASSUME IInv, CTypes, NEW s \in Sock, NEW n, NEW list, Targets(s, n, list),
         NEW d, d = sessions[s].doc, NEW p, p = sessions[s].ptr
  PROVE  /\ d \in DocSlot /\ docs[d].active /\ docs[d].file \in File
         /\ p \in Addr /\ text[p] \in Sentence
         /\ Mem(d) \in Seq(Sentence) /\ n \in DOMAIN Mem(d) /\ Mem(d)[n] = text[p]
         /\ Queued(s) \in Seq(Edit)
         /\ list \in Seq(Sentence) /\ EndsIn(list, text[p].delim)
         /\ Merged(s, n, list) \in Seq(Sentence) /\ Flush(Merged(s, n, list)) \in Seq(Text)
<1>1. d \in DocSlot /\ docs[d].active /\ docs[d].file \in File /\ p \in Addr
  BY DEF Targets, IInv, SessionOnDoc, DocNamed
<1>2. text[p] \in Sentence /\ text \in [Addr -> Sentence]
  BY <1>1 DEF CTypes
<1>3. Mem(d) \in Seq(Sentence) /\ DOMAIN Mem(d) = DOMAIN docs[d].head
  BY <1>1, <1>2, MemType DEF IInv
<1>4. n \in DOMAIN Mem(d) /\ Mem(d)[n] = text[p]
  BY <1>3 DEF Targets, Mem
<1>5. Queued(s) \in Seq(Edit)
  BY <1>1, QueuedFacts
<1>6. list \in Seq(Sentence) /\ EndsIn(list, text[p].delim)
  BY <1>2, <1>5, ApplyFacts DEF Targets
<1>7. Merged(s, n, list) \in Seq(Sentence)
  BY <1>3, <1>4, <1>6, MergedType DEF Merged
<1>8. Flush(Merged(s, n, list)) \in Seq(Text)
  BY <1>7, FlushFacts
<1> QED
  BY <1>1, <1>2, <1>3, <1>4, <1>5, <1>6, <1>7, <1>8

\* Only the server's tables and the documents in memory change.
FilesKept == UNCHANGED <<disk, bak, committed>>

AllEmptied == \A i \in DocSlot : Emptied(i)

(* A step leaves or drops documents, reads one from disk, ends in a commit *)
(* or kills the server. *)
LEMMA ContentKinds ==
  ASSUME IInv, IInv', CTypes, CNext
  PROVE  /\ text' \in [Addr -> Sentence]
         /\ \/ (\A i \in DocSlot : Same(i) \/ Emptied(i)) /\ FilesKept
            \/ (\E d, f : f \in File /\ NewIn(d, f)) /\ FilesKept
            \/ \E s \in Sock : \E n, list :
                 /\ Targets(s, n, list)
                 /\ \/ CommitRejected(s, n, list)
                    \/ CommitSaved(s, n, list)
                    \/ DiesInSave(s, n, list) /\ AllEmptied
<1> DEFINE Good ==
             /\ text' \in [Addr -> Sentence]
             /\ \/ (\A i \in DocSlot : Same(i) \/ Emptied(i)) /\ FilesKept
                \/ (\E d, f : f \in File /\ NewIn(d, f)) /\ FilesKept
                \/ \E s \in Sock : \E n, list :
                     /\ Targets(s, n, list)
                     /\ \/ CommitRejected(s, n, list)
                        \/ CommitSaved(s, n, list)
                        \/ DiesInSave(s, n, list) /\ AllEmptied
<1>0. text \in [Addr -> Sentence] /\ TypeOK
  BY DEF CTypes, IInv
<1>1. CASE UNCHANGED <<docs, text>> /\ FilesKept
  <2>1. ASSUME NEW i \in DocSlot PROVE Same(i)
    <3>1. Mem(i)' = Mem(i)
      BY <1>1 DEF Mem
    <3> QED
      BY <1>1, <3>1 DEF Same
  <2> QED
    BY <1>0, <1>1, <2>1
<1>2. ASSUME Restart, text' = [a \in Addr |-> Blank]
      PROVE  AllEmptied /\ text' \in [Addr -> Sentence]
  <2>1. ASSUME NEW i \in DocSlot PROVE Emptied(i)
    <3>1. docs'[i] = NoDoc
      BY <1>2 DEF Restart
    <3>2. ~docs'[i].active /\ docs'[i].head = <<>>
      BY <3>1 DEF NoDoc
    <3>3. Mem(i)' = <<>>
      BY <3>2 DEF Mem
    <3> QED
      BY <3>2, <3>3 DEF Emptied
  <2> QED
    BY <1>2, <2>1, BlankType DEF AllEmptied
<1>3. ASSUME NEW f \in File, NEW o \in FindOrLoad(f), Opens(f, o), FilesKept,
             \A i \in DocSlot : i # o.slot => docs'[i] = docs[i],
             docs'[o.slot].active, docs'[o.slot].file = f,
             docs'[o.slot].head = o.doc.head, heap' = o.heap
      PROVE  Good
  BY <1>3, OpenEffect
<1>4. ASSUME NEW s \in Sock, NEW f \in File, NEW o \in FindOrLoad(f),
             InvalidSentence(s, o) \/ LockConflict(s, f, o), Opens(f, o), FilesKept
      PROVE  Good
  <2>1. /\ o.slot \in DocSlot /\ o.doc.active /\ o.doc.file = f
        /\ docs' = [docs EXCEPT ![o.slot] = o.doc] /\ heap' = o.heap
    BY <1>0, <1>4, FindOrLoadFacts DEF InvalidSentence, LockConflict
  <2>2. /\ \A i \in DocSlot : i # o.slot => docs'[i] = docs[i]
        /\ docs'[o.slot] = o.doc
    BY <1>0, <2>1 DEF TypeOK
  <2> QED
    BY <1>3, <1>4, <2>1, <2>2
<1>5. ASSUME NEW s \in Sock, NEW f \in File, CGrant(s, f)
      PROVE  Good
  <2>1. PICK o \in FindOrLoad(f) : \E n \in DOMAIN o.doc.head :
          Grant(s, f, o, n) /\ Opens(f, o)
    BY <1>5 DEF CGrant
  <2>2. PICK n \in DOMAIN o.doc.head : Grant(s, f, o, n) /\ Opens(f, o)
    BY <2>1
  <2>3. /\ o.slot \in DocSlot /\ o.doc \in Doc /\ o.doc.active /\ o.doc.file = f
        /\ docs' = [docs EXCEPT ![o.slot] = [o.doc EXCEPT !.users = @ + 1]]
    BY <1>0, <2>2, FindOrLoadFacts DEF Grant
  <2>4. /\ \A i \in DocSlot : i # o.slot => docs'[i] = docs[i]
        /\ docs'[o.slot].active /\ docs'[o.slot].file = f
        /\ docs'[o.slot].head = o.doc.head
    BY <1>0, <2>3 DEF TypeOK, Doc
  <2>5. heap' = o.heap /\ FilesKept
    BY <1>5, <2>2 DEF Grant, CGrant, FilesKept
  <2> QED
    BY <1>3, <2>2, <2>4, <2>5
<1>6. ASSUME NEW s \in Sock, EndSession(s, docs[sessions[s].doc].head, heap),
             sessions[s].active, Write(<<>>, <<>>), FilesKept
      PROVE  Good
  <2>1. HasSession(conn[s])
    BY <1>6 DEF IInv, SessionNeedsConnection, HasSession
  <2>2. EndStep(s, docs[sessions[s].doc].head, heap)
    BY <1>6, <2>1, PlainEnds
  <2> QED
    BY <1>6, <2>2, LeaveEffect
<1>7. ASSUME NEW s \in Sock, CEtirw(s)
      PROVE  Good
  <2>1. CASE EtirwNotFound(s) /\ UNCHANGED cvars
    BY <1>1, <2>1 DEF EtirwNotFound, cvars, FilesKept
  <2>2. CASE CApplyFails(s)
    BY <1>6, <2>2 DEF CApplyFails, EtirwApplyFails, FilesKept
  <2>3. ASSUME NEW n \in DOMAIN docs[sessions[s].doc].head, NEW list,
               sessions[s].active, EditsApply(text[sessions[s].ptr].words, Queued(s)),
               list = ApplyEdits(text[sessions[s].ptr], Queued(s)),
               CommitRejected(s, n, list) \/ CommitSaved(s, n, list)
        PROVE  Good
    <3>1. Applied(s, n, list)
      BY <2>3 DEF CommitRejected, CommitSaved
    <3>2. docs[sessions[s].doc].head[n] = sessions[s].ptr
      BY <3>1 DEF Applied, EtirwSplice
    <3>3. Targets(s, n, list)
      BY <2>3, <3>2 DEF Targets
    <3>4. list \in Seq(Sentence)
      BY <3>3, TargetFacts
    <3>5. text' \in [Addr -> Sentence]
      BY <3>1, <3>4, CommitEffect
    <3> QED
      BY <2>3, <3>3, <3>5
  <2>4. ASSUME NEW n \in DOMAIN docs[sessions[s].doc].head, NEW list,
               sessions[s].active, EditsApply(text[sessions[s].ptr].words, Queued(s)),
               list = ApplyEdits(text[sessions[s].ptr], Queued(s)),
               DiesInSave(s, n, list)
        PROVE  Good
    <3>1. Targets(s, n, list)
      BY <2>4 DEF Targets, DiesInSave
    <3>2. AllEmptied /\ text' \in [Addr -> Sentence]
      BY <1>2, <2>4 DEF DiesInSave
    <3> QED
      BY <2>4, <3>1, <3>2
  <2> QED
    BY <1>7, <2>1, <2>2, <2>3, <2>4 DEF CEtirw
<1>8. ASSUME NEW s \in Sock, CDisconnect(s)
      PROVE  Good
  <2>1. CASE sessions[s].active
    BY <1>6, <1>8, <2>1 DEF CDisconnect, Disconnect, FilesKept
  <2>2. CASE ~sessions[s].active
    <3>1. UNCHANGED <<docs, heap>> /\ Write(<<>>, <<>>) /\ FilesKept
      BY <1>8, <2>2 DEF CDisconnect, Disconnect, FilesKept
    <3>2. <<>> \in Seq(Addr) /\ <<>> \in Seq(Sentence) /\ Distinct(<<>>) /\ Nodes(<<>>) = {}
      BY DEF Distinct, Nodes
    <3>3. /\ text' \in [Addr -> Sentence]
          /\ \A a \in Addr : heap'[a] # 0 => text'[a] = text[a]
      BY <1>0, <3>1, <3>2, WriteFacts
    <3>4. ASSUME NEW i \in DocSlot PROVE Same(i)
      <4>1. Mem(i)' = Mem(i)
        BY <3>1, <3>3, NodesKept
      <4> QED
        BY <3>1, <4>1 DEF Same
    <3> QED
      BY <3>1, <3>3, <3>4
  <2> QED
    BY <2>1, <2>2
<1>9. ASSUME CRestart PROVE Good
  BY <1>2, <1>9 DEF CRestart, AllEmptied, FilesKept
<1>10. ASSUME NEW s \in Sock, NEW f \in File, CInvalidSentence(s, f) \/ CLockConflict(s, f)
       PROVE  Good
  BY <1>4, <1>10 DEF CInvalidSentence, CLockConflict, FilesKept
<1>11. ASSUME NEW s \in Sock, NEW f \in File, CLoadFails(s, f)
       PROVE  Good
  BY <1>1, <1>11 DEF CLoadFails, LoadFails, cvars, FilesKept
<1>12. ASSUME NEW s \in Sock, NEW at, NEW content, WriteUpdate(s, at, content)
       PROVE  Good
  BY <1>1, <1>12 DEF WriteUpdate, vars, FilesKept
<1>13. ASSUME NEW s \in Sock, Connect(s) \/ SendWrite(s) \/ SendEtirw(s) \/ Hangup(s),
              UNCHANGED cvars
       PROVE  Good
  BY <1>1, <1>13 DEF Connect, SendWrite, SendEtirw, Hangup, cvars, FilesKept
<1> HIDE DEF Good
<1>14. ASSUME NEW s \in Sock,
             \/ (Connect(s) \/ SendWrite(s) \/ SendEtirw(s) \/ Hangup(s)) /\ UNCHANGED cvars
             \/ \E f \in File : CLoadFails(s, f) \/ CInvalidSentence(s, f)
                                  \/ CLockConflict(s, f) \/ CGrant(s, f)
             \/ \E at \in 0..MaxAt, content \in Inputs : WriteUpdate(s, at, content)
             \/ CEtirw(s)
             \/ CDisconnect(s)
       PROVE  Good
  <2>1. CASE \E f \in File : CLoadFails(s, f) \/ CInvalidSentence(s, f)
                               \/ CLockConflict(s, f) \/ CGrant(s, f)
    BY <1>5, <1>10, <1>11, <2>1
  <2>2. CASE \E at \in 0..MaxAt, content \in Inputs : WriteUpdate(s, at, content)
    BY <1>12, <2>2
  <2> QED
    BY <1>7, <1>8, <1>13, <1>14, <2>1, <2>2
<1>15. Good
  BY <1>9, <1>14 DEF CNext
<1> QED
  BY <1>15 DEF Good

(* What a step does to the edits queued and to the inputs typed. *)
LEMMA WorkKinds ==
  ASSUME TypeOK, CNext
  PROVE  \/ UNCHANGED <<work, typed>>
         \/ (\E s \in Sock : work' = [work EXCEPT ![s] = NoWork]) /\ UNCHANGED typed
         \/ work' = [s \in Sock |-> NoWork] /\ UNCHANGED typed
         \/ /\ \E s \in Sock, a \in Addr :
                 work' = [work EXCEPT ![s] = [NoWork EXCEPT !.orig = Len(text'[a].words)]]
            /\ UNCHANGED typed
         \/ \E s \in Sock : \E at \in 0..MaxAt, content \in Inputs : WriteUpdate(s, at, content)
<1> DEFINE Good ==
             \/ UNCHANGED <<work, typed>>
             \/ (\E s \in Sock : work' = [work EXCEPT ![s] = NoWork]) /\ UNCHANGED typed
             \/ work' = [s \in Sock |-> NoWork] /\ UNCHANGED typed
             \/ /\ \E s \in Sock, a \in Addr :
                     work' = [work EXCEPT ![s] = [NoWork EXCEPT !.orig = Len(text'[a].words)]]
                /\ UNCHANGED typed
             \/ \E s \in Sock : \E at \in 0..MaxAt, content \in Inputs : WriteUpdate(s, at, content)
<1>1. ASSUME NEW s \in Sock, NEW f \in File, CGrant(s, f)
      PROVE  Good
  <2>1. PICK o \in FindOrLoad(f) : \E n \in DOMAIN o.doc.head :
          work' = [work EXCEPT ![s] = [NoWork EXCEPT !.orig = Len(text'[o.doc.head[n]].words)]]
    BY <1>1 DEF CGrant
  <2>2. PICK n \in DOMAIN o.doc.head :
          work' = [work EXCEPT ![s] = [NoWork EXCEPT !.orig = Len(text'[o.doc.head[n]].words)]]
    BY <2>1
  <2>3. o.doc \in Doc
    BY FindOrLoadFacts
  <2>4. o.doc.head[n] \in Addr
    BY <2>3 DEF Doc
  <2>5. UNCHANGED typed
    BY <1>1 DEF CGrant
  <2> QED
    BY <2>2, <2>4, <2>5
<1>2. ASSUME NEW s \in Sock, CEtirw(s)
      PROVE  Good
  <2>1. /\ UNCHANGED typed
        /\ \/ UNCHANGED work
           \/ work' = [work EXCEPT ![s] = NoWork]
           \/ work' = [t \in Sock |-> NoWork]
    BY <1>2 DEF CEtirw, cvars, CApplyFails, CommitRejected, CommitSaved, Applied, DiesInSave
  <2> QED
    BY <2>1
<1>3. ASSUME NEW s \in Sock, CDisconnect(s)
      PROVE  Good
  BY <1>3 DEF CDisconnect
<1>4. ASSUME CRestart PROVE Good
  BY <1>4 DEF CRestart
<1>5. ASSUME NEW s \in Sock, NEW f \in File,
             CLoadFails(s, f) \/ CInvalidSentence(s, f) \/ CLockConflict(s, f)
      PROVE  Good
  BY <1>5 DEF CLoadFails, CInvalidSentence, CLockConflict, cvars
<1>6. ASSUME UNCHANGED cvars PROVE Good
  BY <1>6 DEF cvars
<1>7. ASSUME NEW s \in Sock,
             \E at \in 0..MaxAt, content \in Inputs : WriteUpdate(s, at, content)
      PROVE  Good
  BY <1>7
<1> HIDE DEF Good
<1>8. ASSUME NEW s \in Sock,
             \/ (Connect(s) \/ SendWrite(s) \/ SendEtirw(s) \/ Hangup(s)) /\ UNCHANGED cvars
             \/ \E f \in File : CLoadFails(s, f) \/ CInvalidSentence(s, f)
                                  \/ CLockConflict(s, f) \/ CGrant(s, f)
             \/ \E at \in 0..MaxAt, content \in Inputs : WriteUpdate(s, at, content)
             \/ CEtirw(s)
             \/ CDisconnect(s)
      PROVE  Good
  BY <1>1, <1>2, <1>3, <1>5, <1>6, <1>7, <1>8
<1>9. Good
  BY <1>4, <1>8 DEF CNext
<1> QED
  BY <1>9 DEF Good

LEMMA WorkType ==
  ASSUME IInv, CTypes, text' \in [Addr -> Sentence], CNext
  PROVE  work' \in [Sock -> Work] /\ typed' \subseteq Inputs
<1>0. work \in [Sock -> Work] /\ typed \subseteq Inputs
  BY DEF CTypes
<1>1. NoWork \in Work
  <2>1. <<>> \in Seq([at : Int, content : Seq(Token)])
    OBVIOUS
  <2> QED
    BY <2>1 DEF NoWork, Work
<1>2. ASSUME NEW a \in Addr PROVE [NoWork EXCEPT !.orig = Len(text'[a].words)] \in Work
  <2>1. text'[a].words \in Seq(Word)
    BY DEF Sentence
  <2>2. Len(text'[a].words) \in Nat
    BY <2>1
  <2> QED
    BY <1>1, <2>2 DEF NoWork, Work
<1>3. ASSUME NEW s \in Sock, NEW at \in 0..MaxAt, NEW content \in Inputs,
             WriteUpdate(s, at, content)
      PROVE  work' \in [Sock -> Work] /\ typed' \subseteq Inputs
  <2>1. content \in Seq(Token)
    BY ContentAssumption
  <2>2. CountWords(content) \in Nat
    BY <2>1, CountFacts
  <2>3. [at |-> at, content |-> content] \in [at : Int, content : Seq(Token)]
    BY <2>1, ContentAssumption
  <2>4. work[s] \in Work
    BY <1>0
  <2>5. Append(work[s].edits, [at |-> at, content |-> content])
          \in Seq([at : Int, content : Seq(Token)])
    <3>1. work[s].edits \in Seq([at : Int, content : Seq(Token)])
      BY <2>4 DEF Work
    <3> QED
      BY <2>3, <3>1
  <2>6. work[s].virtual + CountWords(content) \in Nat /\ work[s].orig \in Nat
    BY <2>2, <2>4 DEF Work
  <2>7. [work[s] EXCEPT !.edits = Append(@, [at |-> at, content |-> content]),
                        !.virtual = @ + CountWords(content)] \in Work
    BY <2>4, <2>5, <2>6 DEF Work
  <2>8. work' = [work EXCEPT ![s] =
                   [work[s] EXCEPT !.edits = Append(@, [at |-> at, content |-> content]),
                                   !.virtual = @ + CountWords(content)]]
    BY <1>0, <1>3 DEF WriteUpdate
  <2>9. typed' \subseteq Inputs
    BY <1>0, <1>3 DEF WriteUpdate
  <2> QED
    BY <1>0, <2>7, <2>8, <2>9
<1>4. ASSUME NEW s \in Sock, NEW r \in Work, work' = [work EXCEPT ![s] = r]
      PROVE  work' \in [Sock -> Work]
  BY <1>0, <1>4
<1>5. CASE UNCHANGED <<work, typed>>
  BY <1>0, <1>5
<1>6. CASE (\E s \in Sock : work' = [work EXCEPT ![s] = NoWork]) /\ UNCHANGED typed
  BY <1>0, <1>1, <1>4, <1>6
<1>7. CASE work' = [s \in Sock |-> NoWork] /\ UNCHANGED typed
  BY <1>0, <1>1, <1>7
<1>8. CASE /\ \E s \in Sock, a \in Addr :
                work' = [work EXCEPT ![s] = [NoWork EXCEPT !.orig = Len(text'[a].words)]]
           /\ UNCHANGED typed
  BY <1>0, <1>2, <1>4, <1>8
<1> QED
  BY <1>3, <1>5, <1>6, <1>7, <1>8, WorkKinds DEF IInv

(* Every variable keeps its type. *)
LEMMA ContentTypeStep ==
  ASSUME IInv, IInv', CTypes, CNext
  PROVE  CTypes'
<1> DEFINE File2 == {Missing} \cup Seq(Text)
<1>0. /\ text' \in [Addr -> Sentence]
      /\ disk \in [File -> File2] /\ bak \in [File -> File2]
      /\ committed \in [File -> SUBSET Word]
  BY ContentKinds DEF CTypes
<1>1. work' \in [Sock -> Work] /\ typed' \subseteq Inputs
  BY <1>0, WorkType
<1>2. CASE FilesKept
  BY <1>0, <1>1, <1>2 DEF FilesKept, CTypes
<1>3. ASSUME NEW s \in Sock, NEW n, NEW list, Targets(s, n, list),
             \/ CommitRejected(s, n, list)
             \/ CommitSaved(s, n, list)
             \/ DiesInSave(s, n, list)
      PROVE  CTypes'
  <2> DEFINE f == docs[sessions[s].doc].file
             file == Flush(Merged(s, n, list))
  <2>1. f \in File /\ file \in Seq(Text)
    BY <1>3, TargetFacts
  <2>2. CASE CommitRejected(s, n, list)
    BY <1>2, <2>2 DEF CommitRejected, FilesKept
  <2>3. CASE CommitSaved(s, n, list)
    <3>1. /\ bak' = [bak EXCEPT ![f] = disk[f]]
          /\ disk' = [disk EXCEPT ![f] = file]
          /\ committed' = [committed EXCEPT ![f] = @ \cup SessionWords(s)]
      BY <2>3 DEF CommitSaved
    <3>2. SessionWords(s) \subseteq Word
      BY DEF SessionWords
    <3> HIDE DEF f, file
    <3>3. disk' \in [File -> File2] /\ bak' \in [File -> File2]
      BY <1>0, <2>1, <3>1
    <3>4. committed' \in [File -> SUBSET Word]
      BY <1>0, <2>1, <3>1, <3>2
    <3> QED
      BY <1>0, <1>1, <3>3, <3>4 DEF CTypes
  <2>4. CASE DiesInSave(s, n, list)
    <3>1. /\ bak' = [bak EXCEPT ![f] = disk[f]] /\ committed' = committed
          /\ \E part \in {Missing} \cup {SubSeq(file, 1, k) : k \in 0..Len(file)} :
               disk' = [disk EXCEPT ![f] = part]
      BY <2>4 DEF DiesInSave
    <3>2. PICK part \in {Missing} \cup {SubSeq(file, 1, k) : k \in 0..Len(file)} :
            disk' = [disk EXCEPT ![f] = part]
      BY <3>1
    <3> HIDE DEF f, file
    <3>3. ASSUME NEW k \in 0..Len(file) PROVE SubSeq(file, 1, k) \in Seq(Text)
      BY <2>1, CutFacts
    <3>4. part \in File2
      BY <3>2, <3>3
    <3>5. disk' \in [File -> File2] /\ bak' \in [File -> File2]
      BY <1>0, <2>1, <3>1, <3>2, <3>4
    <3> QED
      BY <1>0, <1>1, <3>1, <3>5 DEF CTypes
  <2> QED
    BY <1>3, <2>2, <2>3, <2>4
<1> QED
  BY <1>2, <1>3, ContentKinds

\* In every document only the last sentence is open.
Sentences == \A i \in DocSlot : OpenLast(Mem(i))

LEMMA SentencesStep ==
  ASSUME IInv, IInv', CTypes, CNext, Sentences
  PROVE  Sentences'
<1>0. OpenLast(<<>>)
  BY DEF OpenLast
<1>1. ASSUME NEW i \in DocSlot, Same(i) \/ Emptied(i)
      PROVE  OpenLast(Mem(i)')
  <2>1. OpenLast(Mem(i)) /\ Mem(i)' \in {Mem(i), <<>>}
    BY <1>1 DEF Same, Emptied, Sentences
  <2> QED
    BY <1>0, <2>1
<1>2. ASSUME NEW d, NEW f \in File, NewIn(d, f)
      PROVE  \A i \in DocSlot : OpenLast(Mem(i)')
  <2>1. disk[f] \in Seq(Text) /\ Mem(d)' = Parse(disk[f])
    BY <1>2 DEF NewIn
  <2>2. OpenLast(Mem(d)')
    BY <2>1, ParseFacts
  <2> QED
    BY <1>1, <1>2, <2>2 DEF NewIn
<1>3. ASSUME NEW s \in Sock, NEW n, NEW list, Targets(s, n, list),
             \/ CommitRejected(s, n, list)
             \/ CommitSaved(s, n, list)
             \/ DiesInSave(s, n, list) /\ AllEmptied
      PROVE  \A i \in DocSlot : OpenLast(Mem(i)')
  <2>1. CASE DiesInSave(s, n, list) /\ AllEmptied
    BY <1>1, <2>1 DEF AllEmptied
  <2>2. CASE CommitRejected(s, n, list) \/ CommitSaved(s, n, list)
    <3>1. Applied(s, n, list)
      BY <2>2 DEF CommitRejected, CommitSaved
    <3>2. PICK d : d = sessions[s].doc
      OBVIOUS
    <3>3. PICK p : p = sessions[s].ptr
      OBVIOUS
    <3>4. /\ d \in DocSlot /\ Mem(d) \in Seq(Sentence) /\ n \in DOMAIN Mem(d)
          /\ Mem(d)[n] = text[p] /\ list \in Seq(Sentence) /\ EndsIn(list, text[p].delim)
      BY <1>3, <3>2, <3>3, TargetFacts
    <3>5. n \in DOMAIN docs[sessions[s].doc].head
      BY <1>3 DEF Targets
    <3>6. /\ \A i \in DocSlot \ {d} : Same(i)
          /\ Emptied(d) \/ Mem(d)' = Merged(s, n, list)
      BY <3>1, <3>2, <3>4, <3>5, CommitEffect
    <3>7. OpenLast(Mem(d))
      BY <3>4 DEF Sentences
    <3>8. EndsIn(list, Mem(d)[n].delim)
      BY <3>4
    <3> DEFINE mem == Mem(d)
    <3>9. mem \in Seq(Sentence) /\ n \in DOMAIN mem /\ OpenLast(mem) /\ EndsIn(list, mem[n].delim)
      BY <3>4, <3>7, <3>8
    <3> HIDE DEF mem
    <3>10. OpenLast(Spliced(mem, n, list))
      BY <3>4, <3>9, SpliceOpen
    <3>11. Merged(s, n, list) = Spliced(mem, n, list)
      BY <3>2 DEF Merged, mem
    <3>12. ASSUME NEW i \in DocSlot PROVE OpenLast(Mem(i)')
      BY <1>1, <3>6, <3>10, <3>11
    <3> QED
      BY <3>12
  <2> QED
    BY <1>3, <2>1, <2>2
<1>4. \A i \in DocSlot : OpenLast(Mem(i)')
  BY <1>1, <1>2, <1>3, ContentKinds
<1> QED
  BY <1>4 DEF Sentences

-----------------------------------------------------------------------------
(* Sentences stay apart, for whatever users type and files hold. *)

CInv == IInv /\ CTypes /\ Sentences

LEMMA InitCInv == CInit => IInv /\ CTypes /\ Sentences
<1> SUFFICES ASSUME CInit PROVE IInv /\ CTypes /\ Sentences
  OBVIOUS
<1>1. IInv
  BY InitIInv DEF CInit
<1>2. NoWork \in Work
  <2>1. <<>> \in Seq([at : Int, content : Seq(Token)])
    OBVIOUS
  <2> QED
    BY <2>1 DEF NoWork, Work
<1>3. Files \subseteq Seq(Text)
  BY ContentAssumption DEF Text
<1>4. disk \in [File -> {Missing} \cup Seq(Text)]
  BY <1>3 DEF CInit
<1>5. \A file : WordsIn(file) \subseteq Word
  BY DEF WordsIn
<1>6. committed \in [File -> SUBSET Word]
  BY <1>5 DEF CInit
<1>7. CTypes
  BY <1>2, <1>4, <1>6, BlankType DEF CInit, CTypes
<1>8. Sentences
  <2>1. ASSUME NEW i \in DocSlot PROVE Mem(i) = <<>>
    <3>1. docs[i].head = <<>>
      BY DEF CInit, Init, NoDoc
    <3> QED
      BY <3>1 DEF Mem
  <2> QED
    BY <2>1 DEF Sentences, OpenLast
<1> QED
  BY <1>1, <1>7, <1>8

LEMMA NextCInv == IInv /\ IInv' /\ CTypes /\ Sentences /\ [CNext]_allVars => CTypes' /\ Sentences'
<1> SUFFICES ASSUME IInv, IInv', CTypes, Sentences, [CNext]_allVars
             PROVE  CTypes' /\ Sentences'
  OBVIOUS
<1>1. CASE CNext
  BY <1>1, ContentTypeStep, SentencesStep
<1>2. CASE UNCHANGED allVars
  <2>1. UNCHANGED <<docs, text, work, disk, bak, typed, committed>>
    BY <1>2 DEF allVars, vars, cvars
  <2>2. CTypes'
    BY <2>1 DEF CTypes
  <2>3. Sentences'
    BY <2>1 DEF Sentences, Mem
  <2> QED
    BY <2>2, <2>3
<1> QED
  BY <1>1, <1>2

(* The inductive invariant: the tables and the contents have their types,  *)
(* and of each list in memory only the last sentence may lack a delimiter. *)
THEOREM ContentInvariant == CSpec => []CInv
<1>1. CSpec => []IInv
  BY ContentRefines, InductiveInvariant
<1>2. CInit => CTypes /\ Sentences
  BY InitCInv
<1> QED
  BY <1>1, <1>2, NextCInv, PTL DEF CSpec, CInv

(* The server's tables, the text of the sentences, the queued edits, the   *)
(* files and what is known of them have their types in every state.        *)
THEOREM ContentTyped == CSpec => []ContentTypeOK
<1>1. CInv => ContentTypeOK
  <2> SUFFICES ASSUME CInv PROVE ContentTypeOK
    OBVIOUS
  <2>1. TypeOK /\ CTypes
    BY DEF CInv, IInv
  <2> QED
    BY <2>1 DEF CTypes, ContentTypeOK, Text
<1> QED
  BY <1>1, ContentInvariant, PTL

(* Whatever users type and files hold, however sessions interleave and     *)
(* end: no sentence in the middle of a document lacks its delimiter.       *)
THEOREM OpenIsLast == CSpec => []OpenSentenceIsLast
<1>1. CInv => OpenSentenceIsLast
  <2> SUFFICES ASSUME CInv, NEW i \in DocSlot, NEW k \in DOMAIN docs[i].head,
                      Mem(i)[k].delim = Open
               PROVE  k = Len(docs[i].head)
    BY DEF OpenSentenceIsLast
  <2>1. DOMAIN Mem(i) = DOMAIN docs[i].head /\ Len(Mem(i)) = Len(docs[i].head)
    BY MemType DEF CInv, IInv, CTypes
  <2>2. OpenLast(Mem(i))
    BY DEF CInv, Sentences
  <2> QED
    BY <2>1, <2>2 DEF OpenLast
<1> QED
  BY <1>1, ContentInvariant, PTL

(* What memory would write reads back as the same sentences, so an index   *)
(* that a user saw before the document left memory means the same after:   *)
(* reading undoes writing on every list with no open sentence inside.      *)
THEOREM ReloadKeeps == CSpec => []ReloadKeepsSentences
<1>1. CInv => ReloadKeepsSentences
  <2> SUFFICES ASSUME CInv, NEW i \in DocSlot
               PROVE  Parse(Flush(Mem(i))) \in {Mem(i), Append(Mem(i), Blank)}
    BY DEF ReloadKeepsSentences
  <2> DEFINE mem == Mem(i)
  <2>1. mem \in Seq(Sentence)
    BY MemType DEF CInv, IInv, CTypes
  <2>2. OpenLast(mem)
    BY DEF CInv, Sentences
  <2> HIDE DEF mem
  <2>3. Parse(Flush(mem)) \in {mem, Append(mem, Blank)}
    BY <2>1, <2>2, ReloadFacts
  <2> QED
    BY <2>3 DEF mem
<1> QED
  BY <1>1, ContentInvariant, PTL

-----------------------------------------------------------------------------
(* What was accepted update by update is accepted as a whole. *)

LEMMA ContentsAppend ==
  ASSUME NEW edits \in Seq(Edit), NEW e \in Edit
  PROVE  LET more == Append(edits, e)
         IN /\ more \in Seq(Edit) /\ Len(more) = Len(edits) + 1 /\ Len(edits) \in Nat
            /\ DOMAIN more = 1..(Len(edits) + 1)
            /\ \A k \in 1..Len(edits) : more[k] = edits[k]
            /\ more[Len(edits) + 1] = e
            /\ \A k \in 0..Len(edits) : Contents(more, k) = Contents(edits, k)
            /\ FlattenSeq(Contents(edits, Len(edits))) \in Seq(Token)
            /\ FlattenSeq(Contents(more, Len(more)))
                 = FlattenSeq(Contents(edits, Len(edits))) \o e.content
<1> DEFINE n    == Len(edits)
           more == Append(edits, e)
<1>1. /\ more \in Seq(Edit) /\ Len(more) = n + 1 /\ n \in Nat /\ DOMAIN more = 1..(n + 1)
      /\ \A k \in 1..n : more[k] = edits[k]
      /\ more[n + 1] = e
  OBVIOUS
<1> HIDE DEF n, more
<1>2. ASSUME NEW k \in 0..n PROVE Contents(more, k) = Contents(edits, k)
  <2>1. \A j \in 1..k : j \in 1..n
    BY <1>1
  <2>2. \A j \in 1..k : more[j].content = edits[j].content
    BY <1>1, <2>1
  <2> QED
    BY <2>2 DEF Contents
<1>3. n \in 0..(Len(more) - 1) /\ n \in 0..n
  BY <1>1
<1>4. /\ FlattenSeq(Contents(more, n)) \in Seq(Token)
      /\ FlattenSeq(Contents(more, n + 1)) = FlattenSeq(Contents(more, n)) \o more[n + 1].content
  BY <1>1, <1>3, ContentsFacts
<1>5. Contents(more, n) = Contents(edits, n)
  BY <1>2, <1>3
<1> QED
  BY <1>1, <1>2, <1>4, <1>5 DEF n, more

\* All that the first k edits bring.
Brought(edits, k) == Len(FlattenSeq(Contents(edits, k)))

\* Every edit's index lies in what its session has seen grow.
Fits(w) ==
  /\ \A k \in DOMAIN w.edits : w.edits[k].at \in 0..(w.orig + Brought(w.edits, k - 1))
  /\ w.virtual =< Brought(w.edits, Len(w.edits))

EditsFit == \A s \in Sock : Fits(work[s])

LEMMA NoneBrought == Brought(<<>>, 0) = 0 /\ Brought(<<>>, Len(<<>>)) = 0
<1>1. Contents(<<>>, 0) = <<>> /\ Len(<<>>) = 0
  BY DEF Contents
<1> QED
  BY <1>1, FlattenEmpty DEF Brought

LEMMA MoreBrought ==
  ASSUME NEW edits \in Seq(Edit), NEW e \in Edit
  PROVE  LET more == Append(edits, e)
         IN /\ Brought(edits, Len(edits)) \in Nat
            /\ \A k \in 0..Len(edits) : Brought(more, k) = Brought(edits, k)
            /\ Brought(more, Len(more)) = Brought(edits, Len(edits)) + Len(e.content)
<1> DEFINE u == FlattenSeq(Contents(edits, Len(edits)))
<1>1. e.content \in Seq(Token)
  BY DEF Edit
<1>2. /\ \A k \in 0..Len(edits) : Contents(Append(edits, e), k) = Contents(edits, k)
      /\ u \in Seq(Token)
      /\ FlattenSeq(Contents(Append(edits, e), Len(Append(edits, e)))) = u \o e.content
  BY ContentsAppend
<1> HIDE DEF u
<1>3. Len(u \o e.content) = Len(u) + Len(e.content) /\ Len(u) \in Nat
  BY <1>1, <1>2, ConcatAt
<1> QED
  BY <1>2, <1>3 DEF Brought, u

(* One more edit, within what the session counts, still fits. *)
LEMMA FitsAppend ==
  ASSUME NEW w \in Work, Fits(w), NEW at \in Nat, NEW content \in Seq(Token),
         at =< w.orig + w.virtual, NEW v, v = w.virtual + CountWords(content)
  PROVE  Fits([orig |-> w.orig, edits |-> Append(w.edits, [at |-> at, content |-> content]),
               virtual |-> v])
<1> DEFINE e    == [at |-> at, content |-> content]
           more == Append(w.edits, e)
           n    == Len(w.edits)
           b    == Brought(w.edits, n)
<1>1. /\ w.edits \in Seq(Edit) /\ w.orig \in Nat /\ w.virtual \in Nat /\ e \in Edit
      /\ e.at = at /\ e.content = content
  BY DEF Work, Edit
<1>2. /\ Len(more) = n + 1 /\ n \in Nat /\ DOMAIN more = 1..(n + 1)
      /\ \A k \in 1..n : more[k] = w.edits[k]
      /\ more[n + 1] = e
  BY <1>1, ContentsAppend
<1>3. /\ b \in Nat
      /\ \A k \in 0..n : Brought(more, k) = Brought(w.edits, k)
      /\ Brought(more, n + 1) = b + Len(content)
  <2>1. /\ b \in Nat
        /\ \A k \in 0..n : Brought(more, k) = Brought(w.edits, k)
        /\ Brought(more, Len(more)) = b + Len(e.content)
    BY <1>1, MoreBrought
  <2> QED
    BY <1>1, <1>2, <2>1
<1>4. DOMAIN w.edits = 1..n
  BY <1>1
<1>5. CountWords(content) \in 0..Len(content) /\ Len(content) \in Nat
  BY CountFacts
<1>6. w.virtual =< b /\ \A k \in 1..n : w.edits[k].at \in 0..(w.orig + Brought(w.edits, k - 1))
  BY <1>4 DEF Fits
<1> HIDE DEF e, more, n, b
<1>7. ASSUME NEW k \in 1..(n + 1)
      PROVE  more[k].at \in 0..(w.orig + Brought(more, k - 1))
  <2>1. CASE k \in 1..n
    <3>1. more[k] = w.edits[k] /\ k - 1 \in 0..n
      BY <1>2, <2>1
    <3>2. Brought(more, k - 1) = Brought(w.edits, k - 1)
      BY <1>3, <3>1
    <3> QED
      BY <1>6, <2>1, <3>1, <3>2
  <2>2. CASE k = n + 1
    <3>1. more[k].at = at /\ k - 1 = n /\ n \in 0..n
      BY <1>1, <1>2, <2>2
    <3>2. Brought(more, k - 1) = b
      BY <1>3, <3>1 DEF b
    <3>3. at \in 0..(w.orig + b)
      BY <1>1, <1>3, <1>6
    <3> QED
      BY <3>1, <3>2, <3>3
  <2> QED
    BY <1>2, <2>1, <2>2
<1>8. v =< Brought(more, Len(more))
  BY <1>1, <1>2, <1>3, <1>5, <1>6, SMTT(20)
<1> QED
  BY <1>2, <1>7, <1>8 DEF Fits, more, e

LEMMA FitsNothing == \A n \in Nat : Fits([orig |-> n, edits |-> <<>>, virtual |-> 0])
  BY NoneBrought DEF Fits

\* What an update makes of a session's work.
Recording(w, more, v) == [w EXCEPT !.edits = more, !.virtual = v]

LEMMA Recorded ==
  ASSUME NEW w \in Work, NEW more \in Seq(Edit), NEW v
  PROVE  Recording(w, more, v) = [orig |-> w.orig, edits |-> more, virtual |-> v]
<1> DEFINE x == [w EXCEPT !.edits = more]
<1>1. x = [orig |-> w.orig, edits |-> more, virtual |-> w.virtual] /\ x \in Work
  BY SMTT(20) DEF Work, Edit
<1> HIDE DEF x
<1>2. [x EXCEPT !.virtual = v] = [orig |-> w.orig, edits |-> more, virtual |-> v]
  BY <1>1, SMTT(20) DEF Work
<1> QED
  BY <1>2 DEF x, Recording

LEMMA EditsFitStep ==
  ASSUME LInv, CTypes, BaselineUnmoved, EditsFit, CNext, text' \in [Addr -> Sentence]
  PROVE  EditsFit'
<1>0. work \in [Sock -> Work] /\ TypeOK
  BY DEF CTypes, LInv, IInv
<1>1. ASSUME NEW s \in Sock, NEW r, Fits(r), work' = [work EXCEPT ![s] = r]
      PROVE  EditsFit'
  BY <1>0, <1>1 DEF EditsFit
<1>2. Fits(NoWork)
  BY FitsNothing DEF NoWork
<1>3. ASSUME NEW a \in Addr PROVE Fits([NoWork EXCEPT !.orig = Len(text'[a].words)])
  <2>1. text'[a].words \in Seq(Word)
    BY DEF Sentence
  <2>2. Len(text'[a].words) \in Nat
    BY <2>1
  <2>3. [NoWork EXCEPT !.orig = Len(text'[a].words)]
          = [orig |-> Len(text'[a].words), edits |-> <<>>, virtual |-> 0]
    BY DEF NoWork
  <2> QED
    BY <2>2, <2>3, FitsNothing
<1>4. ASSUME NEW s \in Sock, NEW at \in 0..MaxAt, NEW content \in Inputs,
             WriteUpdate(s, at, content)
      PROVE  EditsFit'
  <2> DEFINE w == work[s]
             v == w.virtual + CountWords(content)
  <2>1. w \in Work /\ Fits(w) /\ content \in Seq(Token) /\ at \in Nat
    BY <1>0, ContentAssumption DEF EditsFit
  <2>2. sessions[s].active
    BY <1>4 DEF WriteUpdate, LInv, IInv, SessionNeedsConnection
  <2>3. heap[sessions[s].ptr] # 0
    BY <2>2 DEF LInv, IInv, SessionOnDoc, SessionOwnsNode, DocSlot
  <2>4. Len(text[sessions[s].ptr].words) = w.orig
    BY <2>2 DEF BaselineUnmoved
  <2>5. at =< w.orig + w.virtual
    BY <1>4, <2>3, <2>4 DEF WriteUpdate
  <2>6. work' = [work EXCEPT ![s] =
                   [orig |-> w.orig, edits |-> Append(w.edits, [at |-> at, content |-> content]),
                    virtual |-> v]]
    <3>1. work' = [work EXCEPT ![s] =
                     Recording(w, Append(w.edits, [at |-> at, content |-> content]), v)]
      BY <1>0, <1>4 DEF WriteUpdate, Recording
    <3>2. w.edits \in Seq(Edit) /\ [at |-> at, content |-> content] \in Edit
      BY <2>1 DEF Work, Edit
    <3>3. Append(w.edits, [at |-> at, content |-> content]) \in Seq(Edit)
      BY <3>2
    <3> QED
      BY <2>1, <3>1, <3>3, Recorded
  <2> HIDE DEF w, v
  <2>7. Fits([orig |-> w.orig, edits |-> Append(w.edits, [at |-> at, content |-> content]),
              virtual |-> v])
    BY <2>1, <2>5, FitsAppend DEF v
  <2> QED
    BY <1>1, <2>6, <2>7
<1>5. CASE UNCHANGED <<work, typed>>
  BY <1>5 DEF EditsFit
<1>6. CASE work' = [s \in Sock |-> NoWork] /\ UNCHANGED typed
  BY <1>2, <1>6 DEF EditsFit
<1> QED
  BY <1>0, <1>1, <1>2, <1>3, <1>4, <1>5, <1>6, WorkKinds

LEMMA FitsApply ==
  ASSUME LInv, CTypes, BaselineUnmoved, EditsFit
  PROVE  AcceptedEditsApply
<1> SUFFICES ASSUME NEW s \in Sock, sessions[s].active
             PROVE  EditsApply(text[sessions[s].ptr].words, Queued(s))
  BY DEF AcceptedEditsApply
<1> DEFINE words == text[sessions[s].ptr].words
           edits == work[s].edits
           q     == Queued(s)
           N     == Len(edits)
<1>1. sessions[s].ptr \in Addr
  BY DEF LInv, IInv, SessionOnDoc
<1>2. /\ edits \in Seq(Edit) /\ q \in Seq(Edit)
      /\ DOMAIN q = 1..N /\ DOMAIN edits = 1..N /\ N \in Nat
      /\ \A k \in 1..N :
           /\ q[k].content = edits[k].content
           /\ q[k].at = IF k = 1 THEN edits[k].at + (Len(words) - work[s].orig) ELSE edits[k].at
  BY <1>1, QueuedFacts
<1>3. Len(words) = work[s].orig /\ work[s].orig \in Nat
  BY DEF BaselineUnmoved, CTypes, Work
<1>4. \A k \in 1..N : edits[k].at \in 0..(work[s].orig + Brought(edits, k - 1))
  BY <1>2 DEF EditsFit, Fits
<1>5. \A k \in 1..N : edits[k].at \in Int
  <2> HIDE DEF edits, q, words, N
  <2>1. \A k \in 1..N : edits[k] \in Edit
    BY <1>2
  <2> QED
    BY <2>1 DEF Edit
<1> HIDE DEF words, edits, q
<1>6. ASSUME NEW k \in 1..N
      PROVE  q[k].at \in 0..(Len(words) + Len(FlattenSeq([j \in 1..(k - 1) |-> q[j].content])))
  <2>1. q[k].at = edits[k].at
    BY <1>2, <1>3, <1>5
  <2>2. \A j \in 1..(k - 1) : j \in 1..N
    BY <1>2
  <2>3. [j \in 1..(k - 1) |-> q[j].content] = Contents(edits, k - 1)
    BY <1>2, <2>2 DEF Contents
  <2> QED
    BY <1>3, <1>4, <2>1, <2>3 DEF Brought
<1> QED
  BY <1>2, <1>6 DEF EditsApply, words, q

(* With a lock slot for every writer, ETIRW never finds an edit out of     *)
(* range: the server counts words and the commit counts tokens, and other  *)
(* sessions commit in between, but an index that was answered RES_OK lies  *)
(* in the sentence when its turn comes.                                    *)
THEOREM AcceptedApply == EnoughLocks => (CSpec => []AcceptedEditsApply)
<1> SUFFICES ASSUME EnoughLocks PROVE CSpec => []AcceptedEditsApply
  OBVIOUS
<1>1. CSpec => []LInv
  BY ContentRefines, LockInvariant
<1>2. CSpec => []BaselineUnmoved
  BY Baseline
<1>3. CSpec => []CInv
  BY ContentInvariant
<1>4. CInit => EditsFit
  <2>1. Fits(NoWork)
    BY FitsNothing DEF NoWork
  <2> QED
    BY <2>1 DEF CInit, EditsFit
<1>5. LInv /\ BaselineUnmoved /\ CInv /\ CInv' /\ EditsFit /\ [CNext]_allVars => EditsFit'
  <2> SUFFICES ASSUME LInv, BaselineUnmoved, CInv, CInv', EditsFit, [CNext]_allVars
               PROVE  EditsFit'
    OBVIOUS
  <2>1. CTypes /\ text' \in [Addr -> Sentence]
    BY DEF CInv, CTypes
  <2>2. CASE CNext
    BY <2>1, <2>2, EditsFitStep
  <2>3. CASE UNCHANGED allVars
    BY <2>3 DEF allVars, cvars, EditsFit
  <2> QED
    BY <2>2, <2>3
<1>6. LInv /\ BaselineUnmoved /\ CInv /\ EditsFit => AcceptedEditsApply
  BY FitsApply DEF CInv
<1> QED
  BY <1>1, <1>2, <1>3, <1>4, <1>5, <1>6, PTL DEF CSpec

-----------------------------------------------------------------------------
(* Memory, disk and commits, as long as users type words and words that    *)
(* end a sentence.  A mark on its own makes a sentence without words that  *)
(* loses what follows it, so a commit is refused after it changed memory.  *)

PlainTyping == \A content \in Inputs : AllPlain(content)
PlainFiles  == \A file \in Files : PlainText(file)

TidyMemory == \A i \in DocSlot : BlankLast(Mem(i))
TidyDisk   == \A f \in File : disk[f] # Missing => PlainText(disk[f])

\* The words announced are those of the edits.
PlainWork(w) ==
  /\ \A k \in 1..Len(w.edits) : AllPlain(w.edits[k].content)
  /\ w.virtual = Brought(w.edits, Len(w.edits))
PlainWorks == \A s \in Sock : PlainWork(work[s])

PInv == TidyMemory /\ TidyDisk /\ PlainWorks /\ MemoryIsDisk

\* A file has the words of its accepted commits and no others.
DiskIsCommitted == \A f \in File : disk[f] # Missing /\ WordsIn(disk[f]) = committed[f]

LEMMA BroughtType ==
  ASSUME NEW edits \in Seq(Edit)
  PROVE  Brought(edits, Len(edits)) \in Nat
<1>1. <<>> \in Seq(Token)
  OBVIOUS
<1>2. [at |-> 0, content |-> <<>>] \in Edit
  BY <1>1 DEF Edit
<1> QED
  BY <1>2, MoreBrought

(* What the commit counts is what the updates announced, and the list it   *)
(* writes has the words that were there and those of the session.          *)
LEMMA PlainCommit ==
  ASSUME IInv, CTypes, TidyMemory, PlainWorks,
         NEW s \in Sock, NEW n, NEW list, Targets(s, n, list),
         NEW d, d = sessions[s].doc
  PROVE  /\ Added(s, n, list) = work[s].virtual
         /\ BlankLast(Merged(s, n, list))
         /\ PlainText(Flush(Merged(s, n, list)))
         /\ WordsIn(Flush(Merged(s, n, list))) = WordsIn(Flush(Mem(d))) \cup SessionWords(s)
         /\ list = <<>> => n = Len(Mem(d))
<1>1. PICK p : p = sessions[s].ptr
  OBVIOUS
<1>2. /\ d \in DocSlot /\ p \in Addr /\ text[p] \in Sentence
      /\ Mem(d) \in Seq(Sentence) /\ n \in DOMAIN Mem(d) /\ Mem(d)[n] = text[p]
      /\ Queued(s) \in Seq(Edit) /\ list \in Seq(Sentence)
      /\ Merged(s, n, list) \in Seq(Sentence)
  BY <1>1, TargetFacts
<1> DEFINE edits == work[s].edits
           N     == Len(edits)
           q     == Queued(s)
           t     == text[p]
           mem   == Mem(d)
           m     == Spliced(mem, n, list)
           W     == SessionWords(s)
<1>3. /\ edits \in Seq(Edit) /\ Len(q) = N /\ DOMAIN q = 1..N /\ DOMAIN edits = 1..N
      /\ \A k \in 1..N : q[k].content = edits[k].content
  BY <1>1, <1>2, QueuedFacts
<1>4. /\ \A k \in 1..N : AllPlain(edits[k].content)
      /\ work[s].virtual = Brought(edits, N)
  BY DEF PlainWorks, PlainWork
<1>5. EditsApply(t.words, q) /\ list = ApplyEdits(t, q)
  BY <1>1 DEF Targets
<1>6. Merged(s, n, list) = m
  BY DEF Merged
<1>7. BlankLast(mem)
  BY <1>2 DEF TidyMemory
<1>8. W = {w \in Word : \E k \in DOMAIN edits :
             \E j \in DOMAIN edits[k].content : edits[k].content[j].word = w}
  BY DEF SessionWords
<1>9. \A file : WordsIn(file) = WordsOf(file)
  BY DEF WordsIn, WordsOf
<1> HIDE DEF edits, q, t, mem, m, W, N
<1>10. W = {w \in Word : \E k \in DOMAIN q :
              \E j \in DOMAIN q[k].content : q[k].content[j].word = w}
  BY <1>3, <1>8
<1>11. t \in Sentence /\ q \in Seq(Edit) /\ \A k \in DOMAIN q : AllPlain(q[k].content)
  BY <1>2, <1>3, <1>4 DEF t, q
<1>12. Contents(q, N) = Contents(edits, N)
  BY <1>3 DEF Contents
<1>13. /\ Worded(list)
       /\ Len(Words(list)) = Len(t.words) + Brought(edits, N)
       /\ WordsOf(Flush(list)) = WordsOf(t.words) \cup W
  <2>1. /\ Worded(list)
        /\ Len(Words(list)) = Len(t.words) + Len(FlattenSeq(Contents(q, Len(q))))
        /\ WordsOf(Flush(list)) =
             WordsOf(t.words) \cup {w \in Word : \E k \in DOMAIN q :
                \E j \in DOMAIN q[k].content : q[k].content[j].word = w}
    BY <1>5, <1>11, ApplyPlain
  <2> QED
    BY <1>3, <1>10, <1>12, <2>1 DEF Brought
<1>14. Len(t.words) \in Nat /\ Brought(edits, N) \in Nat /\ t.words \in Seq(Word)
  <2>1. t.words \in Seq(Word)
    BY <1>11 DEF Sentence
  <2>2. Brought(edits, Len(edits)) \in Nat
    BY <1>3, BroughtType
  <2> QED
    BY <2>1, <2>2 DEF N
<1>15. list = <<>> => t.words = <<>>
  <2> HAVE list = <<>>
  <2>1. Len(Words(list)) = 0
    BY FlushEmpty
  <2>2. Len(t.words) = 0
    BY <1>13, <1>14, <2>1
  <2> QED
    BY <1>14, <2>2
<1>16. mem \in Seq(Sentence) /\ n \in DOMAIN mem /\ mem[n] = t /\ list \in Seq(Sentence)
  BY <1>2 DEF mem, t
<1>17. /\ Len(Words(m)) - Len(Words(mem)) = Len(Words(list)) - Len(mem[n].words)
       /\ WordsOf(Flush(m)) = WordsOf(Flush(mem)) \cup W
  <2>1. WordsOf(Flush(list)) = WordsOf(mem[n].words) \cup W
    BY <1>13, <1>16
  <2>2. list = <<>> => mem[n].words = <<>>
    BY <1>15, <1>16
  <2> QED
    <3>1. Absorbs(mem, n, list, W)
      BY <1>7, <1>16, <2>1, <2>2 DEF Absorbs
    <3> QED
      BY <3>1, SpliceWords DEF m
<1>18. Len(Words(m)) - Len(Words(mem)) = Brought(edits, N)
  BY <1>13, <1>14, <1>16, <1>17
<1>19. BlankLast(m)
  BY <1>7, <1>13, <1>16, SpliceBlank DEF m
<1>20. PlainText(Flush(m))
  BY <1>2, <1>6, <1>19, FlushPlain
<1>21. Added(s, n, list) = Len(Words(m)) - Len(Words(mem))
  BY <1>6 DEF Added, mem
<1>22. list = <<>> => n = Len(mem)
  BY <1>7, <1>15, <1>16 DEF BlankLast
<1> QED
  BY <1>4, <1>6, <1>9, <1>17, <1>18, <1>19, <1>20, <1>21, <1>22 DEF edits, N, mem, W

LEMMA PlainStep ==
  ASSUME IInv, IInv', CTypes, CNext, PInv
  PROVE  TidyMemory' /\ TidyDisk' /\ MemoryIsDisk'
<1> DEFINE Tidy(i) == BlankLast(Mem(i)')
           Agrees(i) == docs'[i].active => Flush(Mem(i)') = disk'[docs'[i].file]
           Good == /\ \A i \in DocSlot : Tidy(i) /\ Agrees(i)
                   /\ \A f \in File : disk'[f] # Missing => PlainText(disk'[f])
<1>0. /\ disk \in [File -> {Missing} \cup Seq(Text)] /\ Missing \notin Seq(Text)
      /\ TidyMemory /\ TidyDisk /\ PlainWorks /\ MemoryIsDisk
  BY ContentAssumption DEF CTypes, Text, PInv
<1>1. ASSUME NEW i \in DocSlot, Same(i) \/ Emptied(i)
      PROVE  Tidy(i)
  <2>1. BlankLast(<<>>)
    BY DEF BlankLast
  <2>2. BlankLast(Mem(i)) /\ Mem(i)' \in {Mem(i), <<>>}
    BY <1>0, <1>1 DEF Same, Emptied, TidyMemory
  <2> QED
    BY <2>1, <2>2
<1>2. ASSUME NEW i \in DocSlot, Same(i) \/ Emptied(i),
             docs[i].active => disk'[docs[i].file] = disk[docs[i].file]
      PROVE  Agrees(i)
  <2>1. CASE Emptied(i)
    BY <2>1 DEF Emptied
  <2>2. CASE Same(i)
    <3>1. docs[i].active => Flush(Mem(i)) = disk[docs[i].file]
      BY <1>0 DEF MemoryIsDisk
    <3>2. Mem(i)' = Mem(i) /\ docs'[i].file = docs[i].file /\ (docs'[i].active <=> docs[i].active)
      BY <2>2 DEF Same
    <3> QED
      BY <1>2, <3>1, <3>2
  <2> QED
    BY <1>2, <2>1, <2>2
<1>3. ASSUME \A i \in DocSlot : Same(i) \/ Emptied(i), FilesKept
      PROVE  Good
  <2>1. disk' = disk
    BY <1>3 DEF FilesKept
  <2> QED
    BY <1>0, <1>1, <1>2, <1>3, <2>1 DEF TidyDisk
<1>4. ASSUME NEW d, NEW f \in File, NewIn(d, f), FilesKept
      PROVE  Good
  <2>1. disk' = disk
    BY <1>4 DEF FilesKept
  <2>2. /\ d \in DocSlot /\ disk[f] \in Seq(Text) /\ docs'[d].file = f
        /\ Mem(d)' = Parse(disk[f]) /\ \A i \in DocSlot \ {d} : Same(i)
    BY <1>4 DEF NewIn
  <2>3. PlainText(disk[f])
    BY <1>0, <2>2 DEF TidyDisk
  <2>4. BlankLast(Parse(disk[f])) /\ Flush(Parse(disk[f])) = disk[f]
    BY <2>2, <2>3, ParsePlain, ParseFacts
  <2>5. Tidy(d) /\ Agrees(d)
    BY <2>1, <2>2, <2>4
  <2>6. \A i \in DocSlot \ {d} : Tidy(i) /\ Agrees(i)
    BY <1>1, <1>2, <2>1, <2>2
  <2> QED
    BY <1>0, <2>1, <2>5, <2>6 DEF TidyDisk
<1>5. ASSUME NEW s \in Sock, NEW n, NEW list, Targets(s, n, list),
             \/ CommitRejected(s, n, list)
             \/ CommitSaved(s, n, list)
             \/ DiesInSave(s, n, list) /\ AllEmptied
      PROVE  Good
  <2>1. PICK d : d = sessions[s].doc
    OBVIOUS
  <2>2. PICK p : p = sessions[s].ptr
    OBVIOUS
  <2> DEFINE f    == docs[d].file
             m    == Merged(s, n, list)
             file == Flush(m)
  <2>3. /\ d \in DocSlot /\ docs[d].active /\ f \in File /\ list \in Seq(Sentence)
        /\ file \in Seq(Text)
    BY <1>5, <2>1, <2>2, TargetFacts
  <2>4. Added(s, n, list) = work[s].virtual /\ BlankLast(m) /\ PlainText(file)
    BY <1>0, <1>5, <2>1, PlainCommit
  <2>5. CASE CommitRejected(s, n, list)
    BY <2>4, <2>5 DEF CommitRejected
  <2>6. CASE CommitSaved(s, n, list)
    <3>1. Applied(s, n, list) /\ disk' = [disk EXCEPT ![f] = file]
      BY <2>1, <2>6 DEF CommitSaved
    <3>2. n \in DOMAIN docs[sessions[s].doc].head
      BY <1>5 DEF Targets
    <3>3. /\ \A i \in DocSlot \ {d} : Same(i)
          /\ \/ Emptied(d)
             \/ docs'[d].active /\ docs'[d].file = docs[d].file /\ Mem(d)' = m
      BY <2>1, <2>3, <3>1, <3>2, CommitEffect
    <3>4. disk'[f] = file /\ \A g \in File : g # f => disk'[g] = disk[g]
      BY <1>0, <2>3, <3>1
    <3>5. ASSUME NEW i \in DocSlot \ {d}, docs[i].active
          PROVE  disk'[docs[i].file] = disk[docs[i].file]
      <4>1. docs[i].file \in File /\ docs[i].file # f
        BY <2>3, <3>5 DEF IInv, DocNamed, OneCopyPerFile
      <4> QED
        BY <3>4, <4>1
    <3>6. \A i \in DocSlot \ {d} : Tidy(i) /\ Agrees(i)
      BY <1>1, <1>2, <3>3, <3>5
    <3>7. Tidy(d) /\ Agrees(d)
      <4>1. CASE Emptied(d)
        BY <1>1, <2>3, <4>1 DEF Emptied
      <4>2. CASE docs'[d].active /\ docs'[d].file = docs[d].file /\ Mem(d)' = m
        BY <2>4, <3>4, <4>2
      <4> QED
        BY <3>3, <4>1, <4>2
    <3>8. \A g \in File : disk'[g] # Missing => PlainText(disk'[g])
      BY <1>0, <2>4, <3>4 DEF TidyDisk
    <3> QED
      BY <3>6, <3>7, <3>8
  <2>7. CASE DiesInSave(s, n, list) /\ AllEmptied
    <3>1. \E part \in {Missing} \cup {SubSeq(file, 1, k) : k \in 0..Len(file)} :
            disk' = [disk EXCEPT ![f] = part]
      BY <2>1, <2>7 DEF DiesInSave
    <3>2. PICK part \in {Missing} \cup {SubSeq(file, 1, k) : k \in 0..Len(file)} :
            disk' = [disk EXCEPT ![f] = part]
      BY <3>1
    <3> HIDE DEF f, file
    <3>3. ASSUME NEW k \in 0..Len(file) PROVE PlainText(SubSeq(file, 1, k))
      BY <2>3, <2>4, PlainPrefix
    <3>4. part # Missing => PlainText(part)
      BY <3>2, <3>3
    <3>5. disk'[f] = part /\ \A g \in File : g # f => disk'[g] = disk[g]
      BY <1>0, <2>3, <3>2
    <3>6. \A g \in File : disk'[g] # Missing => PlainText(disk'[g])
      BY <1>0, <3>4, <3>5 DEF TidyDisk
    <3>7. ASSUME NEW i \in DocSlot PROVE Tidy(i) /\ Agrees(i)
      BY <1>1, <2>7 DEF AllEmptied, Emptied
    <3> QED
      BY <3>6, <3>7
  <2> QED
    BY <1>5, <2>5, <2>6, <2>7
<1>6. Good
  <2> HIDE DEF Good
  <2> QED
    BY <1>3, <1>4, <1>5, ContentKinds
<1> QED
  BY <1>6 DEF TidyMemory, TidyDisk, MemoryIsDisk

(* A plain update counts for the words it brings. *)
LEMMA PlainWorkAppend ==
  ASSUME NEW w \in Work, PlainWork(w), NEW at \in Nat, NEW content \in Seq(Token),
         AllPlain(content), NEW v, v = w.virtual + CountWords(content)
  PROVE  PlainWork([orig |-> w.orig, edits |-> Append(w.edits, [at |-> at, content |-> content]),
                    virtual |-> v])
<1> DEFINE e    == [at |-> at, content |-> content]
           more == Append(w.edits, e)
           n    == Len(w.edits)
<1>1. w.edits \in Seq(Edit) /\ e \in Edit /\ e.content = content
  BY DEF Work, Edit
<1> HIDE DEF e
<1>2. /\ Len(more) = n + 1 /\ n \in Nat /\ more[n + 1] = e
      /\ \A k \in 1..n : more[k] = w.edits[k]
  BY <1>1
<1>3. Brought(more, Len(more)) = Brought(w.edits, n) + Len(content)
  BY <1>1, MoreBrought
<1>4. CountWords(content) = Len(content)
  BY CountFacts
<1>5. (\A k \in 1..n : AllPlain(w.edits[k].content)) /\ w.virtual = Brought(w.edits, n)
  BY DEF PlainWork
<1> HIDE DEF more, n
<1>6. v = Brought(more, Len(more))
  BY <1>3, <1>4, <1>5
<1>7. ASSUME NEW k \in 1..(n + 1) PROVE AllPlain(more[k].content)
  <2>1. CASE k = n + 1
    BY <1>1, <1>2, <2>1
  <2>2. CASE k # n + 1
    <3>1. k \in 1..n
      BY <1>2, <2>2
    <3> QED
      BY <1>2, <1>5, <3>1
  <2> QED
    BY <2>1, <2>2
<1> QED
  BY <1>2, <1>6, <1>7 DEF PlainWork, more, e

LEMMA NoWorkPlain == \A n : PlainWork([orig |-> n, edits |-> <<>>, virtual |-> 0])
  BY NoneBrought DEF PlainWork

LEMMA PlainWorksStep ==
  ASSUME PlainTyping, TypeOK, CTypes, PlainWorks, CNext
  PROVE  PlainWorks'
<1>0. work \in [Sock -> Work]
  BY DEF CTypes
<1>1. ASSUME NEW s \in Sock, NEW r, PlainWork(r), work' = [work EXCEPT ![s] = r]
      PROVE  PlainWorks'
  BY <1>0, <1>1 DEF PlainWorks
<1>2. PlainWork(NoWork)
  BY NoWorkPlain DEF NoWork
<1>3. ASSUME NEW n PROVE PlainWork([NoWork EXCEPT !.orig = n])
  <2>1. [NoWork EXCEPT !.orig = n] = [orig |-> n, edits |-> <<>>, virtual |-> 0]
    BY DEF NoWork
  <2> QED
    BY <2>1, NoWorkPlain
<1>4. ASSUME NEW s \in Sock, NEW at \in 0..MaxAt, NEW content \in Inputs,
             WriteUpdate(s, at, content)
      PROVE  PlainWorks'
  <2> DEFINE w == work[s]
             v == w.virtual + CountWords(content)
  <2>1. w \in Work /\ PlainWork(w) /\ content \in Seq(Token) /\ at \in Nat /\ AllPlain(content)
    BY <1>0, ContentAssumption DEF PlainWorks, PlainTyping
  <2>2. work' = [work EXCEPT ![s] =
                   [orig |-> w.orig, edits |-> Append(w.edits, [at |-> at, content |-> content]),
                    virtual |-> v]]
    <3>1. work' = [work EXCEPT ![s] =
                     Recording(w, Append(w.edits, [at |-> at, content |-> content]), v)]
      BY <1>0, <1>4 DEF WriteUpdate, Recording
    <3>2. w.edits \in Seq(Edit) /\ [at |-> at, content |-> content] \in Edit
      BY <2>1 DEF Work, Edit
    <3>3. Append(w.edits, [at |-> at, content |-> content]) \in Seq(Edit)
      BY <3>2
    <3> QED
      BY <2>1, <3>1, <3>3, Recorded
  <2> HIDE DEF w, v
  <2>3. PlainWork([orig |-> w.orig, edits |-> Append(w.edits, [at |-> at, content |-> content]),
                   virtual |-> v])
    BY <2>1, PlainWorkAppend DEF v
  <2> QED
    BY <1>1, <2>2, <2>3
<1>5. CASE UNCHANGED <<work, typed>>
  BY <1>5 DEF PlainWorks
<1>6. CASE work' = [s \in Sock |-> NoWork] /\ UNCHANGED typed
  BY <1>2, <1>6 DEF PlainWorks
<1> QED
  BY <1>0, <1>1, <1>2, <1>3, <1>4, <1>5, <1>6, WorkKinds

LEMMA CommittedStep ==
  ASSUME ~MidSave, IInv, IInv', CTypes, CNext, PInv, DiskIsCommitted
  PROVE  DiskIsCommitted'
<1>0. /\ disk \in [File -> {Missing} \cup Seq(Text)] /\ committed \in [File -> SUBSET Word]
      /\ Missing \notin Seq(Text) /\ TidyMemory /\ PlainWorks /\ MemoryIsDisk
  BY ContentAssumption DEF CTypes, Text, PInv
<1>1. ASSUME FilesKept PROVE DiskIsCommitted'
  BY <1>1 DEF FilesKept, DiskIsCommitted, WordsIn
<1>2. ASSUME NEW s \in Sock, NEW n, NEW list, Targets(s, n, list),
             \/ CommitRejected(s, n, list)
             \/ CommitSaved(s, n, list)
             \/ DiesInSave(s, n, list)
      PROVE  DiskIsCommitted'
  <2>1. PICK d : d = sessions[s].doc
    OBVIOUS
  <2>2. PICK p : p = sessions[s].ptr
    OBVIOUS
  <2> DEFINE f    == docs[d].file
             file == Flush(Merged(s, n, list))
             W    == SessionWords(s)
  <2>3. /\ d \in DocSlot /\ docs[d].active /\ f \in File /\ file \in Seq(Text)
    BY <1>2, <2>1, <2>2, TargetFacts
  <2>4. /\ Added(s, n, list) = work[s].virtual
        /\ WordsIn(file) = WordsIn(Flush(Mem(d))) \cup W
    BY <1>0, <1>2, <2>1, PlainCommit
  <2>5. CommitSaved(s, n, list)
    BY <1>2, <2>4 DEF CommitRejected, DiesInSave
  <2>6. /\ disk' = [disk EXCEPT ![f] = file]
        /\ committed' = [committed EXCEPT ![f] = @ \cup W]
    BY <2>1, <2>5 DEF CommitSaved
  <2>7. Flush(Mem(d)) = disk[f]
    BY <1>0, <2>3 DEF MemoryIsDisk
  <2> HIDE DEF f, file, W
  <2>8. WordsIn(file) = committed[f] \cup W /\ file # Missing
    BY <1>0, <2>3, <2>4, <2>7 DEF DiskIsCommitted
  <2>9. /\ disk'[f] = file /\ committed'[f] = committed[f] \cup W
        /\ \A g \in File : g # f => disk'[g] = disk[g] /\ committed'[g] = committed[g]
    BY <1>0, <2>3, <2>6
  <2>10. ASSUME NEW g \in File
         PROVE  disk'[g] # Missing /\ WordsIn(disk'[g]) = committed'[g]
    BY <2>8, <2>9 DEF DiskIsCommitted
  <2> QED
    BY <2>10 DEF DiskIsCommitted, WordsIn
<1> QED
  BY <1>1, <1>2, ContentKinds

LEMMA InitPInv == PlainFiles /\ CInit => PInv /\ DiskIsCommitted
<1> SUFFICES ASSUME PlainFiles, CInit PROVE PInv /\ DiskIsCommitted
  OBVIOUS
<1>1. TidyMemory
  <2>1. ASSUME NEW i \in DocSlot PROVE Mem(i) = <<>>
    <3>1. docs[i].head = <<>>
      BY DEF CInit, Init, NoDoc
    <3> QED
      BY <3>1 DEF Mem
  <2> QED
    BY <2>1 DEF TidyMemory, BlankLast
<1>2. /\ \A f \in File : disk[f] \in Files /\ disk[f] # Missing
      /\ committed = [f \in File |-> WordsIn(disk[f])]
  BY ContentAssumption DEF CInit
<1>3. TidyDisk /\ DiskIsCommitted
  BY <1>2 DEF TidyDisk, DiskIsCommitted, PlainFiles
<1>4. PlainWorks
  <2>1. PlainWork(NoWork)
    BY NoWorkPlain DEF NoWork
  <2> QED
    BY <2>1 DEF CInit, PlainWorks
<1>5. MemoryIsDisk
  BY DEF CInit, Init, NoDoc, MemoryIsDisk
<1> QED
  BY <1>1, <1>3, <1>4, <1>5 DEF PInv

(* With plain updates and files: memory and disk stay without sentences    *)
(* that have an end and no words, each session has announced the words     *)
(* that its edits bring, and memory is what the file is read as. *)
THEOREM PlainInvariant == PlainTyping /\ PlainFiles => (CSpec => []PInv)
<1> SUFFICES ASSUME PlainTyping, PlainFiles PROVE CSpec => []PInv
  OBVIOUS
<1>1. CSpec => []CInv
  BY ContentInvariant
<1>2. CInit => PInv
  BY InitPInv
<1>3. CInv /\ CInv' /\ PInv /\ [CNext]_allVars => PInv'
  <2> SUFFICES ASSUME CInv, CInv', PInv, [CNext]_allVars PROVE PInv'
    OBVIOUS
  <2>1. IInv /\ IInv' /\ CTypes /\ TypeOK /\ PlainWorks
    BY DEF CInv, IInv, PInv
  <2>2. CASE CNext
    <3>1. TidyMemory' /\ TidyDisk' /\ MemoryIsDisk'
      BY <2>1, <2>2, PlainStep
    <3>2. PlainWorks'
      BY <2>1, <2>2, PlainWorksStep
    <3> QED
      BY <3>1, <3>2 DEF PInv
  <2>3. CASE UNCHANGED allVars
    <3>1. UNCHANGED <<docs, text, work, disk>>
      BY <2>3 DEF allVars, vars, cvars
    <3> QED
      BY <3>1 DEF PInv, TidyMemory, TidyDisk, PlainWorks, MemoryIsDisk, Mem
  <2> QED
    BY <2>2, <2>3
<1> QED
  BY <1>1, <1>2, <1>3, PTL DEF CSpec

(* As long as users type words and words that end a sentence, and the      *)
(* files begin without blank lines, a document in memory is its file: for  *)
(* every number of editors, however they interleave, give up or lose the   *)
(* server, also inside a save.  The document stays so because it keeps no  *)
(* sentence without words before its end, for then a commit never finds    *)
(* other words than announced, the one case in which it changes memory and *)
(* writes nothing. *)
THEOREM DiskFollows == PlainTyping /\ PlainFiles => (CSpec => []MemoryIsDisk)
<1>1. PInv => MemoryIsDisk
  BY DEF PInv
<1> QED
  BY <1>1, PlainInvariant, PTL

LEMMA CommittedAlways ==
  PlainTyping /\ PlainFiles /\ ~MidSave => (CSpec => []DiskIsCommitted)
<1> SUFFICES ASSUME PlainTyping, PlainFiles, ~MidSave PROVE CSpec => []DiskIsCommitted
  OBVIOUS
<1>1. CSpec => []CInv
  BY ContentInvariant
<1>2. CSpec => []PInv
  BY PlainInvariant
<1>3. CInit => DiskIsCommitted
  BY InitPInv
<1>4. CInv /\ CInv' /\ PInv /\ DiskIsCommitted /\ [CNext]_allVars => DiskIsCommitted'
  <2> SUFFICES ASSUME CInv, CInv', PInv, DiskIsCommitted, [CNext]_allVars
               PROVE  DiskIsCommitted'
    OBVIOUS
  <2>1. IInv /\ IInv' /\ CTypes
    BY DEF CInv
  <2>2. CASE CNext
    BY <2>1, <2>2, CommittedStep
  <2>3. CASE UNCHANGED allVars
    BY <2>3 DEF allVars, cvars, DiskIsCommitted, WordsIn
  <2> QED
    BY <2>2, <2>3
<1> QED
  BY <1>1, <1>2, <1>3, <1>4, PTL DEF CSpec

(* If besides no save is cut short, every file has all words of its        *)
(* accepted commits, whatever the commits of other sessions replaced since *)
(* and however often the document left memory. *)
THEOREM CommitsLast ==
  PlainTyping /\ PlainFiles /\ ~MidSave => (CSpec => []CommitsAreDurable)
<1>1. DiskIsCommitted => CommitsAreDurable
  BY DEF DiskIsCommitted, CommitsAreDurable
<1> QED
  BY <1>1, CommittedAlways, PTL

(* Under the same conditions no file ever has a word of an edit session    *)
(* that was refused, was abandoned or is still going on. *)
THEOREM CommitsWhole ==
  PlainTyping /\ PlainFiles /\ ~MidSave => (CSpec => []CommitsAreAtomic)
<1>1. DiskIsCommitted => CommitsAreAtomic
  BY DEF DiskIsCommitted, CommitsAreAtomic
<1> QED
  BY <1>1, CommittedAlways, PTL

-----------------------------------------------------------------------------
(* A sentence that is being edited stays in its document. *)

(* A splice that truncates nothing takes only the target out of the list. *)
LEMMA SplicedKeeps ==
  ASSUME NEW hd \in Seq(Addr), NEW n \in DOMAIN hd, NEW new \in Seq(Addr), Distinct(hd),
         new = <<>> => n = Len(hd), NEW a \in Nodes(hd), a # hd[n]
  PROVE  a \in Nodes(Spliced(hd, n, new))
<1> DEFINE pre  == SubSeq(hd, 1, n - 1)
           post == SubSeq(hd, n + 1, Len(hd))
           tail == IF new = <<>> THEN <<>> ELSE new \o post
<1>1. /\ pre \in Seq(Addr) /\ Len(pre) = n - 1
      /\ \A k \in 1..(n - 1) : pre[k] = hd[k]
  OBVIOUS
<1>2. /\ post \in Seq(Addr) /\ Len(post) = Len(hd) - n
      /\ \A k \in 1..(Len(hd) - n) : post[k] = hd[n + k]
  OBVIOUS
<1>3. Spliced(hd, n, new) = pre \o tail
  BY DEF Spliced
<1>4. PICK k \in 1..Len(hd) : a = hd[k] /\ k # n
  BY DEF Nodes
<1>5. n \in 1..Len(hd) /\ Len(hd) \in Nat
  OBVIOUS
<1> HIDE DEF pre, post
<1>6. tail \in Seq(Addr) /\ (new # <<>> => Nodes(tail) = Nodes(new) \cup Nodes(post))
  <2>1. CASE new = <<>>
    BY <2>1
  <2>2. CASE new # <<>>
    BY <1>2, <2>2, ConcatNodes
  <2> QED
    BY <2>1, <2>2
<1> HIDE DEF tail
<1>7. Nodes(Spliced(hd, n, new)) = Nodes(pre) \cup Nodes(tail)
  BY <1>1, <1>3, <1>6, ConcatNodes
<1>8. CASE k < n
  <2>1. k \in 1..(n - 1) /\ DOMAIN pre = 1..(n - 1)
    BY <1>1, <1>4, <1>5, <1>8
  <2>2. a \in Nodes(pre)
    BY <1>1, <1>4, <2>1 DEF Nodes
  <2> QED
    BY <1>7, <2>2
<1>9. CASE k > n
  <2>1. new # <<>>
    BY <1>4, <1>5, <1>9
  <2>2. /\ k - n \in 1..(Len(hd) - n) /\ n + (k - n) = k
        /\ DOMAIN post = 1..(Len(hd) - n)
    BY <1>2, <1>4, <1>5, <1>9
  <2>3. post[k - n] = a
    BY <1>2, <1>4, <2>2
  <2>4. a \in Nodes(post)
    BY <2>2, <2>3 DEF Nodes
  <2> QED
    BY <1>6, <1>7, <2>1, <2>4
<1> QED
  BY <1>4, <1>5, <1>8, <1>9

(* The end of a session leaves the sentences of the others in the list. *)
LEMMA EndStays ==
  ASSUME LInv, EditedSentenceStays, NEW s \in Sock, NEW hd, NEW h, EndStep(s, hd, h),
         \A a \in Nodes(docs[sessions[s].doc].head) : a # sessions[s].ptr => a \in Nodes(hd)
  PROVE  EditedSentenceStays'
<1> SUFFICES ASSUME NEW t \in Sock, sessions'[t].active
             PROVE  sessions'[t].ptr \in Nodes(docs'[sessions'[t].doc].head)
  BY DEF EditedSentenceStays, Nodes
<1>1. PICK d : d = sessions[s].doc
  OBVIOUS
<1>2. /\ d \in DocSlot
      /\ \A i \in DocSlot : i # d => docs'[i] = docs[i]
      /\ \A u \in Sock : sessions'[u] = IF u = s THEN NoSession ELSE sessions[u]
      /\ \/ docs'[d].head = hd
         \/ Editors(d) = {s}
  BY <1>1, EndEffect DEF LInv
<1>3. t # s /\ sessions'[t] = sessions[t] /\ sessions[t].active
  BY <1>2 DEF NoSession
<1>4. /\ sessions[t].doc \in DocSlot
      /\ sessions[t].ptr \in Nodes(docs[sessions[t].doc].head)
  BY <1>3 DEF EditedSentenceStays, LInv, IInv, SessionOnDoc
<1>5. CASE sessions[t].doc # d
  BY <1>2, <1>3, <1>4, <1>5
<1>6. CASE sessions[t].doc = d
  <2>1. t \in Editors(d)
    BY <1>3, <1>6 DEF Editors
  <2>2. docs'[d].head = hd
    BY <1>2, <1>3, <2>1
  <2>3. sessions[s].active
    BY DEF EndStep
  <2>4. sessions[t].ptr # sessions[s].ptr
    BY <1>3, <2>3, LocksExclude DEF MutualExclusion
  <2> QED
    BY <1>1, <1>3, <1>4, <1>6, <2>2, <2>4
<1> QED
  BY <1>5, <1>6

(* A WRITE that loads a document takes no slot that has sessions. *)
LEMMA OpenStays ==
  ASSUME LInv, EditedSentenceStays, NEW f \in File, NEW o \in FindOrLoad(f),
         \A i \in DocSlot : i # o.slot => docs'[i] = docs[i],
         docs'[o.slot].head = o.doc.head,
         NEW t \in Sock, sessions[t].active, sessions'[t] = sessions[t]
  PROVE  sessions'[t].ptr \in Nodes(docs'[sessions'[t].doc].head)
<1>1. Loaded(o) \/ NewlyLoaded(o)
  BY FindOrLoadFacts DEF LInv, IInv
<1>2. /\ sessions[t].doc \in DocSlot /\ docs[sessions[t].doc].active
      /\ sessions[t].ptr \in Nodes(docs[sessions[t].doc].head)
  BY DEF EditedSentenceStays, LInv, IInv, SessionOnDoc
<1>3. docs'[sessions[t].doc].head = docs[sessions[t].doc].head
  BY <1>1, <1>2 DEF Loaded, NewlyLoaded
<1> QED
  BY <1>2, <1>3

LEMMA StaysStep ==
  ASSUME LInv, CTypes, TidyMemory, PlainWorks, EditedSentenceStays, CNext
  PROVE  EditedSentenceStays'
<1>0. TypeOK /\ IInv
  BY DEF LInv, IInv
<1>1. ASSUME UNCHANGED <<docs, sessions>> PROVE EditedSentenceStays'
  BY <1>1 DEF EditedSentenceStays, Nodes
<1>2. ASSUME Restart PROVE EditedSentenceStays'
  BY <1>2 DEF Restart, NoSession, EditedSentenceStays
<1>3. ASSUME NEW s \in Sock, NEW f \in File, NEW o \in FindOrLoad(f),
             InvalidSentence(s, o) \/ LockConflict(s, f, o)
      PROVE  EditedSentenceStays'
  <2>1. /\ o.slot \in DocSlot /\ docs' = [docs EXCEPT ![o.slot] = o.doc] /\ sessions' = sessions
    BY <1>0, <1>3, FindOrLoadFacts DEF InvalidSentence, LockConflict
  <2>2. /\ \A i \in DocSlot : i # o.slot => docs'[i] = docs[i]
        /\ docs'[o.slot].head = o.doc.head
    BY <1>0, <2>1 DEF TypeOK
  <2>3. ASSUME NEW t \in Sock, sessions[t].active
        PROVE  sessions'[t].ptr \in Nodes(docs'[sessions'[t].doc].head)
    BY <2>1, <2>2, <2>3, OpenStays
  <2> QED
    BY <2>1, <2>3 DEF EditedSentenceStays, Nodes
<1>4. ASSUME NEW s \in Sock, NEW f \in File, CGrant(s, f)
      PROVE  EditedSentenceStays'
  <2>1. PICK o \in FindOrLoad(f) : \E n \in DOMAIN o.doc.head : Grant(s, f, o, n)
    BY <1>4 DEF CGrant
  <2>2. PICK n \in DOMAIN o.doc.head : Grant(s, f, o, n)
    BY <2>1
  <2>3. GrantStep(s, f, o, n) /\ o.slot \in DocSlot
    BY <1>0, <2>2, FindOrLoadFacts DEF GrantStep
  <2>4. /\ \A i \in DocSlot : i # o.slot => docs'[i] = docs[i]
        /\ docs'[o.slot].head = o.doc.head
        /\ \A t \in Sock : sessions'[t] =
             IF t = s THEN [active |-> TRUE, doc |-> o.slot, ptr |-> o.doc.head[n]]
             ELSE sessions[t]
    BY <1>0, <2>3, GrantEffect
  <2>5. ASSUME NEW t \in Sock, sessions'[t].active
        PROVE  sessions'[t].ptr \in Nodes(docs'[sessions'[t].doc].head)
    <3>1. CASE t = s
      <4>1. sessions'[t].doc = o.slot /\ sessions'[t].ptr = o.doc.head[n]
        BY <2>4, <3>1
      <4>2. o.doc.head[n] \in Nodes(o.doc.head)
        BY DEF Nodes
      <4> QED
        BY <2>4, <4>1, <4>2
    <3>2. CASE t # s
      <4>1. sessions'[t] = sessions[t] /\ sessions[t].active
        BY <2>4, <2>5, <3>2
      <4> QED
        BY <2>4, <4>1, OpenStays
    <3> QED
      BY <3>1, <3>2
  <2> QED
    BY <2>5 DEF EditedSentenceStays, Nodes
<1>5. ASSUME NEW s \in Sock, EndSession(s, docs[sessions[s].doc].head, heap),
             sessions[s].active
      PROVE  EditedSentenceStays'
  <2>1. HasSession(conn[s])
    BY <1>0, <1>5 DEF IInv, SessionNeedsConnection, HasSession
  <2>2. EndStep(s, docs[sessions[s].doc].head, heap)
    BY <1>0, <1>5, <2>1, PlainEnds
  <2> QED
    BY <2>2, EndStays
<1>6. ASSUME NEW s \in Sock, CDisconnect(s)
      PROVE  EditedSentenceStays'
  BY <1>1, <1>5, <1>6 DEF CDisconnect, Disconnect
<1>7. ASSUME NEW s \in Sock, NEW n, NEW list, Targets(s, n, list), Applied(s, n, list)
      PROVE  EditedSentenceStays'
  <2>1. PICK d : d = sessions[s].doc
    OBVIOUS
  <2>2. PICK p : p = sessions[s].ptr
    OBVIOUS
  <2>3. /\ d \in DocSlot /\ Mem(d) \in Seq(Sentence) /\ n \in DOMAIN Mem(d)
        /\ list \in Seq(Sentence)
    BY <1>0, <1>7, <2>1, <2>2, TargetFacts
  <2>4. DOMAIN Mem(d) = DOMAIN docs[d].head /\ Len(Mem(d)) = Len(docs[d].head)
    BY <1>0, <2>3, MemType DEF CTypes
  <2>5. list = <<>> => n = Len(docs[d].head)
    BY <1>0, <1>7, <2>1, <2>4, PlainCommit
  <2>6. PICK new \in FreshLists(0, MaxNew) : Len(new) = Len(list) /\ EtirwSplice(s, n, new)
    BY <1>7 DEF Applied
  <2>7. new \in Seq(Addr) /\ docs[d].head \in Seq(Addr) /\ Distinct(docs[d].head)
    BY <1>0, <2>3, BoundAssumption, FreshListsType DEF IInv, TypeOK, Doc, HeadsOwned
  <2>8. new = <<>> => n = Len(docs[d].head)
    BY <2>3, <2>5, <2>6
  <2>9. docs[d].head[n] = p /\ n \in DOMAIN docs[d].head
    BY <2>1, <2>2, <2>3, <2>4, <2>6 DEF EtirwSplice
  <2>10. ASSUME NEW a \in Nodes(docs[d].head), a # p
         PROVE  a \in Nodes(Spliced(docs[d].head, n, new))
    BY <2>7, <2>8, <2>9, <2>10, SplicedKeeps
  <2>11. EndStep(s, Spliced(docs[d].head, n, new), Release(Claim(heap, new, d), {p}))
    BY <1>0, <2>1, <2>2, <2>6, <2>9, SpliceEnds
  <2> QED
    BY <2>1, <2>2, <2>10, <2>11, EndStays
<1>8. ASSUME NEW s \in Sock, CEtirw(s)
      PROVE  EditedSentenceStays'
  <2>1. CASE EtirwNotFound(s) /\ UNCHANGED cvars
    BY <1>1, <2>1 DEF EtirwNotFound
  <2>2. CASE CApplyFails(s)
    BY <1>5, <2>2 DEF CApplyFails, EtirwApplyFails
  <2>3. ASSUME NEW n \in DOMAIN docs[sessions[s].doc].head, NEW list,
               sessions[s].active, EditsApply(text[sessions[s].ptr].words, Queued(s)),
               list = ApplyEdits(text[sessions[s].ptr], Queued(s)),
               CommitRejected(s, n, list) \/ CommitSaved(s, n, list)
        PROVE  EditedSentenceStays'
    <3>1. Applied(s, n, list)
      BY <2>3 DEF CommitRejected, CommitSaved
    <3>2. docs[sessions[s].doc].head[n] = sessions[s].ptr
      BY <3>1 DEF Applied, EtirwSplice
    <3>3. Targets(s, n, list)
      BY <2>3, <3>2 DEF Targets
    <3> QED
      BY <1>7, <3>1, <3>3
  <2>4. ASSUME NEW n, NEW list, DiesInSave(s, n, list)
        PROVE  EditedSentenceStays'
    BY <1>2, <2>4 DEF DiesInSave
  <2> QED
    BY <1>8, <2>1, <2>2, <2>3, <2>4 DEF CEtirw
<1>9. ASSUME NEW s \in Sock, NEW f \in File,
             CLoadFails(s, f) \/ CInvalidSentence(s, f) \/ CLockConflict(s, f)
      PROVE  EditedSentenceStays'
  BY <1>1, <1>3, <1>9 DEF CLoadFails, LoadFails, CInvalidSentence, CLockConflict
<1>10. ASSUME NEW s \in Sock, NEW at, NEW content, WriteUpdate(s, at, content)
       PROVE  EditedSentenceStays'
  BY <1>1, <1>10 DEF WriteUpdate, vars
<1>11. ASSUME NEW s \in Sock, Connect(s) \/ SendWrite(s) \/ SendEtirw(s) \/ Hangup(s)
       PROVE  EditedSentenceStays'
  BY <1>1, <1>11 DEF Connect, SendWrite, SendEtirw, Hangup
<1>12. CASE CRestart
  BY <1>2, <1>12 DEF CRestart
<1>13. ASSUME NEW s \in Sock,
             \/ (Connect(s) \/ SendWrite(s) \/ SendEtirw(s) \/ Hangup(s)) /\ UNCHANGED cvars
             \/ \E f \in File : CLoadFails(s, f) \/ CInvalidSentence(s, f)
                                  \/ CLockConflict(s, f) \/ CGrant(s, f)
             \/ \E at \in 0..MaxAt, content \in Inputs : WriteUpdate(s, at, content)
             \/ CEtirw(s)
             \/ CDisconnect(s)
       PROVE  EditedSentenceStays'
  BY <1>4, <1>6, <1>8, <1>9, <1>10, <1>11, <1>13
<1> QED
  BY <1>12, <1>13 DEF CNext

(* Under the same conditions, and with a lock slot for every writer, no    *)
(* commit takes a sentence away from under the session that edits it: the  *)
(* one list that a commit cuts short ends with the sentence it replaces.   *)
THEOREM SentenceStays ==
  PlainTyping /\ PlainFiles /\ EnoughLocks => (CSpec => []EditedSentenceStays)
<1> SUFFICES ASSUME PlainTyping, PlainFiles, EnoughLocks
             PROVE  CSpec => []EditedSentenceStays
  OBVIOUS
<1>1. CSpec => []LInv
  BY ContentRefines, LockInvariant
<1>2. CSpec => []CInv
  BY ContentInvariant
<1>3. CSpec => []PInv
  BY PlainInvariant
<1>4. CInit => EditedSentenceStays
  BY DEF CInit, Init, NoSession, EditedSentenceStays
<1>5. LInv /\ CInv /\ PInv /\ EditedSentenceStays /\ [CNext]_allVars => EditedSentenceStays'
  <2> SUFFICES ASSUME LInv, CInv, PInv, EditedSentenceStays, [CNext]_allVars
               PROVE  EditedSentenceStays'
    OBVIOUS
  <2>1. CTypes /\ TidyMemory /\ PlainWorks
    BY DEF CInv, PInv
  <2>2. CASE CNext
    BY <2>1, <2>2, StaysStep
  <2>3. CASE UNCHANGED allVars
    BY <2>3 DEF allVars, vars, EditedSentenceStays, Nodes
  <2> QED
    BY <2>2, <2>3
<1> QED
  BY <1>1, <1>2, <1>3, <1>4, <1>5, PTL DEF CSpec

-----------------------------------------------------------------------------
(* What readers of the files and the sessions in them see of a commit.     *)

LEMMA SuffixFacts ==
  ASSUME NEW X, NEW u \in Seq(X), NEW m \in 0..Len(u)
  PROVE  LET r == SubSeq(u, m + 1, Len(u))
         IN /\ r \in Seq(X) /\ Len(r) = Len(u) - m
            /\ \A k \in 1..(Len(u) - m) : r[k] = u[m + k]
<1>1. Len(u) \in Nat /\ m \in Nat /\ m =< Len(u)
  OBVIOUS
<1> QED
  BY <1>1

LEMMA SplicePlaces ==
  ASSUME NEW n \in Nat, NEW N \in Nat, NEW L \in Nat, 1 =< n, n =< N
  PROVE  /\ \A k \in 1..L :
              /\ n - 1 + k \in 1..((n - 1) + (L + (N - n))) /\ n - 1 + k > n - 1
              /\ (n - 1 + k) - (n - 1) = k /\ k \in 1..(L + (N - n))
         /\ \A k \in (n + 1)..N :
              /\ k + (L - 1) \in 1..((n - 1) + (L + (N - n))) /\ k + (L - 1) > n - 1
              /\ (k + (L - 1)) - (n - 1) = L + (k - n) /\ L + (k - n) > L
              /\ L + (k - n) \in 1..(L + (N - n))
              /\ (L + (k - n)) - L = k - n /\ k - n \in 1..(N - n) /\ n + (k - n) = k
         /\ (n - 1) + (L + (N - n)) = N + L - 1
  OBVIOUS

(* Where a splice that truncates nothing puts the elements of a list.      *)
LEMMA SpliceAt ==
  ASSUME NEW X, NEW hd \in Seq(X), NEW n \in DOMAIN hd, NEW new \in Seq(X),
         new = <<>> => n = Len(hd)
  PROVE  LET out == Spliced(hd, n, new)
         IN /\ out \in Seq(X) /\ Len(out) = Len(hd) + Len(new) - 1
            /\ \A k \in 1..(n - 1) : out[k] = hd[k]
            /\ \A k \in 1..Len(new) : out[n - 1 + k] = new[k]
            /\ \A k \in (n + 1)..Len(hd) : out[k + (Len(new) - 1)] = hd[k]
<1> DEFINE N    == Len(hd)
           L    == Len(new)
           pre  == SubSeq(hd, 1, n - 1)
           post == SubSeq(hd, n + 1, N)
           rest == new \o post
           whole == pre \o rest
<1>1. /\ n \in Nat /\ N \in Nat /\ L \in Nat /\ 1 =< n /\ n =< N
      /\ n - 1 \in 0..N /\ n \in 0..N
  OBVIOUS
<1>2. pre \in Seq(X) /\ Len(pre) = n - 1 /\ \A k \in 1..(n - 1) : pre[k] = hd[k]
  BY <1>1
<1>3. post \in Seq(X) /\ Len(post) = N - n /\ \A k \in 1..(N - n) : post[k] = hd[n + k]
  BY <1>1, SuffixFacts
<1>4. Spliced(hd, n, new) = IF new = <<>> THEN pre \o <<>> ELSE whole
  BY DEF Spliced
<1>5. new = <<>> => L = 0 /\ n = N
  OBVIOUS
<1>6. pre \o <<>> = pre
  BY <1>2
<1> HIDE DEF N, L, pre, post
<1>9. /\ \A k \in 1..L :
           /\ n - 1 + k \in 1..((n - 1) + (L + (N - n))) /\ n - 1 + k > n - 1
           /\ (n - 1 + k) - (n - 1) = k /\ k \in 1..(L + (N - n))
      /\ \A k \in (n + 1)..N :
           /\ k + (L - 1) \in 1..((n - 1) + (L + (N - n))) /\ k + (L - 1) > n - 1
           /\ (k + (L - 1)) - (n - 1) = L + (k - n) /\ L + (k - n) > L
           /\ L + (k - n) \in 1..(L + (N - n))
           /\ (L + (k - n)) - L = k - n /\ k - n \in 1..(N - n) /\ n + (k - n) = k
      /\ (n - 1) + (L + (N - n)) = N + L - 1
  BY <1>1, SplicePlaces, ZenonT(60)
<1>7. CASE new = <<>>
  <2>1. L = 0 /\ n = N /\ Spliced(hd, n, new) = pre
    BY <1>4, <1>5, <1>6, <1>7
  <2> QED
    BY <1>1, <1>2, <2>1 DEF N, L
<1>8. CASE new # <<>>
  <2>1. /\ rest \in Seq(X) /\ Len(rest) = L + (N - n)
        /\ \A k \in 1..L : rest[k] = new[k]
        /\ \A k \in 1..(L + (N - n)) :
             k > L => (k - L \in 1..(N - n) /\ rest[k] = post[k - L])
    <3>1. post \in Seq(X)
      BY <1>3
    <3>2. /\ rest \in Seq(X) /\ Len(rest) = Len(new) + Len(post)
          /\ \A k \in 1..Len(new) : rest[k] = new[k]
          /\ \A k \in 1..(Len(new) + Len(post)) :
               k > Len(new) => (k - Len(new) \in 1..Len(post) /\ rest[k] = post[k - Len(new)])
      BY <3>1, ConcatAt, ZenonT(40)
    <3> HIDE DEF rest
    <3> QED
      BY <1>3, <3>2 DEF L
  <2> HIDE DEF rest
  <2>2. /\ whole \in Seq(X) /\ Len(whole) = (n - 1) + (L + (N - n))
        /\ \A k \in 1..(n - 1) : whole[k] = pre[k]
        /\ \A k \in 1..((n - 1) + (L + (N - n))) :
             k > n - 1 => (k - (n - 1) \in 1..(L + (N - n)) /\ whole[k] = rest[k - (n - 1)])
    <3>1. pre \in Seq(X) /\ rest \in Seq(X)
      BY <1>2, <2>1
    <3>2. /\ whole \in Seq(X) /\ Len(whole) = Len(pre) + Len(rest)
          /\ \A k \in 1..Len(pre) : whole[k] = pre[k]
          /\ \A k \in 1..(Len(pre) + Len(rest)) :
               k > Len(pre) => (k - Len(pre) \in 1..Len(rest) /\ whole[k] = rest[k - Len(pre)])
      BY <3>1, ConcatAt, ZenonT(40)
    <3> HIDE DEF whole
    <3> QED
      BY <1>2, <2>1, <3>2
  <2> HIDE DEF whole
  <2>3. \A k \in 1..(n - 1) : whole[k] = hd[k]
    BY <1>2, <2>2
  <2>4. ASSUME NEW k \in 1..L PROVE whole[n - 1 + k] = new[k]
    <3>1. /\ n - 1 + k \in 1..((n - 1) + (L + (N - n))) /\ n - 1 + k > n - 1
          /\ (n - 1 + k) - (n - 1) = k
      BY <1>9
    <3>2. whole[n - 1 + k] = rest[k]
      BY <2>2, <3>1
    <3> QED
      BY <2>1, <3>2
  <2>5. ASSUME NEW k \in (n + 1)..N PROVE whole[k + (L - 1)] = hd[k]
    <3>1. /\ k + (L - 1) \in 1..((n - 1) + (L + (N - n))) /\ k + (L - 1) > n - 1
          /\ (k + (L - 1)) - (n - 1) = L + (k - n) /\ L + (k - n) > L
          /\ L + (k - n) \in 1..(L + (N - n))
          /\ (L + (k - n)) - L = k - n /\ k - n \in 1..(N - n) /\ n + (k - n) = k
      BY <1>9
    <3>2. whole[k + (L - 1)] = rest[L + (k - n)]
      BY <2>2, <3>1
    <3>3. rest[L + (k - n)] = post[k - n]
      BY <2>1, <3>1
    <3>4. post[k - n] = hd[k]
      BY <1>3, <3>1
    <3> QED
      BY <3>2, <3>3, <3>4
  <2>6. Spliced(hd, n, new) = whole /\ (n - 1) + (L + (N - n)) = N + L - 1
    BY <1>4, <1>8, <1>9
  <2> QED
    BY <2>2, <2>3, <2>4, <2>5, <2>6 DEF N, L
<1> QED
  BY <1>7, <1>8

\* The list ends in an open sentence: words typed at its end go there.
EndsOpen(list) == list # <<>> /\ list[Len(list)].delim = Open

(* What a list is read back as. *)
LEMMA ReloadExact ==
  ASSUME NEW list \in Seq(Sentence), OpenLast(list)
  PROVE  Parse(Flush(list)) = IF EndsOpen(list) THEN list ELSE Append(list, Blank)
<1> DEFINE read == Parse(Flush(list))
           N    == Len(list)
<1>1. Flush(list) \in Seq(Text)
  BY FlushFacts
<1>2. read = list \/ read = Append(list, Blank)
  BY ReloadFacts
<1>3. OpenLast(read) /\ EndsOpen(read)
  <2>1. PICK done \in Seq(Sentence) : \E s \in Sentence :
          s.delim = Open /\ read = Append(done, s)
    BY <1>1, ParseParts
  <2>2. PICK s \in Sentence : s.delim = Open /\ read = Append(done, s)
    BY <2>1
  <2>3. OpenLast(read)
    BY <1>1, ParseFacts
  <2> HIDE DEF read
  <2>4. read # <<>> /\ read[Len(read)] = s
    BY <2>2
  <2> QED
    BY <2>2, <2>3, <2>4 DEF EndsOpen
<1>4. /\ N \in Nat /\ (list # <<>> => N \in 1..N)
      /\ DOMAIN Append(list, Blank) = 1..(N + 1) /\ Len(Append(list, Blank)) = N + 1
      /\ \A k \in 1..N : Append(list, Blank)[k] = list[k]
  OBVIOUS
<1> HIDE DEF read, N
<1>5. ASSUME EndsOpen(list), read = Append(list, Blank) PROVE FALSE
  <2>1. N \in 1..N /\ list[N].delim = Open
    BY <1>4, <1>5 DEF EndsOpen, N
  <2>2. N \in DOMAIN read /\ read[N].delim = Open /\ N # Len(read)
    BY <1>4, <1>5, <2>1
  <2> QED
    BY <1>3, <2>2 DEF OpenLast
<1> QED
  BY <1>2, <1>3, <1>5 DEF read
LEMMA AppendFacts ==
  ASSUME NEW list \in Seq(Sentence)
  PROVE  /\ Append(list, Blank) \in Seq(Sentence) /\ Len(Append(list, Blank)) = Len(list) + 1
         /\ \A k \in 1..Len(list) : Append(list, Blank)[k] = list[k]
         /\ Append(list, Blank)[Len(list) + 1] = Blank
BY BlankType

(* A reader of the file sees the sentences around the committed one as     *)
(* before, and further on by as many as have come in its place.            *)
LEMMA CommitAround ==
  ASSUME NEW mem \in Seq(Sentence), NEW n \in DOMAIN mem, NEW list \in Seq(Sentence),
         OpenLast(mem), EndsIn(list, mem[n].delim), list = <<>> => n = Len(mem)
  PROVE  LET old == Parse(Flush(mem))
             new == Parse(Flush(Spliced(mem, n, list)))
         IN /\ new \in Seq(Sentence) /\ Sharing!Around(old, new, n)
            /\ n < Len(mem) => Len(new) - Len(old) = Len(list) - 1
<1> DEFINE N   == Len(mem)
           L   == Len(list)
           out == Spliced(mem, n, list)
           old == Parse(Flush(mem))
           new == Parse(Flush(out))
           oldEnd == Append(mem, Blank)
           newEnd == Append(out, Blank)
           a   == EndsOpen(mem)
           b   == EndsOpen(out)
<1>1. /\ out \in Seq(Sentence) /\ Len(out) = N + L - 1
      /\ \A k \in 1..(n - 1) : out[k] = mem[k]
      /\ \A k \in 1..L : out[n - 1 + k] = list[k]
      /\ \A k \in (n + 1)..N : out[k + (L - 1)] = mem[k]
  BY SpliceAt, ZenonT(60)
<1>2. /\ n \in Nat /\ N \in Nat /\ L \in Nat /\ 1 =< n /\ n =< N /\ DOMAIN mem = 1..N
      /\ DOMAIN list = 1..L /\ (list = <<>> <=> L = 0) /\ mem # <<>>
      /\ \A k \in 1..N : mem[k] \in Sentence
  OBVIOUS
<1>3. OpenLast(out)
  BY SpliceOpen
<1>4. /\ old = IF a THEN mem ELSE oldEnd
      /\ new = IF b THEN out ELSE newEnd
  BY <1>1, <1>3, ReloadExact
<1>5. /\ oldEnd \in Seq(Sentence) /\ Len(oldEnd) = N + 1
      /\ \A k \in 1..N : oldEnd[k] = mem[k]
      /\ oldEnd[N + 1] = Blank
  BY AppendFacts
<1>6. /\ newEnd \in Seq(Sentence) /\ Len(newEnd) = Len(out) + 1
      /\ \A k \in 1..Len(out) : newEnd[k] = out[k]
      /\ newEnd[Len(out) + 1] = Blank
  BY <1>1, AppendFacts
<1>7. a <=> mem[N].delim = Open
  BY <1>2 DEF EndsOpen
<1>8. b <=> out # <<>> /\ out[Len(out)].delim = Open
  BY DEF EndsOpen
<1>9. out # <<>> => Len(out) \in 1..Len(out)
  BY <1>1
<1>10. L = 0 => n = N
  BY <1>2
<1>11. ASSUME NEW k \in 1..N, mem[k].delim = Open PROVE k = N
  <2>1. k \in DOMAIN mem
    BY <1>2
  <2> QED
    BY <1>11, <2>1 DEF OpenLast
<1>12. ASSUME NEW k \in 1..L
       PROVE  list[k].delim \in Mark \/ list[k].delim = mem[n].delim
  <2>1. k \in DOMAIN list
    BY <1>2
  <2> QED
    BY <2>1 DEF EndsIn
<1> HIDE DEF N, L, out, old, new, oldEnd, newEnd, a, b
<1>13. n < N => (a <=> b)
  <2> SUFFICES ASSUME n < N PROVE a <=> b
    OBVIOUS
  <2>1. N \in (n + 1)..N /\ N + (L - 1) = N + L - 1 /\ N + L - 1 > 0
    BY <1>2, <1>10
  <2>2. out[Len(out)] = mem[N]
    BY <1>1, <2>1
  <2>3. out # <<>>
    BY <1>1, <2>1
  <2> QED
    BY <1>7, <1>8, <2>2, <2>3
<1>14. ~a => ~b
  <2> SUFFICES ASSUME ~a, b, n = N PROVE FALSE
    BY <1>2, <1>13
  <2>1. CASE L = 0
    <3>1. Len(out) \in 1..(n - 1) /\ Len(out) \in 1..N /\ Len(out) # N
      BY <1>1, <1>2, <1>8, <1>9, <2>1
    <3>2. mem[Len(out)].delim = Open
      BY <1>1, <1>8, <3>1
    <3> QED
      BY <1>11, <3>1, <3>2
  <2>2. CASE L # 0
    <3>1. L \in 1..L /\ n - 1 + L = N + L - 1
      BY <1>2, <2>2
    <3>2. out[Len(out)] = list[L]
      BY <1>1, <3>1
    <3>3. list[L].delim \in Mark \/ list[L].delim = mem[N].delim
      BY <1>12, <3>1
    <3> QED
      BY <1>7, <1>8, <3>2, <3>3, OpenIsNoMark
  <2> QED
    BY <2>1, <2>2
<1>15. CASE a /\ b
  <2>1. old = mem /\ new = out /\ Len(old) = N
    BY <1>4, <1>15 DEF N
  <2>2. Len(new) - Len(old) = L - 1 /\ L - 1 >= -1
    BY <1>1, <1>2, <2>1
  <2>3. /\ \A k \in 1..(n - 1) : new[k] = old[k]
        /\ \A k \in (n + 1)..Len(old) : new[k + (L - 1)] = old[k]
    BY <1>1, <2>1
  <2>4. Sharing!Around(old, new, n)
    BY <2>2, <2>3 DEF Sharing!Around
  <2> QED
    BY <1>1, <2>1, <2>2, <2>4 DEF N, L, old, new, out
<1>16. CASE ~a /\ ~b
  <2>0. old = oldEnd /\ new = newEnd
    BY <1>4, <1>16
  <2>1. /\ Len(new) - Len(old) = L - 1 /\ Len(old) = N + 1 /\ new \in Seq(Sentence)
        /\ \A k \in 1..N : old[k] = mem[k]
        /\ \A k \in 1..(N + L - 1) : new[k] = out[k]
        /\ old[N + 1] = Blank /\ new[(N + 1) + (L - 1)] = Blank
    <3>1. /\ Len(out) + 1 = (N + 1) + (L - 1) /\ (N + 1) + (L - 1) - (N + 1) = L - 1
          /\ Len(out) = N + L - 1
      BY <1>1, <1>2
    <3>2. Len(old) = N + 1 /\ old[N + 1] = Blank /\ \A k \in 1..N : old[k] = mem[k]
      BY <1>5, <2>0
    <3>3. Len(new) = (N + 1) + (L - 1) /\ \A k \in 1..(N + L - 1) : new[k] = out[k]
      BY <1>6, <2>0, <3>1
    <3>4. new[(N + 1) + (L - 1)] = Blank /\ new \in Seq(Sentence)
      BY <1>6, <2>0, <3>1
    <3>5. Len(new) - Len(old) = L - 1
      BY <1>2, <3>2, <3>3
    <3> QED
      BY <3>2, <3>3, <3>4, <3>5, ZenonT(40)
  <2>2. ASSUME NEW k \in 1..(n - 1) PROVE new[k] = old[k]
    <3>1. k \in 1..N /\ k \in 1..(N + L - 1)
      BY <1>2
    <3> QED
      BY <1>1, <2>1, <3>1
  <2>3. ASSUME NEW k \in (n + 1)..(N + 1) PROVE new[k + (L - 1)] = old[k]
    <3>1. CASE k = N + 1
      BY <2>1, <3>1
    <3>2. CASE k # N + 1
      <4>1. k \in (n + 1)..N /\ k \in 1..N /\ k + (L - 1) \in 1..(N + L - 1)
        BY <1>2, <3>2
      <4> QED
        BY <1>1, <2>1, <4>1
    <3> QED
      BY <3>1, <3>2
  <2>4. L - 1 >= -1
    BY <1>2
  <2>5. Sharing!Around(old, new, n)
    BY <2>1, <2>2, <2>3, <2>4 DEF Sharing!Around
  <2> QED
    BY <2>1, <2>5 DEF N, L, old, new, out
<1>17. CASE a /\ ~b
  <2>1. n = N
    BY <1>2, <1>13, <1>17
  <2>0. old = mem /\ Len(old) = N /\ new = newEnd
    BY <1>4, <1>17 DEF N
  <2>2. /\ new \in Seq(Sentence) /\ Len(new) - Len(old) = L
        /\ \A k \in 1..(N + L - 1) : new[k] = out[k]
    <3>1. Len(out) + 1 - N = L /\ Len(out) = N + L - 1
      BY <1>1, <1>2
    <3> QED
      BY <1>6, <2>0, <3>1
  <2>3. ASSUME NEW k \in 1..(n - 1) PROVE new[k] = old[k]
    <3>1. k \in 1..(N + L - 1)
      BY <1>2
    <3> QED
      BY <1>1, <2>0, <2>2, <3>1
  <2>4. (n + 1)..Len(old) = {} /\ L >= -1 /\ ~(n < N)
    BY <1>2, <2>0, <2>1
  <2>5. Sharing!Around(old, new, n)
    BY <2>2, <2>3, <2>4 DEF Sharing!Around
  <2> QED
    BY <2>2, <2>4, <2>5 DEF N, L, old, new, out
<1> QED
  BY <1>14, <1>15, <1>16, <1>17

LEMMA PlaceIs ==
  ASSUME NEW hd, NEW k \in DOMAIN hd, Distinct(hd)
  PROVE  Place(hd, hd[k]) = k
<1>1. hd[k] \in Nodes(hd)
  BY DEF Nodes
<1>2. hd[CHOOSE j \in DOMAIN hd : hd[j] = hd[k]] = hd[k]
      /\ (CHOOSE j \in DOMAIN hd : hd[j] = hd[k]) \in DOMAIN hd
  OBVIOUS
<1> QED
  BY <1>1, <1>2 DEF Place, Distinct

(* A session writes where its node is in the list of its document.         *)
LEMMA WriterAt ==
  ASSUME LInv, EditedSentenceStays, NEW t \in Sock, sessions[t].active,
         NEW i, i = sessions[t].doc
  PROVE  /\ i \in DocSlot /\ docs[i].active /\ docs[i].file \in File
         /\ \E k \in DOMAIN docs[i].head :
              /\ docs[i].head[k] = sessions[t].ptr
              /\ Writers[t] = Sharing!At(docs[i].file, k)
<1>1. i \in DocSlot /\ docs[i].active /\ docs[i].file \in File
  BY DEF LInv, IInv, SessionOnDoc, DocNamed
<1>2. Distinct(docs[i].head)
  BY <1>1 DEF LInv, IInv, HeadsOwned
<1>3. PICK k \in DOMAIN docs[i].head : docs[i].head[k] = sessions[t].ptr
  BY DEF EditedSentenceStays, Nodes
<1>4. Place(docs[i].head, sessions[t].ptr) = k
  BY <1>2, <1>3, PlaceIs
<1>5. Writers[t] = Sharing!At(docs[i].file, k)
  BY <1>4 DEF Writers, Sharing!At
<1> QED
  BY <1>1, <1>3, <1>5

LEMMA WriterSomewhere ==
  ASSUME LInv, EditedSentenceStays, NEW t \in Sock, sessions[t].active,
         NEW i, i = sessions[t].doc
  PROVE  Writers[t] # Sharing!Nowhere /\ Writers[t].file = docs[i].file
<1>1. docs[i].file \in File /\ \E k \in DOMAIN docs[i].head :
        Writers[t] = Sharing!At(docs[i].file, k)
  BY WriterAt
<1>2. PICK k : Writers[t] = Sharing!At(docs[i].file, k)
  BY <1>1
<1>3. Writers[t].file = docs[i].file
  BY <1>2 DEF Sharing!At
<1>4. Sharing!Nowhere.file = NoFile
  BY DEF Sharing!Nowhere, Sharing!At
<1> QED
  BY <1>1, <1>3, <1>4, NullAssumption

LEMMA NoWriter ==
  ASSUME NEW t \in Sock
  PROVE  /\ ~sessions[t].active => Writers[t] = Sharing!Nowhere
         /\ ~sessions'[t].active => Writers'[t] = Sharing!Nowhere
BY DEF Writers, Sharing!Nowhere, Sharing!At

(* The same after a step. *)
LEMMA WriterThen ==
  ASSUME NEW t \in Sock, sessions'[t].active, NEW i, i = sessions'[t].doc,
         Distinct(docs'[i].head), NEW k \in DOMAIN docs'[i].head,
         docs'[i].head[k] = sessions'[t].ptr
  PROVE  Writers'[t] = Sharing!At(docs'[i].file, k)
<1>1. Place(docs'[i].head, docs'[i].head[k]) = k
  <2>1. PICK hd : hd = docs'[i].head
    OBVIOUS
  <2> QED
    BY <2>1, PlaceIs
<1>2. Place(docs'[i].head, sessions'[t].ptr) = k
  BY <1>1
<1> QED
  BY <1>2, ZenonT(40) DEF Writers, Sharing!At, Place, Nodes

(* A session whose document keeps its name and list stays where it is.     *)
LEMMA WriterStays ==
  ASSUME NEW t \in Sock, sessions'[t] = sessions[t],
         sessions[t].active =>
           /\ docs'[sessions[t].doc].file = docs[sessions[t].doc].file
           /\ docs'[sessions[t].doc].head = docs[sessions[t].doc].head
  PROVE  Writers'[t] = Writers[t]
<1>1. CASE ~sessions[t].active
  BY <1>1, NoWriter
<1>2. CASE sessions[t].active
  <2>1. PICK i : i = sessions[t].doc
    OBVIOUS
  <2>2. docs'[i].file = docs[i].file /\ docs'[i].head = docs[i].head
    BY <1>2, <2>1
  <2>3. /\ Writers[t] = [file |-> docs[i].file, at |-> Place(docs[i].head, sessions[t].ptr)]
        /\ Writers'[t] = [file |-> docs'[i].file, at |-> Place(docs'[i].head, sessions'[t].ptr)]
    BY <1>2, <2>1 DEF Writers
  <2> QED
    BY <2>2, <2>3
<1> QED
  BY <1>1, <1>2

LEMMA ReadersStay == UNCHANGED disk => UNCHANGED Readers
BY DEF Readers

LEMMA WritersAre ==
  ASSUME NEW w, \A t \in Sock : Writers'[t] = w[t]
  PROVE  Writers' = [t \in Sock |-> w[t]]
BY DEF Writers

LEMMA AllStay ==
  ASSUME \A t \in Sock : Writers'[t] = Writers[t]
  PROVE  UNCHANGED Writers
<1>1. Writers = [t \in Sock |-> Writers[t]]
  BY DEF Writers
<1>2. Writers' = [t \in Sock |-> Writers[t]]
  BY WritersAre
<1> QED
  BY <1>1, <1>2

(* A WRITE takes a document that is there or a slot that nobody writes in. *)
LEMMA LoadWriters ==
  ASSUME LInv, NEW f \in File, NEW o \in FindOrLoad(f),
         \A i \in DocSlot : i # o.slot => docs'[i] = docs[i],
         docs'[o.slot].file = o.doc.file, docs'[o.slot].head = o.doc.head,
         NEW t \in Sock, sessions'[t] = sessions[t]
  PROVE  Writers'[t] = Writers[t]
<1>1. Loaded(o) \/ NewlyLoaded(o)
  BY FindOrLoadFacts DEF LInv, IInv
<1>2. ASSUME sessions[t].active
      PROVE  /\ docs'[sessions[t].doc].file = docs[sessions[t].doc].file
             /\ docs'[sessions[t].doc].head = docs[sessions[t].doc].head
  <2>1. sessions[t].doc \in DocSlot /\ docs[sessions[t].doc].active
    BY <1>2 DEF LInv, IInv, SessionOnDoc
  <2>2. CASE sessions[t].doc = o.slot
    BY <1>1, <2>1, <2>2 DEF Loaded, NewlyLoaded
  <2>3. CASE sessions[t].doc # o.slot
    BY <2>1, <2>3
  <2> QED
    BY <2>2, <2>3
<1> QED
  BY <1>2, WriterStays

(* Two sessions on the same file are on the same document.                 *)
LEMMA SameDocument ==
  ASSUME LInv, NEW t \in Sock, sessions[t].active, NEW i \in DocSlot, docs[i].active,
         docs[sessions[t].doc].file = docs[i].file
  PROVE  sessions[t].doc = i
<1>1. sessions[t].doc \in DocSlot /\ docs[sessions[t].doc].active
  BY DEF LInv, IInv, SessionOnDoc
<1> QED
  BY <1>1 DEF LInv, IInv, OneCopyPerFile

(* What a reader sees of the document in slot i. *)
LEMMA ReadsBack ==
  ASSUME NEW mem \in Seq(Sentence), OpenLast(mem), NEW f \in File, disk[f] = Flush(mem)
  PROVE  /\ Readers[f] = Parse(Flush(mem))
         /\ \A k \in DOMAIN mem : k \in DOMAIN Readers[f]
<1>1. disk[f] # Missing
  <2>1. Flush(mem) \in Seq(Text)
    BY FlushFacts
  <2> QED
    BY <2>1, ContentAssumption DEF Text
<1>2. Readers[f] = Parse(Flush(mem))
  BY <1>1 DEF Readers
<1>3. Parse(Flush(mem)) = mem \/ Parse(Flush(mem)) = Append(mem, Blank)
  BY ReloadExact
<1>4. \A k \in DOMAIN mem : k \in DOMAIN Append(mem, Blank)
  BY AppendFacts
<1> QED
  BY <1>2, <1>3, <1>4

LEMMA LaterExclude == LInv' => MutualExclusion'
BY LocksExclude, PTL

(* A grant opens a sentence that a reader finds and that nobody writes in. *)
LEMMA GrantOpens ==
  ASSUME LInv, LInv', CInv, CInv', PInv, EditedSentenceStays,
         NEW s \in Sock, NEW f \in File, CGrant(s, f)
  PROVE  \E t \in Sock : Sharing!Open(t)
<1>0. TypeOK /\ IInv /\ IInv' /\ CTypes /\ MemoryIsDisk /\ Sentences
  BY DEF LInv, CInv, IInv, PInv
<1>1. PICK o \in FindOrLoad(f) :
        (\E n \in DOMAIN o.doc.head : Grant(s, f, o, n)) /\ Opens(f, o)
  BY DEF CGrant
<1>2. PICK n \in DOMAIN o.doc.head : Grant(s, f, o, n)
  BY <1>1
<1>3. GrantStep(s, f, o, n) /\ o.slot \in DocSlot /\ o.doc.file = f
      /\ (Loaded(o) \/ NewlyLoaded(o))
  BY <1>0, <1>2, FindOrLoadFacts DEF GrantStep
<1>4. /\ ~sessions[s].active
      /\ \A i \in DocSlot : i # o.slot => docs'[i] = docs[i]
      /\ docs'[o.slot].active /\ docs'[o.slot].file = f
      /\ docs'[o.slot].head = o.doc.head
      /\ \A t \in Sock : sessions'[t] =
           IF t = s THEN [active |-> TRUE, doc |-> o.slot, ptr |-> o.doc.head[n]]
           ELSE sessions[t]
  BY <1>0, <1>3, GrantEffect
<1>5. heap' = o.heap /\ UNCHANGED disk
  BY <1>2 DEF Grant, CGrant
<1>6. (\A i \in DocSlot : Same(i)) \/ NewIn(o.slot, f)
  BY <1>0, <1>1, <1>4, <1>5, OpenEffect
<1>7. PICK d \in DocSlot : d = o.slot
  BY <1>3
<1>8. n \in DOMAIN Mem(d)'
  BY <1>4, <1>7 DEF Mem
<1>9. n \in DOMAIN Readers[f]
  <2>1. CASE \A i \in DocSlot : Same(i)
    <3>1. docs[d].active /\ docs[d].file = f /\ Mem(d)' = Mem(d)
      BY <1>4, <1>7, <2>1 DEF Same
    <3>2. disk[f] = Flush(Mem(d))
      BY <1>0, <3>1 DEF MemoryIsDisk
    <3>3. OpenLast(Mem(d)) /\ Mem(d) \in Seq(Sentence)
      BY <1>0, MemType DEF Sentences, CTypes
    <3> QED
      BY <1>8, <3>1, <3>2, <3>3, ReadsBack
  <2>2. CASE NewIn(o.slot, f)
    <3>1. disk[f] \in Seq(Text) /\ Mem(d)' = Parse(disk[f])
      BY <1>7, <2>2 DEF NewIn
    <3>2. disk[f] # Missing
      BY <3>1, ContentAssumption DEF Text
    <3> QED
      BY <1>8, <3>1, <3>2 DEF Readers
  <2> QED
    BY <1>6, <2>1, <2>2
<1>10. Writers[s] = Sharing!Nowhere
  BY <1>4, NoWriter
<1>11. ASSUME NEW t \in Sock
       PROVE  Writers[t] # Sharing!At(f, n)
  <2>1. CASE ~sessions[t].active
    BY <2>1, NoWriter, NullAssumption DEF Sharing!Nowhere, Sharing!At
  <2>2. CASE sessions[t].active
    <3>1. PICK i : i = sessions[t].doc
      OBVIOUS
    <3>2. i \in DocSlot /\ docs[i].active
      BY <2>2, <3>1, WriterAt
    <3>3. PICK k \in DOMAIN docs[i].head :
            /\ docs[i].head[k] = sessions[t].ptr
            /\ Writers[t] = Sharing!At(docs[i].file, k)
      BY <2>2, <3>1, WriterAt
    <3> SUFFICES ASSUME docs[i].file = f, k = n PROVE FALSE
      BY <3>3 DEF Sharing!At
    <3>4. Loaded(o)
      BY <1>3, <3>2 DEF NewlyLoaded, LoadedAt
    <3>5. i = d
      BY <1>3, <1>0, <1>7, <3>2, <3>4 DEF Loaded, IInv, OneCopyPerFile
    <3>6. docs[i].head = o.doc.head
      BY <1>7, <3>4, <3>5 DEF Loaded
    <3>7. sessions[t].ptr = o.doc.head[n] /\ s # t
      BY <1>4, <2>2, <3>3, <3>6
    <3>8. /\ sessions'[t] = sessions[t]
          /\ sessions'[s] = [active |-> TRUE, doc |-> o.slot, ptr |-> o.doc.head[n]]
      BY <1>4, <3>7
    <3> QED
      BY <2>2, <3>7, <3>8, LaterExclude DEF MutualExclusion
  <2> QED
    BY <2>1, <2>2
<1>12. ASSUME NEW t \in Sock
       PROVE  Writers'[t] = IF t = s THEN Sharing!At(f, n) ELSE Writers[t]
  <2>1. CASE t # s
    BY <1>3, <1>4, <2>1, LoadWriters
  <2>2. CASE t = s
    <3>1. sessions'[s].active /\ sessions'[s].doc = d /\ sessions'[s].ptr = o.doc.head[n]
      BY <1>4, <1>7
    <3>2. Distinct(docs'[d].head)
      BY <1>0 DEF IInv, HeadsOwned
    <3>3. n \in DOMAIN docs'[d].head /\ docs'[d].head[n] = sessions'[s].ptr
          /\ docs'[d].file = f
      BY <1>4, <1>7, <3>1
    <3> QED
      BY <2>2, <3>1, <3>2, <3>3, WriterThen
  <2> QED
    BY <2>1, <2>2
<1>13. Writers' = [Writers EXCEPT ![s] = Sharing!At(f, n)]
  <2>1. Writers' = [t \in Sock |-> Writers'[t]] /\ DOMAIN Writers = Sock
    BY DEF Writers
  <2> HIDE DEF Writers
  <2> QED
    BY <1>12, <2>1
<1>14. UNCHANGED Readers
  BY <1>5, ReadersStay
<1> QED
  BY <1>9, <1>10, <1>11, <1>13, <1>14 DEF Sharing!Open

(* A session that ends without a commit leaves the others where they are.  *)
LEMMA EndLeaves ==
  ASSUME LInv, EditedSentenceStays, NEW s \in Sock,
         EndStep(s, docs[sessions[s].doc].head, heap), UNCHANGED disk
  PROVE  \E t \in Sock : Sharing!Leave(t)
<1>1. PICK d : d = sessions[s].doc
  OBVIOUS
<1>2. /\ d \in DocSlot /\ s \in Editors(d)
      /\ \A i \in DocSlot : i # d => docs'[i] = docs[i]
      /\ \A t \in Sock : sessions'[t] = IF t = s THEN NoSession ELSE sessions[t]
      /\ \/ docs'[d].file = docs[d].file /\ docs'[d].head = docs[d].head
         \/ Editors(d) = {s}
  BY <1>1, EndEffect DEF LInv
<1>3. Writers[s] # Sharing!Nowhere
  <2>1. sessions[s].active
    BY <1>2 DEF Editors
  <2> QED
    BY <1>1, <2>1, WriterSomewhere
<1>4. ASSUME NEW t \in Sock
      PROVE  Writers'[t] = IF t = s THEN Sharing!Nowhere ELSE Writers[t]
  <2>1. CASE t = s
    BY <1>2, <2>1, NoWriter DEF NoSession
  <2>2. CASE t # s
    <3>1. sessions'[t] = sessions[t]
      BY <1>2, <2>2
    <3>2. ASSUME sessions[t].active
          PROVE  /\ docs'[sessions[t].doc].file = docs[sessions[t].doc].file
                 /\ docs'[sessions[t].doc].head = docs[sessions[t].doc].head
      <4>1. sessions[t].doc \in DocSlot /\ t \in Editors(sessions[t].doc)
        BY <3>2 DEF LInv, IInv, SessionOnDoc, Editors
      <4> QED
        BY <1>2, <2>2, <4>1
    <3>3. Writers'[t] = Writers[t]
      BY <3>1, <3>2, WriterStays
    <3> QED
      BY <2>2, <3>3
  <2> QED
    BY <2>1, <2>2
<1>5. Writers' = [Writers EXCEPT ![s] = Sharing!Nowhere]
  <2>1. Writers' = [t \in Sock |-> Writers'[t]] /\ DOMAIN Writers = Sock
    BY DEF Writers
  <2> HIDE DEF Writers
  <2> QED
    BY <1>4, <2>1
<1>6. UNCHANGED Readers
  BY ReadersStay
<1> QED
  BY <1>3, <1>5, <1>6 DEF Sharing!Leave

(* A stop of the server takes every session away. *)
LEMMA RestartResets ==
  ASSUME Restart
  PROVE  Writers' = [t \in Sock |-> Sharing!Nowhere]
<1>1. \A t \in Sock : Writers'[t] = Sharing!Nowhere
  BY NoWriter DEF Restart, NoSession
<1>2. Writers' = [t \in Sock |-> Writers'[t]]
  BY DEF Writers
<1> HIDE DEF Writers
<1> QED
  BY <1>1, <1>2

(* A save to one file changes what a reader finds in that one only.        *)
LEMMA SaveRewrites ==
  ASSUME CTypes, NEW f \in File, NEW new \in {Missing} \cup Seq(Text),
         disk' = [disk EXCEPT ![f] = new]
  PROVE  /\ Sharing!Rewritten(f)
         /\ Readers'[f] = IF new = Missing THEN <<>> ELSE Parse(new)
<1>1. disk' = [g \in File |-> IF g = f THEN new ELSE disk[g]]
  BY DEF CTypes
<1>2. Readers'[f] = IF new = Missing THEN <<>> ELSE Parse(new)
  BY <1>1 DEF Readers
<1>3. \A g \in File : g # f => Readers'[g] = Readers[g]
  BY <1>1 DEF Readers
<1>4. Readers' = [Readers EXCEPT ![f] = Readers'[f]]
  <2>1. /\ Readers' = [g \in File |-> Readers'[g]]
        /\ Readers = [g \in File |-> Readers[g]]
    BY DEF Readers
  <2> HIDE DEF Readers
  <2> QED
    BY <1>3, <2>1
<1>5. Readers'[f] \in Seq(Sentence)
  BY <1>2, ParseFacts
<1> QED
  BY <1>2, <1>4, <1>5 DEF Sharing!Rewritten

(* The server ends while it saves: the file may hold anything.             *)
LEMMA DeathResets ==
  ASSUME LInv, CTypes, EditedSentenceStays, NEW s \in Sock, NEW n, NEW list,
         Targets(s, n, list), DiesInSave(s, n, list)
  PROVE  Sharing!Reset
<1>1. PICK d : d = sessions[s].doc
  OBVIOUS
<1>2. PICK p : p = sessions[s].ptr
  OBVIOUS
<1>3. /\ d \in DocSlot /\ docs[d].active /\ docs[d].file \in File /\ sessions[s].active
      /\ Flush(Merged(s, n, list)) \in Seq(Text)
  BY <1>1, <1>2, TargetFacts DEF LInv, Targets
<1>4. PICK part \in {Missing} \cup
          {SubSeq(Flush(Merged(s, n, list)), 1, k) : k \in 0..Len(Flush(Merged(s, n, list)))} :
        disk' = [disk EXCEPT ![docs[d].file] = part]
  BY <1>1 DEF DiesInSave
<1>5. part \in {Missing} \cup Seq(Text)
  <2>1. PICK whole \in Seq(Text) : whole = Flush(Merged(s, n, list))
    BY <1>3
  <2>2. \A k \in 0..Len(whole) : SubSeq(whole, 1, k) \in Seq(Text)
    OBVIOUS
  <2> QED
    BY <1>4, <2>1, <2>2
<1>6. Sharing!Rewritten(docs[d].file)
  BY <1>3, <1>4, <1>5, SaveRewrites
<1>7. Writers[s] # Sharing!Nowhere /\ Writers[s].file = docs[d].file
  BY <1>1, <1>3, WriterSomewhere
<1>8. Writers' = [t \in Sock |-> Sharing!Nowhere]
  BY RestartResets DEF DiesInSave
<1> QED
  BY <1>6, <1>7, <1>8 DEF Sharing!Reset

\* out has L nodes in the place of the n-th of hd.
Placed(out, hd, n, L) ==
  /\ out \in Seq(Addr) /\ Len(out) = Len(hd) + L - 1
  /\ \A k \in 1..(n - 1) : out[k] = hd[k]
  /\ \A k \in (n + 1)..Len(hd) : out[k + (L - 1)] = hd[k]

LEMMA NodesAt ==
  ASSUME NEW hd \in Seq(Addr), NEW n \in DOMAIN hd, NEW new \in Seq(Addr),
         new = <<>> => n = Len(hd), NEW L, Len(new) = L
  PROVE  Placed(Spliced(hd, n, new), hd, n, L)
<1> DEFINE out == Spliced(hd, n, new)
<1>1. /\ out \in Seq(Addr) /\ Len(out) = Len(hd) + Len(new) - 1
      /\ \A k \in 1..(n - 1) : out[k] = hd[k]
      /\ \A k \in 1..Len(new) : out[n - 1 + k] = new[k]
      /\ \A k \in (n + 1)..Len(hd) : out[k + (Len(new) - 1)] = hd[k]
  BY SpliceAt, ZenonT(60)
<1> HIDE DEF out
<1> QED
  BY <1>1 DEF out, Placed

LEMMA MovedPlaces ==
  ASSUME NEW n \in Nat, NEW N \in Nat, NEW L \in Nat, NEW k \in Nat,
         1 =< n, n =< N, 1 =< k, k =< N, L = 0 => n = N
  PROVE  /\ k < n => k \in 1..(n - 1) /\ k \in 1..(N + L - 1) /\ ~(k > n)
         /\ k > n => /\ k \in (n + 1)..N /\ k + (L - 1) \in 1..(N + L - 1) /\ n < N
OBVIOUS

(* A commit puts its sentences in the place of the one that was opened,    *)
(* and the sessions behind it in the same file move along.                 *)
LEMMA CommitShares ==
  ASSUME LInv, LInv', CInv, PInv, EditedSentenceStays, EditedSentenceStays',
         NEW s \in Sock, NEW n, NEW list, Targets(s, n, list), CommitSaved(s, n, list)
  PROVE  \E t \in Sock : Sharing!Commit(t)
<1>0. IInv /\ IInv' /\ CTypes /\ Sentences /\ TidyMemory /\ PlainWorks /\ MemoryIsDisk
  BY DEF LInv, CInv, PInv
<1>1. PICK d : d = sessions[s].doc
  OBVIOUS
<1>2. PICK p : p = sessions[s].ptr
  OBVIOUS
<1>3. /\ d \in DocSlot /\ docs[d].active /\ docs[d].file \in File /\ text[p] \in Sentence
      /\ Mem(d) \in Seq(Sentence) /\ n \in DOMAIN Mem(d) /\ Mem(d)[n] = text[p]
      /\ list \in Seq(Sentence) /\ EndsIn(list, text[p].delim)
      /\ Merged(s, n, list) = Spliced(Mem(d), n, list)
      /\ Flush(Merged(s, n, list)) \in Seq(Text)
  BY <1>0, <1>1, <1>2, TargetFacts DEF Merged
<1>4. /\ sessions[s].active /\ docs[d].head[n] = p
      /\ Len(Mem(d)) = Len(docs[d].head) /\ DOMAIN Mem(d) = DOMAIN docs[d].head
      /\ docs[d].head \in Seq(Addr) /\ Distinct(docs[d].head)
  BY <1>0, <1>1, <1>2, <1>3, MemType DEF Targets, CTypes, IInv, TypeOK, Doc, HeadsOwned
<1>5. list = <<>> => n = Len(Mem(d))
  BY <1>0, <1>1, PlainCommit
<1>6. OpenLast(Mem(d)) /\ disk[docs[d].file] = Flush(Mem(d))
  BY <1>0, <1>3 DEF Sentences, MemoryIsDisk
<1> DEFINE f   == docs[d].file
           old == Parse(Flush(Mem(d)))
           new == Parse(Flush(Merged(s, n, list)))
<1>7. /\ Sharing!Around(old, new, n)
      /\ n < Len(Mem(d)) => Len(new) - Len(old) = Len(list) - 1
  BY <1>3, <1>5, <1>6, CommitAround
<1>8. Readers[f] = old
  BY <1>3, <1>6, ReadsBack
<1>9. Readers'[f] = new /\ Sharing!Rewritten(f)
  <2>1. disk' = [disk EXCEPT ![f] = Flush(Merged(s, n, list))]
    BY <1>1 DEF CommitSaved
  <2>2. Flush(Merged(s, n, list)) # Missing
    BY <1>3, ContentAssumption DEF Text
  <2> QED
    BY <1>0, <1>3, <2>1, <2>2, SaveRewrites
<1> HIDE DEF old, new
<1>10. PICK q \in FreshLists(0, MaxNew) : Len(q) = Len(list) /\ EtirwSplice(s, n, q)
  BY DEF CommitSaved, Applied
<1>11. q \in Seq(Addr) /\ (q = <<>> => n = Len(docs[d].head)) /\ n \in DOMAIN docs[d].head
  <2>1. q \in Seq(Addr)
    BY BoundAssumption, FreshListsType
  <2>2. q = <<>> => list = <<>>
    BY <1>3, <1>10, <2>1
  <2> QED
    BY <1>3, <1>4, <1>5, <2>1, <2>2
<1> DEFINE after == Spliced(docs[d].head, n, q)
<1>12. Placed(after, docs[d].head, n, Len(list))
  BY <1>4, <1>10, <1>11, NodesAt
<1> HIDE DEF after
<1>13. EndStep(s, after, Release(Claim(heap, q, d), {p}))
  BY <1>0, <1>1, <1>2, <1>10, <1>11, SpliceEnds DEF after
<1>14. /\ \A i \in DocSlot : i # d => docs'[i] = docs[i]
       /\ \A t \in Sock : sessions'[t] = IF t = s THEN NoSession ELSE sessions[t]
       /\ \/ docs'[d].file = f /\ docs'[d].head = after
          \/ Editors(d) = {s}
  BY <1>0, <1>1, <1>13, EndEffect
<1>15. Writers[s] = Sharing!At(f, n)
  <2>1. PICK k \in DOMAIN docs[d].head : docs[d].head[k] = p /\ Writers[s] = Sharing!At(f, k)
    BY <1>1, <1>2, <1>4, WriterAt
  <2>2. k = n
    BY <1>4, <1>11, <2>1 DEF Distinct
  <2> QED
    BY <2>1, <2>2
<1> DEFINE moved(t) ==
             IF t = s THEN Sharing!Nowhere
             ELSE IF Writers[t].file = f /\ Writers[t].at > n
                  THEN Sharing!At(f, Writers[t].at + (Len(new) - Len(old)))
                  ELSE Writers[t]
<1>16. ASSUME NEW t \in Sock PROVE Writers'[t] = moved(t)
  <2>1. CASE t = s
    BY <1>14, <2>1, NoWriter DEF NoSession
  <2>2. CASE t # s /\ ~sessions[t].active
    <3>1. Writers[t] = Sharing!Nowhere /\ Writers'[t] = Sharing!Nowhere
      BY <1>14, <2>2, NoWriter
    <3>2. Writers[t].file # f
      BY <1>3, <3>1, NullAssumption DEF Sharing!Nowhere, Sharing!At
    <3> QED
      BY <2>2, <3>1, <3>2
  <2>3. CASE t # s /\ sessions[t].active
    <3>0. sessions'[t] = sessions[t]
      BY <1>14, <2>3
    <3>1. PICK i : i = sessions[t].doc
      OBVIOUS
    <3>2. i \in DocSlot /\ docs[i].active /\ Writers[t].file = docs[i].file
      BY <2>3, <3>1, WriterAt, WriterSomewhere
    <3>3. CASE i # d
      <4>1. docs'[i] = docs[i]
        BY <1>14, <3>2, <3>3
      <4>2. Writers'[t] = Writers[t]
        BY <3>0, <3>1, <4>1, WriterStays
      <4>3. docs[i].file # f
        BY <1>0, <1>3, <3>2, <3>3 DEF IInv, OneCopyPerFile
      <4> QED
        BY <2>3, <3>2, <4>2, <4>3
    <3>4. CASE i = d
      <4>1. docs'[d].file = f /\ docs'[d].head = after
        BY <1>14, <2>3, <3>1, <3>4 DEF Editors
      <4>2. PICK k \in DOMAIN docs[d].head :
              docs[d].head[k] = sessions[t].ptr /\ Writers[t] = Sharing!At(f, k)
        <5>1. \E k \in DOMAIN docs[i].head :
                docs[i].head[k] = sessions[t].ptr /\ Writers[t] = Sharing!At(docs[i].file, k)
          BY <2>3, <3>1, WriterAt
        <5> QED
          BY <3>4, <5>1
      <4>3. Distinct(after)
        BY <1>0, <1>3, <4>1 DEF IInv, HeadsOwned
      <4>4. Writers[t].file = f /\ Writers[t].at = k
        BY <4>2 DEF Sharing!At
      <4>5. k # n
        BY <1>1, <1>2, <1>4, <2>3, <4>2, LocksExclude DEF MutualExclusion
      <4>6. /\ n \in Nat /\ k \in Nat /\ Len(docs[d].head) \in Nat /\ Len(list) \in Nat
            /\ 1 =< n /\ n =< Len(docs[d].head) /\ 1 =< k /\ k =< Len(docs[d].head)
            /\ (Len(list) = 0 => n = Len(docs[d].head)) /\ DOMAIN after = 1..Len(after)
        BY <1>3, <1>4, <1>5, <1>11, <1>12, <4>2 DEF Placed
      <4>w. ASSUME NEW j \in DOMAIN after, after[j] = sessions'[t].ptr
            PROVE  Writers'[t] = Sharing!At(f, j)
        <5>1. sessions'[t].active /\ d = sessions'[t].doc
          BY <2>3, <3>0, <3>1, <3>4
        <5>2. /\ Distinct(docs'[d].head) /\ j \in DOMAIN docs'[d].head
              /\ docs'[d].head[j] = sessions'[t].ptr
          BY <4>1, <4>3, <4>w
        <5>3. Writers'[t] = Sharing!At(docs'[d].file, j)
          BY <5>1, <5>2, WriterThen
        <5> QED
          BY <4>1, <5>3
      <4>p. /\ k < n => k \in 1..(n - 1) /\ k \in DOMAIN after /\ ~(k > n)
            /\ k > n => /\ k \in (n + 1)..Len(docs[d].head)
                        /\ k + (Len(list) - 1) \in DOMAIN after /\ n < Len(docs[d].head)
        BY <1>12, <4>6, MovedPlaces, SMTT(30) DEF Placed
      <4>7. CASE k < n
        <5>1. k \in 1..(n - 1) /\ k \in DOMAIN after /\ ~(k > n)
          BY <4>p, <4>7
        <5>2. after[k] = sessions'[t].ptr
          BY <1>12, <3>0, <4>2, <5>1 DEF Placed
        <5>3. Writers'[t] = Sharing!At(f, k)
          BY <4>w, <5>1, <5>2
        <5> QED
          BY <2>3, <4>2, <4>4, <5>1, <5>3
      <4>8. CASE k > n
        <5>1. /\ k \in (n + 1)..Len(docs[d].head) /\ k + (Len(list) - 1) \in DOMAIN after
              /\ n < Len(Mem(d))
          BY <1>4, <4>p, <4>8
        <5>2. after[k + (Len(list) - 1)] = sessions'[t].ptr
          BY <1>12, <3>0, <4>2, <5>1 DEF Placed
        <5>3. Writers'[t] = Sharing!At(f, k + (Len(list) - 1))
          BY <4>w, <5>1, <5>2
        <5>4. Len(new) - Len(old) = Len(list) - 1
          BY <1>7, <5>1
        <5> QED
          BY <2>3, <4>4, <4>8, <5>3, <5>4
      <4> QED
        BY <4>5, <4>6, <4>7, <4>8
    <3> QED
      BY <3>3, <3>4
  <2> QED
    BY <2>1, <2>2, <2>3
<1>17. Writers' = [t \in Sock |-> moved(t)]
  <2>1. Writers' = [t \in Sock |-> Writers'[t]]
    BY DEF Writers
  <2> HIDE DEF Writers, moved
  <2> QED
    BY <1>16, <2>1
<1>18. Writers[s].file = f /\ Writers[s].at = n /\ Writers[s] # Sharing!Nowhere
  BY <1>1, <1>4, <1>15, WriterSomewhere DEF Sharing!At
<1> QED
  BY <1>7, <1>8, <1>9, <1>17, <1>18 DEF Sharing!Commit

(* Every step of the server is a step of SharedDocument or changes nothing *)
(* that its users see. *)
LEMMA SharedStep ==
  ASSUME LInv, LInv', CInv, CInv', PInv, EditedSentenceStays, EditedSentenceStays', CNext
  PROVE  [Sharing!Next]_<<Readers, Writers>>
<1> DEFINE Good == [Sharing!Next]_<<Readers, Writers>>
<1>0. IInv /\ TypeOK /\ CTypes /\ TidyMemory /\ PlainWorks
  BY DEF LInv, IInv, CInv, PInv
<1>o. (\E t \in Sock : Sharing!Open(t) \/ Sharing!Leave(t) \/ Sharing!Commit(t)) => Good
  BY DEF Sharing!Next
<1>r. Sharing!Reset => Good
  BY DEF Sharing!Next
<1>s. UNCHANGED <<Readers, Writers>> => Good
  OBVIOUS
<1> HIDE DEF Good
<1>1. ASSUME UNCHANGED <<docs, sessions, disk>> PROVE Good
  <2>1. UNCHANGED Readers
    BY <1>1, ReadersStay
  <2>2. UNCHANGED Writers
    BY <1>1, WriterStays, AllStay
  <2> QED
    BY <1>s, <2>1, <2>2
<1>2. ASSUME NEW s \in Sock, NEW f \in File,
             CInvalidSentence(s, f) \/ CLockConflict(s, f)
      PROVE  Good
  <2>1. PICK o \in FindOrLoad(f) : InvalidSentence(s, o) \/ LockConflict(s, f, o)
    BY <1>2 DEF CInvalidSentence, CLockConflict
  <2>2. /\ o.slot \in DocSlot /\ docs' = [docs EXCEPT ![o.slot] = o.doc] /\ sessions' = sessions
    BY <1>0, <2>1, FindOrLoadFacts DEF InvalidSentence, LockConflict
  <2>3. /\ \A i \in DocSlot : i # o.slot => docs'[i] = docs[i]
        /\ docs'[o.slot].head = o.doc.head /\ docs'[o.slot].file = o.doc.file
    BY <1>0, <2>2 DEF TypeOK
  <2>4. \A t \in Sock : Writers'[t] = Writers[t]
    BY <2>2, <2>3, LoadWriters
  <2>5. UNCHANGED Readers
    BY <1>2, ReadersStay DEF CInvalidSentence, CLockConflict
  <2> QED
    BY <1>s, <2>4, <2>5, AllStay
<1>3. ASSUME NEW s \in Sock, NEW f \in File, CGrant(s, f) PROVE Good
  BY <1>o, <1>3, GrantOpens
<1>4. ASSUME NEW s \in Sock, EndSession(s, docs[sessions[s].doc].head, heap),
             sessions[s].active, UNCHANGED disk
      PROVE  Good
  <2>1. HasSession(conn[s])
    BY <1>0, <1>4 DEF IInv, SessionNeedsConnection, HasSession
  <2>2. EndStep(s, docs[sessions[s].doc].head, heap)
    BY <1>0, <1>4, <2>1, PlainEnds
  <2> QED
    BY <1>o, <1>4, <2>2, EndLeaves
<1>5. ASSUME NEW s \in Sock, CDisconnect(s) PROVE Good
  BY <1>1, <1>4, <1>5 DEF CDisconnect, Disconnect
<1>6. ASSUME NEW s \in Sock, CEtirw(s) PROVE Good
  <2>1. CASE EtirwNotFound(s) /\ UNCHANGED cvars
    BY <1>1, <2>1 DEF EtirwNotFound, cvars
  <2>2. CASE CApplyFails(s)
    BY <1>4, <2>2 DEF CApplyFails, EtirwApplyFails
  <2>3. ASSUME NEW n \in DOMAIN docs[sessions[s].doc].head, NEW list,
               sessions[s].active, EditsApply(text[sessions[s].ptr].words, Queued(s)),
               list = ApplyEdits(text[sessions[s].ptr], Queued(s)),
               \/ CommitRejected(s, n, list) \/ CommitSaved(s, n, list)
               \/ DiesInSave(s, n, list)
        PROVE  Good
    <3>1. docs[sessions[s].doc].head[n] = sessions[s].ptr
      BY <2>3, ZenonT(40) DEF CommitRejected, CommitSaved, DiesInSave, Applied, EtirwSplice
    <3>2. Targets(s, n, list)
      BY <2>3, <3>1 DEF Targets
    <3>3. CASE CommitRejected(s, n, list)
      BY <1>0, <3>2, <3>3, PlainCommit DEF CommitRejected
    <3>4. CASE CommitSaved(s, n, list)
      BY <1>o, <3>2, <3>4, CommitShares
    <3>5. CASE DiesInSave(s, n, list)
      BY <1>0, <1>r, <3>2, <3>5, DeathResets
    <3> QED
      BY <2>3, <3>3, <3>4, <3>5
  <2> QED
    BY <1>6, <2>1, <2>2, <2>3 DEF CEtirw
<1>7. ASSUME NEW s \in Sock, NEW f \in File, CLoadFails(s, f) PROVE Good
  BY <1>1, <1>7 DEF CLoadFails, LoadFails, cvars
<1>8. ASSUME NEW s \in Sock, NEW at, NEW content, WriteUpdate(s, at, content) PROVE Good
  BY <1>1, <1>8 DEF WriteUpdate, vars
<1>9. ASSUME NEW s \in Sock, Connect(s) \/ SendWrite(s) \/ SendEtirw(s) \/ Hangup(s),
             UNCHANGED cvars
      PROVE  Good
  BY <1>1, <1>9 DEF Connect, SendWrite, SendEtirw, Hangup, cvars
<1>10. ASSUME CRestart PROVE Good
  <2>1. UNCHANGED Readers
    BY <1>10, ReadersStay DEF CRestart
  <2>2. Writers' = [t \in Sock |-> Sharing!Nowhere]
    BY <1>10, RestartResets DEF CRestart
  <2>3. Sharing!Reset
    BY <2>1, <2>2 DEF Sharing!Reset
  <2> QED
    BY <1>r, <2>3
<1>11. ASSUME NEW s \in Sock,
             \/ (Connect(s) \/ SendWrite(s) \/ SendEtirw(s) \/ Hangup(s)) /\ UNCHANGED cvars
             \/ \E f \in File : CLoadFails(s, f) \/ CInvalidSentence(s, f)
                                  \/ CLockConflict(s, f) \/ CGrant(s, f)
             \/ \E at \in 0..MaxAt, content \in Inputs : WriteUpdate(s, at, content)
             \/ CEtirw(s)
             \/ CDisconnect(s)
       PROVE  Good
  BY <1>2, <1>3, <1>5, <1>6, <1>7, <1>8, <1>9, <1>11
<1>12. Good
  BY <1>10, <1>11 DEF CNext
<1> QED
  BY <1>12 DEF Good

LEMMA SharedInit == CInit => Sharing!Init
<1> SUFFICES ASSUME CInit PROVE Sharing!Init
  OBVIOUS
<1>1. \A f \in File : disk[f] \in Seq(Text)
  BY ContentAssumption DEF CInit, Text
<1>2. \A f \in File : Readers[f] \in Seq(Sentence)
  BY <1>1, ParseFacts DEF Readers
<1>3. Readers \in [File -> Seq(Sentence)]
  <2>1. Readers = [f \in File |-> Readers[f]]
    BY DEF Readers
  <2> HIDE DEF Readers
  <2> QED
    BY <1>2, <2>1
<1>4. \A t \in Sock : Writers[t] = Sharing!Nowhere
  BY NoWriter DEF CInit, Init, NoSession
<1>5. Writers = [t \in Sock |-> Sharing!Nowhere]
  <2>1. Writers = [t \in Sock |-> Writers[t]]
    BY DEF Writers
  <2> HIDE DEF Writers
  <2> QED
    BY <1>4, <2>1
<1> QED
  BY <1>3, <1>5 DEF Sharing!Init

(* With a lock slot for every writer and plain typing, documents in        *)
(* memory, sentence pointers, locks, queued edits, merges and saves do     *)
(* together what SharedDocument promises: what a reader finds changes only *)
(* in the sentence that the committing user had opened, and every other    *)
(* user stays on the sentence they had opened.                             *)
THEOREM SharedDocumentRefined ==
  PlainTyping /\ PlainFiles /\ EnoughLocks => (CSpec => ImplementsSharedDocument)
<1> SUFFICES ASSUME PlainTyping, PlainFiles, EnoughLocks
             PROVE  CSpec => ImplementsSharedDocument
  OBVIOUS
<1>1. CSpec => []LInv
  BY ContentRefines, LockInvariant
<1>2. CSpec => []CInv
  BY ContentInvariant
<1>3. CSpec => []PInv
  BY PlainInvariant
<1>4. CSpec => []EditedSentenceStays
  BY SentenceStays
<1>5. /\ LInv /\ CInv /\ PInv /\ EditedSentenceStays /\ LInv' /\ CInv' /\ EditedSentenceStays'
      /\ [CNext]_allVars
      => [Sharing!Next]_<<Readers, Writers>>
  <2> SUFFICES ASSUME LInv, CInv, PInv, EditedSentenceStays, LInv', CInv',
                      EditedSentenceStays', [CNext]_allVars
               PROVE  [Sharing!Next]_<<Readers, Writers>>
    OBVIOUS
  <2>1. CASE CNext
    BY <2>1, SharedStep
  <2>2. CASE UNCHANGED allVars
    <3>1. UNCHANGED <<docs, sessions, disk>>
      BY <2>2 DEF allVars, vars, cvars
    <3>2. UNCHANGED Writers
      BY <3>1, WriterStays, AllStay
    <3> QED
      BY <3>1, <3>2, ReadersStay
  <2> QED
    BY <2>1, <2>2
<1> QED
  BY <1>1, <1>2, <1>3, <1>4, <1>5, SharedInit, PTL
     DEF CSpec, ImplementsSharedDocument, Sharing!Spec
=============================================================================
