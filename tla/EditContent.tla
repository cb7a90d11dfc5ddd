---------------------------- MODULE EditContent ----------------------------
(***************************************************************************)
(* EditSessions with the words put back: the text of every sentence node,  *)
(* the edits a session has queued and the files on disk.  Each action is   *)
(* an action of EditSessions, joined with what the handler does to these.  *)
(***************************************************************************)
EXTENDS EditSessions, Document

CONSTANTS
  Inputs,   \* the contents users type in updates, each a sequence of tokens
  Files,    \* what a file may hold when the server starts
  Missing,  \* stands for the contents of a file that does not exist
  MaxEdits, \* bound: updates recorded in one session
  MaxAt,    \* bound: word index of an update
  MidSave   \* TRUE: the server may also end between the steps of a save

ASSUME ContentAssumption ==
  /\ Inputs \subseteq Seq(Token) /\ Files \subseteq Seq(Word \cup Mark)
  /\ Addr \subseteq Nat \ {0} /\ MaxEdits \in Nat /\ MaxAt \in Nat /\ MidSave \in BOOLEAN
  /\ Missing \notin Seq(Word \cup Mark)

VARIABLES
  text,      \* sentence node -> its words and delimiter
  work,      \* session -> original_word_count, edit_ops, virtual_word_count
  disk,      \* file -> what it holds, as words and marks
  bak,       \* file -> what its .bak holds
  typed,     \* history: the inputs users have typed so far (each once)
  committed  \* history: the words of each file that a commit was accepted for

cvars   == <<text, work, disk, bak, typed, committed>>
allVars == <<vars, cvars>>

NoWorkMutant == [orig |-> -1, edits |-> <<>>, virtual |-> 0]  \* no count yet

NoWork == [orig |-> 0, edits |-> <<>>, virtual |-> 0]
Work   == [orig : Nat, edits : Seq([at : Int, content : Seq(Token)]), virtual : Nat]

\* The document in slot i, sentence by sentence.
Mem(i) == [k \in DOMAIN docs[i].head |-> text[docs[i].head[k]]]

WordsIn(file) == {w \in Word : \E k \in DOMAIN file : file[k] = w}

\* malloc hands out the lowest free addresses.  EditSessions lets it choose
\* any: here only the text matters, not where it lives.
Lowest(q) ==
  /\ \A j, k \in DOMAIN q : j < k => q[j] < q[k]
  /\ \A a \in Nodes(q), b \in FreeAddr \ Nodes(q) : a < b

\* The nodes q get the sentences list; a node that is free has no text.
Write(q, list) ==
  text' = [a \in Addr |->
             IF heap'[a] = 0 THEN Blank
             ELSE IF a \in Nodes(q) THEN list[CHOOSE k \in DOMAIN q : q[k] = a]
             ELSE text[a]]

-----------------------------------------------------------------------------
(* handle_client_write *)

\* What find_or_load_active_doc found in memory or read from disk.
Opens(f, o) ==
  LET list == Parse(disk[f])
  IN IF docs[o.slot].active
     THEN UNCHANGED text
     ELSE /\ disk[f] # Missing
          /\ Len(o.doc.head) = Len(list) /\ Lowest(o.doc.head)
          /\ Write(o.doc.head, list)

CLoadFails(s, f) ==
  /\ FreeDocs = {} \/ disk[f] = Missing
  /\ LoadFails(s, f)
  /\ UNCHANGED cvars

CInvalidSentence(s, f) ==
  /\ \E o \in FindOrLoad(f) : InvalidSentence(s, o) /\ Opens(f, o)
  /\ UNCHANGED <<work, disk, bak, typed, committed>>

CLockConflict(s, f) ==
  /\ \E o \in FindOrLoad(f) : LockConflict(s, f, o) /\ Opens(f, o)
  /\ UNCHANGED <<work, disk, bak, typed, committed>>

\* Counts the words before the document is loaded.
CGrantMutant(s, f) ==
  /\ \E o \in FindOrLoad(f) : \E n \in DOMAIN o.doc.head :
       /\ Grant(s, f, o, n)
       /\ Opens(f, o)
       /\ work' = [work EXCEPT ![s] =
                     [NoWork EXCEPT !.orig = Len(text[o.doc.head[n]].words)]]
  /\ UNCHANGED <<disk, bak, typed, committed>>

CGrant(s, f) ==
  /\ \E o \in FindOrLoad(f) : \E n \in DOMAIN o.doc.head :
       /\ Grant(s, f, o, n)
       /\ Opens(f, o)
       /\ work' = [work EXCEPT ![s] =
                     [NoWork EXCEPT !.orig = Len(text'[o.doc.head[n]].words)]]
  /\ UNCHANGED <<disk, bak, typed, committed>>

-----------------------------------------------------------------------------
(* handle_write_update *)

\* One index too many is accepted ...
WriteUpdateMutant(s, at, content) ==
  LET p == sessions[s].ptr
  IN /\ conn[s] = "editing" /\ s \notin gone
     /\ heap[p] # 0 => at =< Len(text[p].words) + work[s].virtual + 1
     /\ Len(work[s].edits) < MaxEdits /\ content \notin typed
     /\ work' = [work EXCEPT
          ![s].edits   = Append(@, [at |-> at, content |-> content]),
          ![s].virtual = @ + CountWords(content)]
     /\ typed' = typed \cup {content}
     /\ UNCHANGED <<vars, text, disk, bak, committed>>

\* ... or the update is applied at once.
WriteUpdateAppliedMutant(s, at, content) ==
  LET p == sessions[s].ptr
  IN /\ conn[s] = "editing" /\ s \notin gone
     /\ heap[p] # 0 /\ at =< Len(text[p].words)
     /\ Len(work[s].edits) < MaxEdits /\ content \notin typed
     /\ text' = [text EXCEPT ![p].words = Append(@, content[1].word)]
     /\ typed' = typed \cup {content}
     /\ UNCHANGED <<vars, work, disk, bak, committed>>

\* An index past the end is answered RES_ERROR and changes nothing.  The words
\* of a sentence that was freed are garbage: any index may pass.
WriteUpdate(s, at, content) ==
  LET p == sessions[s].ptr
  IN /\ conn[s] = "editing" /\ s \notin gone
     /\ heap[p] # 0 => at =< Len(text[p].words) + work[s].virtual
     /\ Len(work[s].edits) < MaxEdits /\ content \notin typed
     /\ work' = [work EXCEPT
          ![s].edits   = Append(@, [at |-> at, content |-> content]),
          ![s].virtual = @ + CountWords(content)]
     /\ typed' = typed \cup {content}
     /\ UNCHANGED <<vars, text, disk, bak, committed>>

-----------------------------------------------------------------------------
(* handle_etirw *)

\* The first edit is shifted by what the sentence has grown since the grant.
Queued(s) ==
  LET offset == Len(text[sessions[s].ptr].words) - work[s].orig
  IN [k \in DOMAIN work[s].edits |->
        IF k = 1 THEN [work[s].edits[k] EXCEPT !.at = @ + offset] ELSE work[s].edits[k]]

\* What memory holds once the n-th sentence of s's document made way for list.
Merged(s, n, list) == Spliced(Mem(sessions[s].doc), n, list)

Added(s, n, list) ==
  Len(Words(Merged(s, n, list))) - Len(Words(Mem(sessions[s].doc)))

CApplyFails(s) ==
  /\ sessions[s].active
  /\ ~EditsApply(text[sessions[s].ptr].words, Queued(s))
  /\ EtirwApplyFails(s)
  /\ Write(<<>>, <<>>)
  /\ work' = [work EXCEPT ![s] = NoWork]
  /\ UNCHANGED <<disk, bak, typed, committed>>

\* The edits apply and memory is changed; list is what the target becomes.
Applied(s, n, list) ==
  /\ \E new \in FreshLists(0, MaxNew) :
       /\ Len(new) = Len(list) /\ Lowest(new)
       /\ EtirwSplice(s, n, new)
       /\ Write(new, list)
  /\ work' = [work EXCEPT ![s] = NoWork]
  /\ UNCHANGED typed

\* The count of added words is not the announced one: nothing is written.
CommitRejected(s, n, list) ==
  /\ Applied(s, n, list)
  /\ Added(s, n, list) # work[s].virtual
  /\ UNCHANGED <<disk, bak, committed>>

SessionWords(s) ==
  {w \in Word : \E e \in {work[s].edits[k] : k \in DOMAIN work[s].edits} :
                  \E j \in DOMAIN e.content : e.content[j].word = w}

\* Writes the list as it was before the edits.
CommitSavedMutant(s, n, list) ==
  LET f == docs[sessions[s].doc].file
  IN /\ Applied(s, n, list)
     /\ Added(s, n, list) = work[s].virtual
     /\ bak' = [bak EXCEPT ![f] = disk[f]]
     /\ disk' = [disk EXCEPT ![f] = Flush(Mem(sessions[s].doc))]
     /\ committed' = [committed EXCEPT ![f] = @ \cup SessionWords(s)]

\* rename the file to .bak, then write the list in its place.
CommitSaved(s, n, list) ==
  LET f == docs[sessions[s].doc].file
  IN /\ Applied(s, n, list)
     /\ Added(s, n, list) = work[s].virtual
     /\ bak' = [bak EXCEPT ![f] = disk[f]]
     /\ disk' = [disk EXCEPT ![f] = Flush(Merged(s, n, list))]
     /\ committed' = [committed EXCEPT ![f] = @ \cup SessionWords(s)]

\* Writes over the file, which has not become the .bak.
DiesInSaveMutant(s, n, list) ==
  LET f    == docs[sessions[s].doc].file
      file == Flush(Merged(s, n, list))
  IN /\ MidSave
     /\ conn[s] = "etirw" /\ sessions[s].active
     /\ docs[sessions[s].doc].head[n] = sessions[s].ptr
     /\ Added(s, n, list) = work[s].virtual
     /\ \E k \in 0..Len(file) : disk' = [disk EXCEPT ![f] = SubSeq(file, 1, k)]
     /\ Restart
     /\ text' = [a \in Addr |-> Blank]
     /\ work' = [t \in Sock |-> NoWork]
     /\ UNCHANGED <<bak, typed, committed>>

\* The server ends inside that: before the new file exists, or with a part of
\* it written.  Nobody was told that the commit succeeded.
DiesInSave(s, n, list) ==
  LET f     == docs[sessions[s].doc].file
      file  == Flush(Merged(s, n, list))
  IN /\ MidSave
     /\ conn[s] = "etirw" /\ sessions[s].active
     /\ docs[sessions[s].doc].head[n] = sessions[s].ptr
     /\ Added(s, n, list) = work[s].virtual
     /\ bak' = [bak EXCEPT ![f] = disk[f]]
     /\ \E part \in {Missing} \cup {SubSeq(file, 1, k) : k \in 0..Len(file)} :
          disk' = [disk EXCEPT ![f] = part]
     /\ Restart
     /\ text' = [a \in Addr |-> Blank]
     /\ work' = [t \in Sock |-> NoWork]
     /\ UNCHANGED <<typed, committed>>

CEtirw(s) ==
  \/ EtirwNotFound(s) /\ UNCHANGED cvars
  \/ CApplyFails(s)
  \/ /\ sessions[s].active
     /\ EditsApply(text[sessions[s].ptr].words, Queued(s))
     /\ LET list == ApplyEdits(text[sessions[s].ptr], Queued(s))
        IN \E n \in DOMAIN docs[sessions[s].doc].head :
             \/ CommitRejected(s, n, list)
             \/ CommitSaved(s, n, list)
             \/ DiesInSave(s, n, list)

CDisconnect(s) ==
  /\ Disconnect(s)
  /\ Write(<<>>, <<>>)
  /\ work' = [work EXCEPT ![s] = NoWork]
  /\ UNCHANGED <<disk, bak, typed, committed>>

CRestart ==
  /\ Restart
  /\ text' = [a \in Addr |-> Blank]
  /\ work' = [s \in Sock |-> NoWork]
  /\ UNCHANGED <<disk, bak, typed, committed>>

-----------------------------------------------------------------------------
CInit ==
  /\ Init
  /\ text = [a \in Addr |-> Blank]
  /\ work = [s \in Sock |-> NoWork]
  /\ disk \in [File -> Files]
  /\ bak = [f \in File |-> Missing]
  /\ typed = {}
  /\ committed = [f \in File |-> WordsIn(disk[f])]

CNext ==
  \/ \E s \in Sock :
       \/ (Connect(s) \/ SendWrite(s) \/ SendEtirw(s) \/ Hangup(s)) /\ UNCHANGED cvars
       \/ \E f \in File : CLoadFails(s, f) \/ CInvalidSentence(s, f)
                            \/ CLockConflict(s, f) \/ CGrant(s, f)
       \/ \E at \in 0..MaxAt, content \in Inputs : WriteUpdate(s, at, content)
       \/ CEtirw(s)
       \/ CDisconnect(s)
  \/ CRestart

CSpec == CInit /\ [][CNext]_allVars

-----------------------------------------------------------------------------
(* Properties *)

(* Every variable has its type. *)
ContentTypeOK ==
  /\ TypeOK
  /\ text \in [Addr -> Sentence]
  /\ work \in [Sock -> Work]
  /\ \A f \in File : disk[f] = Missing \/ disk[f] \in Seq(Word \cup Mark)
  /\ \A f \in File : bak[f] = Missing \/ bak[f] \in Seq(Word \cup Mark)
  /\ typed \subseteq Inputs
  /\ committed \in [File -> SUBSET Word]

(* Edits that were answered RES_OK one by one also apply at ETIRW: the     *)
(* check of an update counts words, apply_session_edits_to_sentence counts *)
(* tokens, and other sessions commit in between.                           *)
AcceptedEditsApply ==
  \A s \in Sock : sessions[s].active =>
    EditsApply(text[sessions[s].ptr].words, Queued(s))

(* Nobody changes a sentence that a session has locked, so its offset at   *)
(* ETIRW is 0. *)
BaselineUnmoved ==
  \A s \in Sock : sessions[s].active =>
    Len(text[sessions[s].ptr].words) = work[s].orig

(* The sentence of a session stays in the document until the session ends: *)
(* commits of others move it, they do not remove it.                       *)
EditedSentenceStays ==
  \A s \in Sock : sessions[s].active =>
    sessions[s].ptr \in Nodes(docs[sessions[s].doc].head)

(* A document in memory is what the file on disk says: edits reach memory  *)
(* only in a commit, and a commit writes the file.                         *)
MemoryIsDisk ==
  \A i \in DocSlot : docs[i].active => Flush(Mem(i)) = disk[docs[i].file]

(* A file holds no word of a session that was refused, abandoned or is     *)
(* still going on. *)
CommitsAreAtomic ==
  \A f \in File : disk[f] # Missing => WordsIn(disk[f]) \subseteq committed[f]

(* A file keeps every word of every accepted commit: no commit, of its own *)
(* document's stale or damaged copy, undoes another.                       *)
CommitsAreDurable ==
  \A f \in File : disk[f] # Missing /\ committed[f] \subseteq WordsIn(disk[f])

(* A step after which a file lacks words that were committed to it and     *)
(* that it had leaves them all in its .bak: whenever the server ends, a    *)
(* save can be taken back by hand. *)
LossIsBackedUp ==
  [][\A f \in File :
       LET kept(file) == file # Missing /\ committed[f] \subseteq WordsIn(file)
       IN kept(disk[f]) => kept(disk'[f]) \/ kept(bak'[f])]_allVars

(* Only the last sentence has no delimiter; any other would run into its   *)
(* successor when the file is read again.                                  *)
OpenSentenceIsLast ==
  \A i \in DocSlot : \A k \in DOMAIN docs[i].head :
    Mem(i)[k].delim = Open => k = Len(docs[i].head)

(* Reading back what memory would write gives the same sentences under the *)
(* same indices, with an empty one to append to at the end.                *)
ReloadKeepsSentences ==
  \A i \in DocSlot : docs[i].active =>
    Parse(Flush(Mem(i))) \in {Mem(i), Append(Mem(i), Blank)}

\* Where a list has a node, 0 if it is not there.
Place(hd, p) == IF p \in Nodes(hd) THEN CHOOSE k \in DOMAIN hd : hd[k] = p ELSE 0

(* To those who read the files and write in them, documents in memory,     *)
(* sentence pointers, locks and queued edits do what SharedDocument        *)
(* promises: a commit changes the sentence its user opened and no other,   *)
(* wherever the commits of others have moved it since.                     *)
Readers == [f \in File |-> IF disk[f] = Missing THEN <<>> ELSE Parse(disk[f])]

Writers ==
  [s \in Sock |->
     IF sessions[s].active
     THEN [file |-> docs[sessions[s].doc].file,
           at   |-> Place(docs[sessions[s].doc].head, sessions[s].ptr)]
     ELSE [file |-> NoFile, at |-> 0]]

Sharing == INSTANCE SharedDocument WITH Client <- Sock, file <- Readers, cursor <- Writers

ImplementsSharedDocument == Sharing!Spec
=============================================================================
