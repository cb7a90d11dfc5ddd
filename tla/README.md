# TLA+ models of the Distributed Document System

This directory models the document system in `src/`: a name server that knows
the files and who may use them, storage servers that keep them and let clients
edit them sentence by sentence, and a command line client. TLC checks the
models on small instances; TLAPS proves the theorems for every value of the
constants.

## 1. Inventory

Both servers are single-threaded `select()` loops: a handler runs to its end
before the next socket is served. What interleaves is therefore *handlers* of
different sockets, the messages between the servers, and crashes; one handler is
one action of a model, however many calls it makes.

| Component | Code | State | Operations |
|---|---|---|---|
| Write sessions, sentence locks | `storage/handlers.c` 713-920, `storage/locks.c`, `storage/metadata.c` 365-390 | `active_documents`, `global_locks`, `write_sessions`, the heap of sentence nodes | WRITE, update, ETIRW, disconnect |
| Document format, edits | `storage/document.c` | lists of sentences and words | parse, flush, count, apply edits |
| File history | `storage/handlers.c` 21-179, 286-492 | file, `.bak`, `.swap`, `.checkpoints/<path>/*` | CREATE, commit, UNDO, CHECKPOINT, REVERT, MOVE, DELETE |
| Access lists, requests | `name/handlers.c` 323-418, 791-971, `storage/handlers.c` 182-221, `storage/metadata.c` 20-170 | access lists of `file_catalog`, `.metadata`, `access_requests` | ADDACCESS, REMACCESS, REQACCESS, CHECKREQUESTS |
| Catalog | `name/catalog.c`, `name/hash_cache.c` | `file_catalog`, `hash_table`, `lru_cache` | lookup, add, remove, invalidate |
| Heartbeats, failover, recovery | `name/fault_tolerance.c`, `name/name_server.c` | `ss_state`, `backup_ss_sock` | heartbeat, REPLICATE, SYNC, registration |
| Name server - storage server channel | all `handle_req_*` that relay | the bytes on one socket | send, blocking `recv`, metadata updates |
| Reading, folders, EXEC | `name/handlers.c`, `storage/metadata.c` | none of their own | READ, STREAM, VIEW, INFO, LIST, folders |
| Client | `client/` | the dialogue with the user | sends the commands above |

How they interact: a client asks the name server for a file; after the
permission check it gets the address of a storage server and talks to that one
directly (READ, WRITE, STREAM). Every other command is relayed by the name
server, which waits for the answer on the storage server's one socket. That
socket also carries what storage servers send unasked (statistics, heartbeat
answers) and the access-list messages nobody answers. When a storage server
disconnects its files leave the catalog; when it registers it sends its files
with the owners and access lists of its `.metadata`.

What is hard, and what makes each component correct:

* *Sessions.* Sessions hold pointers into a list that other sessions' commits
  splice; locks are keyed by pointer; user counts decide when the list is freed;
  a session ends by commit, refusal, or disconnect. Correct: one editor per
  sentence, no dangling pointer, no lock or count left behind, one copy per file.
* *Contents.* The check of an update and the application of a commit count
  different things; a refused commit has changed memory; a save is a rename and
  a write. Correct: atomic and durable commits, lists that survive being written
  and read, nothing lost by a crash.
* *History.* Three mechanisms of undoing (`.bak`, `__UNDO__`, `__REDO__`) and
  crashes between their steps. Correct: an UNDO takes the last UNDO or
  REVERT back, checkpoints do not change, nothing is lost.
* *Access.* Two copies of a list under different rules, synchronised by
  unanswered messages; requests answered by number from a list shown earlier; a
  metadata file that every save writes anew. Correct: nobody has access the owner
  never gave, and no file falls to another user. (The copies need not agree: see 6.)
* *Catalog.* A name is found through a cache, a hash table and an index into an array whose
  slots are used again; four different events take entries out. Correct: a
  lookup finds the one file of that name, at a server that is there, or nothing.
* *Failover.* Files outlive the connections of their servers, copies are told
  of some changes and not of others. Correct: what is listed is stored where the
  catalog says, and the original has what was committed. (That it can be reached while
  its server is away is promised and not kept: see 6.)
* *Channel.* Answers, statistics and heartbeats on one socket, told apart by
  their order; blocking waits; a heartbeat that cannot be sent is a failure.
  Correct: each request gets its own answer, and waits end.

`PROJECT.json` lists each hazard at its line with the properties that cover it.

## 2. Modules

| Module | What it is |
|---|---|
| `SentenceLock` | abstract: clients acquire and release sentences |
| `EditSessions` | the storage server's tables, heap and connections; implements `SentenceLock` |
| `Document` | the file format and the edit algorithm, as operators (folds, no recursion) |
| `SharedDocument` | abstract: clients open a sentence of a file, leave it, or commit to it, which changes nothing around it |
| `EditContent` | `EditSessions` with texts, queued edits and files; every action is an action of `EditSessions` joined with what the handler does to those; implements `SharedDocument` |
| `FileHistory` | the files of each path and the steps of every operation on them |
| `Directory` | abstract: a partial function from names to storage servers |
| `Catalog` | slots, hash nodes and cache of the name server; implements `Directory` |
| `Replicas` | `Catalog` with the disks of several storage servers; every action is an action of `Catalog` joined with what storage servers do |
| `NMChannel` | the two queues of the connection between the name server and one storage server |
| `AccessControl` | both copies of the access lists, the messages between them, the request queue |
| `*_MC` | constants for TLC; `*_proofs` the theorems (`Document_proofs`: those about the operators of `Document`) |

An operator whose name ends in `Mutant` is a plausible mistake in the definition
that follows it. Nothing uses it; `PROJECT.json` pairs each with the property that
fails when it takes that definition's place.

### EditSessions

A document in memory is its slot, file, user count and the sequence of its node
addresses. `heap` says for which slot a node was allocated, 0 when it is free, so
that a freed or reused node is seen. `conn` is what the server has still to read
from a socket (`asked`: REQ_CLIENT_WRITE; `etirw`; `refused`: ETIRW was answered
with an error and the session is still there). `handle_client_write` is
`LoadFails`, `InvalidSentence`, `LockConflict` and `Grant`; `handle_etirw` is
`EtirwNotFound`, `EtirwApplyFails` and `EtirwSplice`; `handle_client_disconnect`
is `Disconnect`. Which words a sentence has, and so whether a commit is
rejected, is left open here and settled in `EditContent`.

Writes the kernel's reset of a connection would interrupt are not modelled: the
client reads each answer before it goes on.

### Document and EditContent

A file is a sequence of words and marks. `Stop` stands for the three marks that
end a sentence in the same way, the newline is kept apart. A token of an update
is its text before the first mark, the marks that follow one another there, and
whether text comes after them (which `apply_session_edits_to_sentence` drops but
`count_words_in_string` counts). `typed` lets each input be typed once, so a
word in a file tells which update it came from. `DiesInSave` ends the
server between the rename and the last byte of the flush.

`SharedDocument` says what all this is for, in terms of files as readers find them
(`Readers`: what `Parse` makes of the disk) and of the sentence each client writes in
(`Writers`: where its pointer is in its document's list). `Commit` may put any number of sentences
in the place of the opened one, but those around it stay (`Around`), and clients
further on in the file move with theirs. `Reset` is a stop of the server, which may
spoil the one file that is being saved.

### FileHistory

A path's files are a function from names (`main`, `bak`, `swap`, `__UNDO__`,
`__REDO__` and users' tags) to versions, contents nobody looks into. Each
operation is the list of states that its `rename`, `fopen` and copy calls pass
through; `Perform` takes the last, `StopWithin` one of those before, with a
restart (`UndoDies`, `RevertDies`, `CommitDies`). `last` is history: what the UNDO or
REVERT that last changed the file replaced, forgotten when anything else changes
one. `slots` counts the catalog entries of a name, as MOVE onto an existing
name makes a second one. `loaded` is a document in memory: a commit writes the path
it was loaded from, whatever became of the file.

### AccessControl

`entry` is the name server's catalog entry, `record` the storage server's line in
`.metadata`, `queue` the REQ_SS_ADD_ACCESS and REQ_SS_REM_ACCESS messages not
read yet. CREATE, DELETE and MOVE wait for an answer, so they are enabled when the
queue is empty. MOVE takes entry, record, file and history to another name; what is
stored there unlisted is replaced. A save opens `.metadata` with `"w"` and writes all
records anew (`metadata.c` 64-76, and 151-170 for a delete): a server that ends meanwhile leaves
any of the records (`Torn`). `DiesInRead`, `DiesInCreate`, `DiesInDelete` and `DiesInMove`
end it there, and between the file and its record. Other files share the metadata file and the directory scan (100 each):
whether there is room, or whether the scan finds a file, is a free choice. `shown` keeps every
request a client of the user has shown; answers carry the number only, and another
session of that user may have answered before. `said` is history: who created the file that a path's
record is about, whether it got that record, and what its owner, looking at what was shown,
granted since. A file without a record is nobody's once its server has ended; a
file that CREATE or MOVE left to the record of an earlier one of its name belongs to that one's owner.

Not in this module: MOVE onto a name in use (a path has one entry here; `Catalog`
has that case), names of `MAX_USERNAME` and more characters (saved cut off,
`metadata.c:55`), and answers that reach the wrong request.

### Catalog and Directory

`slot` is `file_catalog`; what an inactive entry held stays in it, because recovery
reads it. A bucket of the hash table is searched for one name, so `nodes` has one
list per name, the newest node first. `Found` is `find_file_slot`: cache first, then
table, and neither asks whether the slot is active. "The first free slot" and
"the first other server" are any of them. When no slot is free the code writes the
entry before the array and a node with slot -1 (`NoSlot`).

`doubtful` is history: the names about which the code promises nothing any more.
A name becomes doubtful when

* MOVE gives a file a name that is in use, or acts through a doubtful name
  (`name/handlers.c:561` asks nothing);
* a storage server registers a file under a name in use (`name_server.c` 83-117);
* heartbeats fail: entries become inactive and stay in table and cache
  (`name_server.c:159`);
* a recovery makes entries active again (`fault_tolerance.c` 103-119), those of
  deleted files included, whose slots carry the descriptor;
* a CREATE finds the catalog full;
* the storage server's descriptor turns into a client's (see `NMChannel`).

About all other names everything is promised. `Directory` says what: its state is
`where`, from names to servers, and `Settles` changes it everywhere but on doubtful
names. Refinement: `Where` is the server of the slot that `Found` yields; looking
a name up, which fills the cache, is a stutter.

### Replicas

Machines have disks and outlive connections; `at` says who is behind a descriptor.
A server that comes back lists all files on its disk (`RRegister`), or none and is
taken for one that lost them (`RRecover`). REPLICATE_FILE carries no content: the
copy is created or, if it exists, emptied. It takes effect at once or is lost with the backup. A
commit never reaches a copy, MOVE is not told to the backup, and DELETE is
answered OK whatever server and backup did. UNDO and REVERT (`RUndo`) leave any content at
the server and change nothing at the copy; a file without a `.bak`, `__UNDO__` or `__REDO__` becomes
one, `Away`, which is not listed when its server registers. `forked` is history: a WRITE went to a
machine that is not the file's `home`, or a replication hit the original. The
first needs no doubtful name: a server that registers lists the copies on its disk,
and files whose DELETE never reached it, under names that are free by then. `Located` is where READ and WRITE are sent, at once used.
In `RRecover` the content of the backups is sent before the answer to the
registration; the recovering server takes it for that answer and ends
(`storage_server.c:124`), so `handle_ss_sync_from_backup` is never reached.

### NMChannel

Messages are headers and bodies (`Unit`); `of` marks whose answer a unit is: the
request now waited for (`own`), one before (`older`), nobody's (`none`). `Relay` is
every handler that sends and then blocks in `recv`; `op` says by what kind of answer
it is followed, since CREATE and UNDO are followed by statistics and the checkpoint
commands do not ask whether the server is online. `TakeAnswer` takes what comes next;
where that is not what it expects it leaves bytes behind, which `Garbled` then reads as
headers: zeros are REQ_CLIENT_REGISTER, and the storage server's descriptor is a client's
from then on, or `handle_client_register` blocks (`Blocked`, which nothing ends but
more bytes or the end of the connection). `TakeNothing` is `recv` on a
connection that ended. `disturbed` is history: a command with an answer was under
way, something unread was there when the request was relayed, or a commit's
statistics came before its answer.

## 3. Runs

| Run | Instance | Shows |
|---|---|---|
| `EditSessions` | 2 sockets, 2 files, 3 addresses, 2 lock slots, 2 document slots, `FairSpec`; 71,320 states | the tables agree, one editor per sentence, no dangling pointers, `SentenceLock` is implemented, a commit that was sent ends |
| `EditContent` | 1 file, 2 lock slots, plain updates; 135,902 states | accepted edits apply, texts of locked sentences stay, commits atomic and durable, memory is the file, `SharedDocument` is implemented |
| `EditContent_Marks` | 1 lock slot, marks with and without text, a blank line, crashes in a save; 384,322 states | lists survive the file, a broken save is in `.bak`, also with a session that got no lock |
| `EditContent_Rejected` | a mark glued to text | *violated:* a refused commit stays in memory and is written by the next one |
| `EditContent_Blank` | a blank line between others | *violated:* an empty commit on it cuts the rest of the list off |
| `FileHistory` | 2 paths, 2 versions, 1 tag, 2 entries per name, 1 document in memory; ends inside operations at one path; 1,723,668 states | UNDO takes REVERT and UNDO back, checkpoints stay, what is replaced is kept |
| `AccessControl` | 1 file with 2 names in turn, 2 users, lists of 2, 1 request at a time and 2 in all, 2 messages under way; 828,333 states | only granted access, owners stay, wherever the storage server ends |
| `Catalog` | 2 names, 2 descriptors, 2 slots, a cache of 2, 2 nodes per name; 117,426 states | cache and table agree, lookups find the file, `Directory` is implemented |
| `Replicas` | 2 machines, 2 names, 2 descriptors, 2 slots, 2 failures or UNDOs, 1 doubtful name at a time; 576,491 states | what is listed is stored, originals have what was committed |
| `Replicas_Lost` | the same | *violated:* a server that comes back with a copy has the original emptied |
| `Replicas_Redirected` | the same | *violated:* the files of a server that disconnects are not found, though a server that is online has them |
| `NMChannel` | 2 commands one way, 5 headers and bodies the other, `FairSpec`; 1,184,966 states | undisturbed requests get their own answer, waits end |

Why the bounds are enough. *EditSessions:* two sockets and two document slots let
a document be loaded, edited by two and freed while another is loaded in its
nodes; three addresses force `malloc` to reuse nodes; lists of two and splices of
0 to 2 nodes give every change of a list's shape. *EditContent:* two editors and
two updates, which one of them or both may send; indices go past the end of the sentence, and
a file begins with a sentence or a blank line and the empty sentence after it. In `EditContent` each
editor has a lock slot, without which `SharedDocument` does not hold; the plain inputs keep
counts right, so that the two known defects (rejected and empty commits) have runs of
their own. `EditContent_Marks` has one lock slot, so that a second session runs unlocked and
a commit can find its sentence too short for an edit (`CApplyFails`); that accepted
edits of a locked session with marks fit too is the theorem `AcceptedApply`. There `MaxLoad`
is 2: a list that has grown to three sentences is not read again after a crash, which
`EditContent` does; that it would read the same is `ReloadKeepsSentences`. *FileHistory:* two paths with the same base
name are what MOVE confuses, with a document in memory under one of them at a time (`MaxDocs`);
the server ends inside operations on one of them (`Dies`), as the steps of an operation
touch one path; two contents tell "before" from "after", and one of them is that
of a new file. *AccessControl:* files are
independent but for the room in the metadata file, which is a free choice;
two names let it move away and back and leave requests behind;
two requests in turn let a queue slot be used again, and differ in user or path
(`AskedPerm` has one permission, `GivenPerm` the other); a list of two fills up by
granting one user twice; `MaxFiles` keeps the instance to one path with a file or a
record when another is created: a MOVE cut short may leave two. A full list at the name server, with more
users than fit, is not reached in that instance. *Catalog:* with two slots the
catalog is full after two files, so that slots are used again and the -1 is met; two
nodes of a name are what a MOVE or a registration onto a name in use makes; two cache
entries push one another out. *Replicas:* two machines are each other's backups,
two failures let both end, at once too, or one of them twice, or one after an UNDO (which
`MaxFailures` bounds too); the cache is left out
(`CacheSize = 0`), as `Catalog` shows it to agree with the table. `MaxDoubt` keeps
the instance to one doubtful name, about which nothing is claimed anyway. The
theorems have neither bound. *NMChannel:* two commands fill
the buffer, so that a heartbeat can fail; five units hold an answer, statistics
and what was left behind. TLC checks symmetric states
once where sockets, addresses, files, versions or users are interchangeable and no liveness
property is checked.

## 4. Fairness

`EditSessions` needs it for `CommitEnds`: weak fairness of each socket's handlers
(the loop visits every readable descriptor in turn) and of the client closing its
connection after ETIRW was refused (`client/handlers.c` 174-185 returns and
`handle_write` closes). Nothing makes a user type, commit or hang up, so a sentence
may stay locked for as long as its client stays connected.

`NMChannel` needs it for `WaitEnds`: weak fairness of `Serve` (the storage
server's loop reads what it is sent), `TakeAnswer` and `TakeNothing` (a blocking
`recv` returns when there is something, or no connection any more). Nothing
makes the storage server commit, end or register, and nothing makes the name server
relay. A storage server that hangs without ending is excluded by the first: the name
server would wait for it for ever, as its `recv` has no timeout. The wait in
`handle_client_register` (`Blocked`) is not promised to end.

## 5. Proofs

| Theorem | Assumes | States |
|---|---|---|
| `EditSessions_proofs` `TypeCorrect`, `UsersCounted`, `LocksOwned`, `OneCopy`, `SessionsConnected` | - | `[]TypeOK`, `[]UsersAreSessions`, `[]LockHasOwner`, `[]OneCopyPerFile`, `[]SessionNeedsConnection` |
| `Exclusion`, `NoUseAfterFree`, `Refinement` | `EnoughLocks` | `[]MutualExclusion`, `[]NoDanglingPointer`, `ImplementsSentenceLock` |
| `EditContent_proofs` `ContentRefines` | - | `CSpec => Spec`: all of the above hold with contents |
| `ContentLocks`, `Baseline`, `AcceptedApply` | `EnoughLocks` | `ImplementsSentenceLock`, `[]BaselineUnmoved`, `[]AcceptedEditsApply` |
| `ContentInvariant`, `ContentTyped`, `OpenIsLast`, `ReloadKeeps`, `LossBackedUp` | - | `[]CInv`, `[]ContentTypeOK`, `[]OpenSentenceIsLast`, `[]ReloadKeepsSentences`, `LossIsBackedUp` |
| `PlainInvariant`, `DiskFollows` | `PlainTyping`, `PlainFiles` | `[]PInv`, `[]MemoryIsDisk` |
| `CommitsLast`, `CommitsWhole` | `PlainTyping`, `PlainFiles`, `~MidSave` | `[]CommitsAreDurable`, `[]CommitsAreAtomic` |
| `SentenceStays`, `SharedDocumentRefined` | `PlainTyping`, `PlainFiles`, `EnoughLocks` | `[]EditedSentenceStays`, `ImplementsSharedDocument` |
| `Document_proofs` `ParseFacts`, `ReloadFacts`, `ApplyPlain` | - | what `Parse`, `Flush` and `ApplyEdits` do, below |
| `FileHistory_proofs` `HistoryTypeCorrect`, `NothingLost` | - | `[]TypeOK`, `ReplacedIsKept` |
| `UndoToggles`, `CheckpointsKept` | `PlainTags` | `UndoTakesBack`, `CheckpointsStay` |
| `CommitsUndone` | - | what a commit replaced comes back with the next UNDO of those files, if neither `__UNDO__` nor `__REDO__` is there |
| `AccessControl_proofs` `AccessTypeCorrect`, `GrantsAreMeant`, `OwnersKept` | - | `[]TypeOK`, `[]OnlyGranted`, `[]OwnerStays` |
| `Catalog_proofs` `CatalogTypeCorrect`, `CacheIsCoherent`, `LookupsAreExact` | - | `[]TypeOK`, `[]CacheIsInTable`, `[]LookupsFindTheFile` |
| `CatalogIsDirectory` | - | `ImplementsDirectory` |
| `Replicas_proofs` `ReplicasImplementCatalog` | - | `RSpec => Spec`: all of the above hold with disks |
| `ReplicasTypeCorrect`, `ListedFilesAreStored`, `OriginalsAreCommitted`, `ReplicasAreDirectory` | - | `[]ReplicasTypeOK`, `[]ListedIsStored`, `[]OriginalIsCommitted`, `ImplementsDirectory` |
| `KeptUnlessForked` | - | what was committed to a name that is not `forked` is on some disk |
| `NMChannel_proofs` `ChannelTypeCorrect`, `OwnAnswers` | - | `[]TypeOK`, `[]AnswersAreOwn` |

`EnoughLocks` says that there are as many lock slots as connections. It is needed:
`handle_client_write` ignores the -1 of `create_lock` (`storage/handlers.c:753`), and
the session goes on without a lock. `PlainTags` says that no
user's tag is `__UNDO__` or `__REDO__`, which UNDO takes for its own.

`PlainTyping` says that every token of an update has a word before its first mark
and at most one mark there (text that follows the mark is dropped by the code, in the proofs as well);
`PlainFiles` that no mark is first in a file or follows another.
Both are needed, as `EditContent_Rejected` (a token that begins with its mark is
counted and brings no word) and `EditContent_Blank` (a blank line) show: the first
makes a commit that is refused after it changed memory, the second one that drops the
rest of the list. They say
nothing of how many updates, sessions or locks there are. `~MidSave` says that the
server does not end between the rename and the last byte of a flush: if it does, the
file is missing words, and `LossBackedUp` says where they are. The only assumption
on words (`WordAssumption`) is that they are not marks.

The argument for `EditSessions`. None of the properties is inductive alone. The
invariant `IInv` adds to them that every session's document is loaded, that the
nodes of a list are distinct, allocated to its slot, and that locks of two slots
differ; it holds without any assumption on the number of locks. A commit is
reduced to one lemma about what splicing leaves of a list and one about
`EndSession`; a session that is the last editor frees the list and, by the user
count, nobody else points into it. `LInv` then adds what needs enough locks: every
session has a lock and owns its node. As `find_lock` finds a lock on a node that
any session edits, a granted node is edited by nobody else. The refinement maps
each session to its sentence pointer: `Grant` is `Acquire`, every end of a session
`Release`, `Restart` `Reset`, and all else a stutter.

`Document_proofs` settles what the operators compute for every file, list and
update. They are folds; a fold is unrolled into the sequence of its values
(`Iterates`), and facts about every value come from the least index, or the
shortest sequence, for which they would fail, as an induction theorem that takes
an operator is beyond the provers. `ParseFacts`: writing what was read gives the file
again. `ReloadFacts`: reading what was written gives the list, or the list and the
empty sentence that follows a final mark, if none but the last sentence is open.
`ApplyPlain`: plain updates make no sentence without words, add as many words as
they bring and lose none.

`ContentRefines` goes action by action; `Baseline` uses `LInv` through it: a
session's node is written by nobody else while it is locked. `CInv` adds types and
`Sentences` to `IInv`: every list in memory has only its last sentence open. That
is inductive because `Rebuild` ends each sentence but its last with a mark and gives
its last the delimiter of the target. `ReloadKeeps` is then `ReloadFacts`.

`AcceptedApply` needs `EditsFit`: the index of each queued edit is at most the words
at the grant plus the tokens of the edits before it. The index was checked against the
words that `count_words_in_string` counts, which are never more than the tokens that
`apply_session_edits_to_sentence` inserts; that the words at the grant are those at the
commit is `Baseline`, hence `EnoughLocks`.

`PInv` is the invariant for plain inputs. A sentence without words is the last of
its list and open (`TidyMemory`); files have no mark on its own (`TidyDisk`); the words a
session announced are the tokens its edits bring (`PlainWorks`). Together they exclude
that a commit is refused, the only step that changes memory and writes nothing, so
memory is what the file reads as (`MemoryIsDisk`), without `EnoughLocks` and also after a
broken save, which ends the server. `DiskIsCommitted`, on top of it,
gives `CommitsLast` and `CommitsWhole`: a file's words are those of its accepted
commits, no more and no less. `SentenceStays`: a splice that cuts the list off has
no tokens, which with `TidyMemory` only the last sentence gives.

`SharedDocumentRefined` puts these together, step by step. A grant is an `Open`: memory is what the
file reads as, so that the sentence is one a reader finds, and by `MutualExclusion` and
`OneCopyPerFile` nobody writes in it. The end of a session without a commit is a
`Leave`; that another document or other sessions stay where they are needs
`UsersAreSessions`, for the list is freed with the last one. A saved commit is a `Commit`: `SpliceAt`
says where a splice puts each element, applied once to the node list, which gives the
places of the others, and once to the sentences; `CommitAround` carries the second
over to what a reader finds, which may have one empty sentence more at the end. The lists of the
others' nodes are those before and after the commit, which is why it needs
`EditedSentenceStays` in both states. A refused commit is no step of `SharedDocument`; `PInv` excludes
it. A list in memory that is dropped or loaded is a stutter.

For `FileHistory` the invariant `HInv` ties `last` to the files: after a REVERT or
UNDO there is a saved version that holds what was replaced, in the place where the next UNDO
looks. Each operation's list of states is described by a lemma, and
`NothingLost` follows state by state. `CheckpointsKept` is the same for one tag: none of
the lists of states changes it. `CommitsUndone` is about the files alone: a commit has
put the old file in `.bak`, which is where UNDO looks when no version is saved.

For `AccessControl` the invariant `IInv` says file by file what its entry, its
record and the messages under way may hold (`FileOK`, `MessageOK`), and that an identifier names one
request among all that are active or were ever shown: an approval therefore grants
what its owner saw. It is kept where the storage server ends because what `Torn`
leaves is, record by record, what was there or nothing, and a file with no record is nobody's.
That the list REMACCESS leaves is part of the one before is proved of a recursive
function, from a least number for which it would fail (`LeastNumber`).

For `Catalog` the invariant `IInv` says that a name that is not doubtful has one hash
node and one active entry, which the node names, at a server that is online, or
neither (`Exact`), and that each cache entry is one of its name's nodes (`Agrees`).
Only doubtful names may have nodes of inactive slots, and every action that leaves such
a node behind makes its name doubtful. For the refinement each action is
shown to be a step of `Directory` with the same names doubtful; a name that is not doubtful is where
its one node says, so that a lookup is a stutter.

`RSpec => Spec` for `Replicas` is immediate from its actions, but for the bound
variables of `Next`; `ListedIsStored` needs the statement for all active entries of a name
(`Stored`), because MOVE and DELETE act on slots, and `IInv` of `Catalog`, which says
that an active entry is at a server that is online. An UNDO keeps it as it leaves a file or
its `.bak` (`RestoredFacts`). `OriginalIsCommitted` is
kept by each step that writes a disk: what it writes is committed, or is not the
original, or makes the name `forked`.

For `NMChannel` the invariant says of an undisturbed wait where the answer is: in
`toServer` with only unanswered commands before it, or first in `toName`
(`Expected`); a relayed request is the only command marked `own`.

Only model-checked: `CommitEnds` and `WaitEnds`. They are liveness properties under
fairness, which need ENABLED and are out of the prover's reach. Every invariant
and action property of a passing run is a theorem.

## 6. Findings

Four runs end in a violation of what the code's own README says; `PROJECT.json`
quotes the lines.

* A rejected commit is not taken back (`storage/handlers.c:899`): the words are in
  memory when the count is compared, and the next commit writes them.
* An empty commit on an empty sentence loses the rest of the document
  (`document.c:381`).
* A copy costs the original its content (`storage/handlers.c:554`): m has a
  file, n an empty copy of it. n registers again and lists the copy; the
  name server has it replicated to m, where REPLICATE_FILE opens the file with
  `O_TRUNC`. As no commit ever reached n, the content is on no disk.
* Requests are not redirected (`name/catalog.c:70`, against `src/README.md:41`): when a
  server's connection ends, its files leave the hash table, so that the code that would
  send a READ or WRITE to the backup finds no file. (A server given up for its heartbeats
  does leave them there, and is redirected; `Directory` calls those names doubtful.)
  `Directory` states what the code does in `Leaves`.

Two more disagreements have no run of their own. The models reach both, and no
property above claims the contrary:

* UNDO of a commit (`storage/handlers.c:63`, against `src/README.md:122`, "an `UNDO` from B
  restores State A"): REVERT, commit, UNDO. The REVERT has left `__UNDO__`, which
  UNDO prefers to the `.bak` of the commit, and the file is what it was before the REVERT.
  In `FileHistory`, `UndoTakesBack` speaks of what UNDO and REVERT replaced; of commits `CommitsUndone`
  says when the promise is kept.
* A revoked access comes back (`storage/handlers.c:190`, `name/handlers.c:361`, against
  `src/README.md:42`, owners "can grant permissions (`READ`/`WRITE`) or revoke access"): a user is granted READ, then WRITE, then
  revoked. The name server changes one entry and removes it; the storage server has
  two and removes the first, and after a restart its list replaces the other. A REMACCESS that
  is lost with the storage server has the same effect. `OnlyGranted` in
  `AccessControl` therefore speaks of what was ever granted.

## 7. Not modelled

* Reading, listing and folders: they change no modelled state. EXEC runs a shell.
* File names of 50 and more characters, which `.metadata` keeps cut off.
* The channel's raw bytes: parts of a header, the file sizes and contents of a recovery sync
  (`Replicas` has its effect), relays while the storage server's buffer is full, which
  would block the name server.
* Files that a scan takes for documents (`.bak`, `.swap`, checkpoints;
  `metadata.c:331`): names are model values, none is made from another.
* CHECKPOINT in `Replicas`: it changes neither a file nor its copy.
* A `.metadata` that a save left with half a record, or with a count of records it does not have (possible
  where the file is larger than one buffer of `stdio`): `Torn` loses whole records.
* That a client's session outlives a revocation (`name/handlers.c:96`): no module
  has both sessions and access lists.
* `handle_write_update_list` (`document.c` 156-223): not called.
* Failing `malloc`, partial `send`/`recv`, full disks, and wire layout.

## 8. Plan

Built so far: sessions and locks, since everything a client may lose depends on
them; contents, history and access; the catalog with its abstract specification,
the composition of catalog and disks, and the channel. What is left:

1. The composition of `EditContent` and `FileHistory`: UNDO, REVERT, DELETE and
   MOVE of a file that is being edited.
2. Proofs about it: which of a document's histories a commit, an UNDO and a REVERT
   may combine, from `DiskIsCommitted` and `HInv`.
3. The bytes of a recovery sync in `NMChannel`.
