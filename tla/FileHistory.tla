---------------------------- MODULE FileHistory ----------------------------
(***************************************************************************)
(* The files a storage server keeps for each document and the operations   *)
(* that replace, save and restore them: CREATE, commits, UNDO, CHECKPOINT, *)
(* REVERT, MOVE and DELETE, with the name server's catalog in front.  Each *)
(* operation is a sequence of file system steps; the server may end        *)
(* between two of them.  What a file says is one opaque version.           *)
(***************************************************************************)
EXTENDS Integers, Sequences, FiniteSets

CONSTANTS
  Path,     \* paths with the same base name, which MOVE leads to one another
  Tag,      \* checkpoint tags that users type
  Version,  \* contents of files
  Empty,    \* the content of a new file
  Missing,  \* no such file
  MaxDocs,     \* MAX_FILES_IN_SYSTEM: slots of active_documents
  MaxEntries,  \* bound: catalog entries of one name
  Dies      \* bound: paths at which the server may end inside an operation

ASSUME HistoryAssumption ==
  /\ Empty \in Version /\ Missing \notin Version /\ Dies \subseteq Path
  /\ Tag \cap {"main", "bak", "swap"} = {}
  /\ MaxDocs \in Nat /\ MaxEntries \in Nat \ {0}

(* The files of a document: <path>, <path>.bak, <path>.swap and those in   *)
(* .checkpoints/<path>/, where a tag may also be "__UNDO__" or "__REDO__". *)
Name == {"main", "bak", "swap", "__UNDO__", "__REDO__"} \cup Tag

\* Nobody uses the server's own names for checkpoints as a tag.
PlainTags == Tag \cap {"__UNDO__", "__REDO__"} = {}

VARIABLES
  disk,    \* path -> its files
  slots,   \* path -> active entries of file_catalog with that name
  loaded,  \* paths of the documents in active_documents
  last     \* history: path -> what the file held before the UNDO or REVERT
           \* that last changed it, Missing after anything else

vars == <<disk, slots, loaded, last>>

NoFiles == [n \in Name |-> Missing]

\* What an UNDO or a REVERT replaces is remembered ...
Remember(f) == last' = [last EXCEPT ![f] = disk[f]["main"]]

\* ... until another operation sets one of the files.
Forget(fs) == last' = [f \in Path |-> IF f \in fs THEN Missing ELSE last[f]]

-----------------------------------------------------------------------------
(* File system steps, each the list of states a document's files pass. *)

End(states) == states[Len(states)]

\* rename: fails, and changes nothing, when there is no source.
Renamed(fs, a, b) ==
  IF fs[a] = Missing THEN fs ELSE [fs EXCEPT ![b] = fs[a], ![a] = Missing]

\* fopen(a, "r"), fopen(b, "w"), copy: without a source b is left empty.
Copying(fs, a, b) ==
  LET truncated == [fs EXCEPT ![b] = Empty]
  IN <<truncated, IF fs[a] = Missing THEN truncated ELSE [fs EXCEPT ![b] = fs[a]]>>

\* Puts the saved file in place before it keeps the main file.
RestoringMutant(fs, saved, keep) ==
  LET main == Copying(fs, saved, "main")
      kept == Copying(End(main), "main", keep)
  IN main \o kept \o Copying(End(kept), saved, "bak")

\* Keep the main file in keep, then put the saved one in its place and in .bak.
Restoring(fs, saved, keep) ==
  LET kept == Copying(fs, "main", keep)
      main == Copying(End(kept), saved, "main")
  IN kept \o main \o Copying(End(main), saved, "bak")

\* The file restored from is not removed.
TogglingMutant(fs, saved, keep) == Restoring(fs, saved, keep)

\* handle_ss_undo restores from __UNDO__, else from __REDO__, else swaps the
\* file with its .bak.
Toggling(fs, saved, keep) ==
  LET states == Restoring(fs, saved, keep)
  IN Append(states, [End(states) EXCEPT ![saved] = Missing])

Undoing(fs) ==
  IF fs["__UNDO__"] # Missing THEN Toggling(fs, "__UNDO__", "__REDO__")
  ELSE IF fs["__REDO__"] # Missing THEN Toggling(fs, "__REDO__", "__UNDO__")
  ELSE LET out  == Renamed(fs, "main", "swap")
           back == Renamed(out, "bak", "main")
       IN <<out, back, Renamed(back, "swap", "bak")>>

\* handle_etirw: the old file becomes the .bak, the list is written anew.
Saving(fs, v) ==
  LET out == Renamed(fs, "main", "bak")
  IN <<out, [out EXCEPT !["main"] = Empty], [out EXCEPT !["main"] = v]>>

\* handle_create_file: fopen(main, "w").
Emptied(fs) == [fs EXCEPT !["main"] = Empty]

\* handle_ss_delete: the files in .checkpoints stay.
Removed(fs) == [fs EXCEPT !["main"] = Missing, !["bak"] = Missing]

\* handle_ss_move: the file and its .bak, if there is one, replace those at
\* the destination; the checkpoints of neither path move.
Replaced(to, from) ==
  [to EXCEPT !["main"] = from["main"],
             !["bak"]  = IF from["bak"] = Missing THEN @ ELSE from["bak"]]

\* The operation is done, or the server ends at one of the steps before.
Perform(f, states) ==
  disk' = [disk EXCEPT ![f] = End(states)]

StopWithin(f, states) ==
  /\ f \in Dies
  /\ \E fs \in {states[k] : k \in 1..(Len(states) - 1)} : disk' = [disk EXCEPT ![f] = fs]

-----------------------------------------------------------------------------
(* Operations on a document.  The name server relays those on files in its *)
(* catalog; a refused one changes nothing and is left out.                 *)

Listed(f) == slots[f] > 0

Create(f) ==
  /\ ~Listed(f)
  /\ disk' = [disk EXCEPT ![f] = Emptied(@)]
  /\ slots' = [slots EXCEPT ![f] = 1]
  /\ Forget({f})
  /\ UNCHANGED loaded

\* Deletes a file that is not in the catalog.
DeleteMutant(f) ==
  /\ disk' = [disk EXCEPT ![f] = Removed(@)]
  /\ slots' = [slots EXCEPT ![f] = @ - 1]
  /\ Forget({f})
  /\ UNCHANGED loaded

\* A copy in memory stays.
Delete(f) ==
  /\ Listed(f)
  /\ disk' = [disk EXCEPT ![f] = Removed(@)]
  /\ slots' = [slots EXCEPT ![f] = @ - 1]
  /\ Forget({f})
  /\ UNCHANGED loaded

\* The answer of the storage server is not looked at.
Undo(f) ==
  /\ Listed(f)
  /\ Perform(f, Undoing(disk[f]))
  /\ Remember(f)
  /\ UNCHANGED <<slots, loaded>>

\* Saves under a tag that is in use.
CheckpointMutant(f, tag) ==
  /\ Listed(f)
  /\ disk[f]["main"] # Missing
  /\ Perform(f, Copying(disk[f], "main", tag))
  /\ UNCHANGED <<slots, loaded, last>>

Checkpoint(f, tag) ==
  /\ Listed(f)
  /\ disk[f]["main"] # Missing /\ disk[f][tag] = Missing
  /\ Perform(f, Copying(disk[f], "main", tag))
  /\ UNCHANGED <<slots, loaded, last>>

Revert(f, tag) ==
  /\ Listed(f)
  /\ disk[f][tag] # Missing
  /\ Perform(f, Restoring(disk[f], tag, "__UNDO__"))
  /\ Remember(f)
  /\ UNCHANGED <<slots, loaded>>

\* Nothing asks whether the destination exists, on disk or in the catalog.
Move(f, g) ==
  /\ Listed(f) /\ f # g /\ slots[g] < MaxEntries
  /\ disk[f]["main"] # Missing
  /\ disk' = [disk EXCEPT ![f] = Removed(@), ![g] = Replaced(@, disk[f])]
  /\ slots' = [slots EXCEPT ![f] = @ - 1, ![g] = @ + 1]
  /\ Forget({f, g})
  /\ UNCHANGED loaded

\* find_or_load_active_doc for a write request ...
Load(f) ==
  /\ Listed(f) /\ f \notin loaded /\ Cardinality(loaded) < MaxDocs
  /\ disk[f]["main"] # Missing
  /\ loaded' = loaded \cup {f}
  /\ UNCHANGED <<disk, slots, last>>

\* ... a commit of one of its sessions, under the path it was loaded from ...
Commit(f, v) ==
  /\ f \in loaded
  /\ Perform(f, Saving(disk[f], v))
  /\ Forget({f})
  /\ UNCHANGED <<slots, loaded>>

\* ... and release_active_doc by the last of them.
Unload(f) ==
  /\ f \in loaded
  /\ loaded' = loaded \ {f}
  /\ UNCHANGED <<disk, slots, last>>

\* The server starts again and registers the files it finds.
Register ==
  /\ slots' = [f \in Path |-> IF disk'[f]["main"] = Missing THEN 0 ELSE 1]
  /\ loaded' = {}

Restart == UNCHANGED <<disk, last>> /\ Register

UndoDies(f) ==
  Listed(f) /\ StopWithin(f, Undoing(disk[f])) /\ Forget({f}) /\ Register

RevertDies(f, tag) ==
  /\ Listed(f) /\ disk[f][tag] # Missing
  /\ StopWithin(f, Restoring(disk[f], tag, "__UNDO__")) /\ Forget({f}) /\ Register

\* What was to be written does not matter yet.
CommitDies(f) ==
  f \in loaded /\ StopWithin(f, Saving(disk[f], Empty)) /\ Forget({f}) /\ Register

-----------------------------------------------------------------------------
Init ==
  /\ disk = [f \in Path |-> NoFiles]
  /\ slots = [f \in Path |-> 0]
  /\ loaded = {}
  /\ last = [f \in Path |-> Missing]

Next ==
  \/ \E f \in Path :
       \/ Create(f) \/ Delete(f) \/ Undo(f) \/ Load(f) \/ Unload(f)
       \/ UndoDies(f) \/ CommitDies(f)
       \/ \E tag \in Tag : Checkpoint(f, tag) \/ Revert(f, tag) \/ RevertDies(f, tag)
       \/ \E v \in Version : Commit(f, v)
       \/ \E g \in Path : Move(f, g)
  \/ Restart

Spec == Init /\ [][Next]_vars

-----------------------------------------------------------------------------
(* Properties *)

(* Every variable has its type. *)
TypeOK ==
  /\ disk \in [Path -> [Name -> Version \cup {Missing}]]
  /\ slots \in [Path -> 0..MaxEntries]
  /\ loaded \subseteq Path
  /\ last \in [Path -> Version \cup {Missing}]

(* An UNDO that follows a REVERT or another UNDO gives back what the file  *)
(* held before that one, through the three ways of undoing it.  (When the  *)
(* file did not exist then, it may come back empty.  Of an UNDO that       *)
(* follows a commit the code does not keep this: handlers.c:63 prefers     *)
(* what an earlier REVERT or UNDO saved.)                                  *)
UndoTakesBack ==
  [][\A f \in Path : last[f] # Missing /\ Undo(f) => disk'[f]["main"] = last[f]]_vars

(* An UNDO, a REVERT or a commit, done or cut short after any of its file  *)
(* system steps. *)
Replaces(f) ==
  \/ Undo(f) \/ UndoDies(f) \/ CommitDies(f)
  \/ \E tag \in Tag : Revert(f, tag) \/ RevertDies(f, tag)
  \/ \E v \in Version : Commit(f, v)

(* The order of the file system steps: wherever an UNDO, a REVERT or a     *)
(* commit ends, done or not, what the file held is still in one of its     *)
(* files.  (Not: in one that UNDO finds.) *)
ReplacedIsKept ==
  [][\A f \in Path :
       disk[f]["main"] \notin {Missing} \cup {disk'[f][n] : n \in Name}
         => ~Replaces(f)]_vars

(* A saved checkpoint does not change until the file is deleted: REVERT to *)
(* a tag gives what was saved under it. *)
CheckpointsStay ==
  [][\A f \in Path, tag \in Tag :
       Listed(f) /\ disk[f][tag] # Missing => disk'[f][tag] = disk[f][tag]]_vars
=============================================================================
