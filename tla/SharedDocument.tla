--------------------------- MODULE SharedDocument ---------------------------
(***************************************************************************)
(* What the storage server promises to people who write in the same files: *)
(* each has a place of its own in a file, a commit replaces the one        *)
(* sentence at that place, and everybody else's sentence stays what it     *)
(* was, though it may move.  EditContent implements it with documents in   *)
(* memory, locks on sentence nodes, queued edits and saved files.          *)
(***************************************************************************)
EXTENDS Integers, Sequences

CONSTANTS Client, File, Sentence, NoFile

VARIABLES
  file,   \* file -> its sentences, as a reader finds them
  cursor  \* client -> the sentence it writes in, or Nowhere

At(f, n) == [file |-> f, at |-> n]
Nowhere  == At(NoFile, 0)

Init ==
  /\ file \in [File -> Seq(Sentence)]
  /\ cursor = [c \in Client |-> Nowhere]

\* A client gets a sentence that nobody writes in.
Open(c) ==
  /\ cursor[c] = Nowhere
  /\ \E f \in File : \E n \in DOMAIN file[f] :
       /\ \A d \in Client : cursor[d] # At(f, n)
       /\ cursor' = [cursor EXCEPT ![c] = At(f, n)]
  /\ UNCHANGED file

\* It gives up: nothing has happened to the file.
Leave(c) ==
  /\ cursor[c] # Nowhere
  /\ cursor' = [cursor EXCEPT ![c] = Nowhere]
  /\ UNCHANGED file

\* The two differ in what is at the n-th place of old: any number of
\* sentences, or none, have come there, and what follows has moved with them.
Around(old, new, n) ==
  LET shift == Len(new) - Len(old)
  IN /\ shift >= -1
     /\ \A k \in 1..(n - 1) : new[k] = old[k]
     /\ \A k \in (n + 1)..Len(old) : new[k + shift] = old[k]

\* At most the sentences of f change.
Rewritten(f) ==
  /\ file'[f] \in Seq(Sentence)
  /\ file' = [file EXCEPT ![f] = file'[f]]

Commit(c) ==
  LET f == cursor[c].file
      n == cursor[c].at
  IN /\ cursor[c] # Nowhere
     /\ cursor' = [d \in Client |->
          IF d = c THEN Nowhere
          ELSE IF cursor[d].file = f /\ cursor[d].at > n
               THEN At(f, cursor[d].at + (Len(file'[f]) - Len(file[f])))
               ELSE cursor[d]]
     /\ Rewritten(f) /\ Around(file[f], file'[f], n)

\* The server stops and starts again; a commit under way may spoil its file.
Reset ==
  /\ cursor' = [c \in Client |-> Nowhere]
  /\ \/ UNCHANGED file
     \/ \E c \in Client : cursor[c] # Nowhere /\ Rewritten(cursor[c].file)

Next ==
  \/ \E c \in Client : Open(c) \/ Leave(c) \/ Commit(c)
  \/ Reset

Spec == Init /\ [][Next]_<<file, cursor>>
=============================================================================
