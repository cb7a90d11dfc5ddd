---------------------------- MODULE SentenceLock ----------------------------
(***************************************************************************)
(* What sentence-level locking promises a client: while it edits a         *)
(* sentence nobody else does, and the sentence is free again afterwards.   *)
(* EditSessions implements it with a lock table of fixed size, pointers    *)
(* and per-socket sessions.                                                *)
(***************************************************************************)
CONSTANTS Client, Sentence, None

VARIABLE holds  \* client -> the sentence it edits, or None

Init == holds = [c \in Client |-> None]

Acquire(c, a) ==
  /\ holds[c] = None
  /\ \A d \in Client : holds[d] # a
  /\ holds' = [holds EXCEPT ![c] = a]

Release(c) ==
  /\ holds[c] # None
  /\ holds' = [holds EXCEPT ![c] = None]

\* The server restarts and nobody edits any more.
Reset == holds' = [c \in Client |-> None]

Next ==
  \/ \E c \in Client : Release(c) \/ \E a \in Sentence : Acquire(c, a)
  \/ Reset

Spec == Init /\ [][Next]_holds
=============================================================================
