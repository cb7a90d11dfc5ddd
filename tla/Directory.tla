----------------------------- MODULE Directory ------------------------------
(***************************************************************************)
(* What the name server's catalog promises: a partial function from names  *)
(* to storage servers that only CREATE, DELETE, MOVE and the coming and    *)
(* going of storage servers change.  Some of these leave a name with       *)
(* entries that contradict one another; such a name is doubtful, and       *)
(* nothing is promised about it.                                           *)
(***************************************************************************)
CONSTANTS Name, Server, None

VARIABLES
  where,    \* name -> the storage server that has the file, or None
  doubtful  \* names about which nothing is promised

vars == <<where, doubtful>>

Init == where = [k \in Name |-> None] /\ doubtful = {}

\* From here on the names of d are doubtful, and the others are where w says.
Settles(w, d) ==
  /\ doubtful' = doubtful \cup d
  /\ where' \in [Name -> Server \cup {None}]
  /\ \A k \in Name \ doubtful' : where'[k] = w[k]

\* A full table makes the new name doubtful.
Create(k, s) ==
  /\ k \in doubtful \/ where[k] = None
  /\ \E d \in SUBSET {k} : Settles([where EXCEPT ![k] = s], d)

\* Under a doubtful name some other file may be deleted.
Delete(k) ==
  /\ k \in doubtful \/ where[k] # None
  /\ IF k \in doubtful
     THEN \E h \in Name : Settles(where, {h})
     ELSE Settles([where EXCEPT ![k] = None], {})

\* A name that was in use is doubtful once a second file has it.
Move(k, g) ==
  /\ k \in doubtful \/ where[k] # None
  /\ IF k \in doubtful
     THEN \E h \in Name : Settles(where, {g, h})
     ELSE Settles([where EXCEPT ![k] = None, ![g] = where[k]],
                  IF g # k /\ where[g] # None THEN {g} ELSE {})

\* A storage server brings the files f with it.
Arrives(s, f) ==
  Settles([k \in Name |-> IF k \in f THEN s ELSE where[k]],
          {k \in f : where[k] # None})

\* A storage server leaves and its files with it, wherever there are copies:
\* handle_disconnect takes their names out (name/catalog.c:70).  This is what the
\* code does, not what src/README.md:41 says ("client requests are redirected to
\* a backup server"): see Redirected in Replicas.
Leaves(s) == Settles([k \in Name |-> IF where[k] = s THEN None ELSE where[k]], {})

\* It is given up and its files stay, or old ones come back.
Doubt == \E d \in SUBSET Name : Settles(where, d)

Reset == where' = [k \in Name |-> None] /\ doubtful' = {}

Next ==
  \/ \E k \in Name : \/ Delete(k)
                     \/ \E s \in Server : Create(k, s)
                     \/ \E g \in Name : Move(k, g)
  \/ \E s \in Server : Leaves(s) \/ \E f \in SUBSET Name : Arrives(s, f)
  \/ Doubt
  \/ Reset

Spec == Init /\ [][Next]_vars
=============================================================================
