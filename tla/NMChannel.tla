----------------------------- MODULE NMChannel ------------------------------
(***************************************************************************)
(* The connection between the name server and one storage server.  The     *)
(* name server relays a request and blocks until the next header arrives,  *)
(* which it takes for the answer.  The same connection carries statistics  *)
(* after each commit, answers to heartbeats, and the answer to a DELETE of *)
(* the backup copy, which nobody waits for.  Headers that come when nobody *)
(* waits are read by the name server's main loop.                          *)
(*                                                                         *)
(* Bytes are seen as headers and bodies; a body may be read as headers.    *)
(***************************************************************************)
EXTENDS Integers, Sequences

CONSTANTS
  Capacity,  \* messages that fit into the buffers towards the storage server
  MaxUnread  \* bound: headers and bodies that wait for the name server

ASSUME ChannelAssumption == Capacity \in Nat \ {0} /\ MaxUnread \in Nat

VARIABLES
  toServer,   \* commands the storage server has not read
  toName,     \* headers and bodies the name server has not read
  nm,         \* what the name server does: see Waiting
  status,     \* of the descriptor: "server", "offline", "client", "closed"
  missed,     \* missed_heartbeats
  up,         \* the storage server's process
  disturbed   \* history: something was ahead of the answer waited for

vars == <<toServer, toName, nm, status, missed, up, disturbed>>

\* Requests that are relayed and waited for: stats (CREATE, UNDO) is followed by
\* statistics, show (VIEWCHECKPOINT, LISTCHECKPOINTS) has a body, tag
\* (CHECKPOINT, REVERT) and plain (DELETE, MOVE, folders) are a header.
Asked == {"stats", "show", "tag", "plain"}
\* Commands that are sent and not waited for: DELETE to a backup; ADDACCESS,
\* REMACCESS and REPLICATE, which have no answer; heartbeats.
Unasked == {"copy", "quiet", "beat"}

\* Whose answer it is: of the last request relayed, of one before, or of none.
Of == {"own", "older", "none"}

Command(op, of) == [op |-> op, of |-> of]
Unit(kind, of) == [kind |-> kind, of |-> of]
UnitType == [kind : {"ok", "error", "shown", "update", "beat", "body"}, of : Of]

Update == <<Unit("update", "none"), Unit("body", "none")>>

\* In the main loop, waiting for an answer, or in handle_client_register.
Waiting == nm \in Asked
Blocked == nm = "registering"

Older(q) == [j \in DOMAIN q |-> [q[j] EXCEPT !.of = IF @ = "own" THEN "older" ELSE @]]
After(q, n) == SubSeq(q, n + 1, Len(q))

\* Commands that are answered.
Answers(q) == \E j \in DOMAIN q : q[j].op # "quiet"

-----------------------------------------------------------------------------
(* The name server. *)

\* The checkpoint commands do not ask whether the storage server is online.
Relay(op) ==
  /\ nm = "idle" /\ Len(toServer) < Capacity
  /\ status = "server" \/ (status # "closed" /\ op \in {"tag", "show"})
  /\ toServer' = Append(Older(toServer), Command(op, "own"))
  /\ toName' = Older(toName)
  /\ nm' = op
  /\ disturbed' = (Answers(toServer) \/ toName # <<>>)
  /\ UNCHANGED <<status, missed, up>>

Send(op) ==
  /\ nm = "idle" /\ status = "server" /\ Len(toServer) < Capacity
  /\ toServer' = Append(toServer, Command(op, "none"))
  /\ UNCHANGED <<toName, nm, status, missed, up, disturbed>>

\* Whatever comes next is the answer.  Of a body eight bytes are read, and the
\* rest stays, if there is any.
TakeAnswer ==
  /\ Waiting /\ toName # <<>>
  /\ nm' = "idle"
  /\ LET head == Head(toName).kind
     IN toName' \in (IF head = "shown" /\ nm = "show" THEN {After(toName, 2)}
                     ELSE IF head = "body" THEN {toName, After(toName, 1)}
                     ELSE {After(toName, 1)})
  /\ UNCHANGED <<toServer, status, missed, up, disturbed>>

\* The connection ended: the header keeps what was in it.
TakeNothing ==
  /\ Waiting \/ Blocked
  /\ toName = <<>> /\ ~up
  /\ nm' = "idle"
  /\ UNCHANGED <<toServer, toName, status, missed, up, disturbed>>

\* handle_nm_message: statistics, a heartbeat, or a header it does not know.
Dispatch ==
  /\ nm = "idle" /\ status # "closed" /\ toName # <<>>
  /\ Head(toName).kind # "body"
  /\ toName' = After(toName, IF Head(toName).kind = "update" THEN 2 ELSE 1)
  /\ missed' = IF Head(toName).kind = "beat" /\ status = "server" THEN 0 ELSE missed
  /\ UNCHANGED <<toServer, nm, status, up, disturbed>>

\* The main loop finds a body where a header should be.  The end of a file name
\* is zeros, and 0 is REQ_CLIENT_REGISTER: the descriptor is a client's from
\* then on.  Its name is read from what follows, or waited for.
Garbled ==
  /\ nm = "idle" /\ status # "closed" /\ toName # <<>>
  /\ Head(toName).kind = "body"
  /\ status' \in {status, "client"}
  /\ \E n \in 1..Len(toName) : toName' = After(toName, n)
  /\ nm' \in (IF status' = "client" THEN {"idle", "registering"} ELSE {"idle"})
  /\ UNCHANGED <<toServer, missed, up, disturbed>>

\* The name has come.
Registered ==
  /\ Blocked /\ toName # <<>>
  /\ nm' = "idle"
  /\ \E n \in 1..Len(toName) : toName' = After(toName, n)
  /\ UNCHANGED <<toServer, status, missed, up, disturbed>>

\* One heartbeat too late.
TooManyMutant(n) == n > 3

TooMany(n) == n >= 3

\* process_ss_heartbeats, when there is nothing to read for ten seconds.  A
\* heartbeat is missed when it cannot be sent.
Heartbeat ==
  /\ nm = "idle" /\ status = "server" /\ toName = <<>>
  /\ IF Len(toServer) < Capacity
     THEN /\ toServer' = Append(toServer, Command("beat", "none"))
          /\ UNCHANGED <<missed, status>>
     ELSE /\ missed' = missed + 1
          /\ status' = IF TooMany(missed') THEN "offline" ELSE status
          /\ UNCHANGED toServer
  /\ UNCHANGED <<toName, nm, up, disturbed>>

\* handle_disconnect
Close ==
  /\ nm = "idle" /\ status # "closed" /\ toName = <<>> /\ ~up
  /\ status' = "closed"
  /\ toServer' = <<>>
  /\ UNCHANGED <<toName, nm, missed, up, disturbed>>

-----------------------------------------------------------------------------
(* The storage server. *)

\* Statistics are sent first.
ReplyMutant(c) ==
  CASE c.op = "stats" -> {Update \o <<Unit("ok", c.of)>>}
    [] c.op = "show"  -> {<<Unit("shown", c.of), Unit("body", c.of)>>, <<Unit("error", c.of)>>}
    [] c.op = "quiet" -> {<<>>}
    [] c.op = "beat"  -> {<<Unit("beat", "none")>>}
    [] OTHER          -> {<<Unit("ok", c.of)>>, <<Unit("error", c.of)>>}

\* What the storage server may send when it reads the command c.  There are no
\* statistics of a file that is not there.
Reply(c) ==
  CASE c.op = "stats" -> {<<Unit(k, c.of)>> \o u : k \in {"ok", "error"}, u \in {<<>>, Update}}
    [] c.op = "show"  -> {<<Unit("shown", c.of), Unit("body", c.of)>>, <<Unit("error", c.of)>>}
    [] c.op = "quiet" -> {<<>>}
    [] c.op = "beat"  -> {<<Unit("beat", "none")>>}
    [] c.op = "copy"  -> {<<Unit("ok", "none")>>}
    [] OTHER          -> {<<Unit("ok", c.of)>>, <<Unit("error", c.of)>>}

Fits(us) == Len(toName) + Len(us) <= MaxUnread

\* The answer to the request the name server waits for is still to be given.
Unserved == \E j \in DOMAIN toServer : toServer[j].of = "own"

\* Reads a command and drops it.
ServeMutant ==
  /\ up /\ toServer # <<>>
  /\ toServer' = Tail(toServer)
  /\ \E us \in Reply(Head(toServer)) \cup {<<>>} :
       /\ Fits(us)
       /\ toName' = toName \o us
  /\ UNCHANGED <<nm, status, missed, up, disturbed>>

\* handle_nm_message_ss
Serve ==
  /\ up /\ toServer # <<>>
  /\ toServer' = Tail(toServer)
  /\ \E us \in Reply(Head(toServer)) :
       /\ Fits(us)
       /\ toName' = toName \o us
  /\ UNCHANGED <<nm, status, missed, up, disturbed>>

\* handle_etirw, for a client: statistics, if the file can be read.
Commit ==
  /\ up /\ Fits(Update)
  /\ toName' = toName \o Update
  /\ disturbed' = (disturbed \/ (Waiting /\ Unserved))
  /\ UNCHANGED <<toServer, nm, status, missed, up>>

Ends ==
  /\ up
  /\ up' = FALSE
  /\ UNCHANGED <<toServer, toName, nm, status, missed, disturbed>>

\* A new process, a new connection; statistics of its files, if any.
Registers ==
  /\ status = "closed"
  /\ status' = "server" /\ up' = TRUE /\ missed' = 0
  /\ toName' \in {<<>>, Update}
  /\ Fits(toName')
  /\ UNCHANGED <<toServer, nm, disturbed>>

Init ==
  /\ toServer = <<>> /\ toName = <<>> /\ nm = "idle"
  /\ status = "server" /\ missed = 0 /\ up = TRUE /\ disturbed = FALSE

NameServer ==
  \/ \E op \in Asked : Relay(op)
  \/ \E op \in Unasked \ {"beat"} : Send(op)
  \/ TakeAnswer \/ TakeNothing \/ Dispatch \/ Garbled \/ Registered \/ Heartbeat \/ Close

StorageServer == Serve \/ Commit \/ Ends \/ Registers

Next == NameServer \/ StorageServer

Spec == Init /\ [][Next]_vars

\* The storage server reads what it is sent, and a blocking recv returns when
\* there is something, or no connection any more.
FairSpec == Spec /\ WF_vars(Serve) /\ WF_vars(TakeAnswer) /\ WF_vars(TakeNothing)

-----------------------------------------------------------------------------
(* Properties. *)

\* Every variable has its type.
TypeOK ==
  /\ toServer \in Seq([op : Asked \cup Unasked, of : Of]) /\ Len(toServer) <= Capacity
  /\ toName \in Seq(UnitType) /\ Len(toName) <= MaxUnread
  /\ nm \in Asked \cup {"idle", "registering"}
  /\ status \in {"server", "offline", "client", "closed"}
  /\ missed \in 0..3
  /\ up \in BOOLEAN /\ disturbed \in BOOLEAN

\* What the name server takes for the answer to a request is that answer, if
\* nothing that is answered was on its way when the request was relayed, and no
\* commit came before it (name/handlers.c 49-50 and the like).
AnswersAreOwn ==
  Waiting /\ ~disturbed /\ toName # <<>> => Head(toName).of = "own"

\* The name server does not wait for ever while the storage server's loop runs.
WaitEnds == Waiting ~> ~Waiting
=============================================================================
