-------------------------- MODULE NMChannel_proofs --------------------------
(* Proofs about NMChannel, for buffers of every size: undisturbed answers  *)
(* are taken by the request they are for. *)
EXTENDS NMChannel, TLAPS

CommandType == [op : Asked \cup Unasked, of : Of]

(* What is left when the first n are taken. *)
LEMMA AfterFacts ==
  ASSUME NEW S, NEW q \in Seq(S), NEW n \in Nat
  PROVE  After(q, n) \in Seq(S) /\ Len(After(q, n)) <= Len(q)
<1>1. Len(q) \in Nat
  OBVIOUS
<1>2. SubSeq(q, n + 1, Len(q)) \in Seq(S)
  OBVIOUS
<1>3. Len(SubSeq(q, n + 1, Len(q))) <= Len(q)
  BY <1>1
<1> QED
  BY <1>2, <1>3 DEF After

(* Lists of one or two units. *)
LEMMA UnitLists ==
  ASSUME NEW x \in UnitType, NEW y \in UnitType
  PROVE  /\ <<x>> \in Seq(UnitType) /\ <<x, y>> \in Seq(UnitType)
         /\ <<x>> # <<>> /\ <<x, y>> # <<>>
         /\ Head(<<x>>) = x /\ Head(<<x, y>>) = x
<1>1. Len(<<x>>) = 1 /\ Len(<<x, y>>) = 2 /\ Len(<<>>) = 0
  OBVIOUS
<1> QED
  BY <1>1

(* Messages that grow older stay what and where they are. *)
LEMMA OlderCommands ==
  ASSUME NEW q \in Seq(CommandType)
  PROVE  /\ Older(q) \in Seq(CommandType) /\ Len(Older(q)) = Len(q)
         /\ \A j \in 1..Len(q) : Older(q)[j].op = q[j].op /\ Older(q)[j].of # "own"
<1>1. Older(q) = [j \in 1..Len(q) |-> [q[j] EXCEPT !.of = IF q[j].of = "own" THEN "older" ELSE q[j].of]]
  BY DEF Older
<1>2. ASSUME NEW j \in 1..Len(q)
      PROVE  LET c == [q[j] EXCEPT !.of = IF q[j].of = "own" THEN "older" ELSE q[j].of]
             IN c \in CommandType /\ c.op = q[j].op /\ c.of # "own"
  <2>1. q[j] \in CommandType
    OBVIOUS
  <2> QED
    BY <2>1 DEF CommandType, Of
<1> DEFINE v(j) == [q[j] EXCEPT !.of = IF q[j].of = "own" THEN "older" ELSE q[j].of]
<1>3. Len(q) \in Nat /\ \A j \in 1..Len(q) : v(j) \in CommandType
  BY <1>2
<1>4. Older(q) = [j \in 1..Len(q) |-> v(j)]
  BY <1>1
<1>5. \A j \in 1..Len(q) : v(j).op = q[j].op /\ v(j).of # "own"
  BY <1>2
<1> HIDE DEF v
<1>6. /\ [j \in 1..Len(q) |-> v(j)] \in Seq(CommandType)
      /\ Len([j \in 1..Len(q) |-> v(j)]) = Len(q)
  BY <1>3
<1> QED
  BY <1>4, <1>5, <1>6

LEMMA OlderUnits ==
  ASSUME NEW q \in Seq(UnitType)
  PROVE  Older(q) \in Seq(UnitType) /\ Len(Older(q)) = Len(q)
<1>1. Older(q) = [j \in 1..Len(q) |-> [q[j] EXCEPT !.of = IF q[j].of = "own" THEN "older" ELSE q[j].of]]
  BY DEF Older
<1>2. ASSUME NEW j \in 1..Len(q)
      PROVE  [q[j] EXCEPT !.of = IF q[j].of = "own" THEN "older" ELSE q[j].of] \in UnitType
  <2>1. q[j] \in UnitType
    OBVIOUS
  <2> QED
    BY <2>1 DEF UnitType, Of
<1> DEFINE v(j) == [q[j] EXCEPT !.of = IF q[j].of = "own" THEN "older" ELSE q[j].of]
<1>3. Len(q) \in Nat /\ \A j \in 1..Len(q) : v(j) \in UnitType
  BY <1>2
<1>4. Older(q) = [j \in 1..Len(q) |-> v(j)]
  BY <1>1
<1> HIDE DEF v
<1>5. /\ [j \in 1..Len(q) |-> v(j)] \in Seq(UnitType)
      /\ Len([j \in 1..Len(q) |-> v(j)]) = Len(q)
  BY <1>3
<1> QED
  BY <1>4, <1>5

(* What a storage server sends: units; nothing for a command that is not   *)
(* answered; and the answer first.  *)
LEMMA ReplyFacts ==
  ASSUME NEW c \in CommandType, NEW us \in Reply(c)
  PROVE  /\ us \in Seq(UnitType)
         /\ c.op = "quiet" => us = <<>>
         /\ c.op \in Asked => us # <<>> /\ Head(us).of = c.of
<1>u. /\ \A k \in {"ok", "error", "shown", "update", "beat", "body"}, o \in Of :
           Unit(k, o) \in UnitType /\ Unit(k, o).of = o
      /\ "none" \in Of /\ c.of \in Of /\ c.op \in Asked \cup Unasked
  BY DEF Unit, UnitType, Of, CommandType
<1>1. CASE c.op = "stats"
  <2>1. PICK k \in {"ok", "error"}, u \in {<<>>, Update} : us = <<Unit(k, c.of)>> \o u
    BY <1>1 DEF Reply
  <2>2. Update \in Seq(UnitType) /\ <<>> \in Seq(UnitType)
    BY <1>u DEF Update
  <2>3. u \in Seq(UnitType) /\ Unit(k, c.of) \in UnitType /\ Unit(k, c.of).of = c.of
    BY <1>u, <2>2
  <2> DEFINE x == Unit(k, c.of)
  <2> HIDE DEF x
  <2>4. x \in UnitType /\ x.of = c.of /\ us = <<x>> \o u
    BY <2>1, <2>3 DEF x
  <2> QED
    BY <1>1, <2>3, <2>4
<1>2. CASE c.op = "show"
  <2> DEFINE x == Unit("shown", c.of)
             y == Unit("body", c.of)
             z == Unit("error", c.of)
  <2>1. us \in {<<x, y>>, <<z>>}
    BY <1>2 DEF Reply
  <2>2. x \in UnitType /\ y \in UnitType /\ z \in UnitType /\ x.of = c.of /\ z.of = c.of
    BY <1>u
  <2> HIDE DEF x, y, z
  <2> QED
    BY <1>2, <2>1, <2>2, UnitLists
<1>3. CASE c.op = "quiet"
  BY <1>3 DEF Reply, Asked
<1>4. CASE c.op = "beat" \/ c.op = "copy"
  <2> DEFINE x == Unit("beat", "none")
             y == Unit("ok", "none")
  <2>1. us \in {<<x>>, <<y>>}
    BY <1>4 DEF Reply
  <2>2. x \in UnitType /\ y \in UnitType
    BY <1>u
  <2> HIDE DEF x, y
  <2> QED
    BY <1>4, <2>1, <2>2, UnitLists DEF Asked
<1>5. CASE c.op = "tag" \/ c.op = "plain"
  <2> DEFINE x == Unit("ok", c.of)
             y == Unit("error", c.of)
  <2>1. us \in {<<x>>, <<y>>}
    BY <1>5 DEF Reply
  <2>2. x \in UnitType /\ y \in UnitType /\ x.of = c.of /\ y.of = c.of
    BY <1>u
  <2> HIDE DEF x, y
  <2> QED
    BY <1>5, <2>1, <2>2, UnitLists
<1> QED
  BY <1>u, <1>1, <1>2, <1>3, <1>4, <1>5 DEF Asked, Unasked

-----------------------------------------------------------------------------
(* The request waited for is next in line, or its answer is.               *)
Expected ==
  Waiting /\ ~disturbed =>
    \/ /\ toName = <<>>
       /\ \E j \in 1..Len(toServer) : /\ toServer[j].of = "own"
                                      /\ \A i \in 1..(j - 1) : toServer[i].op = "quiet"
    \/ toName # <<>> /\ Head(toName).of = "own"

(* Only requests that are waited for are the last one. *)
OwnIsAsked == \A j \in 1..Len(toServer) : toServer[j].of = "own" => toServer[j].op \in Asked

IInv ==
  /\ TypeOK
  /\ status = "server" => missed <= 2
  /\ Waiting => status # "closed"
  /\ OwnIsAsked
  /\ Expected

LEMMA InitIInv == Init => IInv
<1> SUFFICES ASSUME Init PROVE IInv
  OBVIOUS
<1>1. toServer = <<>> /\ toName = <<>> /\ nm = "idle" /\ status = "server" /\ missed = 0
  BY DEF Init
<1>2. TypeOK
  <2>1. toServer \in Seq([op : Asked \cup Unasked, of : Of]) /\ Len(toServer) = 0
    BY <1>1
  <2>2. toName \in Seq(UnitType) /\ Len(toName) = 0
    BY <1>1
  <2>3. nm \in Asked \cup {"idle", "registering"} /\ missed \in 0..3
        /\ status \in {"server", "offline", "client", "closed"}
    BY <1>1
  <2>4. up \in BOOLEAN /\ disturbed \in BOOLEAN
    BY DEF Init
  <2> QED
    BY <2>1, <2>2, <2>3, <2>4, ChannelAssumption DEF TypeOK
<1>3. ~Waiting /\ OwnIsAsked
  BY <1>1 DEF Waiting, Asked, OwnIsAsked
<1> QED
  BY <1>1, <1>2, <1>3 DEF IInv, Expected

-----------------------------------------------------------------------------
(* What the invariant says of the channel, action by action. *)
LEMMA NextIInv == IInv /\ [Next]_vars => IInv'
<1> SUFFICES ASSUME IInv, [Next]_vars PROVE IInv'
  OBVIOUS
<1>t. /\ toServer \in Seq(CommandType) /\ Len(toServer) \in Nat /\ Len(toServer) <= Capacity
      /\ toName \in Seq(UnitType) /\ Len(toName) \in Nat /\ Len(toName) <= MaxUnread
      /\ nm \in Asked \cup {"idle", "registering"}
      /\ status \in {"server", "offline", "client", "closed"}
      /\ missed \in 0..3 /\ up \in BOOLEAN /\ disturbed \in BOOLEAN
      /\ Capacity \in Nat \ {0} /\ MaxUnread \in Nat
  BY ChannelAssumption DEF IInv, TypeOK, CommandType
<1>i. "idle" \notin Asked /\ "registering" \notin Asked
  BY DEF Asked
<1>1. ASSUME NEW op \in Asked, Relay(op) PROVE IInv'
  <2>1. /\ Older(toServer) \in Seq(CommandType) /\ Len(Older(toServer)) = Len(toServer)
        /\ \A j \in 1..Len(toServer) : /\ Older(toServer)[j].op = toServer[j].op
                                       /\ Older(toServer)[j].of # "own"
        /\ Older(toName) \in Seq(UnitType) /\ Len(Older(toName)) = Len(toName)
    BY <1>t, OlderCommands, OlderUnits
  <2> DEFINE c == Command(op, "own")
             q == Older(toServer)
  <2>2. c \in CommandType /\ c.of = "own" /\ c.op = op
    BY DEF Command, CommandType, Of
  <2>3. /\ toServer' = Append(q, c) /\ toName' = Older(toName) /\ nm' = op
        /\ Len(toServer) < Capacity /\ status # "closed" /\ nm = "idle"
        /\ disturbed' = (Answers(toServer) \/ toName # <<>>)
        /\ UNCHANGED <<status, missed, up>>
    BY <1>1, <1>t DEF Relay
  <2> HIDE DEF c, q
  <2>4. q \in Seq(CommandType) /\ Len(q) = Len(toServer)
        /\ \A j \in 1..Len(q) : q[j].op = toServer[j].op /\ q[j].of # "own"
    BY <2>1 DEF q
  <2>5. /\ toServer' \in Seq(CommandType) /\ Len(toServer') = Len(q) + 1
        /\ toServer'[Len(q) + 1] = c /\ \A j \in 1..Len(q) : toServer'[j] = q[j]
    BY <2>2, <2>3, <2>4
  <2>6. Len(toServer') <= Capacity
    BY <1>t, <2>3, <2>4, <2>5
  <2>7. TypeOK'
    BY <1>t, <2>1, <2>3, <2>5, <2>6 DEF TypeOK, CommandType
  <2>8. OwnIsAsked'
    BY <1>t, <2>2, <2>4, <2>5 DEF OwnIsAsked
  <2>9. Expected'
    <3> SUFFICES ASSUME ~disturbed'
                 PROVE  /\ toName' = <<>>
                        /\ toServer'[Len(q) + 1].of = "own"
                        /\ \A i \in 1..Len(q) : toServer'[i].op = "quiet"
                        /\ Len(q) + 1 \in 1..Len(toServer')
      BY <1>t, <2>4, <2>5 DEF Expected
    <3>1. ~Answers(toServer) /\ toName = <<>>
      BY <2>3
    <3>2. toName' = <<>>
      BY <2>1, <2>3, <3>1
    <3>3. \A j \in 1..Len(q) : toServer[j].op = "quiet"
      BY <1>t, <2>4, <3>1 DEF Answers
    <3>4. toServer'[Len(q) + 1].of = "own"
      BY <2>2, <2>5
    <3>5. \A i \in 1..Len(q) : toServer'[i].op = "quiet"
      BY <2>4, <2>5, <3>3
    <3>6. Len(q) + 1 \in 1..Len(toServer')
      BY <1>t, <2>4, <2>5
    <3> QED
      BY <3>2, <3>4, <3>5, <3>6
  <2> QED
    BY <1>t, <2>3, <2>7, <2>8, <2>9 DEF IInv
<1>2. ASSUME NEW op \in Unasked, Send(op) PROVE IInv'
  <2> DEFINE c == Command(op, "none")
  <2>1. c \in CommandType /\ c.of # "own"
    BY DEF Command, CommandType, Of
  <2>2. toServer' = Append(toServer, c) /\ nm' = "idle" /\ Len(toServer) < Capacity
        /\ UNCHANGED <<toName, status, missed, up, disturbed>>
    BY <1>2 DEF Send
  <2> HIDE DEF c
  <2>3. /\ toServer' \in Seq(CommandType) /\ Len(toServer') = Len(toServer) + 1
        /\ toServer'[Len(toServer) + 1] = c
        /\ \A j \in 1..Len(toServer) : toServer'[j] = toServer[j]
    BY <1>t, <2>1, <2>2
  <2>4. TypeOK'
    BY <1>t, <2>2, <2>3 DEF TypeOK, CommandType
  <2>5. OwnIsAsked'
    BY <1>t, <2>1, <2>3 DEF OwnIsAsked, IInv
  <2> QED
    BY <1>i, <2>2, <2>4, <2>5 DEF IInv, Expected, Waiting
(* Actions of the name server that end in its main loop and leave what is  *)
(* on its way to the storage server. *)
<1>3. ASSUME nm' \in {"idle", "registering"},
             \/ toServer' = toServer \/ toServer' = <<>>
             \/ toServer' = Append(toServer, Command("beat", "none")) /\ Len(toServer) < Capacity,
             toName' \in Seq(UnitType), Len(toName') <= MaxUnread,
             status' \in {"server", "offline", "client", "closed"},
             missed' \in 0..3, status' = "server" => missed' <= 2,
             UNCHANGED <<up, disturbed>>
      PROVE  IInv'
  <2> DEFINE c == Command("beat", "none")
  <2>1. c \in CommandType /\ c.of # "own"
    BY DEF Command, CommandType, Of, Unasked
  <2> HIDE DEF c
  <2>2. CASE toServer' = Append(toServer, c) /\ Len(toServer) < Capacity
    <3>1. /\ toServer' \in Seq(CommandType) /\ Len(toServer') = Len(toServer) + 1
          /\ toServer'[Len(toServer) + 1] = c
          /\ \A j \in 1..Len(toServer) : toServer'[j] = toServer[j]
      BY <1>t, <2>1, <2>2
    <3>2. TypeOK'
      BY <1>3, <1>t, <2>2, <3>1 DEF TypeOK, CommandType
    <3>3. OwnIsAsked'
      BY <1>t, <2>1, <3>1 DEF OwnIsAsked, IInv
    <3> QED
      BY <1>3, <1>i, <3>2, <3>3 DEF IInv, Expected, Waiting
  <2>3. CASE toServer' \in {toServer, <<>>}
    <3>1. /\ toServer' \in Seq(CommandType) /\ Len(toServer') <= Capacity
          /\ \A j \in 1..Len(toServer') : j \in 1..Len(toServer) /\ toServer'[j] = toServer[j]
      <4>1. CASE toServer' = toServer
        BY <1>t, <4>1
      <4>2. CASE toServer' = <<>>
        BY <1>t, <4>2
      <4> QED
        BY <2>3, <4>1, <4>2
    <3>2. TypeOK'
      BY <1>3, <1>t, <3>1 DEF TypeOK, CommandType
    <3>3. OwnIsAsked'
      BY <3>1 DEF OwnIsAsked, IInv
    <3> QED
      BY <1>3, <1>i, <3>2, <3>3 DEF IInv, Expected, Waiting
  <2> QED
    BY <1>3, <2>2, <2>3 DEF c
<1>a. \A n \in Nat : After(toName, n) \in Seq(UnitType) /\ Len(After(toName, n)) <= MaxUnread
  <2> SUFFICES ASSUME NEW n \in Nat
               PROVE  After(toName, n) \in Seq(UnitType) /\ Len(After(toName, n)) <= MaxUnread
    OBVIOUS
  <2>1. After(toName, n) \in Seq(UnitType) /\ Len(After(toName, n)) <= Len(toName)
    BY <1>t, AfterFacts
  <2>2. Len(After(toName, n)) \in Nat
    BY <2>1
  <2> QED
    BY <1>t, <2>1, <2>2
<1>m. status = "server" => missed <= 2
  BY DEF IInv
<1>4. ASSUME TakeAnswer \/ TakeNothing \/ Dispatch PROVE IInv'
  <2>1. CASE TakeAnswer
    <3>1. toName' \in {toName, After(toName, 1), After(toName, 2)}
      BY <2>1 DEF TakeAnswer
    <3>2. nm' = "idle" /\ UNCHANGED <<toServer, status, missed, up, disturbed>>
      BY <2>1 DEF TakeAnswer
    <3>3. toName' \in Seq(UnitType) /\ Len(toName') <= MaxUnread
      BY <1>t, <1>a, <3>1
    <3> QED
      BY <1>3, <1>t, <1>m, <3>2, <3>3
  <2>2. CASE TakeNothing
    BY <1>3, <1>t, <1>m, <2>2 DEF TakeNothing
  <2>3. CASE Dispatch
    <3>1. toName' \in {After(toName, 1), After(toName, 2)} /\ missed' \in {0, missed}
      BY <2>3 DEF Dispatch
    <3>2. nm' = "idle" /\ UNCHANGED <<toServer, status, up, disturbed>>
      BY <2>3 DEF Dispatch
    <3>3. toName' \in Seq(UnitType) /\ Len(toName') <= MaxUnread
      BY <1>a, <3>1
    <3> QED
      BY <1>3, <1>t, <1>m, <3>1, <3>2, <3>3
  <2> QED
    BY <1>4, <2>1, <2>2, <2>3
<1>5. ASSUME Garbled \/ Registered PROVE IInv'
  <2>1. PICK n \in 1..Len(toName) : toName' = After(toName, n)
    BY <1>5 DEF Garbled, Registered
  <2>2. toName' \in Seq(UnitType) /\ Len(toName') <= MaxUnread
    BY <1>t, <1>a, <2>1
  <2>3. /\ nm' \in {"idle", "registering"} /\ status' \in {status, "client"}
        /\ UNCHANGED <<toServer, missed, up, disturbed>>
    BY <1>5 DEF Garbled, Registered
  <2> QED
    BY <1>3, <1>t, <1>m, <2>2, <2>3
<1>6. ASSUME Heartbeat PROVE IInv'
  <2>1. UNCHANGED <<toName, nm, up, disturbed>> /\ nm = "idle" /\ status = "server"
    BY <1>6 DEF Heartbeat
  <2>2. CASE Len(toServer) < Capacity
    <3>1. toServer' = Append(toServer, Command("beat", "none")) /\ UNCHANGED <<missed, status>>
      BY <1>6, <2>2 DEF Heartbeat
    <3> QED
      BY <1>3, <1>t, <1>m, <2>1, <2>2, <3>1
  <2>3. CASE ~(Len(toServer) < Capacity)
    <3>1. /\ missed' = missed + 1 /\ toServer' = toServer
          /\ status' = IF missed' >= 3 THEN "offline" ELSE status
      BY <1>6, <2>3 DEF Heartbeat, TooMany
    <3>2. missed' \in 0..3 /\ (status' = "server" => missed' <= 2)
      BY <1>t, <1>m, <2>1, <3>1
    <3> QED
      BY <1>3, <1>t, <2>1, <3>1, <3>2
  <2> QED
    BY <2>2, <2>3
<1>7. ASSUME Close PROVE IInv'
  BY <1>3, <1>7, <1>t DEF Close
<1>8. ASSUME Serve PROVE IInv'
  <2> DEFINE c == Head(toServer)
  <2>1. toServer # <<>> /\ toServer' = Tail(toServer) /\ UNCHANGED <<nm, status, missed, up, disturbed>>
    BY <1>8 DEF Serve
  <2>2. PICK us \in Reply(c) : Fits(us) /\ toName' = toName \o us
    BY <1>8 DEF Serve
  <2>3. c \in CommandType /\ c = toServer[1] /\ Len(toServer) >= 1
    BY <1>t, <2>1
  <2> HIDE DEF c
  <2>4. us \in Seq(UnitType) /\ (c.op = "quiet" => us = <<>>)
        /\ (c.op \in Asked => us # <<>> /\ Head(us).of = c.of)
    BY <2>2, <2>3, ReplyFacts
  <2>5. toName' \in Seq(UnitType) /\ Len(toName') <= MaxUnread
    BY <1>t, <2>2, <2>4 DEF Fits
  <2>6. /\ toServer' \in Seq(CommandType) /\ Len(toServer') = Len(toServer) - 1
        /\ \A j \in 1..Len(toServer') : j + 1 \in 1..Len(toServer) /\ toServer'[j] = toServer[j + 1]
    BY <1>t, <2>1, <2>3
  <2>7. TypeOK'
    BY <1>t, <2>1, <2>5, <2>6 DEF TypeOK, CommandType
  <2>8. OwnIsAsked'
    BY <2>6 DEF OwnIsAsked, IInv
  <2>9. Expected'
    <3> SUFFICES ASSUME Waiting, ~disturbed
                 PROVE  \/ /\ toName' = <<>>
                           /\ \E j \in 1..Len(toServer') :
                                 /\ toServer'[j].of = "own"
                                 /\ \A i \in 1..(j - 1) : toServer'[i].op = "quiet"
                        \/ toName' # <<>> /\ Head(toName').of = "own"
      BY <2>1 DEF Expected, Waiting
    <3>1. CASE toName # <<>>
      <4>1. Head(toName).of = "own"
        BY <3>1 DEF IInv, Expected
      <4>2. toName' # <<>> /\ Head(toName') = Head(toName)
        BY <1>t, <2>2, <2>4, <3>1
      <4> QED
        BY <4>1, <4>2
    <3>2. CASE toName = <<>>
      <4>1. PICK j \in 1..Len(toServer) : /\ toServer[j].of = "own"
                                          /\ \A i \in 1..(j - 1) : toServer[i].op = "quiet"
        BY <3>2 DEF IInv, Expected
      <4>2. toName' = us
        BY <2>2, <2>4, <3>2
      <4>3. CASE j = 1
        <5>1. c.of = "own" /\ c.op \in Asked
          BY <2>3, <4>1, <4>3, <1>t DEF IInv, OwnIsAsked
        <5> QED
          BY <2>4, <4>2, <5>1
      <4>4. CASE j # 1
        <5>1. c.op = "quiet"
          BY <2>3, <4>1, <4>4, <1>t
        <5>2. toName' = <<>>
          BY <2>4, <4>2, <5>1
        <5>3. j - 1 \in 1..Len(toServer') /\ toServer'[j - 1] = toServer[j]
          BY <1>t, <2>6, <4>1, <4>4
        <5>4. ASSUME NEW i \in 1..(j - 2) PROVE toServer'[i].op = "quiet"
          BY <1>t, <2>6, <4>1, <4>4
        <5> QED
          BY <4>1, <5>2, <5>3, <5>4
      <4> QED
        BY <4>3, <4>4
    <3> QED
      BY <3>1, <3>2
  <2> QED
    BY <2>1, <2>7, <2>8, <2>9 DEF IInv, Waiting
<1>9. ASSUME Commit PROVE IInv'
  <2>1. /\ toName' = toName \o Update /\ Fits(Update)
        /\ disturbed' = (disturbed \/ (Waiting /\ Unserved))
        /\ UNCHANGED <<toServer, nm, status, missed, up>>
    BY <1>9 DEF Commit
  <2>2. Update \in Seq(UnitType)
    BY DEF Update, Unit, UnitType, Of
  <2>3. toName' \in Seq(UnitType) /\ Len(toName') <= MaxUnread
    BY <1>t, <2>1, <2>2 DEF Fits
  <2>4. TypeOK'
    BY <1>t, <2>1, <2>3 DEF TypeOK, CommandType
  <2>5. Expected'
    <3> SUFFICES ASSUME Waiting, ~disturbed, ~Unserved
                 PROVE  toName' # <<>> /\ Head(toName').of = "own"
      BY <1>t, <2>1 DEF Expected, Waiting
    <3>1. \A j \in 1..Len(toServer) : toServer[j].of # "own"
      BY <1>t DEF Unserved
    <3>2. toName # <<>> /\ Head(toName).of = "own"
      BY <3>1 DEF IInv, Expected
    <3> QED
      BY <1>t, <2>1, <2>2, <3>2
  <2> QED
    BY <2>1, <2>4, <2>5 DEF IInv, Waiting, OwnIsAsked
<1>10. ASSUME Ends PROVE IInv'
  BY <1>10 DEF Ends, IInv, TypeOK, Waiting, OwnIsAsked, Expected
<1>11. ASSUME Registers PROVE IInv'
  <2>1. /\ ~Waiting /\ status' = "server" /\ missed' = 0 /\ up' = TRUE
        /\ toName' \in {<<>>, Update} /\ Fits(toName') /\ UNCHANGED <<toServer, nm, disturbed>>
    BY <1>11 DEF Registers, IInv
  <2>2. toName' \in Seq(UnitType)
    <3>1. Update \in Seq(UnitType)
      BY DEF Update, Unit, UnitType, Of
    <3>2. <<>> \in Seq(UnitType)
      OBVIOUS
    <3> QED
      BY <2>1, <3>1, <3>2
  <2>3. Len(toName') <= MaxUnread
    BY <1>t, <2>1, <2>2 DEF Fits
  <2> QED
    BY <1>t, <2>1, <2>2, <2>3 DEF IInv, TypeOK, CommandType, Waiting, OwnIsAsked, Expected
<1>12. ASSUME UNCHANGED vars PROVE IInv'
  BY <1>12 DEF vars, IInv, TypeOK, Waiting, OwnIsAsked, Expected
<1> QED
  BY <1>1, <1>2, <1>4, <1>5, <1>6, <1>7, <1>8, <1>9, <1>10, <1>11, <1>12
  DEF Next, NameServer, StorageServer

(* The inductive invariant: next in line is the request waited for, or     *)
(* its answer. *)
THEOREM ChannelInvariant == Spec => []IInv
BY InitIInv, NextIInv, PTL DEF Spec

(* What is on the connection keeps its type and fits; a descriptor with    *)
(* three heartbeats missed is not a storage server's. *)
THEOREM ChannelTypeCorrect == Spec => []TypeOK
<1>1. IInv => TypeOK
  BY DEF IInv
<1> QED
  BY <1>1, ChannelInvariant, PTL

(* An answer is taken for the request it belongs to, unless something that *)
(* is answered was under way before it, or a commit came in between.       *)
THEOREM OwnAnswers == Spec => []AnswersAreOwn
<1>1. IInv => AnswersAreOwn
  BY DEF IInv, Expected, AnswersAreOwn
<1> QED
  BY <1>1, ChannelInvariant, PTL
=============================================================================
