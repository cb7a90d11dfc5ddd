------------------------ MODULE AccessControl_proofs ------------------------
(* Proofs about AccessControl: what its access lists can hold and who owns *)
(* a file, for any users, files and bounds.                                *)
EXTENDS AccessControl, WellFoundedInduction, FiniteSetTheorems, TLAPS

(* A set of numbers has a least one. *)
LEMMA LeastNumber ==
  ASSUME NEW T, T \subseteq Nat, T # {}
  PROVE  \E n \in T : \A m \in T : n <= m
<1>1. IsWellFoundedOn(OpToRel(<, Nat), Nat)
  BY NatLessThanWellFounded
<1>2. PICK n \in T : \A m \in T : ~ (<<m, n>> \in OpToRel(<, Nat))
  BY <1>1, WFMin, Zenon
<1>3. \A m \in T : ~ (m < n)
  BY <1>2 DEF OpToRel
<1> QED
  BY <1>3

-----------------------------------------------------------------------------
(* Access lists. *)

LEMMA BoundedSeqIsSeq ==
  ASSUME NEW S, NEW n \in Nat
  PROVE  BoundedSeq(S, n) = {s \in Seq(S) : Len(s) <= n}
<1>1. ASSUME NEW s \in BoundedSeq(S, n)
      PROVE  s \in Seq(S) /\ Len(s) <= n
  BY <1>1 DEF BoundedSeq, SeqOf
<1>2. ASSUME NEW s \in Seq(S), Len(s) <= n
      PROVE  s \in BoundedSeq(S, n)
  <2>1. Len(s) \in 0..n /\ s \in [1..Len(s) -> S]
    BY <1>2
  <2> QED
    BY <2>1 DEF BoundedSeq, SeqOf
<1> QED
  BY <1>1, <1>2

(* The first entry of a user is an entry of that user. *)
LEMMA FirstIsIndex ==
  ASSUME NEW acl \in Seq(Grant), NEW u \in Users(acl)
  PROVE  First(acl, u) \in DOMAIN acl /\ acl[First(acl, u)].user = u
<1> DEFINE T == {i \in DOMAIN acl : acl[i].user = u}
<1>1. T # {} /\ T \subseteq Nat
  BY DEF Users, Entries
<1> HIDE DEF T
<1>2. PICK i \in T : \A j \in T : i <= j
  BY <1>1, LeastNumber
<1>3. \E k \in DOMAIN acl : acl[k].user = u /\ \A j \in 1..(k - 1) : acl[j].user # u
  <2>1. i \in DOMAIN acl /\ acl[i].user = u
    BY <1>2 DEF T
  <2>2. ASSUME NEW j \in 1..(i - 1) PROVE acl[j].user # u
    BY <1>2, <2>1, <2>2 DEF T
  <2> QED
    BY <2>1, <2>2
<1> QED
  BY <1>3 DEF First

(* Granting leaves the other entries. *)
LEMMA GrantingType ==
  ASSUME NEW acl \in BoundedSeq(Grant, MaxPerms), NEW u \in Name, NEW p \in Perm,
         Fits(acl, u)
  PROVE  /\ Granting(acl, u, p) \in BoundedSeq(Grant, MaxPerms)
         /\ Entries(Granting(acl, u, p)) \subseteq Entries(acl) \cup {[user |-> u, perm |-> p]}
<1>0. acl \in Seq(Grant) /\ Len(acl) <= MaxPerms
  BY AccessAssumption, BoundedSeqIsSeq
<1>1. CASE u \in Users(acl)
  <2> DEFINE i == First(acl, u)
             new == [acl EXCEPT ![i].perm = p]
  <2>1. i \in DOMAIN acl /\ acl[i].user = u
    BY <1>0, <1>1, FirstIsIndex
  <2> HIDE DEF i
  <2>2. acl[i] \in Grant
    BY <1>0, <2>1
  <2>3. [acl[i] EXCEPT !.perm = p] = [user |-> u, perm |-> p]
    BY <2>1, <2>2 DEF Grant
  <2>4. new = [acl EXCEPT ![i] = [user |-> u, perm |-> p]]
    BY <2>3
  <2>5. [user |-> u, perm |-> p] \in Grant
    BY DEF Grant
  <2>6. new \in Seq(Grant) /\ Len(new) = Len(acl)
    BY <1>0, <2>1, <2>4, <2>5
  <2>7. Entries(new) \subseteq Entries(acl) \cup {[user |-> u, perm |-> p]}
    BY <1>0, <2>1, <2>4 DEF Entries
  <2>8. Granting(acl, u, p) = new
    BY <1>1 DEF Granting, i
  <2> HIDE DEF new
  <2> QED
    BY <1>0, <2>6, <2>7, <2>8, AccessAssumption, BoundedSeqIsSeq
<1>2. CASE u \notin Users(acl)
  <2> DEFINE new == Append(acl, [user |-> u, perm |-> p])
  <2>1. Len(acl) < MaxPerms
    BY <1>2 DEF Fits
  <2>2. [user |-> u, perm |-> p] \in Grant
    BY DEF Grant
  <2>3. new \in Seq(Grant) /\ Len(new) = Len(acl) + 1
    BY <1>0, <2>2
  <2>4. Entries(new) \subseteq Entries(acl) \cup {[user |-> u, perm |-> p]}
    BY <1>0, <2>2 DEF Entries
  <2>5. Granting(acl, u, p) = new
    BY <1>2 DEF Granting
  <2> HIDE DEF new
  <2> QED
    BY <1>0, <2>1, <2>3, <2>4, <2>5, AccessAssumption, BoundedSeqIsSeq
<1> QED
  BY <1>1, <1>2

(* The name server's loop has a result, and keeps only entries it found. *)
LEMMA KeptIsFunction ==
  ASSUME NEW acl \in Seq(Grant), NEW u
  PROVE  Kept(acl, u) = [i \in 0..Len(acl) |->
           IF i = 0 THEN <<>>
           ELSE IF acl[i].user = u THEN Kept(acl, u)[i - 1]
           ELSE Append(Kept(acl, u)[i - 1], acl[i])]
<1> DEFINE Rule(g, i) == IF i = 0 THEN <<>>
                         ELSE IF acl[i].user = u THEN g[i - 1]
                         ELSE Append(g[i - 1], acl[i])
           Sol(n, g) == g = [i \in 0..n |-> Rule(g, i)]
           T == {n \in Nat : ~ \E g : Sol(n, g)}
<1>1. T = {}
  <2> SUFFICES ASSUME T # {} PROVE FALSE
    OBVIOUS
  <2>1. PICK n \in T : \A m \in T : n <= m
    <3>1. T \subseteq Nat
      OBVIOUS
    <3> HIDE DEF T
    <3> QED
      BY <3>1, LeastNumber
  <2>2. n \in Nat /\ ~ \E g : Sol(n, g)
    BY <2>1
  <2>3. n # 0
    <3> SUFFICES ASSUME n = 0 PROVE FALSE
      OBVIOUS
    <3> DEFINE g == [i \in 0..0 |-> <<>>]
    <3>1. Sol(n, g)
      OBVIOUS
    <3> HIDE DEF Sol, g
    <3> QED
      BY <2>2, <3>1
  <2>4. n - 1 \in Nat /\ n - 1 \notin T
    <3>1. n \in Nat
      BY <2>2
    <3> HIDE DEF T
    <3> QED
      BY <2>1, <2>3, <3>1
  <2>5. PICK h : Sol(n - 1, h)
    BY <2>4
  <2> DEFINE g == [i \in 0..n |-> IF i < n THEN h[i] ELSE Rule(h, n)]
  <2>6. ASSUME NEW i \in 0..n PROVE g[i] = Rule(g, i)
    <3>1. CASE i = 0
      BY <2>2, <2>3, <2>5, <3>1
    <3>2. CASE i # 0
      <4>1. i - 1 \in 0..(n - 1) /\ i - 1 \in 0..n /\ i - 1 < n
        BY <2>2, <3>2
      <4>2. g[i - 1] = h[i - 1]
        BY <4>1
      <4>3. Rule(g, i) = Rule(h, i)
        BY <4>2
      <4>4. CASE i = n
        BY <4>3, <4>4
      <4>5. CASE i # n
        <5>1. i \in 0..(n - 1) /\ i < n
          BY <2>2, <4>5
        <5>2. h[i] = Rule(h, i)
          <6> HIDE DEF Rule, g
          <6> QED
            BY <2>5, <5>1
        <5>3. g[i] = h[i]
          BY <5>1
        <5> HIDE DEF g, Rule
        <5> QED
          BY <4>3, <5>2, <5>3
      <4> QED
        BY <4>4, <4>5
    <3> QED
      BY <3>1, <3>2
  <2>7. Sol(n, g)
    <3>1. g = [i \in 0..n |-> g[i]]
      OBVIOUS
    <3> HIDE DEF g, Rule
    <3> QED
      BY <2>6, <3>1
  <2> HIDE DEF Sol, g
  <2> QED
    BY <2>2, <2>7
<1>2. \E g : Sol(Len(acl), g)
  <2>1. Len(acl) \in Nat
    OBVIOUS
  <2> HIDE DEF Sol
  <2> QED
    BY <1>1, <2>1
<1>3. Kept(acl, u) = CHOOSE g : Sol(Len(acl), g)
  BY DEF Kept
<1>4. Sol(Len(acl), Kept(acl, u))
  <2> HIDE DEF Sol
  <2> QED
    BY <1>2, <1>3
<1> QED
  BY <1>4
LEMMA RevokingType ==
  ASSUME NEW acl \in BoundedSeq(Grant, MaxPerms), NEW u
  PROVE  /\ Revoking(acl, u) \in BoundedSeq(Grant, MaxPerms)
         /\ Entries(Revoking(acl, u)) \subseteq Entries(acl)
<1>0. acl \in Seq(Grant) /\ Len(acl) \in Nat /\ Len(acl) <= MaxPerms
  BY AccessAssumption, BoundedSeqIsSeq
<1> DEFINE kept == Kept(acl, u)
           Good(k, i) == k \in Seq(Grant) /\ Len(k) <= i /\ Entries(k) \subseteq Entries(acl)
           T == {i \in 0..Len(acl) : ~Good(kept[i], i)}
<1>1. \A i \in 0..Len(acl) :
        kept[i] = IF i = 0 THEN <<>>
                  ELSE IF acl[i].user = u THEN kept[i - 1]
                  ELSE Append(kept[i - 1], acl[i])
  <2>1. kept = [i \in 0..Len(acl) |->
                  IF i = 0 THEN <<>>
                  ELSE IF acl[i].user = u THEN kept[i - 1]
                  ELSE Append(kept[i - 1], acl[i])]
    BY <1>0, KeptIsFunction
  <2> HIDE DEF kept
  <2> QED
    BY <2>1
<1> HIDE DEF kept
<1>2. Good(<<>>, 0)
  BY DEF Entries
<1>3. ASSUME NEW i \in 0..Len(acl), i # 0, NEW k, Good(k, i - 1)
      PROVE  Good(k, i) /\ Good(Append(k, acl[i]), i)
  <2>1. acl[i] \in Grant /\ acl[i] \in Entries(acl)
    BY <1>0, <1>3 DEF Entries
  <2>2. Good(k, i)
    BY <1>3
  <2>3. Append(k, acl[i]) \in Seq(Grant) /\ Len(Append(k, acl[i])) <= i
    BY <1>3, <2>1
  <2>4. Entries(Append(k, acl[i])) \subseteq Entries(k) \cup {acl[i]}
    BY <1>3, <2>1 DEF Entries
  <2> QED
    BY <1>3, <2>1, <2>2, <2>3, <2>4
<1> HIDE DEF Good
<1>4. T = {}
  <2> SUFFICES ASSUME T # {} PROVE FALSE
    OBVIOUS
  <2>1. PICK n \in T : \A m \in T : n <= m
    <3>1. T \subseteq Nat
      BY <1>0
    <3> HIDE DEF T
    <3> QED
      BY <3>1, LeastNumber
  <2>2. n \in 0..Len(acl) /\ ~Good(kept[n], n)
    BY <2>1
  <2>3. n # 0
    BY <1>1, <1>2, <2>2
  <2>4. n - 1 \in 0..Len(acl) /\ n - 1 \notin T
    BY <1>0, <2>1, <2>2, <2>3
  <2>5. Good(kept[n - 1], n - 1)
    BY <2>4
  <2>6. Good(kept[n - 1], n) /\ Good(Append(kept[n - 1], acl[n]), n)
    BY <1>3, <2>2, <2>3, <2>5
  <2> QED
    BY <1>1, <2>2, <2>3, <2>6
<1>5. Good(Revoking(acl, u), Len(acl))
  <2>1. Len(acl) \in 0..Len(acl)
    BY <1>0
  <2> QED
    BY <1>4, <2>1 DEF Revoking, kept
<1> QED
  BY <1>0, <1>5, AccessAssumption, BoundedSeqIsSeq DEF Good

(* The storage server takes one entry out. *)
LEMMA RemoveAtEntries ==
  ASSUME NEW acl \in Seq(Grant), NEW i \in DOMAIN acl
  PROVE  /\ RemoveAt(acl, i) \in Seq(Grant)
         /\ Len(RemoveAt(acl, i)) = Len(acl) - 1
         /\ \A j \in 1..(Len(acl) - 1) :
              RemoveAt(acl, i)[j] = IF j < i THEN acl[j] ELSE acl[j + 1]
<1>0. Len(acl) \in Nat /\ i \in 1..Len(acl)
  OBVIOUS
<1> DEFINE before == SubSeq(acl, 1, i - 1)
           after == SubSeq(acl, i + 1, Len(acl))
<1>1. before \in Seq(Grant) /\ Len(before) = i - 1 /\ \A j \in 1..(i - 1) : before[j] = acl[j]
  BY <1>0
<1>2. after \in Seq(Grant) /\ Len(after) = Len(acl) - i
      /\ \A j \in 1..(Len(acl) - i) : after[j] = acl[i + j]
  BY <1>0
<1>3. RemoveAt(acl, i) = before \o after
  BY DEF RemoveAt
<1> HIDE DEF before, after
<1>4. RemoveAt(acl, i) \in Seq(Grant) /\ Len(RemoveAt(acl, i)) = Len(acl) - 1
  BY <1>0, <1>1, <1>2, <1>3
<1>5. ASSUME NEW j \in 1..(Len(acl) - 1)
      PROVE  RemoveAt(acl, i)[j] = IF j < i THEN acl[j] ELSE acl[j + 1]
  <2>1. CASE j < i
    BY <1>0, <1>1, <1>2, <1>3, <2>1
  <2>2. CASE ~(j < i)
    BY <1>0, <1>1, <1>2, <1>3, <2>2
  <2> QED
    BY <2>1, <2>2
<1> QED
  BY <1>4, <1>5

LEMMA RemoveAtType ==
  ASSUME NEW acl \in BoundedSeq(Grant, MaxPerms), NEW i \in DOMAIN acl
  PROVE  /\ RemoveAt(acl, i) \in BoundedSeq(Grant, MaxPerms)
         /\ Entries(RemoveAt(acl, i)) \subseteq Entries(acl)
<1>1. acl \in Seq(Grant) /\ Len(acl) \in Nat /\ Len(acl) <= MaxPerms /\ i \in 1..Len(acl)
  BY AccessAssumption, BoundedSeqIsSeq
<1>2. /\ RemoveAt(acl, i) \in Seq(Grant)
      /\ Len(RemoveAt(acl, i)) = Len(acl) - 1
      /\ \A j \in 1..(Len(acl) - 1) :
           RemoveAt(acl, i)[j] = IF j < i THEN acl[j] ELSE acl[j + 1]
  BY <1>1, RemoveAtEntries
<1>3. Entries(RemoveAt(acl, i)) \subseteq Entries(acl)
  BY <1>1, <1>2 DEF Entries
<1> QED
  BY <1>1, <1>2, <1>3, AccessAssumption, BoundedSeqIsSeq

-----------------------------------------------------------------------------
(* The metadata file. *)

Recs == [Path -> ListingType \cup {NoRecord}]

LEMMA ListingIsTyped ==
  ASSUME NEW o \in User \cup {System}, NEW acl \in BoundedSeq(Grant, MaxPerms)
  PROVE  /\ Listing(o, acl) \in ListingType
         /\ Listing(o, acl) # NoRecord /\ Listing(o, acl) # NoEntry
         /\ Listing(o, acl).owner = o /\ Listing(o, acl).acl = acl
<1>1. Listing(o, acl) \in ListingType
  BY DEF Listing, ListingType
<1> QED
  BY <1>1, AccessAssumption DEF Listing

LEMMA EmptyList ==
  /\ <<>> \in BoundedSeq(Grant, MaxPerms) /\ Entries(<<>>) = {}
<1>1. <<>> \in Seq(Grant) /\ Len(<<>>) = 0 /\ DOMAIN <<>> = {}
  OBVIOUS
<1>2. MaxPerms \in Nat /\ 0 <= MaxPerms
  BY AccessAssumption
<1> QED
  BY <1>1, <1>2, BoundedSeqIsSeq DEF Entries

LEMMA LoadIsTyped ==
  ASSUME NEW recs \in Recs, NEW f \in Path
  PROVE  /\ Load(recs, f) \in ListingType
         /\ recs[f] # NoRecord => Load(recs, f) = recs[f]
         /\ recs[f] = NoRecord => Load(recs, f).owner = System /\ Entries(Load(recs, f).acl) = {}
<1>1. CASE recs[f] = NoRecord
  BY <1>1, EmptyList, ListingIsTyped DEF Load
<1>2. CASE recs[f] # NoRecord
  BY <1>2 DEF Load, Recs
<1> QED
  BY <1>1, <1>2

(* A record saved is there, if there is room or was one; the others stay. *)
LEMMA SaveType ==
  ASSUME NEW recs \in Recs, NEW f \in Path, NEW l \in ListingType, l # NoRecord,
         NEW room \in BOOLEAN
  PROVE  /\ Save(recs, f, l, room) \in Recs
         /\ \A g \in Path \ {f} : Save(recs, f, l, room)[g] = recs[g]
         /\ Save(recs, f, l, room)[f] \in {l, NoRecord}
         /\ room \/ recs[f] # NoRecord => Save(recs, f, l, room)[f] = l
<1>1. CASE room \/ f \in Records(recs)
  <2>1. Save(recs, f, l, room) = [recs EXCEPT ![f] = l]
    BY <1>1 DEF Save
  <2> QED
    BY <2>1 DEF Recs
<1>2. CASE ~(room \/ f \in Records(recs))
  <2>1. Save(recs, f, l, room) = recs /\ recs[f] = NoRecord
    BY <1>2 DEF Save, Records
  <2> QED
    BY <1>2, <2>1
<1> QED
  BY <1>1, <1>2

(* A rewrite cut short loses records and changes none. *)
LEMMA TornType ==
  ASSUME NEW recs \in Recs, NEW torn \in Torn(recs)
  PROVE  torn \in Recs /\ \A f \in Path : torn[f] \in {recs[f], NoRecord}
<1>1. PICK kept \in SUBSET Records(recs) :
        torn = [f \in Path |-> IF f \in kept THEN recs[f] ELSE NoRecord]
  BY DEF Torn
<1> QED
  BY <1>1 DEF Recs

(* What reading a message does to the records. *)
LEMMA AppliedType ==
  ASSUME NEW recs \in Recs, NEW m \in Message, NEW room \in BOOLEAN
  PROVE  /\ Applied(recs, m, room) \in Recs
         /\ \A f \in Path \ {m.path} : Applied(recs, m, room)[f] = recs[f]
         /\ recs[m.path] # NoRecord => Applied(recs, m, room)[m.path] # NoRecord
         /\ Applied(recs, m, room)[m.path] # NoRecord =>
              /\ Applied(recs, m, room)[m.path].owner = Load(recs, m.path).owner
              /\ Entries(Applied(recs, m, room)[m.path].acl) \subseteq
                   Entries(Load(recs, m.path).acl)
                     \cup {g \in {[user |-> m.user, perm |-> m.perm]} : m.op = "add"}
<1> DEFINE r == Load(recs, m.path)
           g == [user |-> m.user, perm |-> m.perm]
           new == Changed(r.acl, m)
           l == Listing(r.owner, new)
<1>1. m.path \in Path /\ r \in ListingType
  BY LoadIsTyped DEF Message
<1>2. r.owner \in User \cup {System} /\ r.acl \in BoundedSeq(Grant, MaxPerms)
  BY <1>1 DEF ListingType
<1>3. r.acl \in Seq(Grant) /\ Len(r.acl) \in Nat
  BY <1>2, AccessAssumption, BoundedSeqIsSeq
<1>4. recs[m.path] # NoRecord => recs[m.path] = r
  BY <1>1, LoadIsTyped
<1> HIDE DEF r, g, new
<1>5. CASE ~Saves(r.acl, m)
  <2>1. Applied(recs, m, room) = recs
    BY <1>5 DEF Applied, r
  <2> QED
    BY <1>1, <1>4, <2>1 DEF r
<1>6. CASE Saves(r.acl, m)
  <2>1. /\ new \in BoundedSeq(Grant, MaxPerms)
        /\ Entries(new) \subseteq Entries(r.acl) \cup {h \in {g} : m.op = "add"}
    <3>1. CASE m.op = "add"
      <4>1. g \in Grant
        BY <3>1 DEF Message, Grant, g
      <4>2. new = Append(r.acl, g) /\ Len(r.acl) < MaxPerms
        BY <1>6, <3>1 DEF Saves, Changed, new, g
      <4>3. MaxPerms \in Nat
        BY AccessAssumption
      <4>4. new \in Seq(Grant) /\ Len(new) <= MaxPerms
        BY <1>3, <4>1, <4>2, <4>3
      <4>5. Entries(new) \subseteq Entries(r.acl) \cup {g}
        BY <1>3, <4>1, <4>2 DEF Entries
      <4> QED
        BY <3>1, <4>3, <4>4, <4>5, BoundedSeqIsSeq
    <3>2. CASE m.op # "add"
      <4>1. new = RemoveAt(r.acl, First(r.acl, m.user)) /\ m.user \in Users(r.acl)
        BY <1>6, <3>2 DEF Saves, Changed, new
      <4>2. First(r.acl, m.user) \in DOMAIN r.acl
        BY <1>3, <4>1, FirstIsIndex
      <4> QED
        BY <1>2, <4>1, <4>2, RemoveAtType
    <3> QED
      BY <3>1, <3>2
  <2>2. l \in ListingType /\ l # NoRecord /\ l.owner = r.owner /\ l.acl = new
    BY <1>2, <2>1, ListingIsTyped
  <2>3. Applied(recs, m, room) = Save(recs, m.path, l, room)
    BY <1>6 DEF Applied, r, new
  <2> HIDE DEF l
  <2>4. /\ Applied(recs, m, room) \in Recs
        /\ \A f \in Path \ {m.path} : Applied(recs, m, room)[f] = recs[f]
        /\ Applied(recs, m, room)[m.path] \in {l, NoRecord}
        /\ recs[m.path] # NoRecord => Applied(recs, m, room)[m.path] = l
    BY <1>1, <2>2, <2>3, SaveType
  <2> QED
    BY <2>1, <2>2, <2>4 DEF r, g
<1> QED
  BY <1>5, <1>6

-----------------------------------------------------------------------------
(* The inductive invariant. *)

Known == requests \cup UNION {shown[u] : u \in User}

(* An identifier names one request, seen or active, and the next is new. *)
Identified ==
  /\ \A r \in Known : r.id < nextId
  /\ \A r, q \in Known : r.id = q.id => r = q

SaidType == [by : User \cup {System}, saved : BOOLEAN, granted : SUBSET Grant]

(* A listing holds what was said: its grants, and its owner. *)
Holds(l, s) ==
  /\ Entries(l.acl) \subseteq s.granted
  /\ l.owner = s.by \/ (l.owner = System /\ ~s.saved)

FileOK(e, r, s) ==
  /\ e # NoEntry => Holds(e, s)
  /\ r # NoRecord => Holds(r, s)
  /\ s.saved => r # NoRecord

MessageOK(m) ==
  m.op = "add" => [user |-> m.user, perm |-> m.perm] \in said[m.path].granted

IInv ==
  /\ TypeOK /\ IsFiniteSet(requests)
  /\ Identified
  /\ \A f \in Path : FileOK(entry[f], record[f], said[f])
  /\ \A m \in Entries(queue) : MessageOK(m)

LEMMA EmptyQueue ==
  <<>> \in BoundedSeq(Message, MaxQueue) /\ Entries(<<>>) = {}
<1>1. <<>> \in Seq(Message) /\ Len(<<>>) = 0 /\ DOMAIN <<>> = {}
  OBVIOUS
<1>2. MaxQueue \in Nat /\ 0 <= MaxQueue
  BY AccessAssumption
<1> QED
  BY <1>1, <1>2, BoundedSeqIsSeq DEF Entries

LEMMA InitIInv == Init => IInv
<1> SUFFICES ASSUME Init PROVE IInv
  OBVIOUS
<1>1. IsFiniteSet(requests) /\ Cardinality(requests) = 0
  BY FS_EmptySet DEF Init
<1>2. queue \in BoundedSeq(Message, MaxQueue) /\ Entries(queue) = {}
  BY EmptyQueue DEF Init
<1>3. said \in [Path -> SaidType]
  BY DEF Init, Nobodys, Said, SaidType
<1>4. TypeOK
  <2>1. nextId \in 1..(MaxIds + 1) /\ Cardinality(requests) <= MaxRequests
    BY <1>1, AccessAssumption DEF Init
  <2> QED
    BY <1>2, <1>3, <2>1 DEF Init, TypeOK, SaidType
<1>5. Identified
  BY DEF Init, Identified, Known
<1>6. \A f \in Path : FileOK(entry[f], record[f], said[f])
  BY DEF Init, FileOK, Nobodys, Said
<1> QED
  BY <1>1, <1>2, <1>4, <1>5, <1>6 DEF IInv

LEMMA OwnedIsListed ==
  ASSUME TypeOK, NEW f \in Path, Listed(f)
  PROVE  /\ entry[f] \in ListingType
         /\ entry[f].owner \in User \cup {System}
         /\ entry[f].acl \in BoundedSeq(Grant, MaxPerms)
<1>1. entry[f] \in ListingType
  BY DEF TypeOK, Listed
<1> QED
  BY <1>1 DEF ListingType

LEMMA SendType ==
  ASSUME TypeOK, NEW op, NEW f, NEW u, NEW p, Send(op, f, u, p),
         [op |-> op, path |-> f, user |-> u, perm |-> p] \in Message
  PROVE  /\ queue' \in BoundedSeq(Message, MaxQueue)
         /\ Entries(queue') \subseteq
              Entries(queue) \cup {[op |-> op, path |-> f, user |-> u, perm |-> p]}
<1> DEFINE m == [op |-> op, path |-> f, user |-> u, perm |-> p]
<1>1. MaxQueue \in Nat
  BY AccessAssumption
<1>2. queue \in Seq(Message) /\ Len(queue) < MaxQueue /\ queue' = Append(queue, m)
  BY <1>1, BoundedSeqIsSeq DEF TypeOK, Send
<1>3. m \in Message
  OBVIOUS
<1> HIDE DEF m
<1>4. queue' \in Seq(Message) /\ Len(queue') <= MaxQueue
  BY <1>1, <1>2, <1>3
<1>5. Entries(queue') \subseteq Entries(queue) \cup {m}
  BY <1>2, <1>3 DEF Entries
<1> QED
  BY <1>1, <1>4, <1>5, BoundedSeqIsSeq DEF m

LEMMA SaidFields ==
  ASSUME NEW o \in User \cup {System}, NEW b \in BOOLEAN
  PROVE  Said(o, b) \in SaidType /\ Said(o, b).by = o /\ Said(o, b).saved = b
BY DEF Said, SaidType

(* What is not said to be granted stays. *)
LEMMA HoldsMore ==
  ASSUME NEW l, NEW s, NEW t, Holds(l, s),
         s.granted \subseteq t.granted, t.by = s.by, t.saved = s.saved
  PROVE  Holds(l, t)
BY DEF Holds

(* What a record, or the lack of one, makes of a file that registers. *)
LEMMA LoadHolds ==
  ASSUME IInv, NEW f \in Path
  PROVE  Holds(Load(record, f), said[f])
<1>1. record \in Recs /\ FileOK(entry[f], record[f], said[f])
  BY DEF IInv, TypeOK, Recs
<1>2. CASE record[f] = NoRecord
  BY <1>1, <1>2, LoadIsTyped DEF Holds, FileOK
<1>3. CASE record[f] # NoRecord
  BY <1>1, <1>3 DEF Load, FileOK
<1> QED
  BY <1>2, <1>3

(* A step that leaves requests and the lists that users saw. *)
LEMMA IdentifiedStays ==
  ASSUME Identified, UNCHANGED nextId, requests' \subseteq requests,
         UNCHANGED shown
  PROVE  Identified'
<1>1. Known' \subseteq Known
  BY DEF Known
<1> HIDE DEF Known
<1> QED
  BY <1>1 DEF Identified

LEMMA CreateStep ==
  ASSUME IInv, NEW o \in User, NEW f \in Path, Create(o, f)
  PROVE  IInv'
<1> USE DEF IInv
<1> DEFINE l == Listing(o, <<>>)
<1>1. l \in ListingType /\ l # NoRecord /\ l # NoEntry /\ l.owner = o /\ Entries(l.acl) = {}
  BY EmptyList, ListingIsTyped
<1>2. entry' = [entry EXCEPT ![f] = l] /\ stored' = stored \cup {f}
      /\ UNCHANGED <<queue, up, requests, nextId, shown>> /\ queue = <<>>
  BY DEF Create, Answered
<1>3. PICK room \in BOOLEAN : record' = Save(record, f, l, room)
  BY DEF Create
<1> DEFINE s == Said(o, f \in Records(record'))
<1>4. said' = [said EXCEPT ![f] = s]
  BY DEF Create
<1> HIDE DEF l
<1>5. /\ record' \in [Path -> ListingType \cup {NoRecord}]
      /\ \A g \in Path \ {f} : record'[g] = record[g]
      /\ record'[f] \in {l, NoRecord}
  <2>1. record \in Recs
    BY DEF TypeOK, Recs
  <2>2. /\ Save(record, f, l, room) \in Recs
        /\ \A g \in Path \ {f} : Save(record, f, l, room)[g] = record[g]
        /\ Save(record, f, l, room)[f] \in {l, NoRecord}
    BY <1>1, <2>1, SaveType
  <2> QED
    BY <1>3, <2>2 DEF Recs
<1>6. s \in SaidType /\ s.by = o /\ (s.saved <=> record'[f] # NoRecord)
  <2> DEFINE b == f \in Records(record')
  <2>1. b \in BOOLEAN /\ (b <=> record'[f] # NoRecord)
    BY DEF Records
  <2> HIDE DEF b
  <2>2. Said(o, b) \in SaidType /\ Said(o, b).by = o /\ Said(o, b).saved = b
    BY <2>1, SaidFields
  <2> QED
    BY <2>1, <2>2 DEF b
<1> HIDE DEF s
<1>7. TypeOK'
  <2>1. said' \in [Path -> SaidType]
    BY <1>4, <1>6 DEF TypeOK, SaidType, s
  <2>2. entry' \in [Path -> ListingType \cup {NoEntry}]
    BY <1>1, <1>2 DEF TypeOK
  <2> QED
    BY <1>2, <1>5, <2>1, <2>2 DEF TypeOK, SaidType
<1>8. Identified'
  BY <1>2, IdentifiedStays
<1>9. ASSUME NEW g \in Path PROVE FileOK(entry'[g], record'[g], said'[g])
  <2>1. CASE g = f
    <3>1. entry'[f] = l /\ said'[f] = s
      BY <1>2, <1>4 DEF TypeOK, s
    <3> QED
      BY <1>1, <1>5, <1>6, <2>1, <3>1 DEF FileOK, Holds
  <2>2. CASE g # f
    <3>1. entry'[g] = entry[g] /\ said'[g] = said[g] /\ record'[g] = record[g]
      BY <1>2, <1>4, <1>5, <2>2 DEF TypeOK
    <3> QED
      BY <3>1
  <2> QED
    BY <2>1, <2>2
<1>10. Entries(queue') = {}
  BY <1>2 DEF Entries
<1> QED
  BY <1>2, <1>7, <1>8, <1>9, <1>10

LEMMA DeleteStep ==
  ASSUME IInv, NEW o \in User, NEW f \in Path, Delete(o, f)
  PROVE  IInv'
<1> USE DEF IInv
<1>1. /\ entry' = [entry EXCEPT ![f] = NoEntry] /\ record' = [record EXCEPT ![f] = NoRecord]
      /\ stored' = stored \ {f} /\ said' = [said EXCEPT ![f] = Nobodys]
      /\ UNCHANGED <<queue, up, requests, nextId, shown>> /\ queue = <<>>
  BY DEF Delete, Answered
<1>2. Nobodys \in SaidType /\ ~Nobodys.saved
  BY SaidFields DEF Nobodys
<1>3. TypeOK'
  <2>1. said' \in [Path -> SaidType]
    BY <1>1, <1>2 DEF TypeOK, SaidType
  <2> QED
    BY <1>1, <2>1 DEF TypeOK, SaidType
<1>4. Identified'
  BY <1>1, IdentifiedStays
<1>5. ASSUME NEW g \in Path PROVE FileOK(entry'[g], record'[g], said'[g])
  <2>1. CASE g = f
    <3>1. entry'[f] = NoEntry /\ record'[f] = NoRecord /\ said'[f] = Nobodys
      BY <1>1 DEF TypeOK
    <3> QED
      BY <1>2, <2>1, <3>1 DEF FileOK
  <2>2. CASE g # f
    <3>1. entry'[g] = entry[g] /\ said'[g] = said[g] /\ record'[g] = record[g]
      BY <1>1, <2>2 DEF TypeOK
    <3> QED
      BY <3>1
  <2> QED
    BY <2>1, <2>2
<1>6. Entries(queue') = {}
  BY <1>1 DEF Entries
<1> QED
  BY <1>1, <1>3, <1>4, <1>5, <1>6

(* The records that a MOVE leaves, when those of the file go along with it. *)
Moved(f, g, room) == Save([record EXCEPT ![f] = NoRecord], g, Load(record, f), room)

LEMMA MovedRecords ==
  ASSUME IInv, NEW f \in Path, NEW g \in Path, NEW room \in BOOLEAN
  PROVE  /\ Moved(f, g, room) \in Recs
         /\ Moved(f, g, room)[g] # NoRecord => Holds(Moved(f, g, room)[g], said[f])
         /\ record[f] # NoRecord /\ room => Moved(f, g, room)[g] # NoRecord
         /\ f # g => Moved(f, g, room)[f] = NoRecord
         /\ \A h \in Path : h # f /\ h # g => Moved(f, g, room)[h] = record[h]
<1> DEFINE l == Load(record, f)
           less == [record EXCEPT ![f] = NoRecord]
           recs == Moved(f, g, room)
<1>1. record \in Recs
  BY DEF IInv, TypeOK, Recs
<1>2. l \in ListingType /\ l # NoRecord /\ Holds(l, said[f])
  BY <1>1, AccessAssumption, LoadIsTyped, LoadHolds
<1>3. less \in Recs /\ less[f] = NoRecord /\ \A h \in Path \ {f} : less[h] = record[h]
  BY <1>1 DEF Recs
<1>4. recs = Save(less, g, l, room)
  BY DEF Moved
<1> HIDE DEF l, less, recs
<1>5. /\ Save(less, g, l, room) \in Recs /\ Save(less, g, l, room)[g] \in {l, NoRecord}
      /\ room => Save(less, g, l, room)[g] = l
      /\ \A h \in Path \ {g} : Save(less, g, l, room)[h] = less[h]
  BY <1>2, <1>3, SaveType
<1> QED
  BY <1>2, <1>3, <1>4, <1>5 DEF recs

LEMMA MoveStep ==
  ASSUME IInv, NEW o \in User, NEW f \in Path, NEW g \in Path, Move(o, f, g)
  PROVE  IInv'
<1>1. /\ entry' = [entry EXCEPT ![f] = NoEntry, ![g] = entry[f]]
      /\ stored' = (stored \ {f}) \cup {g}
      /\ said' = [said EXCEPT ![f] = Nobodys, ![g] = said[f]]
      /\ UNCHANGED <<queue, up, requests, nextId, shown>> /\ queue = <<>>
  BY DEF Move, Answered
<1>2. PICK room \in BOOLEAN : (record[f] # NoRecord => room) /\ record' = Moved(f, g, room)
  BY DEF Move, Moved, Records
<1>3. /\ record' \in Recs
      /\ record'[g] # NoRecord => Holds(record'[g], said[f])
      /\ record[f] # NoRecord => record'[g] # NoRecord
      /\ f # g => record'[f] = NoRecord
      /\ \A h \in Path : h # f /\ h # g => record'[h] = record[h]
  BY <1>2, MovedRecords
<1>4. entry \in [Path -> ListingType \cup {NoEntry}] /\ said \in [Path -> SaidType]
  BY DEF IInv, TypeOK, SaidType
<1>5. Nobodys \in SaidType /\ ~Nobodys.saved
  BY SaidFields DEF Nobodys
<1>6. /\ entry' \in [Path -> ListingType \cup {NoEntry}] /\ entry'[g] = entry[f]
      /\ f # g => entry'[f] = NoEntry
      /\ \A h \in Path : h # f /\ h # g => entry'[h] = entry[h]
  BY <1>1, <1>4
<1>7. /\ said' \in [Path -> SaidType] /\ said'[g] = said[f]
      /\ f # g => ~said'[f].saved
      /\ \A h \in Path : h # f /\ h # g => said'[h] = said[h]
  BY <1>1, <1>4, <1>5
<1>8. TypeOK'
  BY <1>1, <1>3, <1>6, <1>7 DEF IInv, TypeOK, Recs, SaidType
<1>9. Identified'
  BY <1>1, IdentifiedStays DEF IInv
<1>10. ASSUME NEW h \in Path PROVE FileOK(entry'[h], record'[h], said'[h])
  <2>1. CASE h = g
    <3>1. FileOK(entry[f], record[f], said[f])
      BY DEF IInv
    <3> QED
      BY <1>3, <1>6, <1>7, <2>1, <3>1 DEF FileOK
  <2>2. CASE h = f /\ f # g
    BY <1>3, <1>6, <1>7, <2>2 DEF FileOK
  <2>3. CASE h # f /\ h # g
    <3>1. entry'[h] = entry[h] /\ record'[h] = record[h] /\ said'[h] = said[h]
      BY <1>3, <1>6, <1>7, <2>3
    <3> QED
      BY <3>1 DEF IInv
  <2> QED
    BY <2>1, <2>2, <2>3
<1>11. Entries(queue') = {} /\ IsFiniteSet(requests')
  BY <1>1 DEF Entries, IInv
<1> QED
  BY <1>8, <1>9, <1>10, <1>11 DEF IInv

(* What ADDACCESS and an approval share, when the owner meant that grant. *)
LEMMA GrantedStep ==
  ASSUME IInv, NEW f \in Path, NEW u \in Name, NEW p \in Perm, NEW meant, Listed(f),
         meant.path = f, meant.user = u, meant.perm = p,
         Granted(f, u, p, meant)
  PROVE  /\ entry' \in [Path -> ListingType \cup {NoEntry}]
         /\ queue' \in BoundedSeq(Message, MaxQueue)
         /\ said' \in [Path -> SaidType]
         /\ \A g \in Path : FileOK(entry'[g], record'[g], said'[g])
         /\ \A m \in Entries(queue') : MessageOK(m)'
<1> USE DEF IInv
<1> DEFINE g0 == [user |-> u, perm |-> p]
           m0 == [op |-> "add", path |-> f, user |-> u, perm |-> p]
           acl == Granting(entry[f].acl, u, p)
           e == [entry[f] EXCEPT !.acl = acl]
           s == [said[f] EXCEPT !.granted = @ \cup {g0}]
<1>1. entry[f] \in ListingType /\ entry[f].acl \in BoundedSeq(Grant, MaxPerms)
  BY OwnedIsListed
<1>2. acl \in BoundedSeq(Grant, MaxPerms) /\ Entries(acl) \subseteq Entries(entry[f].acl) \cup {g0}
  BY <1>1, GrantingType DEF Granted
<1>3. entry' = [entry EXCEPT ![f] = e]
  BY <1>1 DEF Granted
<1>4. said' = [said EXCEPT ![f] = s]
  BY DEF Granted, TypeOK
<1>5. g0 \in Grant /\ m0 \in Message
  BY DEF Grant, Message
<1>6. queue' \in BoundedSeq(Message, MaxQueue) /\ Entries(queue') \subseteq Entries(queue) \cup {m0}
  BY <1>5, SendType DEF Granted
<1> HIDE DEF acl
<1>7. e \in ListingType /\ e.acl = acl /\ e.owner = entry[f].owner
  BY <1>1, <1>2 DEF ListingType
<1>8. /\ s \in SaidType /\ s.by = said[f].by /\ s.saved = said[f].saved
      /\ s.granted = said[f].granted \cup {g0}
  BY <1>5 DEF TypeOK, SaidType
<1> HIDE DEF e, s
<1>9. /\ entry'[f] = e /\ said'[f] = s
      /\ \A g \in Path \ {f} : entry'[g] = entry[g] /\ said'[g] = said[g]
      /\ UNCHANGED record
  BY <1>3, <1>4 DEF TypeOK, Granted
<1>10. entry' \in [Path -> ListingType \cup {NoEntry}] /\ said' \in [Path -> SaidType]
  BY <1>3, <1>4, <1>7, <1>8 DEF TypeOK, SaidType
<1>11. ASSUME NEW g \in Path PROVE FileOK(entry'[g], record'[g], said'[g])
  <2>1. CASE g = f
    <3>1. /\ Holds(entry[f], said[f]) /\ (record[f] # NoRecord => Holds(record[f], said[f]))
          /\ said[f].saved => record[f] # NoRecord
      BY DEF FileOK, Listed
    <3>2. Holds(e, s)
      <4>1. Holds(entry[f], s)
        BY <1>8, <3>1, HoldsMore
      <4> QED
        BY <1>2, <1>7, <1>8, <4>1 DEF Holds
    <3>3. record[f] # NoRecord => Holds(record[f], s)
      BY <1>8, <3>1, HoldsMore
    <3> QED
      BY <1>8, <1>9, <2>1, <3>1, <3>2, <3>3 DEF FileOK
  <2>2. CASE g # f
    BY <1>9, <2>2
  <2> QED
    BY <2>1, <2>2
<1>12. ASSUME NEW m \in Entries(queue') PROVE MessageOK(m)'
  <2>1. CASE m \in Entries(queue)
    <3>1. MessageOK(m)
      BY <2>1
    <3>2. m.path \in Path
      BY <2>1, BoundedSeqIsSeq, AccessAssumption DEF TypeOK, Entries, Message
    <3> QED
      BY <1>8, <1>9, <3>1, <3>2 DEF MessageOK
  <2>2. CASE m = m0
    BY <1>8, <1>9, <2>2 DEF MessageOK
  <2> QED
    BY <1>6, <2>1, <2>2
<1> QED
  BY <1>6, <1>10, <1>11, <1>12

LEMMA AddAccessStep ==
  ASSUME IInv, NEW o \in User, NEW f \in Path, NEW u \in Name, NEW p \in Perm,
         AddAccess(o, f, u, p)
  PROVE  IInv'
<1> DEFINE meant == [path |-> f, user |-> u, perm |-> p]
<1>1. Listed(f) /\ Granted(f, u, p, meant) /\ UNCHANGED <<requests, nextId, shown>>
  BY DEF AddAccess, Owns
<1>2. meant.path = f /\ meant.user = u /\ meant.perm = p
  OBVIOUS
<1> HIDE DEF meant
<1>3. /\ entry' \in [Path -> ListingType \cup {NoEntry}]
      /\ queue' \in BoundedSeq(Message, MaxQueue)
      /\ said' \in [Path -> SaidType]
      /\ \A g \in Path : FileOK(entry'[g], record'[g], said'[g])
      /\ \A m \in Entries(queue') : MessageOK(m)'
  BY <1>1, <1>2, GrantedStep
<1>4. TypeOK'
  BY <1>1, <1>3 DEF Granted, TypeOK, SaidType, IInv
<1>5. Identified'
  BY <1>1, IdentifiedStays DEF IInv
<1> QED
  BY <1>1, <1>3, <1>4, <1>5 DEF IInv

LEMMA RequestsShrink ==
  ASSUME IInv, NEW r, requests' = requests \ {r}
  PROVE  IsFiniteSet(requests') /\ Cardinality(requests') <= MaxRequests
<1>1. IsFiniteSet(requests') /\ Cardinality(requests') <= Cardinality(requests)
  BY FS_Subset DEF IInv
<1>2. Cardinality(requests) \in Nat /\ Cardinality(requests') \in Nat
  BY <1>1, FS_CardinalityType DEF IInv
<1> QED
  BY <1>1, <1>2, AccessAssumption DEF IInv, TypeOK

LEMMA ApproveStep ==
  ASSUME IInv, NEW o \in User, NEW item \in shown[o], Approve(o, item)
  PROVE  IInv'
<1>1. PICK r \in requests :
        /\ Answers(o, item, r)
        /\ Granted(r.path, r.user, r.perm, item)
        /\ requests' = requests \ {r}
        /\ UNCHANGED <<nextId, shown>>
  BY DEF Approve
<1>2. r \in Known /\ item \in Known
  BY DEF Known
<1>3. item = r /\ Listed(r.path)
  BY <1>1, <1>2 DEF Answers, Owns, Identified, IInv
<1>4. r.path \in Path /\ r.user \in Name /\ r.perm \in Perm
  BY AccessAssumption DEF IInv, TypeOK, Request
<1>5. /\ entry' \in [Path -> ListingType \cup {NoEntry}]
      /\ queue' \in BoundedSeq(Message, MaxQueue)
      /\ said' \in [Path -> SaidType]
      /\ \A g \in Path : FileOK(entry'[g], record'[g], said'[g])
      /\ \A m \in Entries(queue') : MessageOK(m)'
  BY <1>1, <1>3, <1>4, GrantedStep
<1>6. IsFiniteSet(requests') /\ Cardinality(requests') <= MaxRequests
  BY <1>1, RequestsShrink
<1>7. TypeOK'
  BY <1>1, <1>5, <1>6 DEF Granted, TypeOK, SaidType, IInv
<1>8. Identified'
  BY <1>1, IdentifiedStays DEF IInv
<1> QED
  BY <1>5, <1>6, <1>7, <1>8 DEF IInv

LEMMA DenyStep ==
  ASSUME IInv, NEW o \in User, NEW item \in shown[o], Deny(o, item)
  PROVE  IInv'
<1>1. PICK r \in requests :
        /\ requests' = requests \ {r}
        /\ UNCHANGED <<entry, record, stored, queue, up, nextId, shown, said>>
  BY DEF Deny
<1>2. IsFiniteSet(requests') /\ Cardinality(requests') <= MaxRequests
  BY <1>1, RequestsShrink
<1>3. TypeOK'
  BY <1>1, <1>2 DEF TypeOK, IInv
<1>4. Identified'
  BY <1>1, IdentifiedStays DEF IInv
<1> QED
  BY <1>1, <1>2, <1>3, <1>4 DEF IInv, MessageOK

LEMMA RemAccessStep ==
  ASSUME IInv, NEW o \in User, NEW f \in Path, NEW u \in Name, RemAccess(o, f, u)
  PROVE  IInv'
<1> USE DEF IInv
<1> DEFINE acl == Revoking(entry[f].acl, u)
           e == [entry[f] EXCEPT !.acl = acl]
           m0 == [op |-> "rem", path |-> f, user |-> u, perm |-> "NO_PERM"]
<1>1. Listed(f) /\ UNCHANGED <<record, stored, up, requests, nextId, shown, said>>
  BY DEF RemAccess, Owns
<1>2. entry[f] \in ListingType /\ entry[f].acl \in BoundedSeq(Grant, MaxPerms)
  BY <1>1, OwnedIsListed
<1>3. acl \in BoundedSeq(Grant, MaxPerms) /\ Entries(acl) \subseteq Entries(entry[f].acl)
  BY <1>2, RevokingType
<1>4. entry' = [entry EXCEPT ![f] = e]
  BY DEF RemAccess
<1> HIDE DEF acl
<1>5. e \in ListingType /\ e.acl = acl /\ e.owner = entry[f].owner
  BY <1>2, <1>3 DEF ListingType
<1> HIDE DEF e
<1>6. /\ entry' \in [Path -> ListingType \cup {NoEntry}] /\ entry'[f] = e
      /\ \A g \in Path \ {f} : entry'[g] = entry[g]
  BY <1>4, <1>5 DEF TypeOK
<1>7. queue' \in BoundedSeq(Message, MaxQueue) /\ Entries(queue') \subseteq Entries(queue) \cup {m0}
  <2>1. m0 \in Message
    BY DEF Message
  <2>2. CASE Send("rem", f, u, "NO_PERM")
    BY <2>1, <2>2, SendType
  <2>3. CASE UNCHANGED queue
    BY <2>3 DEF TypeOK, Entries
  <2> QED
    BY <2>2, <2>3 DEF RemAccess
<1>8. TypeOK'
  BY <1>1, <1>6, <1>7 DEF TypeOK
<1>9. Identified'
  BY <1>1, IdentifiedStays
<1>10. ASSUME NEW g \in Path PROVE FileOK(entry'[g], record'[g], said'[g])
  <2>1. CASE g = f
    <3>1. FileOK(entry[f], record[f], said[f])
      OBVIOUS
    <3>2. Holds(e, said[f])
      BY <1>1, <1>3, <1>5, <3>1 DEF FileOK, Holds, Listed
    <3> QED
      BY <1>1, <1>6, <2>1, <3>1, <3>2 DEF FileOK
  <2>2. CASE g # f
    BY <1>1, <1>6, <2>2
  <2> QED
    BY <2>1, <2>2
<1>11. ASSUME NEW m \in Entries(queue') PROVE MessageOK(m)'
  BY <1>1, <1>7 DEF MessageOK
<1> QED
  BY <1>1, <1>8, <1>9, <1>10, <1>11

LEMMA RequestAccessStep ==
  ASSUME IInv, NEW u \in User, NEW f \in Path, NEW p \in Perm, RequestAccess(u, f, p)
  PROVE  IInv'
<1> USE DEF IInv
<1> DEFINE r == [id |-> nextId, path |-> f, user |-> u, perm |-> p]
<1>1. /\ requests' = requests \cup {r} /\ nextId' = nextId + 1
      /\ Cardinality(requests) < MaxRequests /\ nextId <= MaxIds
      /\ UNCHANGED <<entry, record, stored, queue, up, shown, said>>
  BY DEF RequestAccess, NewId
<1>2. nextId \in 1..MaxIds /\ MaxIds \in Nat /\ MaxRequests \in Nat
  BY <1>1, AccessAssumption DEF TypeOK
<1>3. r \in Request /\ r.id = nextId
  BY <1>2 DEF Request
<1> HIDE DEF r
<1>4. IsFiniteSet(requests') /\ Cardinality(requests') <= MaxRequests
  <2>1. /\ IsFiniteSet(requests \cup {r})
        /\ Cardinality(requests \cup {r}) = Cardinality(requests)
             \/ Cardinality(requests \cup {r}) = Cardinality(requests) + 1
    BY FS_AddElement
  <2>2. Cardinality(requests) \in Nat
    BY FS_CardinalityType
  <2> QED
    BY <1>1, <1>2, <2>1, <2>2
<1>5. TypeOK'
  <2>1. nextId' \in 1..(MaxIds + 1)
    BY <1>1, <1>2
  <2> QED
    BY <1>1, <1>3, <1>4, <2>1 DEF TypeOK
<1>6. Identified'
  <2>1. Known' = Known \cup {r}
    BY <1>1 DEF Known
  <2>2. \A q \in Known : q.id \in Nat
    BY DEF Known, TypeOK, Request
  <2>3. \A q \in Known : q.id < nextId /\ q.id # r.id
    BY <1>2, <1>3, <2>2 DEF Identified
  <2> HIDE DEF Known
  <2>4. \A q \in Known' : q.id < nextId'
    BY <1>1, <1>2, <1>3, <2>1, <2>2, <2>3
  <2> QED
    BY <2>1, <2>3, <2>4 DEF Identified
<1> QED
  BY <1>1, <1>4, <1>5, <1>6 DEF MessageOK

LEMMA CheckRequestsStep ==
  ASSUME IInv, NEW o \in User, CheckRequests(o)
  PROVE  IInv'
<1> USE DEF IInv
<1> DEFINE new == {r \in requests : Owns(o, r.path)}
<1>1. /\ shown' = [shown EXCEPT ![o] = @ \cup new]
      /\ UNCHANGED <<entry, record, stored, queue, up, requests, nextId, said>>
  BY DEF CheckRequests
<1>2. new \subseteq requests
  OBVIOUS
<1> HIDE DEF new
<1>3. TypeOK'
  <2>1. shown' \in [User -> SUBSET Request]
    BY <1>1, <1>2 DEF TypeOK
  <2> QED
    BY <1>1, <2>1 DEF TypeOK
<1>4. Known' \subseteq Known
  <2>1. \A u \in User : shown'[u] \subseteq shown[u] \cup requests
    BY <1>1, <1>2 DEF TypeOK
  <2> QED
    BY <1>1, <2>1 DEF Known
<1>5. Identified'
  BY <1>1, <1>4 DEF Identified
<1> QED
  BY <1>1, <1>3, <1>5 DEF MessageOK

(* The records after a message was read hold what was said. *)
LEMMA ReadRecords ==
  ASSUME IInv, queue # <<>>, NEW room \in BOOLEAN, NEW recs,
         recs = Applied(record, Head(queue), room)
  PROVE  /\ recs \in Recs
         /\ \A f \in Path : recs[f] # NoRecord => Holds(recs[f], said[f])
         /\ \A f \in Path : record[f] # NoRecord => recs[f] # NoRecord
<1> USE DEF IInv
<1> DEFINE m == Head(queue)
<1>1. m \in Message /\ m \in Entries(queue)
  <2>1. queue \in Seq(Message) /\ Len(queue) \in Nat
    BY AccessAssumption, BoundedSeqIsSeq DEF TypeOK
  <2> QED
    BY <2>1 DEF Entries
<1>2. record \in Recs
  BY DEF TypeOK, Recs
<1>3. m.path \in Path /\ MessageOK(m)
  BY <1>1 DEF Message
<1>4. recs = Applied(record, m, room)
  OBVIOUS
<1> HIDE DEF m
<1>5. /\ recs \in Recs
      /\ \A f \in Path \ {m.path} : recs[f] = record[f]
      /\ record[m.path] # NoRecord => recs[m.path] # NoRecord
      /\ recs[m.path] # NoRecord =>
           /\ recs[m.path].owner = Load(record, m.path).owner
           /\ Entries(recs[m.path].acl) \subseteq
                Entries(Load(record, m.path).acl)
                  \cup {g \in {[user |-> m.user, perm |-> m.perm]} : m.op = "add"}
  BY <1>1, <1>2, <1>4, AppliedType
<1>6. Holds(Load(record, m.path), said[m.path])
  BY <1>3, LoadHolds
<1>7. recs[m.path] # NoRecord => Holds(recs[m.path], said[m.path])
  BY <1>3, <1>5, <1>6 DEF Holds, MessageOK
<1>8. ASSUME NEW f \in Path, f # m.path, recs[f] # NoRecord PROVE Holds(recs[f], said[f])
  <2>1. recs[f] = record[f] /\ FileOK(entry[f], record[f], said[f])
    BY <1>5, <1>8
  <2> QED
    BY <1>8, <2>1 DEF FileOK
<1> QED
  BY <1>5, <1>7, <1>8

LEMMA ReadStep ==
  ASSUME IInv, Read
  PROVE  IInv'
<1> USE DEF IInv
<1>1. /\ queue # <<>> /\ queue' = Tail(queue)
      /\ UNCHANGED <<entry, stored, up, requests, nextId, shown, said>>
  BY DEF Read
<1>2. PICK room \in BOOLEAN : record' = Applied(record, Head(queue), room)
  BY DEF Read
<1>3. queue \in Seq(Message) /\ Len(queue) \in Nat /\ Len(queue) <= MaxQueue /\ MaxQueue \in Nat
  BY AccessAssumption, BoundedSeqIsSeq DEF TypeOK
<1>4. queue' \in BoundedSeq(Message, MaxQueue) /\ Entries(queue') \subseteq Entries(queue)
  <2>1. queue' \in Seq(Message) /\ Len(queue') <= MaxQueue
    BY <1>1, <1>3
  <2>2. Entries(queue') \subseteq Entries(queue)
    BY <1>1, <1>3 DEF Entries
  <2> QED
    BY <1>3, <2>1, <2>2, BoundedSeqIsSeq
<1>5. /\ record' \in Recs
      /\ \A f \in Path : record'[f] # NoRecord => Holds(record'[f], said[f])
      /\ \A f \in Path : record[f] # NoRecord => record'[f] # NoRecord
  BY <1>1, <1>2, ReadRecords
<1>6. TypeOK'
  BY <1>1, <1>4, <1>5 DEF TypeOK, Recs
<1>7. Identified'
  BY <1>1, IdentifiedStays
<1>8. ASSUME NEW f \in Path PROVE FileOK(entry'[f], record'[f], said'[f])
  <2>1. FileOK(entry[f], record[f], said[f])
    OBVIOUS
  <2> QED
    BY <1>1, <1>5, <2>1 DEF FileOK
<1> QED
  BY <1>1, <1>4, <1>6, <1>7, <1>8 DEF MessageOK

(* The storage server ends, whatever it leaves that holds what was said. *)
LEMMA EndedStep ==
  ASSUME IInv, stored' \subseteq Path, NEW about \in [Path -> SaidType], Ended(about),
         record' \in Recs,
         \A f \in Path : record'[f] # NoRecord => Holds(record'[f], about[f]),
         \/ UNCHANGED <<requests, nextId, shown>>
         \/ requests' = {} /\ nextId' = 1 /\ shown' = [u \in User |-> {}]
  PROVE  IInv'
<1> USE DEF IInv
<1>1. queue' \in BoundedSeq(Message, MaxQueue) /\ Entries(queue') = {}
  <2>1. queue' = <<>>
    BY DEF Ended
  <2> QED
    BY <2>1, EmptyQueue, Zenon DEF Entries
<1>2. IsFiniteSet(requests') /\ Cardinality(requests') <= MaxRequests
  <2>1. IsFiniteSet({}) /\ Cardinality({}) = 0
    BY FS_EmptySet
  <2>2. CASE UNCHANGED requests
    BY <2>2 DEF TypeOK
  <2>3. CASE requests' = {}
    <3>1. Cardinality(requests') = 0
      BY <2>1, <2>3
    <3> QED
      BY <2>1, <2>3, <3>1, AccessAssumption
  <2> QED
    BY <2>2, <2>3
<1>3. /\ said' \in [Path -> SaidType]
      /\ \A f \in Path : record'[f] # NoRecord => said'[f] = about[f]
      /\ \A f \in Path : record'[f] = NoRecord => said'[f] = Nobodys
  <2>1. Nobodys \in SaidType /\ ~Nobodys.saved
    BY SaidFields DEF Nobodys
  <2> QED
    BY <2>1 DEF Ended
<1>4. TypeOK'
  <2>1. nextId' \in 1..(MaxIds + 1) /\ requests' \subseteq Request /\ shown' \in [User -> SUBSET Request]
    BY AccessAssumption DEF TypeOK
  <2> QED
    BY <1>1, <1>2, <1>3, <2>1 DEF TypeOK, Ended, Delisted, Recs, SaidType
<1>5. Identified'
  <2>1. CASE UNCHANGED <<requests, nextId, shown>>
    BY <2>1, IdentifiedStays
  <2>2. CASE requests' = {} /\ nextId' = 1 /\ shown' = [u \in User |-> {}]
    <3>1. Known' = {}
      BY <2>2 DEF Known
    <3> QED
      BY <3>1 DEF Identified
  <2> QED
    BY <2>1, <2>2
<1>6. ASSUME NEW f \in Path PROVE FileOK(entry'[f], record'[f], said'[f])
  <2>1. entry'[f] = NoEntry
    BY DEF Ended, Delisted
  <2>2. record'[f] # NoRecord => Holds(record'[f], said'[f])
    BY <1>3
  <2>3. said'[f].saved => record'[f] # NoRecord
    BY <1>3, SaidFields DEF Nobodys
  <2> QED
    BY <2>1, <2>2, <2>3 DEF FileOK
<1> QED
  BY <1>1, <1>2, <1>4, <1>5, <1>6

(* The records before hold what was said, and so does what is left of them. *)
LEMMA RecordsHold ==
  ASSUME IInv
  PROVE  /\ record \in Recs /\ said \in [Path -> SaidType] /\ stored \subseteq Path
         /\ \A f \in Path : record[f] # NoRecord => Holds(record[f], said[f])
BY DEF IInv, TypeOK, Recs, SaidType, FileOK

LEMMA TornHold ==
  ASSUME NEW recs \in Recs, NEW about,
         \A f \in Path : recs[f] # NoRecord => Holds(recs[f], about[f]),
         NEW torn \in Torn(recs)
  PROVE  /\ torn \in Recs
         /\ \A f \in Path : torn[f] # NoRecord => Holds(torn[f], about[f])
<1>1. torn \in Recs /\ \A f \in Path : torn[f] \in {recs[f], NoRecord}
  BY TornType
<1>2. ASSUME NEW f \in Path, torn[f] # NoRecord PROVE Holds(torn[f], about[f])
  <2>1. torn[f] = recs[f]
    BY <1>1, <1>2
  <2> QED
    BY <1>2, <2>1
<1> QED
  BY <1>1, <1>2

(* A record deleted. *)
LEMMA DeletedHold ==
  ASSUME IInv, NEW f \in Path, NEW recs, recs = [record EXCEPT ![f] = NoRecord]
  PROVE  /\ recs \in Recs
         /\ \A h \in Path : recs[h] # NoRecord => Holds(recs[h], said[h])
<1>1. recs \in Recs /\ \A h \in Path : recs[h] \in {record[h], NoRecord}
  BY RecordsHold DEF Recs
<1>2. ASSUME NEW h \in Path, recs[h] # NoRecord PROVE Holds(recs[h], said[h])
  <2>1. recs[h] = record[h]
    BY <1>1, <1>2
  <2> QED
    BY <1>2, <2>1, RecordsHold
<1> QED
  BY <1>1, <1>2

LEMMA DiesStep ==
  ASSUME IInv, Dies \/ NameServerRestarts
  PROVE  IInv'
<1>1. /\ UNCHANGED <<record, stored>> /\ Ended(said)
      /\ \/ UNCHANGED <<requests, nextId, shown>>
         \/ requests' = {} /\ nextId' = 1 /\ shown' = [u \in User |-> {}]
  BY DEF Dies, Gone, NameServerRestarts
<1> QED
  BY <1>1, RecordsHold, EndedStep

LEMMA DiesInReadStep ==
  ASSUME IInv, DiesInRead
  PROVE  IInv'
<1>1. queue # <<>> /\ UNCHANGED stored /\ Gone(said)
  BY DEF DiesInRead
<1>2. PICK room \in BOOLEAN : record' \in Torn(Applied(record, Head(queue), room))
  BY DEF DiesInRead
<1> DEFINE recs == Applied(record, Head(queue), room)
<1>3. recs \in Recs /\ \A f \in Path : recs[f] # NoRecord => Holds(recs[f], said[f])
  BY <1>1, ReadRecords
<1> HIDE DEF recs
<1>4. record' \in Recs /\ \A f \in Path : record'[f] # NoRecord => Holds(record'[f], said[f])
  BY <1>2, <1>3, TornHold DEF recs
<1> QED
  BY <1>1, <1>4, RecordsHold, EndedStep DEF Gone

LEMMA DiesInCreateStep ==
  ASSUME IInv, NEW o \in User, NEW f \in Path, DiesInCreate(o, f)
  PROVE  IInv'
<1> DEFINE l == Listing(o, <<>>)
           about == [said EXCEPT ![f] = Said(o, TRUE)]
<1>1. stored' \subseteq Path
  BY RecordsHold DEF DiesInCreate
<1>2. CASE UNCHANGED record /\ Gone(said)
  BY <1>1, <1>2, RecordsHold, EndedStep DEF Gone
<1>3. CASE /\ \E room \in BOOLEAN : record' \in Torn(Save(record, f, l, room))
           /\ Gone(about)
  <2>1. PICK room \in BOOLEAN : record' \in Torn(Save(record, f, l, room))
    BY <1>3
  <2>2. l \in ListingType /\ l # NoRecord /\ l.owner = o /\ Entries(l.acl) = {}
    BY EmptyList, ListingIsTyped
  <2> HIDE DEF l
  <2> DEFINE recs == Save(record, f, l, room)
  <2>3. /\ recs \in Recs /\ recs[f] \in {l, NoRecord}
        /\ \A h \in Path \ {f} : recs[h] = record[h]
    BY <2>2, RecordsHold, SaveType
  <2>4. /\ about \in [Path -> SaidType] /\ about[f].by = o
        /\ \A h \in Path \ {f} : about[h] = said[h]
    BY RecordsHold, SaidFields
  <2>5. record' \in Torn(recs) /\ Gone(about)
    BY <1>3, <2>1
  <2> HIDE DEF recs, about
  <2>6. ASSUME NEW h \in Path, recs[h] # NoRecord PROVE Holds(recs[h], about[h])
    <3>1. CASE h = f
      BY <2>2, <2>3, <2>4, <2>6, <3>1 DEF Holds
    <3>2. CASE h # f
      <4>1. recs[h] = record[h] /\ about[h] = said[h]
        BY <2>3, <2>4, <3>2
      <4> QED
        BY <2>6, <4>1, RecordsHold
    <3> QED
      BY <3>1, <3>2
  <2>7. /\ record' \in Recs
        /\ \A h \in Path : record'[h] # NoRecord => Holds(record'[h], about[h])
    BY <2>3, <2>5, <2>6, TornHold
  <2> QED
    BY <1>1, <2>4, <2>5, <2>7, EndedStep DEF Gone
<1> QED
  BY <1>2, <1>3 DEF DiesInCreate

LEMMA DiesInDeleteStep ==
  ASSUME IInv, NEW o \in User, NEW f \in Path, DiesInDelete(o, f)
  PROVE  IInv'
<1> DEFINE recs == [record EXCEPT ![f] = NoRecord]
<1>1. stored' \subseteq Path /\ Gone(said) /\ record' \in {record} \cup Torn(recs)
  BY RecordsHold DEF DiesInDelete
<1>2. recs \in Recs /\ \A h \in Path : recs[h] # NoRecord => Holds(recs[h], said[h])
  BY DeletedHold
<1> HIDE DEF recs
<1>3. record' \in Recs /\ \A h \in Path : record'[h] # NoRecord => Holds(record'[h], said[h])
  BY <1>1, <1>2, RecordsHold, TornHold
<1> QED
  BY <1>1, <1>3, RecordsHold, EndedStep DEF Gone

LEMMA DiesInMoveStep ==
  ASSUME IInv, NEW o \in User, NEW f \in Path, NEW g \in Path, DiesInMove(o, f, g)
  PROVE  IInv'
<1> DEFINE deleted == [record EXCEPT ![f] = NoRecord]
           about == [said EXCEPT ![g] = said[f]]
<1>1. stored' \subseteq Path
  BY RecordsHold DEF DiesInMove
<1>2. CASE record' \in {record} \cup Torn(deleted) /\ Gone(said)
  <2>1. deleted \in Recs /\ \A h \in Path : deleted[h] # NoRecord => Holds(deleted[h], said[h])
    BY DeletedHold
  <2> HIDE DEF deleted
  <2>2. record' \in Recs /\ \A h \in Path : record'[h] # NoRecord => Holds(record'[h], said[h])
    BY <1>2, <2>1, RecordsHold, TornHold
  <2> QED
    BY <1>1, <1>2, <2>2, RecordsHold, EndedStep DEF Gone
<1>3. CASE (\E room \in BOOLEAN : record' \in Torn(Moved(f, g, room))) /\ Gone(about)
  <2>1. PICK room \in BOOLEAN : record' \in Torn(Moved(f, g, room))
    BY <1>3
  <2> DEFINE recs == Moved(f, g, room)
  <2>2. /\ recs \in Recs
        /\ recs[g] # NoRecord => Holds(recs[g], said[f])
        /\ f # g => recs[f] = NoRecord
        /\ \A h \in Path : h # f /\ h # g => recs[h] = record[h]
    BY MovedRecords
  <2>3. /\ about \in [Path -> SaidType] /\ about[g] = said[f]
        /\ \A h \in Path \ {g} : about[h] = said[h]
    BY RecordsHold
  <2>4. record' \in Torn(recs) /\ Gone(about)
    BY <1>3, <2>1
  <2> HIDE DEF recs, about
  <2>5. ASSUME NEW h \in Path, recs[h] # NoRecord PROVE Holds(recs[h], about[h])
    <3>1. CASE h = g
      BY <2>2, <2>3, <2>5, <3>1
    <3>2. CASE h # g
      <4>1. recs[h] = record[h] /\ about[h] = said[h]
        BY <2>2, <2>3, <2>5, <3>2
      <4> QED
        BY <2>5, <4>1, RecordsHold
    <3> QED
      BY <3>1, <3>2
  <2>6. /\ record' \in Recs
        /\ \A h \in Path : record'[h] # NoRecord => Holds(record'[h], about[h])
    BY <2>2, <2>4, <2>5, TornHold
  <2> QED
    BY <1>1, <2>3, <2>4, <2>6, EndedStep DEF Gone
<1> QED
  BY <1>2, <1>3 DEF DiesInMove, Moved

LEMMA RegisterStep ==
  ASSUME IInv, Register
  PROVE  IInv'
<1> USE DEF IInv
<1>1. PICK found \in SUBSET stored :
        entry' = [f \in Path |-> IF f \in found THEN Load(record, f) ELSE NoEntry]
  BY DEF Register
<1>2. up' = TRUE /\ UNCHANGED <<record, stored, queue, requests, nextId, shown, said>>
  BY DEF Register
<1>3. record \in Recs
  BY DEF TypeOK, Recs
<1>4. TypeOK'
  <2>1. entry' \in [Path -> ListingType \cup {NoEntry}]
    BY <1>1, <1>3, LoadIsTyped
  <2> QED
    BY <1>2, <2>1 DEF TypeOK
<1>5. Identified'
  BY <1>2, IdentifiedStays
<1>6. ASSUME NEW f \in Path PROVE FileOK(entry'[f], record'[f], said'[f])
  <2>1. FileOK(entry[f], record[f], said[f]) /\ Holds(Load(record, f), said[f])
    BY LoadHolds
  <2> QED
    BY <1>1, <1>2, <2>1 DEF FileOK
<1> QED
  BY <1>2, <1>4, <1>5, <1>6 DEF MessageOK

LEMMA StepIInv == IInv /\ [Next]_vars => IInv'
<1> SUFFICES ASSUME IInv, [Next]_vars PROVE IInv'
  OBVIOUS
<1>1. CASE UNCHANGED vars
  <2>1. UNCHANGED <<entry, record, stored, queue, up, requests, nextId, shown, said>>
    BY <1>1 DEF vars
  <2>2. TypeOK'
    BY <2>1 DEF TypeOK, IInv
  <2>3. Identified'
    BY <2>1, IdentifiedStays DEF IInv
  <2>4. IsFiniteSet(requests')
    BY <2>1 DEF IInv
  <2>5. \A f \in Path : FileOK(entry'[f], record'[f], said'[f])
    BY <2>1 DEF IInv
  <2>6. \A m \in Entries(queue') : MessageOK(m)'
    BY <2>1 DEF IInv, MessageOK
  <2> QED
    BY <2>2, <2>3, <2>4, <2>5, <2>6 DEF IInv
<1>2. ASSUME NEW o \in User, NEW f \in Path,
             \/ Create(o, f) \/ DiesInCreate(o, f) \/ Delete(o, f) \/ DiesInDelete(o, f)
             \/ \E g \in Path : Move(o, f, g) \/ DiesInMove(o, f, g)
             \/ \E u \in Name : RemAccess(o, f, u) \/ \E p \in GivenPerm : AddAccess(o, f, u, p)
             \/ \E p \in AskedPerm : RequestAccess(o, f, p)
      PROVE  IInv'
  <2>1. CASE Create(o, f) \/ DiesInCreate(o, f) \/ Delete(o, f) \/ DiesInDelete(o, f)
    BY <2>1, CreateStep, DiesInCreateStep, DeleteStep, DiesInDeleteStep
  <2>2. CASE \E g \in Path : Move(o, f, g) \/ DiesInMove(o, f, g)
    BY <2>2, MoveStep, DiesInMoveStep
  <2>3. CASE \E u \in Name : RemAccess(o, f, u) \/ \E p \in GivenPerm : AddAccess(o, f, u, p)
    BY <2>3, AccessAssumption, RemAccessStep, AddAccessStep
  <2>4. CASE \E p \in AskedPerm : RequestAccess(o, f, p)
    BY <2>4, AccessAssumption, RequestAccessStep
  <2> QED
    BY <1>2, <2>1, <2>2, <2>3, <2>4
<1>3. ASSUME NEW o \in User,
             CheckRequests(o) \/ \E item \in shown[o] : Approve(o, item) \/ Deny(o, item)
      PROVE  IInv'
  BY <1>3, CheckRequestsStep, ApproveStep, DenyStep
<1>4. CASE Read \/ DiesInRead \/ Dies \/ Register \/ NameServerRestarts
  BY <1>4, ReadStep, DiesInReadStep, DiesStep, RegisterStep
<1> QED
  BY <1>1, <1>2, <1>3, <1>4 DEF Next

(* The inductive invariant, file by file and for the queue of requests.    *)
THEOREM AccessInvariant == Spec => []IInv
BY InitIInv, StepIInv, PTL DEF Spec

(* Every variable has its type; no access list outgrows its array. *)
THEOREM AccessTypeCorrect == Spec => []TypeOK
BY AccessInvariant, PTL DEF IInv

(* Every access that the lists give, the metadata file keeps or a message  *)
(* carries was granted by the file's owner since the file was created,     *)
(* wherever the storage server ended in changing a file, its record or the *)
(* metadata file. *)
THEOREM GrantsAreMeant == Spec => []OnlyGranted
<1>1. IInv => OnlyGranted
  BY DEF IInv, OnlyGranted, FileOK, Holds, Listed, Records, MessageOK
<1> QED
  BY <1>1, AccessInvariant, PTL

(* A file's owner is who created it, or "system" where no record of it was *)
(* ever saved: no end of the storage server, in the middle of a save or    *)
(* between a file and its record, gives it to another user. *)
THEOREM OwnersKept == Spec => []OwnerStays
<1>1. IInv => OwnerStays
  BY DEF IInv, OwnerStays, FileOK, Holds, Listed
<1> QED
  BY <1>1, AccessInvariant, PTL

=============================================================================
