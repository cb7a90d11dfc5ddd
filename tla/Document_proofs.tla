-------------------------- MODULE Document_proofs --------------------------
(* Proofs about the document format, for every set of words: what reading, *)
(* writing and editing do to a list of sentences.                          *)
EXTENDS Document, WellFoundedInduction, FiniteSetTheorems, TLAPS

-----------------------------------------------------------------------------
(* Induction over numbers, as a fact about sets. *)

(* A set of numbers has a least one. *)
LEMMA LeastOf ==
  ASSUME NEW T, T \subseteq Nat, T # {}
  PROVE  \E n \in T : \A m \in T : n <= m
<1>1. IsWellFoundedOn(OpToRel(<, Nat), Nat)
  BY NatLessThanWellFounded
<1>2. PICK n \in T : \A m \in T : ~ (<<m, n>> \in OpToRel(<, Nat))
  BY <1>1, WFMin, Zenon
<1>3. \A m \in T : ~ (m < n)
  BY <1>2 DEF OpToRel
<1> QED
  BY <1>3

(* A set that has 0 and, below m, the successor of what it has, has all    *)
(* numbers up to m. *)
LEMMA UpTo ==
  ASSUME NEW m \in Nat, NEW T, 0 \in T, \A n \in 0..(m - 1) : n \in T => n + 1 \in T
  PROVE  \A n \in 0..m : n \in T
<1> DEFINE U == {n \in 0..m : n \notin T}
<1> SUFFICES ASSUME U # {} PROVE FALSE
  OBVIOUS
<1>1. U \subseteq Nat
  OBVIOUS
<1>2. PICK n \in U : \A k \in U : n <= k
  <2> HIDE DEF U
  <2> QED
    BY <1>1, LeastOf
<1>3. n \in 0..m /\ n \notin T /\ n # 0
  OBVIOUS
<1>4. n - 1 \in 0..(m - 1) /\ n - 1 \in 0..m /\ n = (n - 1) + 1
  BY <1>3
<1>5. n - 1 \notin U
  <2>1. ~(n <= n - 1)
    BY <1>3
  <2> HIDE DEF U
  <2> QED
    BY <1>2, <2>1
<1> QED
  BY <1>3, <1>4, <1>5

(* The same without a bound. *)
LEMMA AllNumbers ==
  ASSUME NEW T, 0 \in T, \A n \in Nat : n \in T => n + 1 \in T
  PROVE  \A n \in Nat : n \in T
<1> SUFFICES ASSUME NEW m \in Nat PROVE m \in T
  OBVIOUS
<1>1. \A n \in 0..m : n \in T
  <2>1. \A n \in 0..(m - 1) : n \in Nat
    OBVIOUS
  <2> QED
    BY <2>1, UpTo
<1> QED
  BY <1>1

-----------------------------------------------------------------------------
(* Folds.  A fold of seq with the function F from base passes the values   *)
(* t[0] = base, t[1], ..., t[Len(seq)], of which the last is its result.   *)
Trace(F, base, seq, t) ==
  /\ t[0] = base
  /\ \A k \in 1..Len(seq) : t[k] = F[t[k - 1]][seq[k]]

Result(F, A, base, seq, r) ==
  \E t \in [0..Len(seq) -> A] : Trace(F, base, seq, t) /\ r = t[Len(seq)]

(* A fold has one result. *)
LEMMA ResultUnique ==
  ASSUME NEW A, NEW X, NEW F, NEW base, NEW seq \in Seq(X), NEW r, NEW s,
         Result(F, A, base, seq, r), Result(F, A, base, seq, s)
  PROVE  r = s
<1>1. PICK t \in [0..Len(seq) -> A] : Trace(F, base, seq, t) /\ r = t[Len(seq)]
  BY DEF Result
<1>2. PICK u \in [0..Len(seq) -> A] : Trace(F, base, seq, u) /\ s = u[Len(seq)]
  BY DEF Result
<1> DEFINE T == {k \in 0..Len(seq) : t[k] = u[k]}
<1>3. Len(seq) \in Nat
  OBVIOUS
<1>4. 0 \in T
  BY <1>1, <1>2, <1>3 DEF Trace
<1>5. ASSUME NEW k \in 0..(Len(seq) - 1), k \in T PROVE k + 1 \in T
  <2>1. k + 1 \in 1..Len(seq) /\ k + 1 \in 0..Len(seq) /\ (k + 1) - 1 = k
    BY <1>3
  <2>2. t[k + 1] = F[t[k]][seq[k + 1]] /\ u[k + 1] = F[u[k]][seq[k + 1]]
    BY <1>1, <1>2, <2>1 DEF Trace
  <2> QED
    BY <1>5, <2>1, <2>2
<1>6. \A k \in 0..Len(seq) : k \in T
  <2> HIDE DEF T
  <2> QED
    BY <1>3, <1>4, <1>5, UpTo
<1> QED
  BY <1>1, <1>2, <1>3, <1>6

(* The fold of the empty sequence, and of one with one more element. *)
LEMMA ResultEmpty ==
  ASSUME NEW A, NEW F, NEW base \in A
  PROVE  Result(F, A, base, <<>>, base)
<1> DEFINE t == [k \in 0..0 |-> base]
<1>1. t \in [0..Len(<<>>) -> A] /\ t[0] = base /\ Len(<<>>) = 0
  OBVIOUS
<1>2. Trace(F, base, <<>>, t)
  BY <1>1 DEF Trace
<1> QED
  BY <1>1, <1>2 DEF Result

LEMMA ResultAppend ==
  ASSUME NEW A, NEW X, NEW F, NEW base \in A, NEW seq \in Seq(X), NEW x \in X,
         NEW r, Result(F, A, base, seq, r), F[r][x] \in A
  PROVE  Result(F, A, base, Append(seq, x), F[r][x])
<1>1. PICK t \in [0..Len(seq) -> A] : Trace(F, base, seq, t) /\ r = t[Len(seq)]
  BY DEF Result
<1> DEFINE n == Len(seq)
           more == Append(seq, x)
           u == [k \in 0..(n + 1) |-> IF k =< n THEN t[k] ELSE F[r][x]]
<1>2. /\ n \in Nat /\ Len(more) = n + 1 /\ more[n + 1] = x
      /\ \A k \in 1..n : more[k] = seq[k]
  OBVIOUS
<1>3. u \in [0..Len(more) -> A]
  BY <1>1, <1>2
<1>4. \A k \in 0..n : u[k] = t[k]
  BY <1>2
<1>5. u[n + 1] = F[r][x]
  BY <1>2
<1> HIDE DEF u, more, n
<1>6. u[0] = base
  BY <1>1, <1>2, <1>4 DEF Trace
<1>7. ASSUME NEW k \in 1..(n + 1) PROVE u[k] = F[u[k - 1]][more[k]]
  <2>1. CASE k = n + 1
    <3>1. k - 1 = n /\ n \in 0..n
      BY <1>2, <2>1
    <3>2. u[n] = t[n]
      BY <1>4, <3>1
    <3> QED
      BY <1>1, <1>2, <1>5, <2>1, <3>1, <3>2 DEF n
  <2>2. CASE k # n + 1
    <3>1. k \in 1..n /\ k \in 0..n /\ k - 1 \in 0..n
      BY <1>2, <2>2
    <3>2. t[k] = F[t[k - 1]][seq[k]]
      BY <1>1, <3>1 DEF Trace, n
    <3> QED
      BY <1>2, <1>4, <3>1, <3>2
  <2> QED
    BY <2>1, <2>2
<1> QED
  BY <1>2, <1>3, <1>5, <1>6, <1>7 DEF Result, Trace, more

(* Induction over sequences, as a fact about sets of them. *)
LEMMA AllSequences ==
  ASSUME NEW X, NEW T, <<>> \in T,
         \A s \in Seq(X), x \in X : s \in T => Append(s, x) \in T
  PROVE  \A s \in Seq(X) : s \in T
<1> SUFFICES ASSUME NEW s \in Seq(X) PROVE s \in T
  OBVIOUS
<1> DEFINE U == {k \in 0..Len(s) : SubSeq(s, 1, k) \in T}
<1>1. Len(s) \in Nat
  OBVIOUS
<1>2. 0 \in U
  <2>1. SubSeq(s, 1, 0) = <<>>
    OBVIOUS
  <2>2. <<>> \in T
    OBVIOUS
  <2>3. SubSeq(s, 1, 0) \in T
    BY <2>1, <2>2, Zenon
  <2>4. 0 \in 0..Len(s)
    BY <1>1
  <2> QED
    BY <2>3, <2>4, Zenon
<1>3. ASSUME NEW k \in 0..(Len(s) - 1), k \in U PROVE k + 1 \in U
  <2>1. s[k + 1] \in X /\ SubSeq(s, 1, k) \in Seq(X) /\ k + 1 \in 0..Len(s)
    BY <1>1
  <2>2. SubSeq(s, 1, k + 1) = Append(SubSeq(s, 1, k), s[k + 1])
    BY <1>1
  <2> QED
    BY <1>3, <2>1, <2>2
<1>4. \A k \in 0..Len(s) : k \in U
  <2> HIDE DEF U
  <2> QED
    BY <1>1, <1>2, <1>3, UpTo
<1>5. SubSeq(s, 1, Len(s)) \in T
  BY <1>1, <1>4
<1>6. SubSeq(s, 1, Len(s)) = s
  OBVIOUS
<1> QED
  BY <1>5, <1>6

LEMMA ResultExists ==
  ASSUME NEW A, NEW X, NEW F \in [A -> [X -> A]], NEW base \in A
  PROVE  \A seq \in Seq(X) : \E r \in A : Result(F, A, base, seq, r)
<1> DEFINE T == {seq \in Seq(X) : \E r \in A : Result(F, A, base, seq, r)}
<1>1. <<>> \in T
  BY ResultEmpty
<1>2. ASSUME NEW s \in Seq(X), NEW x \in X, s \in T PROVE Append(s, x) \in T
  <2>1. PICK r \in A : Result(F, A, base, s, r)
    BY <1>2
  <2>2. F[r][x] \in A
    OBVIOUS
  <2>3. Result(F, A, base, Append(s, x), F[r][x])
    BY <2>1, <2>2, ResultAppend
  <2> QED
    BY <2>2, <2>3
<1>3. \A s \in Seq(X) : s \in T
  <2> HIDE DEF T
  <2> QED
    BY <1>1, <1>2, AllSequences
<1> QED
  BY <1>3

-----------------------------------------------------------------------------
(* FoldLeft takes the elements of a set of indices from the largest down.  *)

(* The largest of some indices. *)
LEMMA MaxOf ==
  ASSUME NEW n \in Nat, NEW S \in SUBSET (1..n), S # {}
  PROVE  Max(S) \in S /\ \A y \in S : Max(S) >= y
<1> DEFINE T == {m \in 0..n : \A y \in S : y <= m}
<1>1. T \subseteq Nat /\ n \in T
  OBVIOUS
<1>2. PICK m \in T : \A k \in T : m <= k
  <2> HIDE DEF T
  <2> QED
    BY <1>1, LeastOf
<1>3. m \in 0..n /\ \A y \in S : y <= m
  OBVIOUS
<1>4. m \in S
  <2> SUFFICES ASSUME m \notin S PROVE FALSE
    OBVIOUS
  <2>1. PICK y \in S : TRUE
    OBVIOUS
  <2>2. m - 1 \in 0..n /\ \A z \in S : z <= m - 1
    BY <1>3, <2>1
  <2>3. m - 1 \in T
    BY <2>2
  <2>4. ~(m <= m - 1)
    BY <1>3
  <2> HIDE DEF T
  <2> QED
    BY <1>2, <2>3, <2>4
<1>5. \E x \in S : \A y \in S : x >= y
  BY <1>3, <1>4
<1> QED
  BY <1>5 DEF Max

Iterates(F, A, base, seq, it) ==
  /\ it \in [SUBSET (DOMAIN seq) -> A]
  /\ \A S \in SUBSET (DOMAIN seq) :
       it[S] = IF S = {} THEN base ELSE F[it[S \ {Max(S)}]][seq[Max(S)]]

(* The function that MapThenFoldSet defines by recursion exists.           *)
LEMMA IterExists ==
  ASSUME NEW A, NEW X, NEW F \in [A -> [X -> A]], NEW base \in A, NEW seq \in Seq(X)
  PROVE  \E it : Iterates(F, A, base, seq, it)
<1> DEFINE Good(n, it) ==
             /\ it \in [SUBSET (1..n) -> A]
             /\ \A S \in SUBSET (1..n) :
                  it[S] = IF S = {} THEN base ELSE F[it[S \ {Max(S)}]][seq[Max(S)]]
           T == {n \in 0..Len(seq) : \E it : Good(n, it)}
<1>0. Len(seq) \in Nat /\ DOMAIN seq = 1..Len(seq) /\ \A i \in 1..Len(seq) : seq[i] \in X
  OBVIOUS
<1>1. 0 \in T
  <2> DEFINE it == [S \in SUBSET (1..0) |-> base]
  <2>1. \A S \in SUBSET (1..0) : S = {}
    OBVIOUS
  <2>2. Good(0, it)
    BY <2>1
  <2> HIDE DEF Good, it
  <2> QED
    BY <1>0, <2>2
<1>2. ASSUME NEW n \in 0..(Len(seq) - 1), n \in T PROVE n + 1 \in T
  <2>1. PICK it : Good(n, it)
    BY <1>2
  <2>i. it \in [SUBSET (1..n) -> A]
    BY <2>1
  <2> DEFINE wide == [S \in SUBSET (1..(n + 1)) |->
                        IF n + 1 \in S THEN F[it[S \ {n + 1}]][seq[n + 1]] ELSE it[S]]
  <2>2. /\ n \in Nat /\ n + 1 \in 0..Len(seq) /\ n + 1 \in 1..Len(seq)
        /\ seq[n + 1] \in X
    BY <1>0
  <2>3. \A S \in SUBSET (1..(n + 1)) :
          /\ S \ {n + 1} \in SUBSET (1..n)
          /\ n + 1 \notin S => S \in SUBSET (1..n)
    BY <2>2
  <2>4. wide \in [SUBSET (1..(n + 1)) -> A]
    <3>1. ASSUME NEW S \in SUBSET (1..(n + 1))
          PROVE  (IF n + 1 \in S THEN F[it[S \ {n + 1}]][seq[n + 1]] ELSE it[S]) \in A
      <4>1. CASE n + 1 \in S
        <5>1. it[S \ {n + 1}] \in A
          BY <2>i, <2>3
        <5> QED
          BY <2>2, <4>1, <5>1
      <4>2. CASE n + 1 \notin S
        BY <2>i, <2>3, <4>2
      <4> QED
        BY <4>1, <4>2
    <3> QED
      BY <3>1
  <2>5. ASSUME NEW S \in SUBSET (1..(n + 1))
        PROVE  wide[S] = IF S = {} THEN base ELSE F[wide[S \ {Max(S)}]][seq[Max(S)]]
    <3>1. CASE n + 1 \in S
      <4>0. n + 1 \in Nat /\ S # {}
        BY <2>2, <3>1
      <4>1. Max(S) \in S /\ \A y \in S : Max(S) >= y
        <5> HIDE DEF Good, T, wide
        <5> QED
          BY <4>0, MaxOf
      <4>a. Max(S) \in 1..(n + 1) /\ Max(S) >= n + 1
        BY <3>1, <4>1
      <4>2. Max(S) = n + 1
        <5> DEFINE m == Max(S)
        <5>1. m \in 1..(n + 1) /\ m >= n + 1
          BY <4>a
        <5> HIDE DEF m, Good, T, wide
        <5>2. m = n + 1
          BY <2>2, <5>1
        <5> QED
          BY <5>2 DEF m
      <4>3. S \ {n + 1} \in SUBSET (1..(n + 1)) /\ n + 1 \notin S \ {n + 1}
        OBVIOUS
      <4>4. wide[S \ {n + 1}] = it[S \ {n + 1}]
        BY <4>3
      <4>5. wide[S] = F[it[S \ {n + 1}]][seq[n + 1]]
        BY <3>1
      <4> HIDE DEF wide
      <4> QED
        BY <3>1, <4>2, <4>4, <4>5
    <3>2. CASE n + 1 \notin S
      <4>1. S \in SUBSET (1..n) /\ wide[S] = it[S]
        BY <2>3, <3>2
      <4>2. it[S] = IF S = {} THEN base ELSE F[it[S \ {Max(S)}]][seq[Max(S)]]
        BY <2>1, <4>1
      <4>3. S \ {Max(S)} \in SUBSET (1..(n + 1)) /\ n + 1 \notin S \ {Max(S)}
        BY <3>2
      <4>4. wide[S \ {Max(S)}] = it[S \ {Max(S)}]
        BY <4>3
      <4> HIDE DEF wide
      <4> QED
        BY <4>1, <4>2, <4>4
    <3> QED
      BY <3>1, <3>2
  <2>6. Good(n + 1, wide)
    <3> HIDE DEF wide
    <3> QED
      BY <2>4, <2>5
  <2> HIDE DEF wide, Good
  <2> QED
    BY <2>2, <2>6
<1>3. \A n \in 0..Len(seq) : n \in T
  <2> HIDE DEF T
  <2> QED
    BY <1>0, <1>1, <1>2, UpTo
<1>4. \E it : Good(Len(seq), it)
  <2>1. Len(seq) \in 0..Len(seq)
    BY <1>0
  <2> HIDE DEF Good
  <2> QED
    BY <1>3, <2>1
<1> QED
  BY <1>0, <1>4 DEF Iterates

(* What such a function has for all indices is the result of the fold.     *)
LEMMA IterResult ==
  ASSUME NEW A, NEW X, NEW F \in [A -> [X -> A]], NEW base \in A, NEW seq \in Seq(X),
         NEW it, it[{}] = base,
         \A S \in SUBSET (DOMAIN seq) :
           (S # {} /\ it[S \ {Max(S)}] \in A) => it[S] = F[it[S \ {Max(S)}]][seq[Max(S)]]
  PROVE  Result(F, A, base, seq, it[DOMAIN seq])
<1> DEFINE t == [k \in 0..Len(seq) |-> it[1..k]]
           T == {k \in 0..Len(seq) : it[1..k] \in A}
<1>0. /\ Len(seq) \in Nat /\ 1..0 = {} /\ DOMAIN seq = 1..Len(seq)
      /\ \A i \in 1..Len(seq) : seq[i] \in X
  OBVIOUS
<1>a. ASSUME NEW k \in 0..(Len(seq) - 1), it[1..k] \in A
      PROVE  it[1..(k + 1)] = F[it[1..k]][seq[k + 1]]
  <2> DEFINE S == 1..(k + 1)
             m == Max(S)
  <2>1. /\ k \in Nat /\ k + 1 \in Nat /\ S \in SUBSET (1..(k + 1)) /\ k + 1 \in S
        /\ S \in SUBSET (1..Len(seq))
    <3>1. k \in Nat /\ k + 1 \in Nat
      BY <1>0
    <3>2. S \in SUBSET (1..Len(seq))
      BY <1>0
    <3> QED
      BY <3>1, <3>2
  <2>2. S # {}
    BY <2>1
  <2>3. m \in S /\ \A y \in S : m >= y
    <3> HIDE DEF S
    <3> QED
      BY <2>1, <2>2, MaxOf
  <2>4. m \in 1..(k + 1) /\ m >= k + 1
    BY <2>1, <2>3
  <2>5. m = k + 1
    <3> HIDE DEF m, S
    <3> QED
      BY <2>1, <2>4
  <2>6. S \ {k + 1} = 1..k
    BY <2>1
  <2> HIDE DEF S
  <2>7. it[S] = F[it[S \ {Max(S)}]][seq[Max(S)]]
    BY <1>0, <1>a, <2>1, <2>2, <2>5, <2>6
  <2>8. it[S] = F[it[1..k]][seq[k + 1]]
    BY <2>5, <2>6, <2>7
  <2> QED
    BY <2>8 DEF S
<1>1. 0 \in T
  BY <1>0
<1>2. ASSUME NEW k \in 0..(Len(seq) - 1), k \in T PROVE k + 1 \in T
  <2>1. it[1..k] \in A /\ k + 1 \in 0..Len(seq) /\ seq[k + 1] \in X
    BY <1>0, <1>2
  <2>2. it[1..(k + 1)] = F[it[1..k]][seq[k + 1]]
    BY <1>a, <2>1
  <2>3. F[it[1..k]][seq[k + 1]] \in A
    BY <2>1
  <2> QED
    BY <2>1, <2>2, <2>3
<1>3. \A k \in 0..Len(seq) : k \in T
  <2> HIDE DEF T
  <2> QED
    BY <1>0, <1>1, <1>2, UpTo
<1>4. t \in [0..Len(seq) -> A]
  BY <1>3
<1>5. ASSUME NEW k \in 1..Len(seq) PROVE t[k] = F[t[k - 1]][seq[k]]
  <2>1. k - 1 \in 0..(Len(seq) - 1) /\ k - 1 \in 0..Len(seq) /\ k \in 0..Len(seq)
        /\ (k - 1) + 1 = k
    BY <1>0
  <2>2. it[1..(k - 1)] \in A
    BY <1>3, <2>1
  <2>3. it[1..k] = F[it[1..(k - 1)]][seq[k]]
    BY <1>a, <2>1, <2>2
  <2> QED
    BY <2>1, <2>3
<1>6. t[0] = base /\ it[DOMAIN seq] = t[Len(seq)]
  BY <1>0
<1> HIDE DEF t
<1> QED
  BY <1>4, <1>5, <1>6 DEF Result, Trace

-----------------------------------------------------------------------------
(* Reading a file: what the scan has after each word or mark.              *)
Text     == Word \cup Mark
Acc      == [done : Seq(Sentence), begun : Seq(Word)]
Start    == [done |-> <<>>, begun |-> <<>>]
ScanStep == [a \in Acc |-> [x \in Text |-> Scan(a, x)]]

LEMMA ScanType ==
  ASSUME NEW a \in Acc, NEW x \in Text
  PROVE  Scan(a, x) \in Acc
<1>1. a.done \in Seq(Sentence) /\ a.begun \in Seq(Word) /\ a = [done |-> a.done, begun |-> a.begun]
  BY DEF Acc
<1>2. CASE x \in Mark
  <2>1. [words |-> a.begun, delim |-> x] \in Sentence
    BY <1>1, <1>2 DEF Sentence
  <2>2. Append(a.done, [words |-> a.begun, delim |-> x]) \in Seq(Sentence)
    BY <1>1, <2>1
  <2> QED
    BY <1>2, <2>2 DEF Scan, Acc
<1>3. CASE x \notin Mark
  <2>1. x \in Word /\ Append(a.begun, x) \in Seq(Word)
    BY <1>1, <1>3 DEF Text
  <2>2. Scan(a, x) = [done |-> a.done, begun |-> Append(a.begun, x)]
    BY <1>1, <1>3 DEF Scan
  <2> QED
    BY <1>1, <2>1, <2>2 DEF Acc
<1> QED
  BY <1>2, <1>3

LEMMA ScanStepType == ScanStep \in [Acc -> [Text -> Acc]]
  BY ScanType DEF ScanStep

LEMMA ScanResult ==
  ASSUME NEW base \in Acc, NEW file \in Seq(Text)
  PROVE  Result(ScanStep, Acc, base, file, FoldLeft(Scan, base, file))
<1> DEFINE Iter(it) == it = [S \in SUBSET (DOMAIN file) |->
                               IF S = {} THEN base
                               ELSE Scan(it[S \ {Max(S)}], file[Max(S)])]
           it == CHOOSE it : Iter(it)
<1>0. Len(file) \in Nat /\ DOMAIN file = 1..Len(file) /\ \A i \in 1..Len(file) : file[i] \in Text
  OBVIOUS
<1>1. \E f : Iter(f)
  <2>0. PICK f : Iterates(ScanStep, Acc, base, file, f)
    BY ScanStepType, IterExists, Zenon
  <2>1. /\ f \in [SUBSET (DOMAIN file) -> Acc]
        /\ \A S \in SUBSET (DOMAIN file) :
             f[S] = IF S = {} THEN base ELSE ScanStep[f[S \ {Max(S)}]][file[Max(S)]]
    BY <2>0, Zenon DEF Iterates
  <2>2. ASSUME NEW S \in SUBSET (DOMAIN file)
        PROVE  f[S] = IF S = {} THEN base ELSE Scan(f[S \ {Max(S)}], file[Max(S)])
    <3>1. CASE S # {}
      <4>1. S \in SUBSET (1..Len(file))
        BY <1>0
      <4>2. Max(S) \in S
        BY <1>0, <3>1, <4>1, MaxOf
      <4>3. Max(S) \in DOMAIN file /\ file[Max(S)] \in Text
        BY <1>0, <4>2
      <4>4. S \ {Max(S)} \in SUBSET (DOMAIN file)
        OBVIOUS
      <4>5. f[S \ {Max(S)}] \in Acc
        BY <2>1, <4>4
      <4>6. ScanStep[f[S \ {Max(S)}]][file[Max(S)]] = Scan(f[S \ {Max(S)}], file[Max(S)])
        BY <4>3, <4>5, Zenon DEF ScanStep
      <4> QED
        BY <2>1, <3>1, <4>6
    <3>2. CASE S = {}
      BY <2>1, <3>2
    <3> QED
      BY <3>1, <3>2
  <2>3. Iter(f)
    BY <2>1, <2>2
  <2> QED
    BY <2>3
<1>2. Iter(it)
  <2> HIDE DEF Iter
  <2> QED
    BY <1>1
<1>3. FoldLeft(Scan, base, file) = it[DOMAIN file]
  BY DEF FoldLeft, MapThenFoldSet
<1> HIDE DEF it
<1>4. \A S \in SUBSET (1..Len(file)) :
        it[S] = IF S = {} THEN base ELSE Scan(it[S \ {Max(S)}], file[Max(S)])
  BY <1>0, <1>2
<1> HIDE DEF Iter
<1>5. it[{}] = base
  BY <1>4
<1>6. ASSUME NEW S \in SUBSET (DOMAIN file), S # {}, it[S \ {Max(S)}] \in Acc
      PROVE  it[S] = ScanStep[it[S \ {Max(S)}]][file[Max(S)]]
  <2>1. S \in SUBSET (1..Len(file))
    BY <1>0
  <2>2. Max(S) \in S
    BY <1>0, <1>6, <2>1, MaxOf
  <2>3. file[Max(S)] \in Text
    BY <1>0, <2>2
  <2>4. it[S] = Scan(it[S \ {Max(S)}], file[Max(S)])
    BY <1>4, <1>6, <2>1
  <2> QED
    BY <1>6, <2>3, <2>4, Zenon DEF ScanStep
<1>7. Result(ScanStep, Acc, base, file, it[DOMAIN file])
  BY <1>5, <1>6, IterResult, ScanStepType
<1> QED
  BY <1>3, <1>7

\* What the scan of a whole file has.
Scanned(file) == FoldLeft(Scan, Start, file)

LEMMA StartType == Start \in Acc
  BY DEF Start, Acc

LEMMA ScannedType ==
  ASSUME NEW file \in Seq(Text)
  PROVE  Scanned(file) \in Acc
<1>1. Result(ScanStep, Acc, Start, file, Scanned(file))
  BY StartType, ScanResult DEF Scanned
<1>2. \E r \in Acc : Result(ScanStep, Acc, Start, file, r)
  BY StartType, ScanStepType, ResultExists
<1> QED
  BY <1>1, <1>2, ResultUnique

(* The scan goes from left to right. *)
LEMMA ScannedEmpty == Scanned(<<>>) = Start
<1>3. <<>> \in Seq(Text)
  OBVIOUS
<1>1. Result(ScanStep, Acc, Start, <<>>, Scanned(<<>>))
  BY <1>3, StartType, ScanResult DEF Scanned
<1>2. Result(ScanStep, Acc, Start, <<>>, Start)
  BY StartType, ResultEmpty
<1> QED
  BY <1>1, <1>2, <1>3, ResultUnique

LEMMA ScannedAppend ==
  ASSUME NEW file \in Seq(Text), NEW x \in Text
  PROVE  Scanned(Append(file, x)) = Scan(Scanned(file), x)
<1> DEFINE r == Scanned(file)
<1>0. r \in Acc /\ ScanStep[r][x] = Scan(r, x) /\ Scan(r, x) \in Acc
  BY ScannedType, ScanType DEF ScanStep
<1>1. Result(ScanStep, Acc, Start, file, r)
  BY StartType, ScanResult DEF Scanned
<1> HIDE DEF r
<1>2. Result(ScanStep, Acc, Start, Append(file, x), ScanStep[r][x])
  BY <1>0, <1>1, StartType, ResultAppend
<1>3. Append(file, x) \in Seq(Text)
  OBVIOUS
<1>4. Result(ScanStep, Acc, Start, Append(file, x), Scanned(Append(file, x)))
  BY <1>3, StartType, ScanResult DEF Scanned
<1>5. Scanned(Append(file, x)) = ScanStep[r][x]
  BY <1>2, <1>3, <1>4, ResultUnique
<1> QED
  BY <1>0, <1>5 DEF r

-----------------------------------------------------------------------------
(* FlattenSeq. *)
Concat(X) == [a \in Seq(X) |-> [s \in Seq(X) |-> a \o s]]

LEMMA ConcatType == ASSUME NEW X PROVE Concat(X) \in [Seq(X) -> [Seq(X) -> Seq(X)]]
<1>1. \A a \in Seq(X), s \in Seq(X) : a \o s \in Seq(X)
  OBVIOUS
<1> QED
  BY <1>1 DEF Concat

LEMMA FlattenResult ==
  ASSUME NEW X, NEW seqs \in Seq(Seq(X))
  PROVE  Result(Concat(X), Seq(X), <<>>, seqs, FlattenSeq(seqs))
<1> DEFINE n == Len(seqs)
           Flat(f) == f = [i \in 1..n |-> IF i = 1 THEN seqs[i] ELSE f[i - 1] \o seqs[i]]
           f == CHOOSE g : Flat(g)
<1>0. n \in Nat /\ DOMAIN seqs = 1..n /\ \A i \in 1..n : seqs[i] \in Seq(X)
  OBVIOUS
<1>z. <<>> \in Seq(X) /\ \A s \in Seq(X) : <<>> \o s = s
  OBVIOUS
<1>1. CASE n = 0
  <2>1. seqs = <<>> /\ FlattenSeq(seqs) = seqs
    BY <1>0, <1>1 DEF FlattenSeq
  <2> QED
    BY <1>z, <2>1, ResultEmpty
<1>2. CASE n # 0
  <2>1. \E g : Flat(g)
    <3>1. PICK r \in Seq(X) : Result(Concat(X), Seq(X), <<>>, seqs, r)
      BY <1>z, ConcatType, ResultExists
    <3>2. PICK t \in [0..n -> Seq(X)] : Trace(Concat(X), <<>>, seqs, t)
      BY <3>1 DEF Result
    <3> DEFINE g == [i \in 1..n |-> t[i]]
    <3>3. ASSUME NEW i \in 1..n
          PROVE  g[i] = IF i = 1 THEN seqs[i] ELSE g[i - 1] \o seqs[i]
      <4>1. t[i - 1] \in Seq(X) /\ seqs[i] \in Seq(X)
        <5>1. i - 1 \in 0..n
          BY <1>0
        <5>2. t[i - 1] \in Seq(X)
          BY <5>1
        <5> QED
          BY <1>0, <5>2
      <4>2. t[i] = Concat(X)[t[i - 1]][seqs[i]]
        BY <3>2 DEF Trace
      <4>3. t[i] = t[i - 1] \o seqs[i]
        BY <4>1, <4>2 DEF Concat
      <4>4. CASE i = 1
        <5>1. t[0] = <<>> /\ i - 1 = 0
          BY <3>2, <4>4 DEF Trace
        <5> QED
          BY <1>z, <4>1, <4>3, <4>4, <5>1
      <4>5. CASE i # 1
        <5>1. i - 1 \in 1..n
          BY <1>0, <4>5
        <5> QED
          BY <4>3, <4>5, <5>1
      <4> QED
        BY <4>4, <4>5
    <3>4. Flat(g)
      <4>1. g = [i \in 1..n |-> g[i]]
        OBVIOUS
      <4> HIDE DEF g
      <4> QED
        BY <3>3, <4>1
    <3> QED
      BY <3>4
  <2>2. Flat(f)
    <3> HIDE DEF Flat
    <3> QED
      BY <2>1
  <2>3. FlattenSeq(seqs) = f[n]
    BY <1>2 DEF FlattenSeq
  <2> HIDE DEF f
  <2>4. \A i \in 1..n : f[i] = IF i = 1 THEN seqs[i] ELSE f[i - 1] \o seqs[i]
    BY <2>2
  <2> HIDE DEF Flat
  <2> DEFINE t == [k \in 0..n |-> IF k = 0 THEN <<>> ELSE f[k]]
             T == {k \in 0..n : t[k] \in Seq(X)}
  <2>5. ASSUME NEW k \in 0..(n - 1), t[k] \in Seq(X)
        PROVE  t[k + 1] = t[k] \o seqs[k + 1] /\ t[k + 1] \in Seq(X)
    <3>1. k + 1 \in 1..n /\ k + 1 \in 0..n /\ seqs[k + 1] \in Seq(X) /\ (k + 1) - 1 = k /\ k \in 0..n
      BY <1>0
    <3>2. t[k + 1] = f[k + 1]
      BY <3>1
    <3>3. CASE k = 0
      <4>1. t[k] = <<>> /\ f[k + 1] = seqs[k + 1]
        BY <2>4, <3>1, <3>3
      <4> QED
        BY <1>z, <3>1, <3>2, <4>1
    <3>4. CASE k # 0
      <4>1. t[k] = f[k]
        BY <3>1, <3>4
      <4>2. k + 1 # 1 /\ k + 1 \in 1..n /\ (k + 1) - 1 = k
        BY <1>0, <3>1, <3>4
      <4>3. f[k + 1] = f[k] \o seqs[k + 1]
        <5> HIDE DEF t, n
        <5> QED
          BY <2>4, <4>2
      <4>4. t[k + 1] = t[k] \o seqs[k + 1]
        BY <3>2, <4>1, <4>3
      <4> HIDE DEF t
      <4> QED
        BY <2>5, <3>1, <4>4
    <3> QED
      BY <3>3, <3>4
  <2>6. 0 \in T
    BY <1>0, <1>z
  <2>7. \A k \in 0..n : k \in T
    <3>1. ASSUME NEW k \in 0..(n - 1), k \in T PROVE k + 1 \in T
      <4>1. t[k] \in Seq(X)
        BY <3>1
      <4>2. t[k + 1] \in Seq(X)
        <5> HIDE DEF t, T, n
        <5> QED
          BY <2>5, <4>1
      <4>3. k + 1 \in 0..n
        BY <1>0
      <4> HIDE DEF t
      <4> QED
        BY <4>2, <4>3
    <3> HIDE DEF T
    <3> QED
      BY <1>0, <2>6, <3>1, UpTo
  <2>8. t \in [0..n -> Seq(X)]
    BY <2>7
  <2>9. ASSUME NEW k \in 1..n PROVE t[k] = Concat(X)[t[k - 1]][seqs[k]]
    <3>1. k - 1 \in 0..(n - 1) /\ k - 1 \in 0..n /\ (k - 1) + 1 = k /\ seqs[k] \in Seq(X)
      BY <1>0
    <3>2. t[k - 1] \in Seq(X)
      BY <2>7, <3>1
    <3> HIDE DEF t
    <3>3. t[k] = t[k - 1] \o seqs[k]
      BY <2>5, <3>1, <3>2
    <3> QED
      BY <3>1, <3>2, <3>3 DEF Concat
  <2>10. t[0] = <<>> /\ t[n] = FlattenSeq(seqs)
    BY <1>0, <1>2, <2>3
  <2> HIDE DEF t
  <2> QED
    BY <2>8, <2>9, <2>10 DEF Result, Trace
<1> QED
  BY <1>1, <1>2

LEMMA FlattenEmpty == FlattenSeq(<<>>) = <<>>
  BY DEF FlattenSeq

LEMMA FlattenType ==
  ASSUME NEW X, NEW seqs \in Seq(Seq(X))
  PROVE  FlattenSeq(seqs) \in Seq(X)
<1>1. <<>> \in Seq(X)
  OBVIOUS
<1>2. \E r \in Seq(X) : Result(Concat(X), Seq(X), <<>>, seqs, r)
  BY <1>1, ConcatType, ResultExists
<1> QED
  BY <1>2, FlattenResult, ResultUnique

LEMMA FlattenAppend ==
  ASSUME NEW X, NEW seqs \in Seq(Seq(X)), NEW s \in Seq(X)
  PROVE  FlattenSeq(Append(seqs, s)) = FlattenSeq(seqs) \o s
<1> DEFINE r == FlattenSeq(seqs)
<1>1. <<>> \in Seq(X) /\ Append(seqs, s) \in Seq(Seq(X))
  OBVIOUS
<1>2. r \in Seq(X)
  BY FlattenType
<1>3. Result(Concat(X), Seq(X), <<>>, seqs, r)
  BY FlattenResult
<1> HIDE DEF r
<1>4. Concat(X)[r][s] = r \o s /\ r \o s \in Seq(X)
  BY <1>2 DEF Concat
<1>5. Result(Concat(X), Seq(X), <<>>, Append(seqs, s), Concat(X)[r][s])
  BY <1>1, <1>3, <1>4, ResultAppend
<1>6. Result(Concat(X), Seq(X), <<>>, Append(seqs, s), FlattenSeq(Append(seqs, s)))
  BY <1>1, FlattenResult
<1>7. FlattenSeq(Append(seqs, s)) = Concat(X)[r][s]
  <2> DEFINE more == Append(seqs, s)
             q    == Concat(X)[r][s]
  <2>1. /\ more \in Seq(Seq(X)) /\ Result(Concat(X), Seq(X), <<>>, more, q)
        /\ Result(Concat(X), Seq(X), <<>>, more, FlattenSeq(more))
    BY <1>1, <1>5, <1>6
  <2> HIDE DEF more, q
  <2>2. FlattenSeq(more) = q
    BY <2>1, ResultUnique
  <2> QED
    BY <2>2 DEF more, q
<1> QED
  BY <1>4, <1>7 DEF r

LEMMA ConcatAppend ==
  ASSUME NEW X, NEW a \in Seq(X), NEW b \in Seq(X), NEW x \in X
  PROVE  a \o Append(b, x) = Append(a \o b, x)
  OBVIOUS

(* Two sequences with the same elements in the same places are one.        *)
LEMMA SameSequence ==
  ASSUME NEW X, NEW u \in Seq(X), NEW v \in Seq(X), Len(u) = Len(v),
         \A k \in 1..Len(u) : u[k] = v[k]
  PROVE  u = v
  OBVIOUS

(* What is at the places of a concatenation. *)
LEMMA ConcatAt ==
  ASSUME NEW X, NEW u \in Seq(X), NEW v \in Seq(X)
  PROVE  /\ u \o v \in Seq(X) /\ Len(u \o v) = Len(u) + Len(v)
         /\ \A k \in 1..Len(u) : (u \o v)[k] = u[k]
         /\ \A k \in 1..(Len(u) + Len(v)) :
              k > Len(u) => (k - Len(u) \in 1..Len(v) /\ (u \o v)[k] = v[k - Len(u)])
  OBVIOUS

(* A sequence that maps the elements of two others is their concatenation. *)
LEMMA ConcatOf ==
  ASSUME NEW X, NEW u \in Seq(X), NEW v \in Seq(X), NEW w \in Seq(X),
         Len(w) = Len(u) + Len(v), \A k \in 1..Len(u) : w[k] = u[k],
         \A k \in 1..Len(w) : k > Len(u) => w[k] = v[k - Len(u)]
  PROVE  w = u \o v
<1>0. Len(u) \in Nat /\ Len(v) \in Nat
  OBVIOUS
<1>1. ASSUME NEW k \in 1..Len(w) PROVE w[k] = (u \o v)[k]
  <2>1. CASE k =< Len(u)
    <3>1. k \in 1..Len(u)
      BY <1>0, <2>1
    <3> QED
      BY <3>1, ConcatAt
  <2>2. CASE k > Len(u)
    BY <2>2, ConcatAt
  <2> QED
    BY <1>0, <2>1, <2>2
<1>2. u \o v \in Seq(X) /\ Len(u \o v) = Len(w)
  BY ConcatAt
<1> QED
  BY <1>1, <1>2, SameSequence

LEMMA ConcatAssociates ==
  ASSUME NEW X, NEW a \in Seq(X), NEW b \in Seq(X), NEW c \in Seq(X)
  PROVE  (a \o b) \o c = a \o (b \o c)
<1>1. /\ (a \o b) \o c \in Seq(X) /\ a \o (b \o c) \in Seq(X)
      /\ Len((a \o b) \o c) = Len(a \o (b \o c))
  OBVIOUS
<1>2. ASSUME NEW k \in 1..Len((a \o b) \o c)
      PROVE  ((a \o b) \o c)[k] = (a \o (b \o c))[k]
  <2>1. CASE k =< Len(a)
    BY <2>1
  <2>2. CASE k > Len(a) /\ k =< Len(a) + Len(b)
    BY <2>2
  <2>3. CASE k > Len(a) + Len(b)
    BY <2>3
  <2> QED
    BY <2>1, <2>2, <2>3
<1> DEFINE u == (a \o b) \o c
           v == a \o (b \o c)
<1>3. u = v
  <2>1. u \in Seq(X) /\ v \in Seq(X) /\ Len(u) = Len(v) /\ \A k \in 1..Len(u) : u[k] = v[k]
    BY <1>1, <1>2
  <2> HIDE DEF u, v
  <2> QED
    BY <2>1, SameSequence
<1> QED
  BY <1>3

LEMMA FlattenConcat ==
  ASSUME NEW X, NEW a \in Seq(Seq(X))
  PROVE  \A b \in Seq(Seq(X)) : FlattenSeq(a \o b) = FlattenSeq(a) \o FlattenSeq(b)
<1> DEFINE T == {b \in Seq(Seq(X)) : FlattenSeq(a \o b) = FlattenSeq(a) \o FlattenSeq(b)}
<1>0. FlattenSeq(a) \in Seq(X)
  BY FlattenType
<1>1. <<>> \in T
  <2>1. a \o <<>> = a
    OBVIOUS
  <2>2. FlattenSeq(a) \o <<>> = FlattenSeq(a)
    BY <1>0
  <2>3. <<>> \in Seq(Seq(X))
    OBVIOUS
  <2>4. FlattenSeq(a \o <<>>) = FlattenSeq(a) \o FlattenSeq(<<>>)
    BY <2>1, <2>2, FlattenEmpty, Zenon
  <2> QED
    BY <2>3, <2>4, Zenon
<1>2. ASSUME NEW b \in Seq(Seq(X)), NEW s \in Seq(X), b \in T PROVE Append(b, s) \in T
  <2>1. /\ a \o b \in Seq(Seq(X)) /\ Append(b, s) \in Seq(Seq(X))
        /\ a \o Append(b, s) = Append(a \o b, s)
    BY ConcatAppend
  <2>2. FlattenSeq(b) \in Seq(X)
    BY FlattenType
  <2>3. FlattenSeq(a \o Append(b, s)) = FlattenSeq(a \o b) \o s
    BY <2>1, FlattenAppend
  <2>4. FlattenSeq(Append(b, s)) = FlattenSeq(b) \o s
    BY FlattenAppend
  <2>5. FlattenSeq(a \o b) = FlattenSeq(a) \o FlattenSeq(b)
    BY <1>2
  <2>6. (FlattenSeq(a) \o FlattenSeq(b)) \o s = FlattenSeq(a) \o (FlattenSeq(b) \o s)
    BY <1>0, <2>2, ConcatAssociates
  <2>7. FlattenSeq(a \o Append(b, s)) = FlattenSeq(a) \o FlattenSeq(Append(b, s))
    BY <2>3, <2>4, <2>5, <2>6, Zenon
  <2> QED
    BY <2>1, <2>7
<1>3. \A b \in Seq(Seq(X)) : b \in T
  <2> HIDE DEF T
  <2> QED
    BY <1>1, <1>2, AllSequences
<1> QED
  BY <1>3

-----------------------------------------------------------------------------
(* Flush and Words. *)

\* What flush_list_to_file writes of one sentence.
Written(s) == s.words \o (IF s.delim = Open THEN <<>> ELSE <<s.delim>>)

LEMMA WrittenType ==
  ASSUME NEW s \in Sentence
  PROVE  Written(s) \in Seq(Text) /\ s.words \in Seq(Word)
<1>1. s.words \in Seq(Word) /\ s.delim \in Mark \cup {Open}
  BY DEF Sentence
<1>2. s.words \in Seq(Text)
  BY <1>1 DEF Text
<1>3. (IF s.delim = Open THEN <<>> ELSE <<s.delim>>) \in Seq(Text)
  <2>1. CASE s.delim = Open
    BY <2>1
  <2>2. CASE s.delim # Open
    <3>1. s.delim \in Text
      BY <1>1, <2>2 DEF Text
    <3>2. <<s.delim>> \in Seq(Text)
      BY <3>1
    <3> QED
      BY <2>2, <3>2
  <2> QED
    BY <2>1, <2>2
<1> QED
  BY <1>1, <1>2, <1>3 DEF Written

LEMMA FlushFacts ==
  ASSUME NEW list \in Seq(Sentence)
  PROVE  Flush(list) \in Seq(Text) /\ Words(list) \in Seq(Word)
<1>0. DOMAIN list = 1..Len(list) /\ Len(list) \in Nat
      /\ \A k \in 1..Len(list) : list[k] \in Sentence
  OBVIOUS
<1>a. \A k \in 1..Len(list) : Written(list[k]) \in Seq(Text) /\ list[k].words \in Seq(Word)
  BY <1>0, WrittenType
<1>1. [k \in DOMAIN list |-> Written(list[k])] \in Seq(Seq(Text))
  BY <1>0, <1>a
<1>2. [k \in DOMAIN list |-> list[k].words] \in Seq(Seq(Word))
  BY <1>0, <1>a
<1>3. Flush(list) = FlattenSeq([k \in DOMAIN list |-> Written(list[k])])
  BY DEF Flush, Written
<1> QED
  BY <1>1, <1>2, <1>3, FlattenType DEF Words

LEMMA FlushEmpty == Flush(<<>>) = <<>> /\ Words(<<>>) = <<>>
  BY FlattenEmpty DEF Flush, Words

LEMMA FlushConcat ==
  ASSUME NEW a \in Seq(Sentence), NEW b \in Seq(Sentence)
  PROVE  /\ Flush(a \o b) = Flush(a) \o Flush(b)
         /\ Words(a \o b) = Words(a) \o Words(b)
<1> DEFINE W(list) == [k \in DOMAIN list |-> Written(list[k])]
           V(list) == [k \in DOMAIN list |-> list[k].words]
<1>1. \A list : Flush(list) = FlattenSeq(W(list)) /\ Words(list) = FlattenSeq(V(list))
  BY DEF Flush, Written, Words
<1>2. ASSUME NEW list \in Seq(Sentence)
      PROVE  /\ W(list) \in Seq(Seq(Text)) /\ V(list) \in Seq(Seq(Word))
             /\ Len(W(list)) = Len(list) /\ Len(V(list)) = Len(list)
             /\ \A k \in 1..Len(list) : /\ W(list)[k] = Written(list[k])
                                        /\ V(list)[k] = list[k].words
  <2>1. DOMAIN list = 1..Len(list) /\ Len(list) \in Nat
        /\ \A k \in 1..Len(list) : list[k] \in Sentence
    OBVIOUS
  <2>2. \A k \in 1..Len(list) : Written(list[k]) \in Seq(Text) /\ list[k].words \in Seq(Word)
    BY <2>1, WrittenType
  <2> QED
    BY <2>1, <2>2
<1> DEFINE c == a \o b
<1>3. /\ c \in Seq(Sentence) /\ Len(c) = Len(a) + Len(b)
      /\ \A k \in 1..Len(a) : c[k] = a[k]
      /\ \A k \in 1..(Len(a) + Len(b)) :
           k > Len(a) => (k - Len(a) \in 1..Len(b) /\ c[k] = b[k - Len(a)])
  BY ConcatAt
<1>4. Len(a) \in Nat /\ Len(b) \in Nat
  OBVIOUS
<1> HIDE DEF W, V, c
<1>5. /\ W(a) \in Seq(Seq(Text)) /\ W(b) \in Seq(Seq(Text)) /\ W(c) \in Seq(Seq(Text))
      /\ V(a) \in Seq(Seq(Word)) /\ V(b) \in Seq(Seq(Word)) /\ V(c) \in Seq(Seq(Word))
      /\ Len(W(a)) = Len(a) /\ Len(W(b)) = Len(b) /\ Len(W(c)) = Len(c)
      /\ Len(V(a)) = Len(a) /\ Len(V(b)) = Len(b) /\ Len(V(c)) = Len(c)
  BY <1>2, <1>3
<1>6. \A k \in 1..Len(c) : W(c)[k] = Written(c[k]) /\ V(c)[k] = c[k].words
  BY <1>2, <1>3
<1>7. \A k \in 1..Len(a) : W(a)[k] = Written(a[k]) /\ V(a)[k] = a[k].words
  BY <1>2
<1>8. \A k \in 1..Len(b) : W(b)[k] = Written(b[k]) /\ V(b)[k] = b[k].words
  BY <1>2
<1>9. ASSUME NEW k \in 1..Len(a)
      PROVE  W(c)[k] = W(a)[k] /\ V(c)[k] = V(a)[k]
  <2>1. k \in 1..Len(c) /\ c[k] = a[k]
    BY <1>3, <1>4
  <2> QED
    BY <1>6, <1>7, <2>1
<1>10. ASSUME NEW k \in 1..Len(c), k > Len(a)
       PROVE  W(c)[k] = W(b)[k - Len(a)] /\ V(c)[k] = V(b)[k - Len(a)]
  <2>1. k - Len(a) \in 1..Len(b) /\ c[k] = b[k - Len(a)]
    BY <1>3, <1>10
  <2> QED
    BY <1>6, <1>8, <2>1
<1>11. W(c) = W(a) \o W(b)
  <2>1. /\ W(a) \in Seq(Seq(Text)) /\ W(b) \in Seq(Seq(Text)) /\ W(c) \in Seq(Seq(Text))
        /\ Len(W(c)) = Len(W(a)) + Len(W(b))
        /\ \A k \in 1..Len(W(a)) : W(c)[k] = W(a)[k]
        /\ \A k \in 1..Len(W(c)) : k > Len(W(a)) => W(c)[k] = W(b)[k - Len(W(a))]
    BY <1>3, <1>5, <1>9, <1>10
  <2> QED
    BY <2>1, ConcatOf
<1>12. V(c) = V(a) \o V(b)
  <2>1. /\ V(a) \in Seq(Seq(Word)) /\ V(b) \in Seq(Seq(Word)) /\ V(c) \in Seq(Seq(Word))
        /\ Len(V(c)) = Len(V(a)) + Len(V(b))
        /\ \A k \in 1..Len(V(a)) : V(c)[k] = V(a)[k]
        /\ \A k \in 1..Len(V(c)) : k > Len(V(a)) => V(c)[k] = V(b)[k - Len(V(a))]
    BY <1>3, <1>5, <1>9, <1>10
  <2> QED
    BY <2>1, ConcatOf
<1>13. /\ FlattenSeq(W(c)) = FlattenSeq(W(a)) \o FlattenSeq(W(b))
       /\ FlattenSeq(V(c)) = FlattenSeq(V(a)) \o FlattenSeq(V(b))
  BY <1>5, <1>11, <1>12, FlattenConcat
<1> QED
  BY <1>1, <1>13, Zenon DEF c

LEMMA FlushOne ==
  ASSUME NEW s \in Sentence
  PROVE  Flush(<<s>>) = Written(s) /\ Words(<<s>>) = s.words
<1>1. /\ [k \in DOMAIN <<s>> |-> Written(<<s>>[k])] = Append(<<>>, Written(s))
      /\ [k \in DOMAIN <<s>> |-> <<s>>[k].words] = Append(<<>>, s.words)
  OBVIOUS
<1>2. Written(s) \in Seq(Text) /\ s.words \in Seq(Word)
  BY WrittenType
<1>3. <<>> \in Seq(Seq(Text)) /\ <<>> \in Seq(Seq(Word))
  OBVIOUS
<1>4. Flush(<<s>>) = FlattenSeq(Append(<<>>, Written(s)))
  BY <1>1 DEF Flush, Written
<1>5. Words(<<s>>) = FlattenSeq(Append(<<>>, s.words))
  BY <1>1 DEF Words
<1>6. /\ FlattenSeq(Append(<<>>, Written(s))) = <<>> \o Written(s)
      /\ FlattenSeq(Append(<<>>, s.words)) = <<>> \o s.words
  BY <1>2, <1>3, FlattenEmpty, FlattenAppend
<1> QED
  BY <1>2, <1>4, <1>5, <1>6

LEMMA AppendIsConcat ==
  ASSUME NEW X, NEW a \in Seq(X), NEW x \in X
  PROVE  Append(a, x) = a \o <<x>>
  OBVIOUS

LEMMA FlushAppend ==
  ASSUME NEW list \in Seq(Sentence), NEW s \in Sentence
  PROVE  /\ Flush(Append(list, s)) = Flush(list) \o Written(s)
         /\ Words(Append(list, s)) = Words(list) \o s.words
<1>1. Append(list, s) = list \o <<s>> /\ <<s>> \in Seq(Sentence)
  BY AppendIsConcat
<1> QED
  BY <1>1, FlushConcat, FlushOne

-----------------------------------------------------------------------------
(* What reading a file yields. *)
Closed(list) == \A k \in DOMAIN list : list[k].delim \in Mark
Worded(list) == \A k \in DOMAIN list : list[k].words # <<>>

LEMMA ListAppend ==
  ASSUME NEW list \in Seq(Sentence), NEW s \in Sentence
  PROVE  /\ Closed(list) /\ s.delim \in Mark => Closed(Append(list, s))
         /\ Worded(list) /\ s.words # <<>> => Worded(Append(list, s))
<1>1. /\ DOMAIN Append(list, s) = 1..(Len(list) + 1) /\ DOMAIN list = 1..Len(list)
      /\ Append(list, s)[Len(list) + 1] = s /\ Len(list) \in Nat
      /\ \A k \in 1..Len(list) : Append(list, s)[k] = list[k]
  OBVIOUS
<1>2. \A k \in 1..(Len(list) + 1) : k = Len(list) + 1 \/ k \in 1..Len(list)
  BY <1>1
<1> QED
  BY <1>1, <1>2 DEF Closed, Worded

LEMMA OpenIsNoMark == Open \notin Mark
  BY DEF Open, Mark, Stop, Newline

(* The sentences before the last are closed, and nothing of the file is    *)
(* lost or added. *)
LEMMA ScannedFacts ==
  \A file \in Seq(Text) :
    /\ Closed(Scanned(file).done)
    /\ Flush(Scanned(file).done) \o Scanned(file).begun = file
<1> DEFINE Good(a, file) == Closed(a.done) /\ Flush(a.done) \o a.begun = file
           T == {file \in Seq(Text) : Good(Scanned(file), file)}
<1>1. <<>> \in T
  <2>1. Start.done = <<>> /\ Start.begun = <<>>
    BY DEF Start
  <2>2. Closed(<<>>) /\ <<>> \o <<>> = <<>> /\ <<>> \in Seq(Text)
    BY DEF Closed
  <2>3. Good(Start, <<>>)
    BY <2>1, <2>2, FlushEmpty
  <2> HIDE DEF Good
  <2> QED
    BY <2>2, <2>3, ScannedEmpty
<1>2. ASSUME NEW file \in Seq(Text), NEW x \in Text, file \in T PROVE Append(file, x) \in T
  <2> DEFINE a == Scanned(file)
  <2>1. a \in Acc /\ Good(a, file)
    BY <1>2, ScannedType
  <2> HIDE DEF a
  <2>2. a.done \in Seq(Sentence) /\ a.begun \in Seq(Word) /\ a.begun \in Seq(Text)
    BY <2>1 DEF Acc, Text
  <2>3. Flush(a.done) \in Seq(Text)
    BY <2>2, FlushFacts
  <2>c. Flush(a.done) \o Append(a.begun, x) = Append(Flush(a.done) \o a.begun, x)
    <3>1. \A f, b \in Seq(Text) : f \o Append(b, x) = Append(f \o b, x)
      BY ConcatAppend
    <3> QED
      BY <2>2, <2>3, <3>1, Zenon
  <2>4. Good(Scan(a, x), Append(file, x))
    <3>1. CASE x \in Mark
      <4> DEFINE s == [words |-> a.begun, delim |-> x]
      <4>1. s \in Sentence /\ s.delim \in Mark /\ s.words = a.begun /\ s.delim = x
        BY <2>2, <3>1 DEF Sentence
      <4>2. Scan(a, x).done = Append(a.done, s) /\ Scan(a, x).begun = <<>>
        BY <3>1 DEF Scan
      <4> HIDE DEF s
      <4>3. Closed(Append(a.done, s))
        BY <2>1, <2>2, <4>1, ListAppend
      <4>4. Written(s) = Append(a.begun, x)
        BY <2>2, <3>1, <4>1, OpenIsNoMark, AppendIsConcat DEF Written
      <4>5. Flush(Append(a.done, s)) = Flush(a.done) \o Append(a.begun, x)
        BY <2>2, <4>1, <4>4, FlushAppend
      <4>7. Flush(Append(a.done, s)) = Append(file, x)
        BY <2>1, <2>c, <4>5
      <4>8. Append(file, x) \o <<>> = Append(file, x)
        OBVIOUS
      <4> QED
        BY <4>2, <4>3, <4>7, <4>8
    <3>2. CASE x \notin Mark
      <4>1. Scan(a, x).done = a.done /\ Scan(a, x).begun = Append(a.begun, x)
        BY <2>1, <3>2 DEF Scan, Acc
      <4> QED
        BY <2>1, <2>c, <4>1
    <3> QED
      BY <3>1, <3>2
  <2>5. Scanned(Append(file, x)) = Scan(a, x)
    BY ScannedAppend DEF a
  <2>6. Append(file, x) \in Seq(Text)
    OBVIOUS
  <2> HIDE DEF Good
  <2> QED
    BY <2>4, <2>5, <2>6
<1>3. \A file \in Seq(Text) : file \in T
  <2> HIDE DEF T
  <2> QED
    BY <1>1, <1>2, AllSequences
<1> QED
  BY <1>3

\* Only the last sentence has no delimiter.
OpenLast(list) == \A k \in DOMAIN list : list[k].delim = Open => k = Len(list)

LEMMA ParseParts ==
  ASSUME NEW file \in Seq(Text)
  PROVE  /\ Scanned(file).done \in Seq(Sentence) /\ Scanned(file).begun \in Seq(Word)
         /\ [words |-> Scanned(file).begun, delim |-> Open] \in Sentence
         /\ Parse(file) = Append(Scanned(file).done,
                                 [words |-> Scanned(file).begun, delim |-> Open])
<1>1. Scanned(file).done \in Seq(Sentence) /\ Scanned(file).begun \in Seq(Word)
  BY ScannedType DEF Acc
<1> QED
  BY <1>1 DEF Parse, Scanned, Start, Sentence

(* parse_file_to_list, and flush_list_to_file after it: only the last      *)
(* sentence that is read lacks a delimiter, and writing the list gives the *)
(* file again. *)
THEOREM ParseFacts ==
  ASSUME NEW file \in Seq(Text)
  PROVE  /\ Parse(file) \in Seq(Sentence)
         /\ OpenLast(Parse(file))
         /\ Flush(Parse(file)) = file
<1> DEFINE done == Scanned(file).done
           begun == Scanned(file).begun
           s == [words |-> begun, delim |-> Open]
<1>1. /\ done \in Seq(Sentence) /\ begun \in Seq(Word) /\ begun \in Seq(Text)
      /\ s \in Sentence /\ Parse(file) = Append(done, s)
  BY ParseParts DEF Text
<1>2. Closed(done) /\ Flush(done) \o begun = file
  BY ScannedFacts
<1>3. Written(s) = begun
  BY <1>1 DEF Written
<1> HIDE DEF done, s, begun
<1>4. Append(done, s) \in Seq(Sentence) /\ Flush(Append(done, s)) = file
  <2>1. Flush(Append(done, s)) = Flush(done) \o Written(s)
    BY <1>1, FlushAppend, Zenon
  <2>2. Append(done, s) \in Seq(Sentence)
    BY <1>1
  <2> QED
    BY <1>2, <1>3, <2>1, <2>2, Zenon
<1>5. OpenLast(Append(done, s))
  <2>1. /\ DOMAIN Append(done, s) = 1..(Len(done) + 1) /\ DOMAIN done = 1..Len(done)
        /\ Len(Append(done, s)) = Len(done) + 1 /\ Len(done) \in Nat
        /\ \A k \in 1..Len(done) : Append(done, s)[k] = done[k]
    BY <1>1
  <2>2. \A k \in 1..(Len(done) + 1) : k = Len(done) + 1 \/ k \in 1..Len(done)
    BY <2>1
  <2> QED
    BY <1>2, <2>1, <2>2, OpenIsNoMark DEF OpenLast, Closed
<1> QED
  BY <1>1, <1>4, <1>5

-----------------------------------------------------------------------------
(* Reading back what was written. *)

LEMMA WordIsText == \A w \in Word : w \in Text /\ w \notin Mark
  BY WordAssumption DEF Text

LEMMA TextTypes == \A ws \in Seq(Word) : ws \in Seq(Text)
  BY DEF Text

(* Words only make the sentence begun longer. *)
LEMMA ScannedWords ==
  ASSUME NEW file \in Seq(Text)
  PROVE  \A ws \in Seq(Word) :
           Scanned(file \o ws) = [done  |-> Scanned(file).done,
                                  begun |-> Scanned(file).begun \o ws]
<1> DEFINE a == Scanned(file)
           T == {ws \in Seq(Word) :
                   Scanned(file \o ws) = [done |-> a.done, begun |-> a.begun \o ws]}
<1>0. a \in Acc /\ a = [done |-> a.done, begun |-> a.begun] /\ a.begun \in Seq(Word)
  BY ScannedType DEF Acc
<1>c. \A u \in Seq(Text) : u \o <<>> = u
  OBVIOUS
<1>d. \A u \in Seq(Word) : u \o <<>> = u /\ <<>> \in Seq(Word)
  OBVIOUS
<1>1. <<>> \in T
  <2>1. file \o <<>> = file /\ a.begun \o <<>> = a.begun
    BY <1>0, <1>c, <1>d
  <2>2. Scanned(file \o <<>>) = [done |-> a.done, begun |-> a.begun \o <<>>]
    BY <1>0, <2>1, Zenon
  <2>3. <<>> \in Seq(Word)
    OBVIOUS
  <2> HIDE DEF a
  <2> QED
    BY <2>2, <2>3, Zenon
<1> HIDE DEF a
<1>2. ASSUME NEW ws \in Seq(Word), NEW w \in Word, ws \in T PROVE Append(ws, w) \in T
  <2>1. /\ ws \in Seq(Text) /\ w \in Text /\ w \notin Mark
        /\ file \o ws \in Seq(Text)
    BY WordIsText, TextTypes
  <2>2. file \o Append(ws, w) = Append(file \o ws, w)
    BY <2>1, ConcatAppend
  <2>3. a.begun \o Append(ws, w) = Append(a.begun \o ws, w)
    BY <1>0, ConcatAppend
  <2>4. Scanned(file \o ws) = [done |-> a.done, begun |-> a.begun \o ws]
    BY <1>2
  <2>5. Scanned(Append(file \o ws, w)) = Scan(Scanned(file \o ws), w)
    BY <2>1, ScannedAppend
  <2>6. Scan(Scanned(file \o ws), w) = [done |-> a.done, begun |-> Append(a.begun \o ws, w)]
    <3>1. \A d, b : Scan([done |-> d, begun |-> b], w) = [done |-> d, begun |-> Append(b, w)]
      BY <2>1 DEF Scan
    <3> QED
      BY <2>4, <3>1, Zenon
  <2>7. Scanned(file \o Append(ws, w)) = [done |-> a.done, begun |-> a.begun \o Append(ws, w)]
    BY <2>2, <2>3, <2>5, <2>6, Zenon
  <2>8. Append(ws, w) \in Seq(Word)
    OBVIOUS
  <2> QED
    BY <2>7, <2>8, Zenon
<1>3. \A ws \in Seq(Word) : ws \in T
  <2> HIDE DEF T
  <2> QED
    BY <1>1, <1>2, AllSequences
<1> QED
  BY <1>3 DEF a

(* Closed sentences are read back as they are. *)
LEMMA ScannedClosed ==
  \A list \in Seq(Sentence) :
    Closed(list) => Scanned(Flush(list)) = [done |-> list, begun |-> <<>>]
<1> DEFINE Back(list) == Scanned(Flush(list)) = [done |-> list, begun |-> <<>>]
           T == {list \in Seq(Sentence) : Closed(list) => Back(list)}
<1>1. <<>> \in T
  <2>1. <<>> \in Seq(Sentence)
    OBVIOUS
  <2> QED
    BY <2>1, FlushEmpty, ScannedEmpty DEF Start
<1>2. ASSUME NEW list \in Seq(Sentence), NEW s \in Sentence, list \in T
      PROVE  Append(list, s) \in T
  <2>0. Append(list, s) \in Seq(Sentence)
    OBVIOUS
  <2>1. SUFFICES ASSUME Closed(Append(list, s)) PROVE Back(Append(list, s))
    BY <2>0
  <2>2. Closed(list) /\ s.delim \in Mark
    <3>1. /\ DOMAIN Append(list, s) = 1..(Len(list) + 1) /\ DOMAIN list = 1..Len(list)
          /\ Append(list, s)[Len(list) + 1] = s /\ Len(list) \in Nat
          /\ \A k \in 1..Len(list) : Append(list, s)[k] = list[k]
      OBVIOUS
    <3>2. \A k \in 1..Len(list) : k \in 1..(Len(list) + 1)
      BY <3>1
    <3>3. Len(list) + 1 \in 1..(Len(list) + 1)
      BY <3>1
    <3> QED
      BY <2>1, <3>1, <3>2, <3>3 DEF Closed
  <2>3. Back(list)
    BY <1>2, <2>2
  <2>4. /\ s.words \in Seq(Word) /\ s.words \in Seq(Text) /\ s.delim \in Text
        /\ Flush(list) \in Seq(Text) /\ s = [words |-> s.words, delim |-> s.delim]
    BY <2>2, TextTypes, FlushFacts DEF Sentence, Text
  <2>5. Written(s) = Append(s.words, s.delim)
    BY <2>2, <2>4, OpenIsNoMark, AppendIsConcat DEF Written
  <2>6. Flush(list) \o Append(s.words, s.delim) = Append(Flush(list) \o s.words, s.delim)
    <3>1. \A f, b \in Seq(Text), x \in Text : f \o Append(b, x) = Append(f \o b, x)
      BY ConcatAppend
    <3> QED
      BY <2>4, <3>1, Zenon
  <2>7. Flush(Append(list, s)) = Append(Flush(list) \o s.words, s.delim)
    BY <2>5, <2>6, FlushAppend
  <2>8. Scanned(Flush(list) \o s.words) = [done |-> list, begun |-> s.words]
    <3>1. <<>> \o s.words = s.words
      BY <2>4
    <3>2. Scanned(Flush(list) \o s.words) = [done  |-> Scanned(Flush(list)).done,
                                             begun |-> Scanned(Flush(list)).begun \o s.words]
      BY <2>4, ScannedWords
    <3> QED
      BY <2>3, <3>1, <3>2
  <2>9. Flush(list) \o s.words \in Seq(Text)
    BY <2>4
  <2>10. Scanned(Append(Flush(list) \o s.words, s.delim))
           = Scan(Scanned(Flush(list) \o s.words), s.delim)
    BY <2>4, <2>9, ScannedAppend
  <2>11. Scan([done |-> list, begun |-> s.words], s.delim)
           = [done |-> Append(list, s), begun |-> <<>>]
    BY <2>2, <2>4 DEF Scan
  <2> QED
    BY <2>7, <2>8, <2>10, <2>11, Zenon
<1>3. \A list \in Seq(Sentence) : list \in T
  <2> HIDE DEF T
  <2> QED
    BY <1>1, <1>2, AllSequences
<1> QED
  BY <1>3

(* The first m elements of a sequence. *)
LEMMA PrefixFacts ==
  ASSUME NEW X, NEW u \in Seq(X), NEW m \in 0..Len(u)
  PROVE  /\ SubSeq(u, 1, m) \in Seq(X) /\ Len(SubSeq(u, 1, m)) = m
         /\ \A k \in 1..m : SubSeq(u, 1, m)[k] = u[k] /\ k \in 1..Len(u)
<1>1. Len(u) \in Nat /\ m \in Nat /\ m =< Len(u)
  OBVIOUS
<1> QED
  BY <1>1

(* A list that is not empty is its front and its last sentence. *)
LEMMA FrontAndLast ==
  ASSUME NEW list \in Seq(Sentence), list # <<>>
  PROVE  \E front \in Seq(Sentence) : \E s \in Sentence :
           /\ list = Append(front, s) /\ Len(list) = Len(front) + 1
           /\ s = list[Len(list)]
           /\ \A k \in 1..Len(front) : front[k] = list[k]
<1> DEFINE n == Len(list)
           front == SubSeq(list, 1, n - 1)
<1>1. n \in Nat /\ n > 0 /\ n \in 1..n /\ list[n] \in Sentence
  OBVIOUS
<1>2. /\ front \in Seq(Sentence) /\ Len(front) = n - 1
      /\ \A k \in 1..(n - 1) : front[k] = list[k]
  <2>1. n - 1 \in 0..n
    BY <1>1
  <2> QED
    BY <2>1, PrefixFacts
<1> HIDE DEF front
<1>3. list = Append(front, list[n])
  <2> DEFINE u == Append(front, list[n])
  <2>1. u \in Seq(Sentence) /\ Len(u) = n /\ u[n] = list[n] /\ \A k \in 1..(n - 1) : u[k] = front[k]
    BY <1>1, <1>2
  <2> HIDE DEF u
  <2>2. \A k \in 1..n : k = n \/ k \in 1..(n - 1)
    BY <1>1
  <2>3. \A k \in 1..n : u[k] = list[k]
    BY <1>2, <2>1, <2>2
  <2>4. u = list
    BY <2>1, <2>3, SameSequence
  <2> QED
    BY <2>4 DEF u
<1> QED
  BY <1>1, <1>2, <1>3

(* A list whose last sentence alone may be open is read back as it is, or  *)
(* with an empty sentence after it. *)
THEOREM ReloadFacts ==
  ASSUME NEW list \in Seq(Sentence), OpenLast(list)
  PROVE  Parse(Flush(list)) \in {list, Append(list, Blank)}
<1>1. CASE Closed(list)
  <2>1. Scanned(Flush(list)) = [done |-> list, begun |-> <<>>]
    BY <1>1, ScannedClosed
  <2>2. Parse(Flush(list)) = Append(list, Blank)
    BY <2>1 DEF Parse, Scanned, Start, Blank
  <2> QED
    BY <2>2
<1>2. CASE ~Closed(list)
  <2>1. list # <<>>
    BY <1>2 DEF Closed
  <2>2. PICK front \in Seq(Sentence) : \E s \in Sentence :
          /\ list = Append(front, s) /\ Len(list) = Len(front) + 1
          /\ s = list[Len(list)]
          /\ \A k \in 1..Len(front) : front[k] = list[k]
    BY <2>1, FrontAndLast
  <2>3. PICK s \in Sentence :
          /\ list = Append(front, s) /\ Len(list) = Len(front) + 1
          /\ s = list[Len(list)]
          /\ \A k \in 1..Len(front) : front[k] = list[k]
    BY <2>2
  <2>4. PICK k \in 1..Len(list) : list[k].delim \notin Mark
    BY <1>2 DEF Closed
  <2>5. list[k].delim = Open
    <3>1. list[k] \in Sentence
      OBVIOUS
    <3> QED
      BY <2>4, <3>1 DEF Sentence
  <2>6. s.delim = Open /\ s.words \in Seq(Word) /\ s = [words |-> s.words, delim |-> Open]
    BY <2>3, <2>5 DEF OpenLast, Sentence
  <2>7. Closed(front)
    <3>1. ASSUME NEW j \in 1..Len(front) PROVE front[j].delim \in Mark
      <4>1. j \in 1..Len(list) /\ j # Len(list) /\ Len(front) \in Nat
        BY <2>3
      <4>2. front[j].delim # Open
        BY <2>3, <4>1 DEF OpenLast
      <4>3. front[j] \in Sentence
        OBVIOUS
      <4> QED
        BY <4>2, <4>3 DEF Sentence
    <3> QED
      BY <3>1 DEF Closed
  <2>8. Flush(list) = Flush(front) \o s.words
    <3>1. s.words \o <<>> = s.words
      BY <2>6
    <3>2. Written(s) = s.words
      BY <2>6, <3>1 DEF Written
    <3> QED
      BY <2>3, <3>2, FlushAppend
  <2>9. Scanned(Flush(front)) = [done |-> front, begun |-> <<>>] /\ Flush(front) \in Seq(Text)
    BY <2>7, ScannedClosed, FlushFacts
  <2>10. <<>> \o s.words = s.words
    BY <2>6
  <2>11. Scanned(Flush(front) \o s.words) = [done |-> front, begun |-> s.words]
    <3>1. Scanned(Flush(front) \o s.words) = [done  |-> Scanned(Flush(front)).done,
                                              begun |-> Scanned(Flush(front)).begun \o s.words]
      BY <2>6, <2>9, ScannedWords
    <3> QED
      BY <2>9, <2>10, <3>1
  <2>12. Parse(Flush(list)) = Append(front, [words |-> s.words, delim |-> Open])
    BY <2>8, <2>11 DEF Parse, Scanned, Start
  <2> QED
    BY <2>3, <2>6, <2>12
<1> QED
  BY <1>1, <1>2

-----------------------------------------------------------------------------
(* Files without blank lines. *)

\* No mark begins the file or follows another.
PlainText(file) ==
  \A k \in DOMAIN file : file[k] \in Mark => k > 1 /\ file[k - 1] \notin Mark

\* A sentence without words is the last one, to append to.
BlankLast(list) ==
  \A k \in DOMAIN list : list[k].words = <<>> => k = Len(list) /\ list[k].delim = Open

LEMMA PlainAppend ==
  ASSUME NEW file \in Seq(Text), NEW x \in Text
  PROVE  PlainText(Append(file, x)) <=>
           /\ PlainText(file)
           /\ x \in Mark => file # <<>> /\ file[Len(file)] \notin Mark
<1> DEFINE n == Len(file)
           u == Append(file, x)
<1>1. /\ n \in Nat /\ DOMAIN file = 1..n /\ DOMAIN u = 1..(n + 1) /\ u[n + 1] = x
      /\ \A k \in 1..n : u[k] = file[k]
      /\ file # <<>> <=> n > 0
  OBVIOUS
<1> HIDE DEF n, u
<1>2. ASSUME PlainText(u)
      PROVE  PlainText(file) /\ (x \in Mark => file # <<>> /\ file[n] \notin Mark)
  <2>1. ASSUME NEW k \in 1..n, file[k] \in Mark PROVE k > 1 /\ file[k - 1] \notin Mark
    <3>1. k \in 1..(n + 1)
      BY <1>1
    <3>2. k > 1 /\ u[k - 1] \notin Mark
      BY <1>1, <1>2, <2>1, <3>1 DEF PlainText
    <3>3. k - 1 \in 1..n
      BY <1>1, <3>2
    <3> QED
      BY <1>1, <3>2, <3>3
  <2>2. ASSUME x \in Mark PROVE n > 0 /\ file[n] \notin Mark
    <3>1. n + 1 \in 1..(n + 1) /\ (n + 1) - 1 = n
      BY <1>1
    <3>2. n + 1 > 1 /\ u[n] \notin Mark
      BY <1>1, <1>2, <2>2, <3>1 DEF PlainText
    <3>3. n \in 1..n
      BY <1>1, <3>2
    <3> QED
      BY <1>1, <3>2, <3>3
  <2> QED
    BY <1>1, <2>1, <2>2 DEF PlainText
<1>3. ASSUME PlainText(file), x \in Mark => file # <<>> /\ file[n] \notin Mark
      PROVE  PlainText(u)
  <2>1. ASSUME NEW k \in 1..(n + 1), u[k] \in Mark PROVE k > 1 /\ u[k - 1] \notin Mark
    <3>1. CASE k = n + 1
      <4>1. n > 0 /\ n \in 1..n /\ k - 1 = n
        BY <1>1, <1>3, <2>1, <3>1
      <4> QED
        BY <1>1, <1>3, <2>1, <3>1, <4>1
    <3>2. CASE k # n + 1
      <4>1. k \in 1..n
        BY <1>1, <3>2
      <4>2. k > 1 /\ file[k - 1] \notin Mark
        BY <1>1, <1>3, <2>1, <4>1 DEF PlainText
      <4>3. k - 1 \in 1..n
        BY <1>1, <4>1, <4>2
      <4> QED
        BY <1>1, <4>2, <4>3
    <3> QED
      BY <3>1, <3>2
  <2> QED
    BY <1>1, <2>1 DEF PlainText
<1> QED
  BY <1>2, <1>3 DEF n, u

(* Any beginning of such a file is one. *)
LEMMA PlainPrefix ==
  ASSUME NEW file \in Seq(Text), PlainText(file), NEW m \in 0..Len(file)
  PROVE  PlainText(SubSeq(file, 1, m))
<1> DEFINE u == SubSeq(file, 1, m)
<1>1. /\ DOMAIN u = 1..m /\ m \in Nat /\ DOMAIN file = 1..Len(file)
      /\ \A k \in 1..m : u[k] = file[k] /\ k \in 1..Len(file)
  BY PrefixFacts
<1> HIDE DEF u
<1>2. ASSUME NEW k \in 1..m, u[k] \in Mark PROVE k > 1 /\ u[k - 1] \notin Mark
  <2>1. k > 1 /\ file[k - 1] \notin Mark
    BY <1>1, <1>2 DEF PlainText
  <2>2. k - 1 \in 1..m
    BY <1>1, <2>1
  <2> QED
    BY <1>1, <2>1, <2>2
<1>3. PlainText(u)
  BY <1>1, <1>2 DEF PlainText
<1> QED
  BY <1>3 DEF u

LEMMA PlainWords ==
  ASSUME NEW file \in Seq(Text), PlainText(file)
  PROVE  \A ws \in Seq(Word) : PlainText(file \o ws)
<1> DEFINE T == {ws \in Seq(Word) : PlainText(file \o ws)}
<1>1. <<>> \in T
  <2>1. file \o <<>> = file /\ <<>> \in Seq(Word)
    OBVIOUS
  <2> QED
    BY <2>1
<1>2. ASSUME NEW ws \in Seq(Word), NEW w \in Word, ws \in T PROVE Append(ws, w) \in T
  <2>1. ws \in Seq(Text) /\ w \in Text /\ w \notin Mark /\ file \o ws \in Seq(Text)
    BY WordIsText, TextTypes
  <2>2. file \o Append(ws, w) = Append(file \o ws, w)
    BY <2>1, ConcatAppend
  <2>3. PlainText(Append(file \o ws, w))
    BY <1>2, <2>1, PlainAppend
  <2>4. Append(ws, w) \in Seq(Word)
    OBVIOUS
  <2> QED
    BY <2>2, <2>3, <2>4, Zenon
<1>3. \A ws \in Seq(Word) : ws \in T
  <2> HIDE DEF T
  <2> QED
    BY <1>1, <1>2, AllSequences
<1> QED
  BY <1>3

(* Reading such a file leaves no sentence without words but the last. *)
LEMMA ScannedPlain ==
  \A file \in Seq(Text) :
    PlainText(file) =>
      /\ Worded(Scanned(file).done)
      /\ Scanned(file).begun = <<>> => file = <<>> \/ file[Len(file)] \in Mark
<1> DEFINE Good(a, file) ==
             Worded(a.done) /\ (a.begun = <<>> => file = <<>> \/ file[Len(file)] \in Mark)
           T == {file \in Seq(Text) : PlainText(file) => Good(Scanned(file), file)}
<1>1. <<>> \in T
  <2>1. <<>> \in Seq(Text) /\ Start.done = <<>> /\ Worded(<<>>)
    BY DEF Start, Worded
  <2> QED
    BY <2>1, ScannedEmpty
<1>2. ASSUME NEW file \in Seq(Text), NEW x \in Text, file \in T PROVE Append(file, x) \in T
  <2>0. Append(file, x) \in Seq(Text) /\ Append(file, x)[Len(Append(file, x))] = x
    OBVIOUS
  <2>1. SUFFICES ASSUME PlainText(Append(file, x))
                 PROVE  Good(Scanned(Append(file, x)), Append(file, x))
    BY <2>0
  <2>2. /\ PlainText(file)
        /\ x \in Mark => file # <<>> /\ file[Len(file)] \notin Mark
    BY <2>1, PlainAppend
  <2> DEFINE a == Scanned(file)
  <2>3. a \in Acc /\ a.done \in Seq(Sentence) /\ a.begun \in Seq(Word) /\ Good(a, file)
    BY <1>2, <2>2, ScannedType DEF Acc
  <2>4. Scanned(Append(file, x)) = Scan(a, x)
    BY ScannedAppend
  <2> HIDE DEF a
  <2>5. CASE x \in Mark
    <3> DEFINE s == [words |-> a.begun, delim |-> x]
    <3>1. s \in Sentence /\ s.words # <<>>
      BY <2>2, <2>3, <2>5 DEF Sentence
    <3>2. Scan(a, x).done = Append(a.done, s)
      BY <2>5 DEF Scan
    <3>3. Worded(Append(a.done, s))
      <4> HIDE DEF s
      <4> QED
        BY <2>3, <3>1, ListAppend
    <3> QED
      BY <2>0, <2>4, <2>5, <3>2, <3>3
  <2>6. CASE x \notin Mark
    <3>1. Scan(a, x).done = a.done /\ Scan(a, x).begun = Append(a.begun, x)
      BY <2>3, <2>6 DEF Scan, Acc
    <3>2. Append(a.begun, x) # <<>>
      BY <2>3
    <3> QED
      BY <2>3, <2>4, <3>1, <3>2
  <2> QED
    BY <2>5, <2>6
<1>3. \A file \in Seq(Text) : file \in T
  <2> HIDE DEF T
  <2> QED
    BY <1>1, <1>2, AllSequences
<1> QED
  BY <1>3

LEMMA ParsePlain ==
  ASSUME NEW file \in Seq(Text), PlainText(file)
  PROVE  BlankLast(Parse(file))
<1> DEFINE done == Scanned(file).done
           s == [words |-> Scanned(file).begun, delim |-> Open]
<1>1. done \in Seq(Sentence) /\ s.delim = Open /\ Parse(file) = Append(done, s)
  BY ParseParts
<1>2. Worded(done)
  BY ScannedPlain
<1> HIDE DEF done, s
<1>3. /\ DOMAIN Append(done, s) = 1..(Len(done) + 1) /\ DOMAIN done = 1..Len(done)
      /\ Len(Append(done, s)) = Len(done) + 1 /\ Len(done) \in Nat
      /\ Append(done, s)[Len(done) + 1] = s
      /\ \A k \in 1..Len(done) : Append(done, s)[k] = done[k]
  BY <1>1
<1>4. \A k \in 1..(Len(done) + 1) : k = Len(done) + 1 \/ k \in 1..Len(done)
  BY <1>3
<1> QED
  BY <1>1, <1>2, <1>3, <1>4 DEF BlankLast, Worded

(* Sentences with words are written without a blank line. *)
LEMMA WordedPlain ==
  \A list \in Seq(Sentence) : Worded(list) => PlainText(Flush(list))
<1> DEFINE T == {list \in Seq(Sentence) : Worded(list) => PlainText(Flush(list))}
<1>1. <<>> \in T
  <2>1. <<>> \in Seq(Sentence) /\ PlainText(<<>>)
    BY DEF PlainText
  <2> QED
    BY <2>1, FlushEmpty
<1>2. ASSUME NEW list \in Seq(Sentence), NEW s \in Sentence, list \in T
      PROVE  Append(list, s) \in T
  <2>0. Append(list, s) \in Seq(Sentence)
    OBVIOUS
  <2>1. SUFFICES ASSUME Worded(Append(list, s)) PROVE PlainText(Flush(Append(list, s)))
    BY <2>0
  <2>2. Worded(list) /\ s.words # <<>>
    <3>1. /\ DOMAIN Append(list, s) = 1..(Len(list) + 1) /\ DOMAIN list = 1..Len(list)
          /\ Append(list, s)[Len(list) + 1] = s /\ Len(list) \in Nat
          /\ \A k \in 1..Len(list) : Append(list, s)[k] = list[k]
      OBVIOUS
    <3>2. \A k \in 1..Len(list) : k \in 1..(Len(list) + 1)
      BY <3>1
    <3>3. Len(list) + 1 \in 1..(Len(list) + 1)
      BY <3>1
    <3> QED
      BY <2>1, <3>1, <3>2, <3>3 DEF Worded
  <2>3. /\ s.words \in Seq(Word) /\ s.words \in Seq(Text) /\ s.delim \in Mark \cup {Open}
        /\ Flush(list) \in Seq(Text) /\ Flush(list) \o s.words \in Seq(Text)
    <3>1. s.words \in Seq(Word) /\ s.delim \in Mark \cup {Open}
      BY DEF Sentence
    <3>2. s.words \in Seq(Text) /\ Flush(list) \in Seq(Text)
      BY <3>1, TextTypes, FlushFacts
    <3> QED
      BY <3>1, <3>2
  <2>4. PlainText(Flush(list) \o s.words)
    BY <1>2, <2>2, <2>3, PlainWords
  <2>5. CASE s.delim = Open
    <3>1. s.words \o <<>> = s.words
      BY <2>3
    <3>2. Flush(Append(list, s)) = Flush(list) \o s.words
      BY <2>5, <3>1, FlushAppend DEF Written
    <3> QED
      BY <2>4, <3>2
  <2>6. CASE s.delim # Open
    <3>1. s.delim \in Mark /\ s.delim \in Text
      BY <2>3, <2>6 DEF Text
    <3>2. Written(s) = Append(s.words, s.delim)
      BY <2>3, <2>6, AppendIsConcat DEF Written
    <3>3. Flush(list) \o Append(s.words, s.delim) = Append(Flush(list) \o s.words, s.delim)
      <4>1. \A f, b \in Seq(Text), x \in Text : f \o Append(b, x) = Append(f \o b, x)
        BY ConcatAppend
      <4> QED
        BY <2>3, <3>1, <4>1, Zenon
    <3>4. Flush(Append(list, s)) = Append(Flush(list) \o s.words, s.delim)
      BY <3>2, <3>3, FlushAppend
    <3> DEFINE u == Flush(list) \o s.words
    <3>5. u # <<>> /\ u[Len(u)] \notin Mark
      <4>1. Len(s.words) \in Nat /\ Len(s.words) > 0 /\ Len(s.words) \in 1..Len(s.words)
        BY <2>2, <2>3
      <4>2. Len(u) = Len(Flush(list)) + Len(s.words) /\ Len(Flush(list)) \in Nat
        BY <2>3
      <4>3. u[Len(u)] = s.words[Len(s.words)]
        BY <2>3, <4>1, <4>2
      <4>4. s.words[Len(s.words)] \in Word
        BY <2>3, <4>1
      <4>5. u # <<>>
        BY <2>3, <4>1, <4>2
      <4> HIDE DEF u
      <4> QED
        BY <4>3, <4>4, <4>5, WordIsText
    <3> HIDE DEF u
    <3>6. u \in Seq(Text) /\ PlainText(u)
      BY <2>3, <2>4 DEF u
    <3>7. PlainText(Append(u, s.delim))
      BY <3>1, <3>5, <3>6, PlainAppend
    <3> QED
      BY <3>4, <3>7 DEF u
  <2> QED
    BY <2>5, <2>6
<1>3. \A list \in Seq(Sentence) : list \in T
  <2> HIDE DEF T
  <2> QED
    BY <1>1, <1>2, AllSequences
<1> QED
  BY <1>3

LEMMA FlushPlain ==
  ASSUME NEW list \in Seq(Sentence), BlankLast(list)
  PROVE  PlainText(Flush(list))
<1>1. CASE Worded(list)
  BY <1>1, WordedPlain
<1>2. CASE ~Worded(list)
  <2>1. list # <<>>
    BY <1>2 DEF Worded
  <2>2. PICK front \in Seq(Sentence) : \E s \in Sentence :
          /\ list = Append(front, s) /\ Len(list) = Len(front) + 1
          /\ s = list[Len(list)]
          /\ \A k \in 1..Len(front) : front[k] = list[k]
    BY <2>1, FrontAndLast
  <2>3. PICK s \in Sentence :
          /\ list = Append(front, s) /\ Len(list) = Len(front) + 1
          /\ s = list[Len(list)]
          /\ \A k \in 1..Len(front) : front[k] = list[k]
    BY <2>2
  <2>4. s.words = <<>> /\ s.delim = Open
    BY <1>2, <2>3 DEF BlankLast, Worded
  <2>5. Worded(front)
    <3>1. \A j \in 1..Len(front) : j \in 1..Len(list) /\ j # Len(list)
      BY <2>3
    <3>2. \A j \in 1..Len(front) : front[j].words # <<>>
      BY <2>3, <3>1 DEF BlankLast
    <3> QED
      BY <3>2 DEF Worded
  <2>6. Flush(list) = Flush(front)
    <3>1. Written(s) = <<>>
      BY <2>4 DEF Written
    <3>2. Flush(front) \o <<>> = Flush(front)
      BY FlushFacts
    <3> QED
      BY <2>3, <3>1, <3>2, FlushAppend
  <2> QED
    BY <2>5, <2>6, WordedPlain
<1> QED
  BY <1>1, <1>2

-----------------------------------------------------------------------------
(* Splitting a sentence at the marks of its tokens. *)
SplitStep == [a \in Acc |-> [t \in Token |-> Split(a, t)]]

\* The sentences that the marks of t make of the words begun.
Cut(begun, t) ==
  [k \in DOMAIN t.marks |-> [words |-> IF k = 1 THEN begun ELSE <<>>, delim |-> t.marks[k]]]

\* The words begun, with that of t.
Begun(a, t) == IF t.word = NoWord THEN a.begun ELSE Append(a.begun, t.word)

LEMMA SplitCases ==
  ASSUME NEW a \in Acc, NEW t \in Token
  PROVE  /\ Begun(a, t) \in Seq(Word)
         /\ t.marks = <<>> => Split(a, t) = [done |-> a.done, begun |-> Begun(a, t)]
         /\ t.marks # <<>> =>
              /\ Cut(Begun(a, t), t) \in Seq(Sentence)
              /\ Split(a, t) = [done |-> a.done \o Cut(Begun(a, t), t), begun |-> <<>>]
<1>1. a.done \in Seq(Sentence) /\ a.begun \in Seq(Word) /\ a = [done |-> a.done, begun |-> a.begun]
  BY DEF Acc
<1>2. t.word \in Word \cup {NoWord} /\ t.marks \in Seq(Mark)
  BY DEF Token
<1>3. Begun(a, t) \in Seq(Word)
  <2>1. CASE t.word = NoWord
    BY <1>1, <2>1 DEF Begun
  <2>2. CASE t.word # NoWord
    BY <1>1, <1>2, <2>2 DEF Begun
  <2> QED
    BY <2>1, <2>2
<1>4. t.marks = <<>> => Split(a, t) = [done |-> a.done, begun |-> Begun(a, t)]
  BY <1>1 DEF Split, Begun
<1>5. Cut(Begun(a, t), t) \in Seq(Sentence)
  <2> DEFINE b == Begun(a, t)
  <2> HIDE DEF b
  <2>1. b \in Seq(Word) /\ <<>> \in Seq(Word)
    BY <1>3 DEF b
  <2>2. DOMAIN t.marks = 1..Len(t.marks) /\ Len(t.marks) \in Nat
        /\ \A k \in 1..Len(t.marks) : t.marks[k] \in Mark
    BY <1>2
  <2>3. ASSUME NEW k \in 1..Len(t.marks)
        PROVE  [words |-> IF k = 1 THEN b ELSE <<>>, delim |-> t.marks[k]] \in Sentence
    <3>1. (IF k = 1 THEN b ELSE <<>>) \in Seq(Word) /\ t.marks[k] \in Mark \cup {Open}
      BY <2>1, <2>2
    <3> QED
      BY <3>1 DEF Sentence
  <2>4. Cut(b, t) \in Seq(Sentence)
    BY <2>2, <2>3 DEF Cut
  <2> QED
    BY <2>4 DEF b
<1>6. t.marks # <<>> =>
        Split(a, t) = [done |-> a.done \o Cut(Begun(a, t), t), begun |-> <<>>]
  BY DEF Split, Begun, Cut
<1> QED
  BY <1>3, <1>4, <1>5, <1>6

LEMMA SplitType ==
  ASSUME NEW a \in Acc, NEW t \in Token
  PROVE  Split(a, t) \in Acc
<1>1. a.done \in Seq(Sentence)
  BY DEF Acc
<1>2. CASE t.marks = <<>>
  BY <1>1, <1>2, SplitCases DEF Acc
<1>3. CASE t.marks # <<>>
  <2>1. Cut(Begun(a, t), t) \in Seq(Sentence)
    BY <1>3, SplitCases
  <2> DEFINE list == a.done \o Cut(Begun(a, t), t)
  <2>2. list \in Seq(Sentence) /\ <<>> \in Seq(Word)
    BY <1>1, <2>1
  <2>3. Split(a, t) = [done |-> list, begun |-> <<>>]
    BY <1>3, SplitCases
  <2> HIDE DEF list
  <2> QED
    BY <2>2, <2>3 DEF Acc
<1> QED
  BY <1>2, <1>3

LEMMA SplitStepType == SplitStep \in [Acc -> [Token -> Acc]]
  BY SplitType DEF SplitStep

LEMMA SplitResult ==
  ASSUME NEW base \in Acc, NEW tokens \in Seq(Token)
  PROVE  Result(SplitStep, Acc, base, tokens, FoldLeft(Split, base, tokens))
<1> DEFINE Iter(it) == it = [S \in SUBSET (DOMAIN tokens) |->
                               IF S = {} THEN base
                               ELSE Split(it[S \ {Max(S)}], tokens[Max(S)])]
           it == CHOOSE it : Iter(it)
<1>0. Len(tokens) \in Nat /\ DOMAIN tokens = 1..Len(tokens) /\ \A i \in 1..Len(tokens) : tokens[i] \in Token
  OBVIOUS
<1>1. \E f : Iter(f)
  <2>0. PICK f : Iterates(SplitStep, Acc, base, tokens, f)
    BY SplitStepType, IterExists, Zenon
  <2>1. /\ f \in [SUBSET (DOMAIN tokens) -> Acc]
        /\ \A S \in SUBSET (DOMAIN tokens) :
             f[S] = IF S = {} THEN base ELSE SplitStep[f[S \ {Max(S)}]][tokens[Max(S)]]
    BY <2>0, Zenon DEF Iterates
  <2>2. ASSUME NEW S \in SUBSET (DOMAIN tokens)
        PROVE  f[S] = IF S = {} THEN base ELSE Split(f[S \ {Max(S)}], tokens[Max(S)])
    <3>1. CASE S # {}
      <4>1. S \in SUBSET (1..Len(tokens))
        BY <1>0
      <4>2. Max(S) \in S
        BY <1>0, <3>1, <4>1, MaxOf
      <4>3. Max(S) \in DOMAIN tokens /\ tokens[Max(S)] \in Token
        BY <1>0, <4>2
      <4>4. S \ {Max(S)} \in SUBSET (DOMAIN tokens)
        OBVIOUS
      <4>5. f[S \ {Max(S)}] \in Acc
        BY <2>1, <4>4
      <4>6. SplitStep[f[S \ {Max(S)}]][tokens[Max(S)]] = Split(f[S \ {Max(S)}], tokens[Max(S)])
        BY <4>3, <4>5, Zenon DEF SplitStep
      <4> QED
        BY <2>1, <3>1, <4>6
    <3>2. CASE S = {}
      BY <2>1, <3>2
    <3> QED
      BY <3>1, <3>2
  <2>3. Iter(f)
    BY <2>1, <2>2
  <2> QED
    BY <2>3
<1>2. Iter(it)
  <2> HIDE DEF Iter
  <2> QED
    BY <1>1
<1>3. FoldLeft(Split, base, tokens) = it[DOMAIN tokens]
  BY DEF FoldLeft, MapThenFoldSet
<1> HIDE DEF it
<1>4. \A S \in SUBSET (1..Len(tokens)) :
        it[S] = IF S = {} THEN base ELSE Split(it[S \ {Max(S)}], tokens[Max(S)])
  BY <1>0, <1>2
<1> HIDE DEF Iter
<1>5. it[{}] = base
  BY <1>4
<1>6. ASSUME NEW S \in SUBSET (DOMAIN tokens), S # {}, it[S \ {Max(S)}] \in Acc
      PROVE  it[S] = SplitStep[it[S \ {Max(S)}]][tokens[Max(S)]]
  <2>1. S \in SUBSET (1..Len(tokens))
    BY <1>0
  <2>2. Max(S) \in S
    BY <1>0, <1>6, <2>1, MaxOf
  <2>3. tokens[Max(S)] \in Token
    BY <1>0, <2>2
  <2>4. it[S] = Split(it[S \ {Max(S)}], tokens[Max(S)])
    BY <1>4, <1>6, <2>1
  <2> QED
    BY <1>6, <2>3, <2>4, Zenon DEF SplitStep
<1>7. Result(SplitStep, Acc, base, tokens, it[DOMAIN tokens])
  BY <1>5, <1>6, IterResult, SplitStepType
<1> QED
  BY <1>3, <1>7

\* What splitting has after all tokens.
Splitted(tokens) == FoldLeft(Split, Start, tokens)

LEMMA SplittedType ==
  ASSUME NEW tokens \in Seq(Token)
  PROVE  Splitted(tokens) \in Acc
<1>1. Result(SplitStep, Acc, Start, tokens, Splitted(tokens))
  BY StartType, SplitResult DEF Splitted
<1>2. \E r \in Acc : Result(SplitStep, Acc, Start, tokens, r)
  BY StartType, SplitStepType, ResultExists
<1> QED
  BY <1>1, <1>2, ResultUnique

(* Splitting goes from left to right. *)
LEMMA SplittedEmpty == Splitted(<<>>) = Start
<1>3. <<>> \in Seq(Token)
  OBVIOUS
<1>1. Result(SplitStep, Acc, Start, <<>>, Splitted(<<>>))
  BY <1>3, StartType, SplitResult DEF Splitted
<1>2. Result(SplitStep, Acc, Start, <<>>, Start)
  BY StartType, ResultEmpty
<1> QED
  BY <1>1, <1>2, <1>3, ResultUnique

LEMMA SplittedAppend ==
  ASSUME NEW tokens \in Seq(Token), NEW t \in Token
  PROVE  Splitted(Append(tokens, t)) = Split(Splitted(tokens), t)
<1> DEFINE r == Splitted(tokens)
<1>0. r \in Acc /\ SplitStep[r][t] = Split(r, t) /\ Split(r, t) \in Acc
  BY SplittedType, SplitType DEF SplitStep
<1>1. Result(SplitStep, Acc, Start, tokens, r)
  BY StartType, SplitResult DEF Splitted
<1> HIDE DEF r
<1>2. Result(SplitStep, Acc, Start, Append(tokens, t), SplitStep[r][t])
  BY <1>0, <1>1, StartType, ResultAppend
<1>3. Append(tokens, t) \in Seq(Token)
  OBVIOUS
<1>4. Result(SplitStep, Acc, Start, Append(tokens, t), Splitted(Append(tokens, t)))
  BY <1>3, StartType, SplitResult DEF Splitted
<1>5. Splitted(Append(tokens, t)) = SplitStep[r][t]
  BY <1>2, <1>3, <1>4, ResultUnique
<1> QED
  BY <1>0, <1>5 DEF r

LEMMA ListConcat ==
  ASSUME NEW a \in Seq(Sentence), NEW b \in Seq(Sentence)
  PROVE  Closed(a) /\ Closed(b) => Closed(a \o b)
<1>1. /\ a \o b \in Seq(Sentence) /\ Len(a \o b) = Len(a) + Len(b)
      /\ \A k \in 1..Len(a) : (a \o b)[k] = a[k]
      /\ \A k \in 1..(Len(a) + Len(b)) :
           k > Len(a) => (k - Len(a) \in 1..Len(b) /\ (a \o b)[k] = b[k - Len(a)])
  BY ConcatAt
<1>2. /\ Len(a) \in Nat /\ Len(b) \in Nat /\ DOMAIN a = 1..Len(a) /\ DOMAIN b = 1..Len(b)
      /\ DOMAIN (a \o b) = 1..(Len(a) + Len(b))
  BY <1>1
<1>3. \A k \in 1..(Len(a) + Len(b)) : k \in 1..Len(a) \/ k > Len(a)
  BY <1>2
<1> DEFINE c == a \o b
<1> HIDE DEF c
<1>4. ASSUME Closed(a), Closed(b), NEW k \in 1..(Len(a) + Len(b)) PROVE c[k].delim \in Mark
  <2>1. CASE k \in 1..Len(a)
    <3>1. c[k] = a[k]
      BY <1>1, <2>1 DEF c
    <3> QED
      BY <1>2, <1>4, <2>1, <3>1 DEF Closed
  <2>2. CASE k > Len(a)
    <3>1. c[k] = b[k - Len(a)] /\ k - Len(a) \in 1..Len(b)
      BY <1>1, <2>2 DEF c
    <3> QED
      BY <1>2, <1>4, <3>1 DEF Closed
  <2> QED
    BY <1>3, <2>1, <2>2
<1>5. DOMAIN c = 1..(Len(a) + Len(b))
  BY <1>2 DEF c
<1>6. Closed(a) /\ Closed(b) => Closed(c)
  BY <1>4, <1>5 DEF Closed
<1> QED
  BY <1>6 DEF c

(* Every sentence that a mark ends has that mark. *)
LEMMA SplittedClosed == \A tokens \in Seq(Token) : Closed(Splitted(tokens).done)
<1> DEFINE T == {tokens \in Seq(Token) : Closed(Splitted(tokens).done)}
<1>1. <<>> \in T
  <2>1. Closed(<<>>) /\ <<>> \in Seq(Token) /\ Start.done = <<>>
    BY DEF Closed, Start
  <2> QED
    BY <2>1, SplittedEmpty
<1>2. ASSUME NEW tokens \in Seq(Token), NEW t \in Token, tokens \in T
      PROVE  Append(tokens, t) \in T
  <2> DEFINE a == Splitted(tokens)
  <2>1. a \in Acc /\ a.done \in Seq(Sentence) /\ Closed(a.done)
    BY <1>2, SplittedType DEF Acc
  <2>2. Splitted(Append(tokens, t)) = Split(a, t)
    BY SplittedAppend
  <2> HIDE DEF a
  <2>3. CASE t.marks = <<>>
    <3>1. Split(a, t).done = a.done
      BY <2>1, <2>3, SplitCases
    <3> QED
      BY <2>1, <2>2, <3>1
  <2>4. CASE t.marks # <<>>
    <3> DEFINE c == Cut(Begun(a, t), t)
    <3>1. c \in Seq(Sentence) /\ Split(a, t).done = a.done \o c
      BY <2>1, <2>4, SplitCases
    <3>2. Closed(c)
      <4>1. DOMAIN c = DOMAIN t.marks /\ \A k \in DOMAIN c : c[k].delim = t.marks[k]
        BY DEF Cut
      <4>2. t.marks \in Seq(Mark)
        BY DEF Token
      <4>3. \A k \in DOMAIN t.marks : t.marks[k] \in Mark
        BY <4>2
      <4> HIDE DEF c
      <4> QED
        BY <4>1, <4>3 DEF Closed
    <3> HIDE DEF c
    <3>3. Closed(a.done \o c)
      BY <2>1, <3>1, <3>2, ListConcat
    <3>4. Append(tokens, t) \in Seq(Token)
      OBVIOUS
    <3> QED
      BY <2>2, <3>1, <3>3, <3>4
  <2> QED
    BY <2>3, <2>4
<1>3. \A tokens \in Seq(Token) : tokens \in T
  <2> HIDE DEF T
  <2> QED
    BY <1>1, <1>2, AllSequences
<1> QED
  BY <1>3

\* The sentences end in marks, the last one perhaps in d.
EndsIn(list, d) ==
  \A k \in DOMAIN list : list[k].delim \in Mark \/ (k = Len(list) /\ list[k].delim = d)

LEMMA RebuildParts ==
  ASSUME NEW tokens \in Seq(Token), NEW d \in Mark \cup {Open}
  PROVE  LET e == Splitted(tokens)
         IN /\ e.done \in Seq(Sentence) /\ e.begun \in Seq(Word)
            /\ [words |-> e.begun, delim |-> d] \in Sentence
            /\ e.begun = <<>> => Rebuild(tokens, d) = e.done
            /\ e.begun # <<>> =>
                 Rebuild(tokens, d) = Append(e.done, [words |-> e.begun, delim |-> d])
<1>1. Splitted(tokens).done \in Seq(Sentence) /\ Splitted(tokens).begun \in Seq(Word)
  BY SplittedType DEF Acc
<1>2. [words |-> Splitted(tokens).begun, delim |-> d] \in Sentence
  BY <1>1 DEF Sentence
<1> QED
  BY <1>1, <1>2 DEF Rebuild, Splitted, Start

(* What the edits make of a sentence is a list of sentences, of which the  *)
(* last alone may lack a mark, if the sentence itself did. *)
LEMMA RebuildFacts ==
  ASSUME NEW tokens \in Seq(Token), NEW d \in Mark \cup {Open}
  PROVE  Rebuild(tokens, d) \in Seq(Sentence) /\ EndsIn(Rebuild(tokens, d), d)
<1> DEFINE done == Splitted(tokens).done
           begun == Splitted(tokens).begun
           s == [words |-> begun, delim |-> d]
           list == Rebuild(tokens, d)
<1>1. done \in Seq(Sentence) /\ s \in Sentence /\ s.delim = d /\ Closed(done)
  BY RebuildParts, SplittedClosed
<1>2. list = done \/ list = Append(done, s)
  BY RebuildParts
<1> HIDE DEF done, s, list
<1>3. CASE list = done
  BY <1>1, <1>3 DEF list, EndsIn, Closed
<1>4. CASE list = Append(done, s)
  <2>1. /\ list \in Seq(Sentence) /\ DOMAIN list = 1..(Len(done) + 1) /\ DOMAIN done = 1..Len(done)
        /\ Len(list) = Len(done) + 1 /\ Len(done) \in Nat
        /\ list[Len(done) + 1] = s
        /\ \A k \in 1..Len(done) : list[k] = done[k]
    BY <1>1, <1>4
  <2>2. \A k \in 1..(Len(done) + 1) : k = Len(done) + 1 \/ k \in 1..Len(done)
    BY <2>1
  <2>3. EndsIn(list, d)
    BY <1>1, <2>1, <2>2 DEF EndsIn, Closed
  <2> QED
    BY <2>1, <2>3 DEF list
<1> QED
  BY <1>2, <1>3, <1>4

-----------------------------------------------------------------------------
(* The words of texts and tokens. *)
WordsOf(file)      == {w \in Word : \E k \in DOMAIN file : file[k] = w}
TokenWords(tokens) == {w \in Word : \E k \in DOMAIN tokens : tokens[k].word = w}

\* A token that is a word, perhaps with the mark that ends its sentence.
PlainToken(t) == t.word # NoWord /\ Len(t.marks) =< 1

AllPlain(tokens) == \A k \in DOMAIN tokens : PlainToken(tokens[k])

LEMMA WordsOfEmpty == WordsOf(<<>>) = {} /\ TokenWords(<<>>) = {}
  BY DEF WordsOf, TokenWords

LEMMA WordsOfConcat ==
  ASSUME NEW a \in Seq(Text), NEW b \in Seq(Text)
  PROVE  WordsOf(a \o b) = WordsOf(a) \cup WordsOf(b)
<1> DEFINE c == a \o b
<1>1. /\ Len(c) = Len(a) + Len(b) /\ c \in Seq(Text)
      /\ \A k \in 1..Len(a) : c[k] = a[k]
      /\ \A k \in 1..(Len(a) + Len(b)) :
           k > Len(a) => (k - Len(a) \in 1..Len(b) /\ c[k] = b[k - Len(a)])
  BY ConcatAt
<1>2. /\ Len(a) \in Nat /\ Len(b) \in Nat /\ DOMAIN a = 1..Len(a) /\ DOMAIN b = 1..Len(b)
  OBVIOUS
<1> HIDE DEF c
<1>3. DOMAIN c = 1..(Len(a) + Len(b))
  BY <1>1
<1>4. ASSUME NEW k \in 1..(Len(a) + Len(b))
      PROVE  c[k] \in {a[j] : j \in 1..Len(a)} \cup {b[j] : j \in 1..Len(b)}
  <2>1. CASE k =< Len(a)
    <3>1. k \in 1..Len(a)
      BY <1>2, <2>1
    <3> QED
      BY <1>1, <3>1
  <2>2. CASE k > Len(a)
    BY <1>1, <2>2
  <2> QED
    BY <1>2, <2>1, <2>2
<1>5. ASSUME NEW j \in 1..Len(a) PROVE \E k \in 1..(Len(a) + Len(b)) : c[k] = a[j]
  <2>1. j \in 1..(Len(a) + Len(b))
    BY <1>2
  <2> QED
    BY <1>1, <2>1
<1>6. ASSUME NEW j \in 1..Len(b) PROVE \E k \in 1..(Len(a) + Len(b)) : c[k] = b[j]
  <2>1. /\ j + Len(a) \in 1..(Len(a) + Len(b)) /\ j + Len(a) > Len(a)
        /\ (j + Len(a)) - Len(a) = j
    BY <1>2
  <2> QED
    BY <1>1, <2>1
<1>7. WordsOf(c) \subseteq WordsOf(a) \cup WordsOf(b)
  <2> SUFFICES ASSUME NEW k \in 1..(Len(a) + Len(b)), c[k] \in Word
               PROVE  c[k] \in WordsOf(a) \cup WordsOf(b)
    BY <1>3 DEF WordsOf
  <2>1. CASE \E j \in 1..Len(a) : c[k] = a[j]
    BY <1>2, <2>1 DEF WordsOf
  <2>2. CASE \E j \in 1..Len(b) : c[k] = b[j]
    BY <1>2, <2>2 DEF WordsOf
  <2> QED
    BY <1>4, <2>1, <2>2
<1>8. WordsOf(a) \subseteq WordsOf(c)
  BY <1>2, <1>3, <1>5 DEF WordsOf
<1>9. WordsOf(b) \subseteq WordsOf(c)
  BY <1>2, <1>3, <1>6 DEF WordsOf
<1>10. WordsOf(c) = WordsOf(a) \cup WordsOf(b)
  BY <1>7, <1>8, <1>9
<1> QED
  BY <1>10 DEF c

LEMMA WordsOfAppend ==
  ASSUME NEW a \in Seq(Text), NEW x \in Text
  PROVE  WordsOf(Append(a, x)) = WordsOf(a) \cup ({x} \cap Word)
<1>1. Append(a, x) = a \o <<x>> /\ <<x>> \in Seq(Text)
  BY AppendIsConcat
<1>2. WordsOf(<<x>>) = {x} \cap Word
  BY DEF WordsOf
<1> QED
  BY <1>1, <1>2, WordsOfConcat

LEMMA TokensAppend ==
  ASSUME NEW tokens \in Seq(Token), NEW t \in Token
  PROVE  /\ AllPlain(Append(tokens, t)) => AllPlain(tokens) /\ PlainToken(t)
         /\ TokenWords(Append(tokens, t)) = TokenWords(tokens) \cup ({t.word} \cap Word)
<1> DEFINE u == Append(tokens, t)
<1>1. /\ DOMAIN u = 1..(Len(tokens) + 1) /\ DOMAIN tokens = 1..Len(tokens) /\ Len(tokens) \in Nat
      /\ u[Len(tokens) + 1] = t
      /\ \A k \in 1..Len(tokens) : u[k] = tokens[k]
  OBVIOUS
<1> HIDE DEF u
<1>2. /\ \A k \in 1..(Len(tokens) + 1) : k = Len(tokens) + 1 \/ k \in 1..Len(tokens)
      /\ \A k \in 1..Len(tokens) : k \in 1..(Len(tokens) + 1)
      /\ Len(tokens) + 1 \in 1..(Len(tokens) + 1)
  BY <1>1
<1>3. AllPlain(u) => AllPlain(tokens) /\ PlainToken(t)
  BY <1>1, <1>2 DEF AllPlain
<1>4. TokenWords(u) = TokenWords(tokens) \cup ({t.word} \cap Word)
  BY <1>1, <1>2 DEF TokenWords
<1> QED
  BY <1>3, <1>4 DEF u

(* Splitting plain tokens keeps every word once, and leaves no sentence    *)
(* without words. *)
LEMMA SplittedPlain ==
  \A tokens \in Seq(Token) :
    AllPlain(tokens) =>
      LET e == Splitted(tokens)
      IN /\ Worded(e.done)
         /\ Len(Words(e.done)) + Len(e.begun) = Len(tokens)
         /\ WordsOf(Flush(e.done)) \cup WordsOf(e.begun) = TokenWords(tokens)
<1> DEFINE Good(e, tokens) ==
             /\ Worded(e.done)
             /\ Len(Words(e.done)) + Len(e.begun) = Len(tokens)
             /\ WordsOf(Flush(e.done)) \cup WordsOf(e.begun) = TokenWords(tokens)
           T == {tokens \in Seq(Token) : AllPlain(tokens) => Good(Splitted(tokens), tokens)}
<1>1. <<>> \in T
  <2>1. <<>> \in Seq(Token) /\ Worded(<<>>) /\ Len(<<>>) = 0 /\ Start.done = <<>> /\ Start.begun = <<>>
    BY DEF Worded, Start
  <2>2. Good(Start, <<>>)
    BY <2>1, FlushEmpty, WordsOfEmpty
  <2> HIDE DEF Good
  <2> QED
    BY <2>1, <2>2, SplittedEmpty
<1>2. ASSUME NEW tokens \in Seq(Token), NEW t \in Token, tokens \in T
      PROVE  Append(tokens, t) \in T
  <2>0. Append(tokens, t) \in Seq(Token) /\ Len(Append(tokens, t)) = Len(tokens) + 1
        /\ Len(tokens) \in Nat
    OBVIOUS
  <2>1. SUFFICES ASSUME AllPlain(Append(tokens, t))
                 PROVE  Good(Splitted(Append(tokens, t)), Append(tokens, t))
    BY <2>0
  <2> DEFINE a == Splitted(tokens)
             b == Append(a.begun, t.word)
  <2>2. Good(a, tokens) /\ PlainToken(t) /\ a \in Acc
    BY <1>2, <2>1, SplittedType, TokensAppend
  <2>3. Splitted(Append(tokens, t)) = Split(a, t)
    BY SplittedAppend
  <2> HIDE DEF a
  <2>4. /\ t.word \in Word /\ t.word # NoWord /\ t.marks \in Seq(Mark) /\ Len(t.marks) =< 1
        /\ a.done \in Seq(Sentence) /\ a.begun \in Seq(Word) /\ Begun(a, t) = b
    BY <2>2 DEF PlainToken, Token, Acc, Begun
  <2>5. /\ b \in Seq(Word) /\ b # <<>> /\ Len(b) = Len(a.begun) + 1 /\ Len(a.begun) \in Nat
    BY <2>4
  <2>6. WordsOf(b) = WordsOf(a.begun) \cup {t.word}
    <3>1. a.begun \in Seq(Text) /\ t.word \in Text
      BY <2>4, TextTypes, WordIsText
    <3> QED
      BY <2>4, <3>1, WordsOfAppend
  <2>7. TokenWords(Append(tokens, t)) = TokenWords(tokens) \cup {t.word}
    BY <2>4, TokensAppend
  <2>w. Words(a.done) \in Seq(Word) /\ Flush(a.done) \in Seq(Text) /\ Len(Words(a.done)) \in Nat
    BY <2>4, FlushFacts
  <2>g. /\ Worded(a.done)
        /\ Len(Words(a.done)) + Len(a.begun) = Len(tokens)
        /\ WordsOf(Flush(a.done)) \cup WordsOf(a.begun) = TokenWords(tokens)
    BY <2>2
  <2>n. Len(Words(a.done)) + Len(b) = Len(tokens) + 1 /\ Len(b) \in Nat
    <3>2. Len(b) = Len(a.begun) + 1
      BY <2>5
    <3>3. Len(b) \in Nat
      BY <2>5
    <3>4. Len(Words(a.done)) + Len(a.begun) = Len(tokens)
      BY <2>g
    <3>5. Len(Words(a.done)) \in Nat /\ Len(a.begun) \in Nat /\ Len(tokens) \in Nat
      BY <2>0, <2>5, <2>w
    <3> DEFINE i == Len(Words(a.done))
               j == Len(a.begun)
               k == Len(b)
               n == Len(tokens)
    <3>6. i \in Nat /\ j \in Nat /\ n \in Nat /\ i + j = n /\ k = j + 1
      BY <3>2, <3>4, <3>5
    <3> HIDE DEF i, j, k, n
    <3>7. i + k = n + 1
      BY <3>6
    <3> QED
      BY <3>3, <3>7 DEF i, k, n
  <2> HIDE DEF b
  <2>8. CASE t.marks = <<>>
    <3>1. Split(a, t) = [done |-> a.done, begun |-> b]
      BY <2>2, <2>4, <2>8, SplitCases
    <3>2. Good([done |-> a.done, begun |-> b], Append(tokens, t))
      <4>1. Len(Words(a.done)) + Len(b) = Len(tokens) + 1
        BY <2>n
      <4>2. WordsOf(Flush(a.done)) \cup WordsOf(b) = TokenWords(Append(tokens, t))
        BY <2>6, <2>7, <2>g
      <4> QED
        BY <2>0, <2>g, <4>1, <4>2
    <3> HIDE DEF Good
    <3> QED
      BY <2>3, <3>1, <3>2
  <2>9. CASE t.marks # <<>>
    <3> DEFINE m == t.marks[1]
               s == [words |-> b, delim |-> m]
    <3>1. Len(t.marks) = 1 /\ DOMAIN t.marks = {1} /\ m \in Mark /\ m \in Text
      <4>1. Len(t.marks) \in Nat /\ Len(t.marks) # 0 /\ DOMAIN t.marks = 1..Len(t.marks)
        BY <2>4, <2>9
      <4>a. \A n \in Nat : n # 0 /\ n =< 1 => n = 1 /\ 1..n = {1}
        OBVIOUS
      <4>2. Len(t.marks) = 1 /\ DOMAIN t.marks = {1}
        BY <2>4, <4>1, <4>a, Zenon
      <4>3. m \in Mark
        BY <2>4, <4>2
      <4> QED
        BY <4>2, <4>3 DEF Text
    <3>2. Cut(b, t) = <<s>>
      BY <3>1 DEF Cut
    <3>3. s \in Sentence /\ s.words = b /\ s.delim = m
      BY <2>5, <3>1 DEF Sentence
    <3>4. Split(a, t) = [done |-> a.done \o <<s>>, begun |-> <<>>]
      BY <2>2, <2>4, <2>9, <3>2, SplitCases
    <3> HIDE DEF s, m
    <3>5. a.done \o <<s>> = Append(a.done, s)
      BY <2>4, <3>3, AppendIsConcat
    <3>6. Written(s) = Append(b, m)
      BY <2>5, <3>1, <3>3, OpenIsNoMark, AppendIsConcat DEF Written
    <3>7. /\ Flush(Append(a.done, s)) = Flush(a.done) \o Append(b, m)
          /\ Words(Append(a.done, s)) = Words(a.done) \o b
      BY <2>4, <3>3, <3>6, FlushAppend
    <3>8. Worded(Append(a.done, s))
      BY <2>2, <2>4, <2>5, <3>3, ListAppend
    <3>9. WordsOf(Flush(Append(a.done, s))) = WordsOf(Flush(a.done)) \cup WordsOf(b)
      <4>1. b \in Seq(Text) /\ Append(b, m) \in Seq(Text) /\ m \notin Word
        BY <2>5, <3>1, TextTypes, WordIsText
      <4>2. WordsOf(Append(b, m)) = WordsOf(b) \cup ({m} \cap Word)
        BY <3>1, <4>1, WordsOfAppend
      <4>3. WordsOf(Append(b, m)) = WordsOf(b)
        BY <4>1, <4>2
      <4> QED
        BY <2>w, <3>7, <4>1, <4>3, WordsOfConcat
    <3>10. Len(Words(Append(a.done, s))) = Len(Words(a.done)) + Len(b)
      <4>1. \A u, v \in Seq(Word) : Len(u \o v) = Len(u) + Len(v)
        OBVIOUS
      <4> QED
        BY <2>5, <2>w, <3>7, <4>1, Zenon
    <3>11. Good([done |-> Append(a.done, s), begun |-> <<>>], Append(tokens, t))
      <4>1. Len(<<>>) = 0 /\ Len(Append(tokens, t)) = Len(tokens) + 1
        OBVIOUS
      <4>2. Len(Words(Append(a.done, s))) + 0 = Len(tokens) + 1
        BY <2>0, <2>n, <3>10
      <4>3. WordsOf(Flush(Append(a.done, s))) \cup {} = TokenWords(Append(tokens, t))
        BY <2>6, <2>7, <2>g, <3>9
      <4> QED
        BY <3>8, <4>1, <4>2, <4>3, WordsOfEmpty
    <3> HIDE DEF Good
    <3> QED
      BY <2>3, <3>4, <3>5, <3>11
  <2> QED
    BY <2>8, <2>9
<1>3. \A tokens \in Seq(Token) : tokens \in T
  <2> HIDE DEF T
  <2> QED
    BY <1>1, <1>2, AllSequences
<1> QED
  BY <1>3

(* What plain edits make of a sentence: every word of the tokens, once and *)
(* in a sentence that has words. *)
LEMMA RebuildPlain ==
  ASSUME NEW tokens \in Seq(Token), AllPlain(tokens), NEW d \in Mark \cup {Open}
  PROVE  /\ Worded(Rebuild(tokens, d))
         /\ Len(Words(Rebuild(tokens, d))) = Len(tokens)
         /\ WordsOf(Flush(Rebuild(tokens, d))) = TokenWords(tokens)
<1> DEFINE done == Splitted(tokens).done
           begun == Splitted(tokens).begun
           s == [words |-> begun, delim |-> d]
           list == Rebuild(tokens, d)
<1>1. /\ done \in Seq(Sentence) /\ begun \in Seq(Word) /\ s \in Sentence
      /\ s.words = begun /\ s.delim = d
      /\ begun = <<>> => list = done
      /\ begun # <<>> => list = Append(done, s)
  BY RebuildParts
<1>2. /\ Worded(done)
      /\ Len(Words(done)) + Len(begun) = Len(tokens)
      /\ WordsOf(Flush(done)) \cup WordsOf(begun) = TokenWords(tokens)
  BY SplittedPlain
<1> HIDE DEF done, begun, s, list
<1>3. Words(done) \in Seq(Word) /\ Flush(done) \in Seq(Text) /\ Len(Words(done)) \in Nat
  BY <1>1, FlushFacts
<1>4. CASE begun = <<>>
  <2>1. Len(begun) = 0 /\ list = done /\ WordsOf(begun) = {}
    BY <1>1, <1>4, WordsOfEmpty
  <2>2. Len(Words(done)) = Len(tokens)
    BY <1>2, <1>3, <2>1
  <2>3. WordsOf(Flush(done)) = TokenWords(tokens)
    BY <1>2, <2>1
  <2>4. Worded(list) /\ Len(Words(list)) = Len(tokens) /\ WordsOf(Flush(list)) = TokenWords(tokens)
    BY <1>2, <2>1, <2>2, <2>3
  <2> QED
    BY <2>4 DEF list
<1>5. CASE begun # <<>>
  <2>1. /\ Flush(list) = Flush(done) \o Written(s) /\ Words(list) = Words(done) \o begun
    BY <1>1, <1>5, FlushAppend
  <2>2. Worded(list)
    BY <1>1, <1>2, <1>5, ListAppend
  <2>3. Len(Words(list)) = Len(tokens)
    BY <1>1, <1>2, <1>3, <2>1
  <2>4. begun \in Seq(Text)
    BY <1>1, TextTypes
  <2>5. Written(s) \in Seq(Text) /\ WordsOf(Written(s)) = WordsOf(begun)
    <3>1. CASE d = Open
      <4>1. Written(s) = begun
        <5>1. begun \o <<>> = begun
          BY <2>4
        <5> QED
          BY <1>1, <3>1, <5>1 DEF Written
      <4> QED
        BY <2>4, <4>1
    <3>2. CASE d # Open
      <4>1. d \in Mark /\ d \in Text /\ d \notin Word
        BY <3>2, WordIsText DEF Text
      <4>2. Written(s) = Append(begun, d)
        BY <1>1, <3>2, <4>1, AppendIsConcat DEF Written
      <4>a. WordsOf(Append(begun, d)) = WordsOf(begun) \cup ({d} \cap Word)
        BY <2>4, <4>1, WordsOfAppend
      <4>3. WordsOf(Append(begun, d)) = WordsOf(begun) /\ Append(begun, d) \in Seq(Text)
        BY <2>4, <4>1, <4>a
      <4> QED
        BY <4>2, <4>3
    <3> QED
      BY <3>1, <3>2
  <2>6. WordsOf(Flush(list)) = TokenWords(tokens)
    <3> DEFINE first == Flush(done)
               last == Written(s)
    <3>1. /\ first \in Seq(Text) /\ last \in Seq(Text) /\ Flush(list) = first \o last
          /\ WordsOf(first) \cup WordsOf(last) = TokenWords(tokens)
      BY <1>2, <1>3, <2>1, <2>5
    <3> HIDE DEF first, last
    <3>2. WordsOf(first \o last) = WordsOf(first) \cup WordsOf(last)
      BY <3>1, WordsOfConcat
    <3> QED
      BY <3>1, <3>2
  <2> QED
    BY <2>2, <2>3, <2>6 DEF list
<1> QED
  BY <1>4, <1>5

-----------------------------------------------------------------------------
(* Applying edits: every token is there once, wherever it was inserted.    *)
Edit == [at : Int, content : Seq(Token)]

\* The contents of the first k edits.
Contents(edits, k) == [j \in 1..k |-> edits[j].content]

LEMMA RangeConcat ==
  ASSUME NEW X, NEW a \in Seq(X), NEW b \in Seq(X)
  PROVE  Range(a \o b) = Range(a) \cup Range(b)
<1> DEFINE c == a \o b
<1>1. /\ Len(c) = Len(a) + Len(b) /\ c \in Seq(X)
      /\ \A k \in 1..Len(a) : c[k] = a[k]
      /\ \A k \in 1..(Len(a) + Len(b)) :
           k > Len(a) => (k - Len(a) \in 1..Len(b) /\ c[k] = b[k - Len(a)])
  BY ConcatAt
<1>2. /\ Len(a) \in Nat /\ Len(b) \in Nat /\ DOMAIN a = 1..Len(a) /\ DOMAIN b = 1..Len(b)
  OBVIOUS
<1> HIDE DEF c
<1>3. DOMAIN c = 1..(Len(a) + Len(b))
  BY <1>1
<1>4. Range(c) \subseteq Range(a) \cup Range(b)
  <2> SUFFICES ASSUME NEW k \in 1..(Len(a) + Len(b))
               PROVE  c[k] \in Range(a) \cup Range(b)
    BY <1>3 DEF Range
  <2>1. CASE k =< Len(a)
    <3>1. k \in 1..Len(a)
      BY <1>2, <2>1
    <3>2. c[k] = a[k]
      BY <1>1, <3>1
    <3> QED
      BY <1>2, <3>1, <3>2 DEF Range
  <2>2. CASE k > Len(a)
    <3>1. k - Len(a) \in 1..Len(b) /\ c[k] = b[k - Len(a)]
      BY <1>1, <2>2
    <3> QED
      BY <1>2, <3>1 DEF Range
  <2> QED
    BY <1>2, <2>1, <2>2
<1>5. ASSUME NEW j \in 1..Len(a) PROVE a[j] \in Range(c)
  <2>1. j \in 1..(Len(a) + Len(b)) /\ c[j] = a[j]
    BY <1>1, <1>2
  <2> QED
    BY <1>3, <2>1 DEF Range
<1>6. ASSUME NEW j \in 1..Len(b) PROVE b[j] \in Range(c)
  <2>1. /\ j + Len(a) \in 1..(Len(a) + Len(b)) /\ j + Len(a) > Len(a)
        /\ (j + Len(a)) - Len(a) = j
    BY <1>2
  <2>2. c[j + Len(a)] = b[j]
    BY <1>1, <2>1
  <2> QED
    BY <1>3, <2>1, <2>2 DEF Range
<1>7. Range(a) \subseteq Range(c) /\ Range(b) \subseteq Range(c)
  BY <1>2, <1>5, <1>6 DEF Range
<1> QED
  BY <1>4, <1>7 DEF c

(* A sequence cut in two. *)
LEMMA CutFacts ==
  ASSUME NEW X, NEW u \in Seq(X), NEW m \in 0..Len(u)
  PROVE  /\ SubSeq(u, 1, m) \in Seq(X) /\ SubSeq(u, m + 1, Len(u)) \in Seq(X)
         /\ Len(SubSeq(u, 1, m)) = m /\ Len(SubSeq(u, m + 1, Len(u))) = Len(u) - m
         /\ u = SubSeq(u, 1, m) \o SubSeq(u, m + 1, Len(u))
<1> DEFINE n == Len(u)
           l == SubSeq(u, 1, m)
           r == SubSeq(u, m + 1, n)
<1>1. n \in Nat /\ m \in Nat /\ m =< n
  OBVIOUS
<1>2. l \in Seq(X) /\ Len(l) = m /\ \A k \in 1..m : l[k] = u[k]
  BY PrefixFacts
<1>3. r \in Seq(X) /\ Len(r) = n - m /\ \A k \in 1..(n - m) : r[k] = u[m + k]
  BY <1>1
<1> HIDE DEF l, r
<1>4. \A k \in 1..n : k > Len(l) => u[k] = r[k - Len(l)]
  <2> SUFFICES ASSUME NEW k \in 1..n, k > m PROVE u[k] = r[k - m]
    BY <1>2
  <2>1. k - m \in 1..(n - m) /\ m + (k - m) = k
    BY <1>1
  <2> QED
    BY <1>3, <2>1
<1>5. u = l \o r
  <2>1. n = Len(l) + Len(r) /\ \A k \in 1..Len(l) : u[k] = l[k]
    BY <1>1, <1>2, <1>3
  <2> QED
    BY <1>2, <1>3, <1>4, <2>1, ConcatOf
<1> QED
  BY <1>2, <1>3, <1>5 DEF l, r

LEMMA InsertFacts ==
  ASSUME NEW tokens \in Seq(Token), NEW e \in Edit, e.at \in 0..Len(tokens)
  PROVE  /\ InsertTokens(tokens, e) \in Seq(Token)
         /\ Len(InsertTokens(tokens, e)) = Len(tokens) + Len(e.content)
         /\ Range(InsertTokens(tokens, e)) = Range(tokens) \cup Range(e.content)
<1> DEFINE l == SubSeq(tokens, 1, e.at)
           r == SubSeq(tokens, e.at + 1, Len(tokens))
           c == e.content
<1>1. /\ l \in Seq(Token) /\ r \in Seq(Token) /\ Len(l) = e.at /\ Len(r) = Len(tokens) - e.at
      /\ tokens = l \o r
  <2> DEFINE m == e.at
  <2>1. m \in 0..Len(tokens)
    OBVIOUS
  <2> HIDE DEF m
  <2>2. /\ SubSeq(tokens, 1, m) \in Seq(Token)
        /\ SubSeq(tokens, m + 1, Len(tokens)) \in Seq(Token)
        /\ Len(SubSeq(tokens, 1, m)) = m /\ Len(SubSeq(tokens, m + 1, Len(tokens))) = Len(tokens) - m
        /\ tokens = SubSeq(tokens, 1, m) \o SubSeq(tokens, m + 1, Len(tokens))
    BY <2>1, CutFacts, ZenonT(40)
  <2> QED
    BY <2>2 DEF m
<1>2. c \in Seq(Token) /\ Len(c) \in Nat /\ Len(tokens) \in Nat /\ e.at \in Nat
  BY DEF Edit
<1>3. InsertTokens(tokens, e) = (l \o c) \o r
  BY DEF InsertTokens
<1> HIDE DEF l, r, c
<1>4. /\ l \o c \in Seq(Token) /\ Len(l \o c) = Len(l) + Len(c)
      /\ Range(l \o c) = Range(l) \cup Range(c)
  <2>1. l \o c \in Seq(Token) /\ Len(l \o c) = Len(l) + Len(c)
    BY <1>1, <1>2, ConcatAt
  <2>2. Range(l \o c) = Range(l) \cup Range(c)
    BY <1>1, <1>2, RangeConcat
  <2> QED
    BY <2>1, <2>2
<1> DEFINE u == l \o c
<1> HIDE DEF u
<1>5. u \in Seq(Token) /\ Len(u) = Len(l) + Len(c) /\ Range(u) = Range(l) \cup Range(c)
  BY <1>4 DEF u
<1>6. /\ u \o r \in Seq(Token) /\ Len(u \o r) = Len(u) + Len(r)
      /\ Range(u \o r) = Range(u) \cup Range(r)
  <2>1. Range(u \o r) = Range(u) \cup Range(r)
    BY <1>1, <1>5, RangeConcat
  <2>2. u \o r \in Seq(Token) /\ Len(u \o r) = Len(u) + Len(r)
    BY <1>1, <1>5, ConcatAt
  <2> QED
    BY <2>1, <2>2
<1>7. Range(tokens) = Range(l) \cup Range(r)
  BY <1>1, RangeConcat
<1>8. InsertTokens(tokens, e) = u \o r
  BY <1>3 DEF u
<1>9. Len(u \o r) = Len(tokens) + Len(c)
  <2> DEFINE whole == u \o r
  <2>1. Len(whole) = Len(u) + Len(r)
    BY <1>6
  <2>2. Len(l) = e.at /\ Len(r) = Len(tokens) - e.at
    BY <1>1
  <2> HIDE DEF whole
  <2>3. Len(whole) = Len(tokens) + Len(c)
    BY <1>2, <1>5, <2>1, <2>2
  <2> QED
    BY <2>3 DEF whole
<1>10. Range(u \o r) = Range(tokens) \cup Range(c)
  BY <1>5, <1>6, <1>7
<1> QED
  BY <1>6, <1>8, <1>9, <1>10 DEF c

(* What FoldLeft builds of the edits, one after the other. *)
LEMMA EditsFold ==
  ASSUME NEW base, NEW edits \in Seq(Edit)
  PROVE  \E t : /\ t[0] = base
                /\ \A k \in 0..(Len(edits) - 1) : t[k + 1] = InsertTokens(t[k], edits[k + 1])
                /\ FoldLeft(InsertTokens, base, edits) = t[Len(edits)]
<1> DEFINE Iter(n, it) == it = [S \in SUBSET (1..n) |->
                                  IF S = {} THEN base
                                  ELSE InsertTokens(it[S \ {Max(S)}], edits[Max(S)])]
           T == {n \in 0..Len(edits) : \E it : Iter(n, it)}
           it == CHOOSE f : Iter(Len(edits), f)
<1>0. Len(edits) \in Nat /\ DOMAIN edits = 1..Len(edits)
  OBVIOUS
<1>m. ASSUME NEW n \in Nat, NEW S \in SUBSET (1..(n + 1)), n + 1 \in S
      PROVE  Max(S) = n + 1
  <2>1. n + 1 \in Nat /\ S # {}
    BY <1>m
  <2>2. Max(S) \in S /\ \A y \in S : Max(S) >= y
    <3> HIDE DEF Iter, T, it
    <3> QED
      BY <2>1, MaxOf
  <2> DEFINE m == Max(S)
  <2>3. m \in 1..(n + 1) /\ m >= n + 1
    BY <1>m, <2>2
  <2> HIDE DEF m, Iter, T, it
  <2>4. m = n + 1
    BY <2>1, <2>3
  <2> QED
    BY <2>4 DEF m
<1>1. 0 \in T
  <2> DEFINE f == [S \in SUBSET (1..0) |-> base]
  <2>1. \A S \in SUBSET (1..0) : S = {}
    OBVIOUS
  <2>2. Iter(0, f)
    BY <2>1
  <2> HIDE DEF Iter, f
  <2> QED
    BY <1>0, <2>2
<1>2. ASSUME NEW n \in 0..(Len(edits) - 1), n \in T PROVE n + 1 \in T
  <2>1. PICK f : Iter(n, f)
    BY <1>2
  <2> DEFINE wide == [S \in SUBSET (1..(n + 1)) |->
                        IF n + 1 \in S THEN InsertTokens(f[S \ {n + 1}], edits[n + 1]) ELSE f[S]]
  <2>2. n \in Nat /\ n + 1 \in 0..Len(edits)
    BY <1>0
  <2>3. \A S \in SUBSET (1..(n + 1)) :
          /\ S \ {n + 1} \in SUBSET (1..n)
          /\ n + 1 \notin S => S \in SUBSET (1..n)
    BY <2>2
  <2>f. \A S \in SUBSET (1..n) :
          f[S] = IF S = {} THEN base ELSE InsertTokens(f[S \ {Max(S)}], edits[Max(S)])
    BY <2>1
  <2> HIDE DEF Iter, T, it
  <2>5. ASSUME NEW S \in SUBSET (1..(n + 1))
        PROVE  wide[S] = IF S = {} THEN base
                         ELSE InsertTokens(wide[S \ {Max(S)}], edits[Max(S)])
    <3>1. CASE n + 1 \in S
      <4>2. Max(S) = n + 1
        <5> HIDE DEF wide
        <5> QED
          BY <1>m, <2>2, <3>1
      <4>3. S \ {n + 1} \in SUBSET (1..(n + 1)) /\ n + 1 \notin S \ {n + 1}
        OBVIOUS
      <4>4. wide[S \ {n + 1}] = f[S \ {n + 1}]
        BY <4>3
      <4>5. wide[S] = InsertTokens(f[S \ {n + 1}], edits[n + 1])
        BY <3>1
      <4> HIDE DEF wide
      <4> QED
        BY <3>1, <4>2, <4>4, <4>5
    <3>2. CASE n + 1 \notin S
      <4>1. S \in SUBSET (1..n) /\ wide[S] = f[S]
        BY <2>3, <3>2
      <4>2. f[S] = IF S = {} THEN base ELSE InsertTokens(f[S \ {Max(S)}], edits[Max(S)])
        BY <2>f, <4>1
      <4>3. S \ {Max(S)} \in SUBSET (1..(n + 1)) /\ n + 1 \notin S \ {Max(S)}
        BY <3>2
      <4>4. wide[S \ {Max(S)}] = f[S \ {Max(S)}]
        BY <4>3
      <4> HIDE DEF wide
      <4> QED
        BY <4>1, <4>2, <4>4
    <3> QED
      BY <3>1, <3>2
  <2>6. wide = [S \in SUBSET (1..(n + 1)) |-> wide[S]]
    OBVIOUS
  <2> HIDE DEF wide
  <2>7. Iter(n + 1, wide)
    BY <2>5, <2>6 DEF Iter
  <2> QED
    BY <2>2, <2>7 DEF T
<1>3. \A n \in 0..Len(edits) : n \in T
  <2> HIDE DEF T
  <2> QED
    BY <1>0, <1>1, <1>2, UpTo
<1>4. \E f : Iter(Len(edits), f)
  <2>1. Len(edits) \in 0..Len(edits)
    BY <1>0
  <2> HIDE DEF Iter
  <2> QED
    BY <1>3, <2>1
<1>5. Iter(Len(edits), it)
  <2> HIDE DEF Iter
  <2> QED
    BY <1>4
<1>6. FoldLeft(InsertTokens, base, edits) = it[DOMAIN edits]
  BY <1>0 DEF FoldLeft, MapThenFoldSet
<1> HIDE DEF it, T
<1>7. \A S \in SUBSET (1..Len(edits)) :
        it[S] = IF S = {} THEN base ELSE InsertTokens(it[S \ {Max(S)}], edits[Max(S)])
  BY <1>5
<1> HIDE DEF Iter
<1> DEFINE t == [k \in 0..Len(edits) |-> it[1..k]]
<1>8. t[0] = base
  <2>1. 1..0 = {} /\ 0 \in 0..Len(edits)
    BY <1>0
  <2> QED
    BY <1>7, <2>1
<1>9. ASSUME NEW k \in 0..(Len(edits) - 1)
      PROVE  t[k + 1] = InsertTokens(t[k], edits[k + 1])
  <2> DEFINE S == 1..(k + 1)
  <2>1. /\ k \in Nat /\ S \in SUBSET (1..(k + 1)) /\ k + 1 \in S
        /\ k \in 0..Len(edits) /\ k + 1 \in 0..Len(edits)
    BY <1>0
  <2>2. S \in SUBSET (1..Len(edits))
    BY <1>0
  <2>3. S \ {k + 1} = 1..k
    BY <2>1
  <2>4. t[k] = it[1..k] /\ t[k + 1] = it[S]
    BY <2>1
  <2> HIDE DEF S, t
  <2>5. Max(S) = k + 1
    BY <1>m, <2>1
  <2>6. it[S] = InsertTokens(it[S \ {Max(S)}], edits[Max(S)])
    BY <1>7, <2>1, <2>2
  <2> QED
    BY <2>3, <2>4, <2>5, <2>6
<1>10. FoldLeft(InsertTokens, base, edits) = t[Len(edits)]
  BY <1>0, <1>6
<1> HIDE DEF t
<1> QED
  BY <1>8, <1>9, <1>10

LEMMA ContentsFacts ==
  ASSUME NEW edits \in Seq(Edit), NEW k \in 0..(Len(edits) - 1)
  PROVE  /\ Contents(edits, k) \in Seq(Seq(Token))
         /\ edits[k + 1] \in Edit /\ edits[k + 1].content \in Seq(Token)
         /\ Contents(edits, k + 1) = Append(Contents(edits, k), edits[k + 1].content)
         /\ FlattenSeq(Contents(edits, k)) \in Seq(Token)
         /\ FlattenSeq(Contents(edits, k + 1))
              = FlattenSeq(Contents(edits, k)) \o edits[k + 1].content
<1>1. /\ k \in Nat /\ k + 1 \in 1..Len(edits) /\ Len(edits) \in Nat
      /\ \A j \in 1..Len(edits) : edits[j] \in Edit
  OBVIOUS
<1>2. \A j \in 1..Len(edits) : edits[j].content \in Seq(Token)
  BY <1>1 DEF Edit
<1>3. \A j \in 1..(k + 1) : j \in 1..Len(edits) /\ (j = k + 1 \/ j \in 1..k)
  BY <1>1
<1> DEFINE c == [j \in 1..Len(edits) |-> edits[j].content]
<1>4. c \in Seq(Seq(Token)) /\ \A j \in 1..Len(edits) : c[j] = edits[j].content
  BY <1>1, <1>2
<1> HIDE DEF c
<1>5. Contents(edits, k) = [j \in 1..k |-> c[j]]
  <2>1. ASSUME NEW j \in 1..k PROVE c[j] = edits[j].content
    <3>1. j \in 1..Len(edits)
      BY <1>1
    <3> QED
      BY <1>4, <3>1
  <2> QED
    BY <2>1 DEF Contents
<1>6. Contents(edits, k + 1) = [j \in 1..(k + 1) |-> c[j]]
  BY <1>1, <1>3, <1>4 DEF Contents
<1>7. \A j \in 1..(k + 1) : c[j] \in Seq(Token)
  BY <1>2, <1>3, <1>4
<1>8. Contents(edits, k) \in Seq(Seq(Token))
  BY <1>1, <1>5, <1>7
<1>9. Contents(edits, k + 1) = Append(Contents(edits, k), c[k + 1])
  BY <1>1, <1>3, <1>5, <1>6, <1>7
<1>10. c[k + 1] = edits[k + 1].content /\ edits[k + 1].content \in Seq(Token)
  BY <1>1, <1>2, <1>4
<1> QED
  BY <1>1, <1>8, <1>9, <1>10, FlattenType, FlattenAppend

\* The tokens of the first k edits.
TypedTokens(edits, k) == {t \in Token : \E j \in 1..k : t \in Range(edits[j].content)}

(* The tokens of all edits, and the words that were there.                 *)
LEMMA EditedFacts ==
  ASSUME NEW words \in Seq(Word), NEW edits \in Seq(Edit), EditsApply(words, edits)
  PROVE  LET r == EditedTokens(words, edits)
         IN /\ r \in Seq(Token)
            /\ Len(r) = Len(words) + Len(FlattenSeq(Contents(edits, Len(edits))))
            /\ Range(r) = {Plain(words[k]) : k \in DOMAIN words}
                            \cup TypedTokens(edits, Len(edits))
<1> DEFINE base == [k \in DOMAIN words |-> Plain(words[k])]
           B == {Plain(words[k]) : k \in DOMAIN words}
           Good(r, k) ==
             /\ r \in Seq(Token)
             /\ Len(r) = Len(words) + Len(FlattenSeq(Contents(edits, k)))
             /\ Range(r) = B \cup TypedTokens(edits, k)
<1>0. Len(edits) \in Nat /\ DOMAIN edits = 1..Len(edits) /\ Len(words) \in Nat
  OBVIOUS
<1>1. base \in Seq(Token) /\ Len(base) = Len(words) /\ Range(base) = B
  <2>1. ASSUME NEW k \in DOMAIN words PROVE Plain(words[k]) \in Token
    <3>1. words[k] \in Word /\ <<>> \in Seq(Mark)
      OBVIOUS
    <3> QED
      BY <3>1 DEF Plain, Token
  <2>2. DOMAIN words = 1..Len(words)
    OBVIOUS
  <2>3. base \in Seq(Token) /\ Len(base) = Len(words)
    BY <1>0, <2>1, <2>2
  <2>4. Range(base) = B
    BY DEF Range
  <2> QED
    BY <2>3, <2>4
<1>2. PICK t : /\ t[0] = base
               /\ \A k \in 0..(Len(edits) - 1) : t[k + 1] = InsertTokens(t[k], edits[k + 1])
               /\ FoldLeft(InsertTokens, base, edits) = t[Len(edits)]
  BY EditsFold
<1> HIDE DEF base, B
<1> DEFINE T == {k \in 0..Len(edits) : Good(t[k], k)}
<1>3. 0 \in T
  <2>1. Contents(edits, 0) = <<>>
    BY DEF Contents
  <2>2. Len(FlattenSeq(Contents(edits, 0))) = 0
    BY <2>1, FlattenEmpty
  <2>3. TypedTokens(edits, 0) = {}
    BY DEF TypedTokens
  <2>4. Good(base, 0)
    BY <1>0, <1>1, <2>2, <2>3
  <2> HIDE DEF Good
  <2> QED
    BY <1>0, <1>2, <2>4
<1>4. ASSUME NEW k \in 0..(Len(edits) - 1), k \in T PROVE k + 1 \in T
  <2> DEFINE r == t[k]
             e == edits[k + 1]
             u == FlattenSeq(Contents(edits, k))
  <2>1. Good(r, k) /\ k \in Nat /\ k + 1 \in 1..Len(edits) /\ k + 1 \in 0..Len(edits)
        /\ (k + 1) - 1 = k
    BY <1>0, <1>4
  <2>2. t[k + 1] = InsertTokens(r, e)
    BY <1>2
  <2>3. /\ e \in Edit /\ e.content \in Seq(Token) /\ u \in Seq(Token)
        /\ FlattenSeq(Contents(edits, k + 1)) = u \o e.content
    BY ContentsFacts
  <2>4. e.at \in 0..(Len(words) + Len(u))
    BY <1>0, <2>1 DEF EditsApply, Contents
  <2> HIDE DEF r, e, u
  <2>5. r \in Seq(Token) /\ e.at \in 0..Len(r) /\ Len(r) = Len(words) + Len(u)
    BY <2>1, <2>4 DEF u
  <2>6. /\ InsertTokens(r, e) \in Seq(Token)
        /\ Len(InsertTokens(r, e)) = Len(r) + Len(e.content)
        /\ Range(InsertTokens(r, e)) = Range(r) \cup Range(e.content)
    BY <2>3, <2>5, InsertFacts
  <2>7. Len(u \o e.content) = Len(u) + Len(e.content) /\ Len(u) \in Nat /\ Len(e.content) \in Nat
    BY <2>3, ConcatAt
  <2>8. Len(InsertTokens(r, e)) = Len(words) + Len(FlattenSeq(Contents(edits, k + 1)))
    <3> DEFINE i == Len(words)
               j == Len(u)
               n == Len(r)
               l == Len(e.content)
    <3>1. i \in Nat /\ j \in Nat /\ l \in Nat /\ n = i + j
      BY <1>0, <2>5, <2>7
    <3>2. Len(InsertTokens(r, e)) = n + l
      BY <2>6
    <3>3. Len(FlattenSeq(Contents(edits, k + 1))) = j + l
      BY <2>3, <2>7
    <3> HIDE DEF i, j, n, l
    <3>4. n + l = i + (j + l)
      BY <3>1
    <3> QED
      BY <3>2, <3>3, <3>4 DEF i
  <2>9. Range(InsertTokens(r, e)) = B \cup TypedTokens(edits, k + 1)
    <3>1. Range(r) = B \cup TypedTokens(edits, k)
      BY <2>1
    <3>2. 1..(k + 1) = (1..k) \cup {k + 1}
      BY <2>1
    <3>3. Range(e.content) \subseteq Token
      BY <2>3 DEF Range
    <3>4. TypedTokens(edits, k + 1) = TypedTokens(edits, k) \cup Range(e.content)
      BY <3>2, <3>3 DEF TypedTokens, e
    <3> QED
      BY <2>6, <3>1, <3>4
  <2>10. Good(InsertTokens(r, e), k + 1)
    BY <2>6, <2>8, <2>9
  <2> HIDE DEF Good
  <2> QED
    BY <2>1, <2>2, <2>10
<1>5. \A k \in 0..Len(edits) : k \in T
  <2> HIDE DEF T
  <2> QED
    BY <1>0, <1>3, <1>4, UpTo
<1>6. Good(t[Len(edits)], Len(edits))
  <2>1. Len(edits) \in 0..Len(edits)
    BY <1>0
  <2> HIDE DEF Good
  <2> QED
    BY <1>5, <2>1
<1>7. EditedTokens(words, edits) = t[Len(edits)]
  BY <1>2 DEF EditedTokens, base
<1> QED
  BY <1>0, <1>6, <1>7 DEF B

(* A sentence with edits that apply becomes sentences that end as it did.  *)
LEMMA ApplyFacts ==
  ASSUME NEW s \in Sentence, NEW edits \in Seq(Edit), EditsApply(s.words, edits)
  PROVE  /\ ApplyEdits(s, edits) \in Seq(Sentence)
         /\ EndsIn(ApplyEdits(s, edits), s.delim)
<1>1. s.words \in Seq(Word) /\ s.delim \in Mark \cup {Open}
  BY DEF Sentence
<1>2. EditedTokens(s.words, edits) \in Seq(Token)
  BY <1>1, EditedFacts
<1> QED
  BY <1>1, <1>2, RebuildFacts DEF ApplyEdits

(* Plain edits add just the words typed: no sentence of the result is      *)
(* without words, and none of the words that were there is lost.           *)
THEOREM ApplyPlain ==
  ASSUME NEW s \in Sentence, NEW edits \in Seq(Edit), EditsApply(s.words, edits),
         \A k \in DOMAIN edits : AllPlain(edits[k].content)
  PROVE  LET list == ApplyEdits(s, edits)
         IN /\ Worded(list)
            /\ Len(Words(list)) = Len(s.words) + Len(FlattenSeq(Contents(edits, Len(edits))))
            /\ WordsOf(Flush(list)) =
                 WordsOf(s.words)
                   \cup {w \in Word : \E k \in DOMAIN edits :
                           \E j \in DOMAIN edits[k].content : edits[k].content[j].word = w}
<1> DEFINE r == EditedTokens(s.words, edits)
           typed == {w \in Word : \E k \in DOMAIN edits :
                       \E j \in DOMAIN edits[k].content : edits[k].content[j].word = w}
           ws == s.words
<1>1. s.words \in Seq(Word) /\ s.delim \in Mark \cup {Open}
  BY DEF Sentence
<1>2. /\ r \in Seq(Token)
      /\ Len(r) = Len(ws) + Len(FlattenSeq(Contents(edits, Len(edits))))
      /\ Range(r) = {Plain(ws[k]) : k \in DOMAIN ws} \cup TypedTokens(edits, Len(edits))
  BY <1>1, EditedFacts
<1>3. ApplyEdits(s, edits) = Rebuild(r, s.delim)
  BY DEF ApplyEdits
<1>4. ws \in Seq(Word) /\ WordsOf(ws) = {ws[k] : k \in DOMAIN ws}
  BY <1>1 DEF WordsOf
<1>5. /\ Len(edits) \in Nat /\ DOMAIN edits = 1..Len(edits)
      /\ \A k \in 1..Len(edits) : edits[k] \in Edit
  OBVIOUS
<1>6. \A k \in 1..Len(edits) : edits[k].content \in Seq(Token)
  BY <1>5 DEF Edit
<1> HIDE DEF r, ws
<1>7. ASSUME NEW t \in TypedTokens(edits, Len(edits))
      PROVE  /\ PlainToken(t)
             /\ \E k \in DOMAIN edits : \E j \in DOMAIN edits[k].content :
                  edits[k].content[j] = t
  <2>1. PICK k \in 1..Len(edits) : t \in Range(edits[k].content)
    BY DEF TypedTokens
  <2>2. PICK j \in DOMAIN edits[k].content : edits[k].content[j] = t
    BY <2>1 DEF Range
  <2> QED
    BY <1>5, <2>2 DEF AllPlain
<1>8. ASSUME NEW k \in DOMAIN ws
      PROVE  PlainToken(Plain(ws[k])) /\ Plain(ws[k]).word = ws[k]
  <2>1. ws[k] \in Word /\ ws[k] # NoWord
    BY <1>4, WordAssumption
  <2> QED
    BY <2>1 DEF Plain, PlainToken
<1>9. ASSUME NEW k \in DOMAIN r PROVE r[k] \in Range(r)
  BY DEF Range
<1>10. AllPlain(r)
  <2> SUFFICES ASSUME NEW k \in DOMAIN r PROVE PlainToken(r[k])
    BY DEF AllPlain
  <2> QED
    BY <1>2, <1>7, <1>8, <1>9
<1>11. TokenWords(r) = WordsOf(ws) \cup typed
  <2>1. ASSUME NEW k \in DOMAIN r, r[k].word \in Word
        PROVE  r[k].word \in WordsOf(ws) \cup typed
    <3>1. CASE r[k] \in TypedTokens(edits, Len(edits))
      BY <1>7, <2>1, <3>1
    <3>2. CASE r[k] \in {Plain(ws[j]) : j \in DOMAIN ws}
      BY <1>4, <1>8, <3>2
    <3> QED
      BY <1>2, <1>9, <3>1, <3>2
  <2>2. ASSUME NEW k \in DOMAIN ws PROVE ws[k] \in TokenWords(r)
    <3>1. Plain(ws[k]) \in Range(r)
      BY <1>2
    <3>2. ws[k] \in Word
      BY <1>4
    <3> QED
      BY <1>8, <3>1, <3>2 DEF Range, TokenWords
  <2>3. ASSUME NEW k \in DOMAIN edits, NEW j \in DOMAIN edits[k].content,
               edits[k].content[j].word \in Word
        PROVE  edits[k].content[j].word \in TokenWords(r)
    <3> DEFINE t == edits[k].content[j]
    <3>1. t \in Token /\ t \in Range(edits[k].content)
      BY <1>5, <1>6 DEF Range
    <3>2. t \in Range(r)
      BY <1>2, <1>5, <3>1 DEF TypedTokens
    <3> QED
      BY <2>3, <3>2 DEF Range, TokenWords
  <2> QED
    BY <1>4, <2>1, <2>2, <2>3 DEF TokenWords
<1>12. /\ Worded(Rebuild(r, s.delim))
       /\ Len(Words(Rebuild(r, s.delim))) = Len(r)
       /\ WordsOf(Flush(Rebuild(r, s.delim))) = TokenWords(r)
  BY <1>1, <1>2, <1>10, RebuildPlain
<1> QED
  BY <1>2, <1>3, <1>11, <1>12 DEF ws

(* An update counts for no more words than it has tokens, and a plain one  *)
(* for as many. *)
LEMMA CountFacts ==
  ASSUME NEW content \in Seq(Token)
  PROVE  /\ CountWords(content) \in 0..Len(content)
         /\ AllPlain(content) => CountWords(content) = Len(content)
<1> DEFINE n == Len(content)
           S == {k \in DOMAIN content : content[k].word # NoWord \/ content[k].tail}
<1>1. n \in Nat /\ DOMAIN content = 1..n
  OBVIOUS
<1>2. IsFiniteSet(1..n) /\ Cardinality(1..n) = n
  <2> HIDE DEF n
  <2> QED
    BY <1>1, FS_Interval
<1>3. S \in SUBSET (1..n)
  BY <1>1
<1>4. CountWords(content) = Cardinality(S)
  BY DEF CountWords
<1>5. AllPlain(content) => S = 1..n
  BY <1>1 DEF AllPlain, PlainToken
<1> HIDE DEF S, n
<1>6. IsFiniteSet(S) /\ Cardinality(S) =< Cardinality(1..n)
  BY <1>2, <1>3, FS_Subset
<1>7. Cardinality(S) \in Nat
  BY <1>6, FS_CardinalityType
<1>8. Cardinality(S) \in 0..n
  BY <1>1, <1>2, <1>6, <1>7
<1> QED
  BY <1>2, <1>4, <1>5, <1>8 DEF n
=============================================================================
