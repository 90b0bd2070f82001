--------------------------- MODULE IncomingProofs ---------------------------
(***************************************************************************)
(* The safety of IncomingPipeline for any set of messages and any limits:  *)
(* a message is in one place, nothing is forgotten in the buffer, a turn   *)
(* gets its messages in the order they came, the buffer keeps the newest   *)
(* ones, a flush takes no stale ones, and the pipeline is a ChatInbox.     *)
(*                                                                         *)
(* A batch goes back into the buffer by a fold of Insert.  What the fold   *)
(* computes is proved by induction: a set of numbers that has 0 and the    *)
(* successors of its members is Nat, which follows from the well-          *)
(* foundedness of < on Nat.  The folds' recursive function exists by the   *)
(* same argument.                                                          *)
(***************************************************************************)
EXTENDS IncomingPipeline, FiniteSetTheorems, WellFoundedInduction, TLAPS

-----------------------------------------------------------------------------
(* Induction.                                                              *)

\* A set of natural numbers has a least one.
LEMMA Least ==
  ASSUME NEW T \in SUBSET Nat, T # {}
  PROVE  \E m \in T : \A n \in T : m <= n
<1> DEFINE Below == {p \in Nat \X Nat : p[1] < p[2]}
<1>1. IsWellFoundedOn(Below, Nat)
  BY NatLessThanWellFounded DEF OpToRel
<1>2. \E m \in T : \A n \in T : <<n, m>> \notin Below
  <2> HIDE DEF Below
  <2> QED BY <1>1, WFMin
<1>3. PICK m \in T : \A n \in T : <<n, m>> \notin Below
  BY <1>2
<1>4. ASSUME NEW n \in T PROVE m <= n
  <2>1. m \in Nat /\ n \in Nat
    OBVIOUS
  <2>2. n < m => <<n, m>> \in Below
    BY <2>1
  <2> QED BY <1>3, <2>1, <2>2
<1> QED BY <1>4

\* A set that has 0 and the successors of its members is Nat.
LEMMA Induction ==
  ASSUME NEW T \in SUBSET Nat, 0 \in T, \A n \in T : n + 1 \in T
  PROVE  T = Nat
<1> DEFINE Missing == Nat \ T
<1> SUFFICES ASSUME Missing # {} PROVE FALSE
  OBVIOUS
<1>1. PICK m \in Missing : \A n \in Missing : m <= n
  <2>1. Missing \in SUBSET Nat
    OBVIOUS
  <2> HIDE DEF Missing
  <2> QED BY <2>1, Least
<1>2. m # 0 /\ m - 1 \in Nat
  OBVIOUS
<1>3. m - 1 \in T
  BY <1>1, <1>2
<1>4. (m - 1) + 1 \in T
  BY <1>3
<1> QED BY <1>2, <1>4

\* The numbers up to the largest of a set that has every number below its members.
LEMMA Prefix ==
  ASSUME NEW n \in Nat, NEW P \in SUBSET (1..n), \A i \in P : \A j \in 1..i : j \in P
  PROVE  Cardinality(P) \in 0..n /\ P = 1..Cardinality(P)
<1> DEFINE Bound == {k \in Nat : \A i \in P : i <= k}
<1>1. n \in Bound
  OBVIOUS
<1>2. PICK m \in Bound : \A k \in Bound : m <= k
  <2>1. Bound \in SUBSET Nat /\ Bound # {}
    BY <1>1
  <2> HIDE DEF Bound
  <2> QED BY <2>1, Least
<1>3. m \in Nat /\ m <= n /\ P \subseteq 1..m
  BY <1>1, <1>2
<1>4. 1..m \subseteq P
  <2>1. CASE m = 0
    BY <2>1
  <2>2. CASE m # 0
    <3>1. m - 1 \in Nat /\ m - 1 \notin Bound
      BY <1>2, <1>3, <2>2
    <3>2. PICK i \in P : ~(i <= m - 1)
      BY <3>1
    <3>3. i = m
      BY <1>3, <3>2
    <3> QED BY <3>3
  <2> QED BY <2>1, <2>2
<1>5. Cardinality(1..m) = m
  <2>1. 1 \in Int /\ m \in Int
    BY <1>3
  <2>2. Cardinality(1..m) = IF 1 > m THEN 0 ELSE m - 1 + 1
    BY <2>1, FS_Interval
  <2> QED BY <1>3, <2>2
<1>6. P = 1..m
  BY <1>3, <1>4
<1>7. Cardinality(P) = m
  BY <1>5, <1>6
<1> QED BY <1>3, <1>6, <1>7

-----------------------------------------------------------------------------
(* Insert.                                                                 *)

\* Oldest first.
Sorted(s) == \A i, j \in DOMAIN s : i < j => s[i].age >= s[j].age

\* No two entries hold the same message.
Distinct(s) == \A i, j \in DOMAIN s : s[i].msg = s[j].msg => i = j

\* What a buffer holds.
LEMMA EntryFields ==
  /\ MaxGroups \in Nat \ {0} /\ MaxAge \in Nat \ {0}
  /\ \A e \in Entry : e.msg \in Msg /\ e.age \in Age /\ e.age \in Nat
  /\ \A s \in Seq(Entry) :
       Len(s) \in Nat /\ DOMAIN s = 1..Len(s) /\ \A i \in DOMAIN s : s[i] \in Entry
<1>1. MaxGroups \in Nat \ {0} /\ MaxAge \in Nat \ {0}
  BY PipelineAssumption
<1>2. \A e \in Entry : e.msg \in Msg /\ e.age \in Age /\ e.age \in Nat
  BY <1>1 DEF Entry, Age
<1> QED BY <1>1, <1>2

\* The entries of a sorted buffer that are at least so old are its first ones.
LEMMA AtLeastPrefix ==
  ASSUME NEW s \in Seq(Entry), Sorted(s), NEW a \in Int
  PROVE  /\ AtLeast(s, a) \in 0..Len(s)
         /\ \A i \in DOMAIN s : s[i].age >= a <=> i <= AtLeast(s, a)
<1> DEFINE P == {i \in DOMAIN s : s[i].age >= a}
<1>1. Len(s) \in Nat /\ DOMAIN s = 1..Len(s) /\ \A i \in DOMAIN s : s[i].age \in Int
  BY EntryFields
<1>2. P \in SUBSET (1..Len(s))
  BY <1>1
<1>3. \A i \in P : \A j \in 1..i : j \in P
  BY <1>1 DEF Sorted
<1> HIDE DEF P
<1>4. Cardinality(P) \in 0..Len(s) /\ P = 1..Cardinality(P)
  BY <1>1, <1>2, <1>3, Prefix
<1>5. AtLeast(s, a) = Cardinality(P)
  BY DEF AtLeast, P
<1>6. \A i \in DOMAIN s : s[i].age >= a <=> i \in P
  BY DEF P
<1>7. \A i \in DOMAIN s : i \in P <=> i <= Cardinality(P)
  BY <1>1, <1>4
<1> QED BY <1>4, <1>5, <1>6, <1>7

\* Insert splices e into s behind the entries that are as old, and cuts the first
\* ones off if there are too many.
LEMMA InsertShape ==
  ASSUME NEW s \in Seq(Entry), Sorted(s), NEW e \in Entry
  PROVE  \E k \in 0..Len(s), cut \in Nat :
           LET r == Insert(s, e)
           IN /\ r \in Seq(Entry)
              /\ cut = IF Len(s) + 1 > MaxGroups THEN Len(s) + 1 - MaxGroups ELSE 0
              /\ Len(r) = Len(s) + 1 - cut
              /\ \A i \in DOMAIN s : s[i].age >= e.age <=> i <= k
              /\ \A i \in 1..Len(r) :
                   r[i] = IF i + cut <= k THEN s[i + cut]
                          ELSE IF i + cut = k + 1 THEN e ELSE s[i + cut - 1]
<1> DEFINE k == AtLeast(s, e.age)
           full == SubSeq(s, 1, k) \o <<e>> \o SubSeq(s, k + 1, Len(s))
           cut == IF Len(s) + 1 > MaxGroups THEN Len(s) + 1 - MaxGroups ELSE 0
<1>1. Len(s) \in Nat /\ MaxGroups \in Nat \ {0} /\ e.age \in Int
  BY EntryFields
<1>2. k \in 0..Len(s) /\ \A i \in DOMAIN s : s[i].age >= e.age <=> i <= k
  BY <1>1, AtLeastPrefix
<1>3. Insert(s, e) = Newest(full)
  BY DEF Insert
<1> HIDE DEF k
<1>4. /\ full \in Seq(Entry) /\ Len(full) = Len(s) + 1
      /\ \A i \in 1..Len(full) :
           full[i] = IF i <= k THEN s[i] ELSE IF i = k + 1 THEN e ELSE s[i - 1]
  <2> DEFINE head == SubSeq(s, 1, k)
             tail == SubSeq(s, k + 1, Len(s))
  <2>1. head \in Seq(Entry) /\ Len(head) = k /\ \A i \in 1..k : head[i] = s[i]
    BY <1>1, <1>2
  <2>2. /\ tail \in Seq(Entry) /\ Len(tail) = Len(s) - k
        /\ \A i \in 1..Len(s) - k : tail[i] = s[k + i]
    BY <1>1, <1>2
  <2> HIDE DEF head, tail
  <2> DEFINE front == head \o <<e>>
  <2>3. front \in Seq(Entry) /\ Len(front) = k + 1
        /\ \A i \in 1..k + 1 : front[i] = IF i <= k THEN s[i] ELSE e
    BY <1>1, <1>2, <2>1
  <2> HIDE DEF front
  <2>4. front \o tail \in Seq(Entry) /\ Len(front \o tail) = Len(s) + 1
    BY <1>1, <1>2, <2>2, <2>3
  <2>5. ASSUME NEW i \in 1..Len(s) + 1
        PROVE  (front \o tail)[i] = IF i <= k THEN s[i] ELSE IF i = k + 1 THEN e ELSE s[i - 1]
    <3>1. CASE i <= k + 1
      BY <1>1, <1>2, <2>2, <2>3, <3>1
    <3>2. CASE i > k + 1
      <4>1. (front \o tail)[i] = tail[i - (k + 1)]
        BY <1>1, <1>2, <2>2, <2>3, <3>2
      <4>2. i - (k + 1) \in 1..Len(s) - k /\ k + (i - (k + 1)) = i - 1
        BY <1>1, <1>2, <3>2
      <4>3. tail[i - (k + 1)] = s[k + (i - (k + 1))]
        BY <2>2, <4>2
      <4>4. ~(i <= k) /\ i # k + 1
        BY <1>1, <1>2, <3>2
      <4> QED BY <4>1, <4>2, <4>3, <4>4
    <3>3. i <= k + 1 \/ i > k + 1
      BY <1>1, <1>2
    <3> QED BY <3>1, <3>2, <3>3
  <2>6. full = front \o tail
    BY DEF front, head, tail
  <2> HIDE DEF full
  <2> QED BY <2>4, <2>5, <2>6
<1>5. cut \in Nat /\ cut <= Len(s)
  BY <1>1
<1> HIDE DEF full
<1>6. /\ Newest(full) \in Seq(Entry) /\ Len(Newest(full)) = Len(s) + 1 - cut
      /\ \A i \in 1..Len(Newest(full)) : Newest(full)[i] = full[i + cut]
  <2>1. CASE Len(full) > MaxGroups
    <3>1. Newest(full) = SubSeq(full, cut + 1, Len(full))
      BY <1>1, <1>4, <2>1 DEF Newest
    <3> HIDE DEF cut
    <3>2. /\ SubSeq(full, cut + 1, Len(full)) \in Seq(Entry)
          /\ Len(SubSeq(full, cut + 1, Len(full))) = Len(full) - cut
          /\ \A i \in 1..Len(full) - cut :
               SubSeq(full, cut + 1, Len(full))[i] = full[cut + i]
      BY <1>1, <1>4, <1>5
    <3> QED BY <1>1, <1>4, <1>5, <3>1, <3>2
  <2>2. CASE ~(Len(full) > MaxGroups)
    <3>1. Newest(full) = full /\ cut = 0
      BY <1>1, <1>4, <2>2 DEF Newest
    <3> HIDE DEF cut
    <3> QED BY <1>1, <1>4, <3>1
  <2> QED BY <2>1, <2>2
<1>7. cut = IF Len(s) + 1 > MaxGroups THEN Len(s) + 1 - MaxGroups ELSE 0
  OBVIOUS
<1> HIDE DEF cut
<1>8. ASSUME NEW i \in 1..Len(Newest(full))
      PROVE  Newest(full)[i] = IF i + cut <= k THEN s[i + cut]
                               ELSE IF i + cut = k + 1 THEN e ELSE s[i + cut - 1]
  <2>1. i + cut \in 1..Len(full)
    BY <1>1, <1>4, <1>5, <1>6
  <2>2. full[i + cut] = IF i + cut <= k THEN s[i + cut]
                        ELSE IF i + cut = k + 1 THEN e ELSE s[i + cut - 1]
    BY <1>1, <1>2, <1>4, <1>5, <1>6, <2>1
  <2> QED BY <1>6, <2>2
<1>9. \A i \in 1..Len(Insert(s, e)) :
        Insert(s, e)[i] = IF i + cut <= k THEN s[i + cut]
                          ELSE IF i + cut = k + 1 THEN e ELSE s[i + cut - 1]
  BY <1>3, <1>8
<1>10. Insert(s, e) \in Seq(Entry) /\ Len(Insert(s, e)) = Len(s) + 1 - cut
  BY <1>3, <1>6
<1> QED BY <1>2, <1>5, <1>7, <1>9, <1>10

\* As many as the buffer takes, and none older than `age`.
FullUpTo(r, age) == Len(r) = MaxGroups /\ \A i \in DOMAIN r : r[i].age <= age

\* Insert keeps the order, holds a message once, has only what it was given, and
\* leaves out the oldest: whoever is left out could not have stayed later either.
LEMMA InsertFacts ==
  ASSUME NEW s \in Seq(Entry), Sorted(s), NEW e \in Entry
  PROVE  /\ Insert(s, e) \in Seq(Entry)
         /\ Sorted(Insert(s, e))
         /\ Range(Insert(s, e)) \subseteq Range(s) \cup {e}
         /\ Distinct(s) /\ (\A i \in DOMAIN s : s[i].msg # e.msg) => Distinct(Insert(s, e))
         /\ \A x \in Range(s) \cup {e} :
              x \in Range(Insert(s, e)) \/ FullUpTo(Insert(s, e), x.age)
         /\ \A a \in Int : FullUpTo(s, a) => FullUpTo(Insert(s, e), a)
         /\ Len(Insert(s, e)) <= MaxGroups
<1> DEFINE r == Insert(s, e)
<1>1. PICK k \in 0..Len(s), cut \in Nat :
        /\ r \in Seq(Entry)
        /\ cut = IF Len(s) + 1 > MaxGroups THEN Len(s) + 1 - MaxGroups ELSE 0
        /\ Len(r) = Len(s) + 1 - cut
        /\ \A i \in DOMAIN s : s[i].age >= e.age <=> i <= k
        /\ \A i \in 1..Len(r) :
             r[i] = IF i + cut <= k THEN s[i + cut]
                    ELSE IF i + cut = k + 1 THEN e ELSE s[i + cut - 1]
  BY InsertShape
<1> HIDE DEF r
<1>2. /\ Len(s) \in Nat /\ DOMAIN s = 1..Len(s) /\ \A i \in 1..Len(s) : s[i].age \in Nat
      /\ Len(r) \in Nat /\ DOMAIN r = 1..Len(r) /\ \A i \in 1..Len(r) : r[i].age \in Nat
      /\ e.age \in Nat /\ MaxGroups \in Nat \ {0}
  BY <1>1, EntryFields
<1>3. cut <= Len(s)
  BY <1>1, <1>2
<1>4. ASSUME NEW i \in 1..Len(r)
      PROVE  \/ i + cut <= k /\ i + cut \in 1..Len(s) /\ r[i] = s[i + cut]
             \/ i + cut = k + 1 /\ r[i] = e
             \/ i + cut > k + 1 /\ i + cut - 1 \in 1..Len(s) /\ r[i] = s[i + cut - 1]
  <2>0. Len(r) = Len(s) + 1 - cut /\ Len(r) \in Nat /\ Len(s) \in Nat
    BY <1>1, <1>2
  <2>1. i \in Nat /\ i >= 1 /\ i + cut <= Len(s) + 1
    BY <2>0
  <2>2. i + cut <= k \/ i + cut = k + 1 \/ i + cut > k + 1
    BY <2>1
  <2>3. r[i] = IF i + cut <= k THEN s[i + cut]
               ELSE IF i + cut = k + 1 THEN e ELSE s[i + cut - 1]
    BY <1>1
  <2>4. CASE i + cut <= k
    BY <1>2, <2>1, <2>3, <2>4
  <2>5. CASE i + cut = k + 1
    <3>1. ~(i + cut <= k)
      BY <2>5
    <3> QED BY <2>3, <2>5, <3>1
  <2>6. CASE i + cut > k + 1
    <3>1. ~(i + cut <= k) /\ i + cut # k + 1
      BY <2>1, <2>6
    <3>2. i + cut - 1 \in 1..Len(s)
      BY <1>2, <2>1, <2>6
    <3> QED BY <2>3, <2>6, <3>1, <3>2
  <2> QED BY <2>2, <2>4, <2>5, <2>6
<1>5. Sorted(r)
  <2>1. SUFFICES ASSUME NEW i \in 1..Len(r), NEW j \in 1..Len(r), i < j
                 PROVE  r[i].age >= r[j].age
    BY <1>2 DEF Sorted
  <2>2. \A p, q \in 1..Len(s) : p < q => s[p].age >= s[q].age
    BY <1>2 DEF Sorted
  <2>3. \A p \in 1..Len(s) : s[p].age >= e.age <=> p <= k
    BY <1>1, <1>2
  <2>4. CASE i + cut <= k
    <3>1. r[i] = s[i + cut] /\ i + cut \in 1..Len(s)
      BY <1>4, <2>4
    <3>2. s[i + cut].age >= e.age
      BY <2>3, <2>4, <3>1
    <3>3. CASE j + cut <= k
      <4>1. r[j] = s[j + cut] /\ j + cut \in 1..Len(s)
        BY <1>4, <3>3
      <4> QED BY <2>1, <2>2, <3>1, <4>1
    <3>4. CASE j + cut = k + 1
      <4>1. r[j] = e
        BY <1>4, <3>4
      <4> QED BY <3>1, <3>2, <4>1
    <3>5. CASE j + cut > k + 1
      <4>1. r[j] = s[j + cut - 1] /\ j + cut - 1 \in 1..Len(s)
        BY <1>4, <3>5
      <4>2. i + cut < j + cut - 1
        BY <2>4, <3>5
      <4> QED BY <2>2, <3>1, <4>1, <4>2
    <3> QED BY <3>3, <3>4, <3>5
  <2>5. CASE i + cut = k + 1
    <3>1. r[i] = e
      BY <1>4, <2>5
    <3>2. j + cut > k + 1
      BY <2>1, <2>5
    <3>3. r[j] = s[j + cut - 1] /\ j + cut - 1 \in 1..Len(s)
      BY <1>4, <3>2
    <3>4. ~(j + cut - 1 <= k)
      BY <3>2
    <3>5. ~(s[j + cut - 1].age >= e.age)
      BY <2>3, <3>3, <3>4
    <3> QED BY <1>2, <3>1, <3>3, <3>5
  <2>6. CASE i + cut > k + 1
    <3>1. r[i] = s[i + cut - 1] /\ i + cut - 1 \in 1..Len(s)
      BY <1>4, <2>6
    <3>2. j + cut > k + 1
      BY <2>1, <2>6
    <3>3. r[j] = s[j + cut - 1] /\ j + cut - 1 \in 1..Len(s)
      BY <1>4, <3>2
    <3>4. i + cut - 1 < j + cut - 1
      BY <2>1
    <3> QED BY <2>2, <3>1, <3>3, <3>4
  <2> QED BY <2>4, <2>5, <2>6
<1>6. Range(r) \subseteq Range(s) \cup {e}
  BY <1>2, <1>4 DEF Range
<1>7. ASSUME Distinct(s), \A i \in DOMAIN s : s[i].msg # e.msg PROVE Distinct(r)
  <2>1. SUFFICES ASSUME NEW i \in 1..Len(r), NEW j \in 1..Len(r), r[i].msg = r[j].msg
                 PROVE  i = j
    BY <1>2 DEF Distinct
  <2>2. \A p, q \in 1..Len(s) : s[p].msg = s[q].msg => p = q
    BY <1>2, <1>7 DEF Distinct
  <2>3. \A p \in 1..Len(s) : s[p].msg # e.msg
    BY <1>2, <1>7
  <2>4. CASE i + cut <= k
    <3>1. r[i] = s[i + cut] /\ i + cut \in 1..Len(s)
      BY <1>4, <2>4
    <3>2. r[j] # e /\ j + cut # k + 1
      BY <1>4, <2>1, <2>3, <3>1
    <3>3. CASE j + cut <= k
      <4>1. r[j] = s[j + cut] /\ j + cut \in 1..Len(s)
        BY <1>4, <3>3
      <4>2. i + cut = j + cut
        BY <2>1, <2>2, <3>1, <4>1
      <4> QED BY <4>2
    <3>4. CASE j + cut > k + 1
      <4>1. r[j] = s[j + cut - 1] /\ j + cut - 1 \in 1..Len(s)
        BY <1>4, <3>4
      <4>2. i + cut = j + cut - 1
        BY <2>1, <2>2, <3>1, <4>1
      <4> QED BY <2>4, <3>4, <4>2
    <3> QED BY <3>2, <3>3, <3>4
  <2>5. CASE i + cut = k + 1
    <3>1. r[i] = e
      BY <1>4, <2>5
    <3>2. j + cut = k + 1
      BY <1>4, <2>1, <2>3, <3>1
    <3> QED BY <2>5, <3>2
  <2>6. CASE i + cut > k + 1
    <3>1. r[i] = s[i + cut - 1] /\ i + cut - 1 \in 1..Len(s)
      BY <1>4, <2>6
    <3>2. r[j] # e /\ j + cut # k + 1
      BY <1>4, <2>1, <2>3, <3>1
    <3>3. CASE j + cut <= k
      <4>1. r[j] = s[j + cut] /\ j + cut \in 1..Len(s)
        BY <1>4, <3>3
      <4>2. i + cut - 1 = j + cut
        BY <2>1, <2>2, <3>1, <4>1
      <4> QED BY <2>6, <3>3, <4>2
    <3>4. CASE j + cut > k + 1
      <4>1. r[j] = s[j + cut - 1] /\ j + cut - 1 \in 1..Len(s)
        BY <1>4, <3>4
      <4>2. i + cut - 1 = j + cut - 1
        BY <2>1, <2>2, <3>1, <4>1
      <4> QED BY <4>2
    <3> QED BY <3>2, <3>3, <3>4
  <2> QED BY <2>4, <2>5, <2>6
<1>8. ASSUME NEW a \in Int, cut \in 1..Len(s), s[cut].age <= a
      PROVE  FullUpTo(r, a)
  <2>1. Len(r) = MaxGroups
    BY <1>1, <1>2, <1>8
  <2>2. \A p, q \in 1..Len(s) : p < q => s[p].age >= s[q].age
    BY <1>2 DEF Sorted
  <2>3. \A p \in 1..Len(s) : p >= cut => s[p].age <= a
    BY <1>2, <1>8, <2>2
  <2>4. ASSUME NEW i \in 1..Len(r) PROVE r[i].age <= a
    <3>1. CASE i + cut <= k
      BY <1>4, <2>3, <3>1
    <3>2. CASE i + cut = k + 1
      <4>1. cut <= k /\ r[i] = e
        BY <1>4, <3>2
      <4>2. s[cut].age >= e.age
        BY <1>1, <1>2, <1>8, <4>1
      <4> QED BY <1>2, <1>8, <4>1, <4>2
    <3>3. CASE i + cut > k + 1
      <4>1. r[i] = s[i + cut - 1] /\ i + cut - 1 \in 1..Len(s) /\ i + cut - 1 >= cut
        BY <1>4, <3>3
      <4> QED BY <2>3, <4>1
    <3> QED BY <3>1, <3>2, <3>3
  <2> QED BY <1>2, <2>1, <2>4 DEF FullUpTo
<1>9. e \in Range(r) \/ FullUpTo(r, e.age)
  <2>1. CASE k >= cut
    <3>1. k + 1 - cut \in 1..Len(r) /\ (k + 1 - cut) + cut = k + 1
      BY <1>1, <1>2, <2>1
    <3>2. r[k + 1 - cut] = e
      BY <1>4, <3>1
    <3> QED BY <1>2, <3>1, <3>2 DEF Range
  <2>2. CASE k < cut
    <3>1. cut \in 1..Len(s) /\ ~(cut <= k)
      BY <1>2, <1>3, <2>2
    <3>2. ~(s[cut].age >= e.age) /\ s[cut].age \in Nat /\ e.age \in Nat
      BY <1>1, <1>2, <3>1
    <3>3. s[cut].age <= e.age
      BY <3>2
    <3> QED BY <1>2, <1>8, <3>1, <3>3
  <2> QED BY <2>1, <2>2
<1>10. ASSUME NEW j \in 1..Len(s) PROVE s[j] \in Range(r) \/ FullUpTo(r, s[j].age)
  <2>1. CASE j <= cut
    <3>1. cut \in 1..Len(s) /\ s[cut].age <= s[j].age
      BY <1>2, <1>3, <2>1 DEF Sorted
    <3> QED BY <1>2, <1>8, <3>1
  <2>2. CASE j > cut /\ j <= k
    <3>1. j - cut \in 1..Len(r) /\ (j - cut) + cut = j
      BY <1>1, <1>2, <2>2
    <3>2. r[j - cut] = s[j]
      BY <1>4, <2>2, <3>1
    <3> QED BY <1>2, <3>1, <3>2 DEF Range
  <2>3. CASE j > cut /\ j > k
    <3>1. j + 1 - cut \in 1..Len(r) /\ (j + 1 - cut) + cut = j + 1 /\ (j + 1) - 1 = j
      BY <1>1, <1>2, <2>3
    <3>2. (j + 1 - cut) + cut > k + 1
      BY <2>3, <3>1
    <3>3. r[j + 1 - cut] = s[j]
      BY <1>4, <3>1, <3>2
    <3> QED BY <1>2, <3>1, <3>3 DEF Range
  <2> QED BY <2>1, <2>2, <2>3
<1>11. ASSUME NEW x \in Range(s) \cup {e} PROVE x \in Range(r) \/ FullUpTo(r, x.age)
  <2>1. CASE x = e
    BY <1>9, <2>1
  <2>2. CASE x \in Range(s)
    <3>1. PICK j \in 1..Len(s) : x = s[j]
      BY <1>2, <2>2 DEF Range
    <3> QED BY <1>10, <3>1
  <2> QED BY <2>1, <2>2
<1>12. ASSUME NEW a \in Int, FullUpTo(s, a) PROVE FullUpTo(r, a)
  <2>1. cut = 1 /\ 1 \in 1..Len(s) /\ s[1].age <= a
    BY <1>1, <1>2, <1>12 DEF FullUpTo
  <2> QED BY <1>8, <2>1
<1>13. Len(r) <= MaxGroups
  BY <1>1, <1>2
<1> QED BY <1>1, <1>5, <1>6, <1>7, <1>11, <1>12, <1>13 DEF r

-----------------------------------------------------------------------------
(* A batch goes into the buffer.                                           *)

LEMMA MaxIsLargest ==
  ASSUME NEW n \in Nat, NEW u \in SUBSET (1..n), u # {}
  PROVE  Max(u) \in u /\ \A y \in u : y <= Max(u)
<1> DEFINE Bound == {k \in Nat : \A y \in u : y <= k}
<1>1. n \in Bound
  OBVIOUS
<1>2. PICK m \in Bound : \A k \in Bound : m <= k
  <2>1. Bound \in SUBSET Nat /\ Bound # {}
    BY <1>1
  <2> HIDE DEF Bound
  <2> QED BY <2>1, Least
<1>3. m \in Nat /\ \A y \in u : y <= m
  BY <1>2
<1>4. m \in u
  <2>1. SUFFICES ASSUME m \notin u PROVE FALSE
    OBVIOUS
  <2>2. m # 0
    <3>1. PICK y \in u : TRUE
      OBVIOUS
    <3>2. y \in 1..n /\ y <= m
      BY <1>3, <3>1
    <3> QED BY <3>2
  <2>3. m - 1 \in Nat /\ \A y \in u : y <= m - 1
    BY <1>3, <2>1, <2>2
  <2>4. m - 1 \in Bound
    BY <2>3
  <2> QED BY <1>2, <1>3, <2>4
<1>5. \E x \in u : \A y \in u : x >= y
  BY <1>3, <1>4
<1>6. Max(u) \in u /\ \A y \in u : Max(u) >= y
  BY <1>5 DEF Max
<1> QED BY <1>6

\* h is the recursive function behind the fold over the first n elements of b.
Folds(h, s, b, n) ==
  h = [u \in SUBSET (1..n) |->
         IF u = {} THEN s ELSE Insert(h[u \ {Max(u)}], b[Max(u)])]

\* There is such a function.
LEMMA FoldExists ==
  ASSUME NEW s, NEW b, NEW len \in Nat
  PROVE  \E h : Folds(h, s, b, len)
<1> DEFINE T == {n \in Nat : \E h : Folds(h, s, b, n)}
<1>1. 0 \in T
  <2> DEFINE h == [u \in SUBSET (1..0) |-> s]
  <2>1. \A u \in SUBSET (1..0) : u = {}
    OBVIOUS
  <2>2. Folds(h, s, b, 0)
    BY <2>1 DEF Folds
  <2> QED BY <2>2
<1>2. ASSUME NEW n \in T PROVE n + 1 \in T
  <2>1. PICK h : Folds(h, s, b, n)
    BY <1>2
  <2>2. n \in Nat
    BY <1>2
  <2> DEFINE g == [u \in SUBSET (1..n + 1) |->
                     IF n + 1 \in u THEN Insert(h[u \ {n + 1}], b[n + 1]) ELSE h[u]]
  <2>3. \A u \in SUBSET (1..n) : u \in SUBSET (1..n + 1) /\ n + 1 \notin u
    BY <2>2
  <2>4. \A u \in SUBSET (1..n) : g[u] = h[u]
    BY <2>3
  <2>5. ASSUME NEW u \in SUBSET (1..n + 1)
        PROVE  g[u] = IF u = {} THEN s ELSE Insert(g[u \ {Max(u)}], b[Max(u)])
    <3>1. CASE n + 1 \in u
      <4>1. Max(u) = n + 1
        <5> HIDE DEF g, T
        <5>1. n + 1 \in Nat /\ u # {}
          BY <2>2, <3>1
        <5>2. Max(u) \in u /\ \A y \in u : y <= Max(u)
          BY <5>1, MaxIsLargest
        <5>3. Max(u) \in 1..n + 1 /\ n + 1 <= Max(u)
          BY <3>1, <5>2
        <5> QED BY <2>2, <5>3
      <4>2. u \ {n + 1} \in SUBSET (1..n)
        BY <2>2
      <4>3. g[u] = Insert(h[u \ {n + 1}], b[n + 1])
        BY <3>1
      <4> HIDE DEF g
      <4> QED BY <2>4, <3>1, <4>1, <4>2, <4>3
    <3>2. CASE n + 1 \notin u
      <4>1. u \in SUBSET (1..n)
        BY <2>2, <3>2
      <4>2. h[u] = IF u = {} THEN s ELSE Insert(h[u \ {Max(u)}], b[Max(u)])
        BY <2>1, <4>1 DEF Folds
      <4>3. u \ {Max(u)} \in SUBSET (1..n)
        BY <4>1
      <4> HIDE DEF g
      <4> QED BY <2>4, <4>1, <4>2, <4>3
    <3> QED BY <3>1, <3>2
  <2>6. Folds(g, s, b, n + 1)
    <3>1. g = [u \in SUBSET (1..n + 1) |-> g[u]]
      OBVIOUS
    <3> HIDE DEF g
    <3>2. [u \in SUBSET (1..n + 1) |-> g[u]]
            = [u \in SUBSET (1..n + 1) |->
                 IF u = {} THEN s ELSE Insert(g[u \ {Max(u)}], b[Max(u)])]
      BY <2>5
    <3> QED BY <3>1, <3>2 DEF Folds
  <2> HIDE DEF g
  <2> QED BY <2>2, <2>6
<1>3. T \in SUBSET Nat
  OBVIOUS
<1>4. T = Nat
  <2> HIDE DEF T
  <2> QED BY <1>1, <1>2, <1>3, Induction
<1>5. len \in T
  BY <1>4
<1> QED BY <1>5

\* The buffer that AddAll leaves.
Put(s, b) == FoldLeft(Insert, s, b)

\* What a batch is put back by: one Insert after the other.
LEMMA FoldWalk ==
  ASSUME NEW s, NEW b \in Seq(Entry)
  PROVE  \E g : /\ g[0] = s
                /\ \A n \in 1..Len(b) : g[n] = Insert(g[n - 1], b[n])
                /\ Put(s, b) = g[Len(b)]
<1>1. Len(b) \in Nat /\ DOMAIN b = 1..Len(b)
  OBVIOUS
<1> DEFINE iter == CHOOSE h : Folds(h, s, b, Len(b))
           g == [n \in 0..Len(b) |-> iter[1..n]]
<1>2. Put(s, b) = iter[1..Len(b)]
  BY <1>1 DEF Put, FoldLeft, MapThenFoldSet, Folds
<1>3. Folds(iter, s, b, Len(b))
  BY <1>1, FoldExists
<1>4. \A u \in SUBSET (1..Len(b)) :
        iter[u] = IF u = {} THEN s ELSE Insert(iter[u \ {Max(u)}], b[Max(u)])
  <2> HIDE DEF iter
  <2> QED BY <1>1, <1>3 DEF Folds
<1> HIDE DEF iter
<1>5. g[0] = s
  <2>1. 1..0 = {} /\ 0 \in 0..Len(b) /\ {} \in SUBSET (1..Len(b))
    BY <1>1
  <2> QED BY <1>4, <2>1
<1>6. ASSUME NEW n \in 1..Len(b) PROVE g[n] = Insert(g[n - 1], b[n])
  <2>1. n \in Nat /\ n - 1 \in 0..Len(b) /\ n \in 0..Len(b) /\ n \in 1..n
    BY <1>1
  <2>2. 1..n \in SUBSET (1..Len(b)) /\ 1..n # {}
    <3>1. n <= Len(b) /\ Len(b) \in Nat
      BY <1>1
    <3>2. \A y \in 1..n : y \in 1..Len(b)
      BY <2>1, <3>1
    <3> QED BY <2>1, <3>2
  <2>3. Max(1..n) = n
    <3>1. Max(1..n) \in 1..n /\ n <= Max(1..n)
      BY <2>1, <2>2, MaxIsLargest
    <3> QED BY <2>1, <3>1
  <2>4. (1..n) \ {n} = 1..n - 1
    BY <2>1
  <2>5. iter[1..n] = Insert(iter[1..n - 1], b[n])
    BY <1>4, <2>2, <2>3, <2>4
  <2> QED BY <2>1, <2>5
<1>7. g[Len(b)] = iter[1..Len(b)]
  BY <1>1
<1> HIDE DEF g
<1> QED BY <1>2, <1>5, <1>6, <1>7

\* A batch that is put back: the buffer stays ordered, holds a message once, has
\* nothing but what it had and what came back, and gives up the oldest only.
LEMMA PutFacts ==
  ASSUME NEW s \in Seq(Entry), Sorted(s), NEW b \in Seq(Entry)
  PROVE  LET r == Put(s, b)
         IN /\ r \in Seq(Entry)
            /\ Sorted(r)
            /\ Range(r) \subseteq Range(s) \cup Range(b)
            /\ Distinct(s) /\ Distinct(b) /\ MsgsOf(s) \cap MsgsOf(b) = {} => Distinct(r)
            /\ \A x \in Range(s) \cup Range(b) : x \in Range(r) \/ FullUpTo(r, x.age)
            /\ Len(s) <= MaxGroups => Len(r) <= MaxGroups
<1>1. PICK g : /\ g[0] = s
               /\ \A n \in 1..Len(b) : g[n] = Insert(g[n - 1], b[n])
               /\ Put(s, b) = g[Len(b)]
  BY FoldWalk
<1>2. /\ Len(b) \in Nat /\ DOMAIN b = 1..Len(b) /\ \A i \in DOMAIN b : b[i] \in Entry
      /\ \A x \in Entry : x.age \in Int
      /\ DOMAIN s = 1..Len(s) /\ \A i \in DOMAIN s : s[i] \in Entry
  BY EntryFields
<1> DEFINE Been(n) == Range(s) \cup {b[j] : j \in 1..n}
           Apart0 == Distinct(s) /\ Distinct(b) /\ MsgsOf(s) \cap MsgsOf(b) = {}
           Good(n) == /\ g[n] \in Seq(Entry)
                      /\ Sorted(g[n])
                      /\ Range(g[n]) \subseteq Been(n)
                      /\ Apart0 => Distinct(g[n])
                      /\ \A x \in Been(n) : x \in Range(g[n]) \/ FullUpTo(g[n], x.age)
                      /\ Len(s) <= MaxGroups => Len(g[n]) <= MaxGroups
           T == {n \in Nat : n <= Len(b) => Good(n)}
<1>3. 0 \in T
  <2>1. Been(0) = Range(s)
    OBVIOUS
  <2>2. Good(0)
    <3> HIDE DEF Been
    <3> QED BY <1>1, <2>1
  <2> QED BY <2>2
<1>4. ASSUME NEW n \in T PROVE n + 1 \in T
  <2>1. n \in Nat /\ (n <= Len(b) => Good(n))
    BY <1>4
  <2> HIDE DEF T
  <2>2. SUFFICES ASSUME n + 1 <= Len(b) PROVE Good(n + 1)
    BY <2>1 DEF T
  <2>3. Good(n)
    BY <1>2, <2>1, <2>2
  <2>4. n + 1 \in 1..Len(b) /\ (n + 1) - 1 = n
    BY <1>2, <2>1, <2>2
  <2>5. b[n + 1] \in Entry /\ g[n + 1] = Insert(g[n], b[n + 1])
    BY <1>1, <1>2, <2>4
  <2> DEFINE e == b[n + 1]
             q == g[n]
             r == g[n + 1]
  <2>6. Been(n + 1) = Been(n) \cup {e}
    <3>1. 1..n + 1 = (1..n) \cup {n + 1}
      BY <2>1
    <3> QED BY <3>1
  <2>7. q \in Seq(Entry) /\ Sorted(q) /\ e \in Entry /\ r = Insert(q, e)
    BY <2>3, <2>5
  <2>8. /\ Range(q) \subseteq Been(n) /\ (Apart0 => Distinct(q))
        /\ \A x \in Been(n) : x \in Range(q) \/ FullUpTo(q, x.age)
    BY <2>3
  <2>9. \A x \in Been(n) : x \in Entry
    <3>1. \A j \in 1..n : j \in 1..Len(b)
      BY <1>2, <2>1, <2>2
    <3> QED BY <1>2, <3>1 DEF Range
  <2>10. ASSUME Apart0 PROVE \A i \in DOMAIN q : q[i].msg # e.msg
    <3>1. SUFFICES ASSUME NEW x \in Been(n) PROVE x.msg # e.msg
      BY <2>8 DEF Range
    <3>2. CASE x \in Range(s)
      <4>1. x.msg \in MsgsOf(s) /\ e.msg \in MsgsOf(b)
        BY <1>2, <2>4, <3>2 DEF MsgsOf, Range
      <4> QED BY <2>10, <4>1
    <3>3. CASE x \in {b[j] : j \in 1..n}
      <4>1. PICK j \in 1..n : x = b[j]
        BY <3>3
      <4>2. j \in DOMAIN b /\ n + 1 \in DOMAIN b /\ j # n + 1
        BY <1>2, <2>1, <2>4
      <4> QED BY <2>10, <4>1, <4>2 DEF Distinct
    <3> QED BY <3>2, <3>3
  <2> HIDE DEF e, q, r, Been, Apart0
  <2>11. /\ r \in Seq(Entry) /\ Sorted(r) /\ Range(r) \subseteq Range(q) \cup {e}
         /\ Distinct(q) /\ (\A i \in DOMAIN q : q[i].msg # e.msg) => Distinct(r)
         /\ \A x \in Range(q) \cup {e} : x \in Range(r) \/ FullUpTo(r, x.age)
         /\ \A a \in Int : FullUpTo(q, a) => FullUpTo(r, a)
         /\ Len(r) <= MaxGroups
    BY <2>7, InsertFacts
  <2>12. ASSUME NEW x \in Been(n + 1) PROVE x \in Range(r) \/ FullUpTo(r, x.age)
    <3>1. CASE x \in Range(q) \cup {e}
      BY <2>11, <3>1
    <3>2. CASE x \notin Range(q) \cup {e}
      <4>1. x \in Been(n) /\ FullUpTo(q, x.age) /\ x.age \in Int
        BY <1>2, <2>6, <2>8, <2>9, <3>2
      <4> QED BY <2>11, <4>1
    <3> QED BY <3>1, <3>2
  <2>13. Range(r) \subseteq Been(n + 1) /\ (Apart0 => Distinct(r))
    BY <2>6, <2>8, <2>10, <2>11
  <2> QED BY <2>11, <2>12, <2>13 DEF r
<1>5. T \in SUBSET Nat
  OBVIOUS
<1>6. T = Nat
  <2> HIDE DEF T
  <2> QED BY <1>3, <1>4, <1>5, Induction
<1>7. Good(Len(b))
  <2>1. Len(b) \in T /\ Len(b) <= Len(b)
    BY <1>2, <1>6
  <2> HIDE DEF Good
  <2> QED BY <2>1
<1>8. Been(Len(b)) = Range(s) \cup Range(b)
  BY <1>2 DEF Range
<1>9. Put(s, b) = g[Len(b)]
  BY <1>1
<1> HIDE DEF Been
<1> QED BY <1>7, <1>8, <1>9

-----------------------------------------------------------------------------
(* The inductive invariant.                                                *)

\* The buffer and every batch are ordered and hold a message once, and the buffer
\* is no larger than it may be.
Tidy ==
  /\ Sorted(groups) /\ Distinct(groups) /\ Len(groups) <= MaxGroups
  /\ \A k \in DOMAIN queue : Sorted(queue[k].batch) /\ Distinct(queue[k].batch)

\* The buffer and the batches share no message.
Apart ==
  /\ \A k \in DOMAIN queue : MsgsOf(groups) \cap MsgsOf(queue[k].batch) = {}
  /\ \A k, l \in DOMAIN queue :
       k # l => MsgsOf(queue[k].batch) \cap MsgsOf(queue[l].batch) = {}

\* The age of an entry, which add() hands from the batch to the buffer and back, is
\* the time since the message was first deferred.
AgesAreTrue ==
  /\ \A i \in DOMAIN groups : groups[i].age = waited[groups[i].msg]
  /\ \A k \in DOMAIN queue : queue[k].kind = "flush" =>
       \A i \in DOMAIN queue[k].batch :
         queue[k].batch[i].age = waited[queue[k].batch[i].msg]

\* The task of a message has that message, unless it only says that it is dropped.
MsgTasks ==
  \A k \in DOMAIN queue : queue[k].kind = "msg" =>
    /\ Len(queue[k].batch) = 1 \/ (queue[k].batch = <<>> /\ k = 1 /\ at \in {"trigger", "turn"})
    /\ \A i \in DOMAIN queue[k].batch : queue[k].batch[i].age = 0

\* A task in _tasks has not ended.
Scheduled == registered => sleeping # NoTask

IInv ==
  /\ TypeOK /\ Tidy /\ Apart /\ AgesAreTrue /\ MsgTasks /\ Scheduled /\ NothingStuck

-----------------------------------------------------------------------------
(* Steps that take tasks from the lock, or messages from a task.           *)

LEMMA TaskFields ==
  /\ \A t \in Task : t.kind \in {"msg", "flush"} /\ t.batch \in Seq(Entry)
  /\ \A q \in Seq(Task) :
       Len(q) \in Nat /\ DOMAIN q = 1..Len(q) /\ \A k \in DOMAIN q : q[k] \in Task
  /\ \A k \in {"msg", "flush"}, b \in Seq(Entry) : [kind |-> k, batch |-> b] \in Task
<1>1. \A t \in Task : t.kind \in {"msg", "flush"} /\ t.batch \in Seq(Entry)
  BY DEF Task
<1>2. \A q \in Seq(Task) :
        Len(q) \in Nat /\ DOMAIN q = 1..Len(q) /\ \A k \in DOMAIN q : q[k] \in Task
  OBVIOUS
<1>3. \A k \in {"msg", "flush"}, b \in Seq(Entry) : [kind |-> k, batch |-> b] \in Task
  BY DEF Task
<1> QED BY <1>1, <1>2, <1>3

LEMMA EmptyFacts ==
  /\ <<>> \in Seq(Entry) /\ MsgsOf(<<>>) = {} /\ Sorted(<<>>) /\ Distinct(<<>>)
  /\ DOMAIN <<>> = {} /\ Len(<<>>) <= MaxGroups
BY EntryFields DEF MsgsOf, Sorted, Distinct

\* Every task was there before, with the same messages or with none.
Shrinks ==
  \E from \in [DOMAIN queue' -> DOMAIN queue] :
    /\ \A k, l \in DOMAIN queue' : from[k] = from[l] => k = l
    /\ \A k \in DOMAIN queue' :
         /\ queue'[k].kind = queue[from[k]].kind
         /\ queue'[k].batch = queue[from[k]].batch \/ queue'[k].batch = <<>>

LEMMA ShrinkKeeps ==
  ASSUME Tidy, Apart, AgesAreTrue, Shrinks, waited' = waited,
         groups' = groups \/ groups' = <<>>
  PROVE  Tidy' /\ Apart' /\ AgesAreTrue' /\ Flushing' \subseteq Flushing
<1>1. PICK from \in [DOMAIN queue' -> DOMAIN queue] :
        /\ \A k, l \in DOMAIN queue' : from[k] = from[l] => k = l
        /\ \A k \in DOMAIN queue' :
             /\ queue'[k].kind = queue[from[k]].kind
             /\ queue'[k].batch = queue[from[k]].batch \/ queue'[k].batch = <<>>
  BY DEF Shrinks
<1>2. \A k \in DOMAIN queue' : from[k] \in DOMAIN queue
  OBVIOUS
<1>3. Tidy'
  BY <1>1, <1>2, EmptyFacts DEF Tidy
<1>4. Apart'
  <2>1. \A k \in DOMAIN queue' : MsgsOf(queue'[k].batch) \subseteq MsgsOf(queue[from[k]].batch)
    BY <1>1, EmptyFacts
  <2>2. MsgsOf(groups') \subseteq MsgsOf(groups)
    BY EmptyFacts
  <2>3. ASSUME NEW k \in DOMAIN queue' PROVE MsgsOf(groups') \cap MsgsOf(queue'[k].batch) = {}
    BY <1>2, <2>1, <2>2 DEF Apart
  <2>4. ASSUME NEW k \in DOMAIN queue', NEW l \in DOMAIN queue', k # l
        PROVE  MsgsOf(queue'[k].batch) \cap MsgsOf(queue'[l].batch) = {}
    <3>1. from[k] # from[l]
      BY <1>1, <2>4
    <3> QED BY <1>2, <2>1, <3>1 DEF Apart
  <2> QED BY <2>3, <2>4 DEF Apart
<1>5. AgesAreTrue'
  BY <1>1, <1>2, EmptyFacts DEF AgesAreTrue
<1>6. Flushing' \subseteq Flushing
  BY <1>1, <1>2, EmptyFacts DEF Flushing
<1> QED BY <1>3, <1>4, <1>5, <1>6

LEMMA SameShrinks ==
  ASSUME queue' = queue
  PROVE  Shrinks
<1> DEFINE from == [k \in DOMAIN queue |-> k]
<1>1. from \in [DOMAIN queue' -> DOMAIN queue]
  OBVIOUS
<1> QED BY <1>1 DEF Shrinks

LEMMA UnlockFacts ==
  ASSUME TypeOK, MsgTasks, queue # <<>>, Unlock
  PROVE  /\ queue' \in Seq(Task) /\ Len(queue') = Len(queue) - 1
         /\ \A k \in DOMAIN queue' : k + 1 \in DOMAIN queue /\ queue'[k] = queue[k + 1]
         /\ at' \in {"idle", "admit"} /\ (at' = "idle" <=> queue' = <<>>)
         /\ Shrinks
         /\ MsgTasks'
<1>1. queue \in Seq(Task) /\ Len(queue) \in Nat /\ DOMAIN queue = 1..Len(queue) /\ Len(queue) # 0
  BY DEF TypeOK
<1>2. /\ queue' \in Seq(Task) /\ Len(queue') = Len(queue) - 1
      /\ \A k \in 1..Len(queue) - 1 : queue'[k] = queue[k + 1]
  BY <1>1 DEF Unlock
<1>3. DOMAIN queue' = 1..Len(queue) - 1
  BY <1>2
<1>4. \A k \in DOMAIN queue' : k + 1 \in DOMAIN queue /\ queue'[k] = queue[k + 1] /\ k + 1 # 1
  BY <1>1, <1>2, <1>3
<1>5. at' \in {"idle", "admit"} /\ (at' = "idle" <=> queue' = <<>>)
  <2>1. queue' = <<>> <=> Len(queue) = 1
    BY <1>1, <1>2
  <2> QED BY <2>1 DEF Unlock
<1>6. Shrinks
  <2> DEFINE from == [k \in DOMAIN queue' |-> k + 1]
  <2>1. from \in [DOMAIN queue' -> DOMAIN queue]
    BY <1>4
  <2>2. \A k, l \in DOMAIN queue' : from[k] = from[l] => k = l
    BY <1>1, <1>3
  <2>3. \A k \in DOMAIN queue' : queue'[k] = queue[from[k]]
    BY <1>4
  <2> HIDE DEF from
  <2> QED BY <2>1, <2>2, <2>3 DEF Shrinks
<1>7. MsgTasks'
  BY <1>4 DEF MsgTasks
<1> QED BY <1>2, <1>4, <1>5, <1>6, <1>7

\* A handler that is cancelled while it waits leaves the queue.
LEMMA RemoveFacts ==
  ASSUME TypeOK, MsgTasks, NEW i \in DOMAIN queue, i # 1,
         queue' = RemoveAt(queue, i), at' = at
  PROVE  /\ queue' \in Seq(Task) /\ queue' # <<>> /\ queue'[1] = queue[1]
         /\ Shrinks /\ MsgTasks'
<1>1. /\ queue \in Seq(Task) /\ Len(queue) \in Nat /\ DOMAIN queue = 1..Len(queue)
      /\ i \in 1..Len(queue) /\ i > 1
  BY DEF TypeOK
<1> DEFINE head == SubSeq(queue, 1, i - 1)
           tail == SubSeq(queue, i + 1, Len(queue))
<1>2. head \in Seq(Task) /\ Len(head) = i - 1 /\ \A k \in 1..i - 1 : head[k] = queue[k]
  BY <1>1
<1>3. /\ tail \in Seq(Task) /\ Len(tail) = Len(queue) - i
      /\ \A k \in 1..Len(queue) - i : tail[k] = queue[i + k]
  BY <1>1
<1>4. queue' = head \o tail
  BY DEF RemoveAt
<1> HIDE DEF head, tail
<1>5. /\ queue' \in Seq(Task) /\ Len(queue') = Len(queue) - 1
      /\ DOMAIN queue' = 1..Len(queue) - 1
  <2>1. head \o tail \in Seq(Task) /\ Len(head \o tail) = Len(head) + Len(tail)
    BY <1>2, <1>3
  <2>2. Len(head) + Len(tail) = Len(queue) - 1
    BY <1>1, <1>2, <1>3
  <2>3. queue' \in Seq(Task) /\ Len(queue') = Len(queue) - 1
    BY <1>4, <2>1, <2>2
  <2> QED BY <2>3
<1>6. ASSUME NEW k \in 1..Len(queue) - 1
      PROVE  queue'[k] = IF k < i THEN queue[k] ELSE queue[k + 1]
  <2>1. CASE k < i
    <3>1. k \in 1..Len(head)
      BY <1>1, <1>2, <2>1
    <3>2. queue'[k] = head[k]
      BY <1>2, <1>3, <1>4, <3>1
    <3> QED BY <1>2, <2>1, <3>1, <3>2
  <2>2. CASE ~(k < i)
    <3>1. k - (i - 1) \in 1..Len(queue) - i /\ k > Len(head) /\ i + (k - (i - 1)) = k + 1
      BY <1>1, <1>2, <2>2
    <3>2. queue'[k] = tail[k - (i - 1)]
      <4>1. k \in Nat /\ k > Len(head) /\ k <= Len(head) + Len(tail)
        BY <1>1, <1>2, <1>3, <3>1
      <4>2. head \in Seq(Task) /\ tail \in Seq(Task)
        BY <1>2, <1>3
      <4>3. (head \o tail)[k] = tail[k - Len(head)]
        BY <4>1, <4>2
      <4> QED BY <1>2, <1>4, <4>3
    <3>3. tail[k - (i - 1)] = queue[i + (k - (i - 1))]
      BY <1>3, <3>1
    <3> QED BY <2>2, <3>1, <3>2, <3>3
  <2> QED BY <2>1, <2>2
<1> DEFINE from == [k \in DOMAIN queue' |-> IF k < i THEN k ELSE k + 1]
<1>7. from \in [DOMAIN queue' -> DOMAIN queue]
  BY <1>1, <1>5
<1>8. \A k, l \in DOMAIN queue' : from[k] = from[l] => k = l
  BY <1>1, <1>5
<1>9. \A k \in DOMAIN queue' : queue'[k] = queue[from[k]] /\ (from[k] = 1 => k = 1)
  BY <1>1, <1>5, <1>6
<1> HIDE DEF from
<1>10. Shrinks
  BY <1>7, <1>8, <1>9 DEF Shrinks
<1>11. MsgTasks'
  BY <1>7, <1>9 DEF MsgTasks
<1>12. queue' # <<>>
  BY <1>1, <1>5
<1>13. queue'[1] = queue[1]
  BY <1>1, <1>6
<1> QED BY <1>5, <1>10, <1>11, <1>12, <1>13

-----------------------------------------------------------------------------
(* A task comes to the lock.                                               *)

LEMMA EnqueueFacts ==
  ASSUME TypeOK, NEW t \in Task, Enqueue(t)
  PROVE  /\ queue' \in Seq(Task) /\ queue' # <<>>
         /\ DOMAIN queue' = DOMAIN queue \cup {Len(queue) + 1}
         /\ Len(queue) + 1 \notin DOMAIN queue
         /\ \A k \in DOMAIN queue : queue'[k] = queue[k]
         /\ queue'[Len(queue) + 1] = t
         /\ at' \in Places /\ at' # "idle"
         /\ at' = at \/ queue = <<>>
<1>1. queue \in Seq(Task) /\ Len(queue) \in Nat /\ DOMAIN queue = 1..Len(queue)
  BY DEF TypeOK
<1>2. queue' = Append(queue, t)
  BY DEF Enqueue
<1>3. /\ queue' \in Seq(Task) /\ Len(queue') = Len(queue) + 1
      /\ DOMAIN queue' = 1..Len(queue) + 1
      /\ \A k \in 1..Len(queue) : queue'[k] = queue[k]
      /\ queue'[Len(queue) + 1] = t
  BY <1>1, <1>2
<1>4. at' \in Places /\ at' # "idle" /\ (at' = at \/ queue = <<>>)
  BY DEF Enqueue, TypeOK, Places
<1>5. queue' # <<>>
  BY <1>1, <1>3
<1>6. DOMAIN queue' = DOMAIN queue \cup {Len(queue) + 1} /\ Len(queue) + 1 \notin DOMAIN queue
  BY <1>1, <1>3
<1> QED BY <1>1, <1>3, <1>4, <1>5, <1>6

LEMMA EnqueueKeeps ==
  ASSUME TypeOK, Tidy, Apart, AgesAreTrue, MsgTasks, NEW t \in Task, Enqueue(t),
         waited' = waited, groups' = groups \/ groups' = <<>>,
         Sorted(t.batch), Distinct(t.batch),
         MsgsOf(groups') \cap MsgsOf(t.batch) = {},
         \A k \in DOMAIN queue : MsgsOf(queue[k].batch) \cap MsgsOf(t.batch) = {},
         t.kind = "msg" => Len(t.batch) = 1 /\ \A i \in DOMAIN t.batch : t.batch[i].age = 0,
         t.kind = "flush" =>
           \A i \in DOMAIN t.batch : t.batch[i].age = waited[t.batch[i].msg]
  PROVE  /\ Tidy' /\ Apart' /\ AgesAreTrue' /\ MsgTasks'
         /\ t.kind = "msg" => Flushing' \subseteq Flushing
         /\ Flushing' \subseteq Flushing \cup MsgsOf(t.batch)
<1>1. /\ DOMAIN queue' = DOMAIN queue \cup {Len(queue) + 1}
      /\ Len(queue) + 1 \notin DOMAIN queue
      /\ \A k \in DOMAIN queue : queue'[k] = queue[k]
      /\ queue'[Len(queue) + 1] = t
      /\ at' = at \/ queue = <<>>
  BY EnqueueFacts
<1>2. \A k \in DOMAIN queue' :
        (k \in DOMAIN queue /\ queue'[k] = queue[k]) \/ queue'[k] = t
  BY <1>1
<1>3. Tidy'
  BY <1>2, EmptyFacts DEF Tidy
<1>4. Apart'
  <2>1. MsgsOf(groups') \subseteq MsgsOf(groups)
    BY EmptyFacts
  <2>2. ASSUME NEW k \in DOMAIN queue' PROVE MsgsOf(groups') \cap MsgsOf(queue'[k].batch) = {}
    BY <1>2, <2>1 DEF Apart
  <2>3. ASSUME NEW k \in DOMAIN queue', NEW l \in DOMAIN queue', k # l
        PROVE  MsgsOf(queue'[k].batch) \cap MsgsOf(queue'[l].batch) = {}
    <3>1. k \in DOMAIN queue \/ l \in DOMAIN queue
      BY <1>1, <2>3
    <3>2. CASE k \in DOMAIN queue /\ l \in DOMAIN queue
      BY <1>1, <2>3, <3>2 DEF Apart
    <3>3. CASE k \in DOMAIN queue /\ l \notin DOMAIN queue
      BY <1>1, <3>3
    <3>4. CASE k \notin DOMAIN queue /\ l \in DOMAIN queue
      BY <1>1, <3>4
    <3> QED BY <3>1, <3>2, <3>3, <3>4
  <2> QED BY <2>2, <2>3 DEF Apart
<1>5. AgesAreTrue'
  BY <1>2, EmptyFacts DEF AgesAreTrue
<1>6. MsgTasks'
  <2>1. ASSUME NEW k \in DOMAIN queue', queue'[k].kind = "msg"
        PROVE  /\ \/ Len(queue'[k].batch) = 1
                  \/ queue'[k].batch = <<>> /\ k = 1 /\ at' \in {"trigger", "turn"}
               /\ \A i \in DOMAIN queue'[k].batch : queue'[k].batch[i].age = 0
    <3>1. CASE queue'[k] = t
      BY <2>1, <3>1
    <3>2. CASE k \in DOMAIN queue /\ queue'[k] = queue[k]
      <4>1. queue # <<>>
        BY <3>2, EmptyFacts
      <4>2. at' = at
        BY <1>1, <4>1
      <4> QED BY <2>1, <3>2, <4>2 DEF MsgTasks
    <3> QED BY <1>2, <3>1, <3>2
  <2> QED BY <2>1 DEF MsgTasks
<1>7. Flushing' \subseteq Flushing \cup MsgsOf(t.batch)
  BY <1>2 DEF Flushing
<1>8. ASSUME t.kind = "msg" PROVE Flushing' \subseteq Flushing
  BY <1>2, <1>8 DEF Flushing
<1> QED BY <1>3, <1>4, <1>5, <1>6, <1>7, <1>8

-----------------------------------------------------------------------------
(* The steps that put nothing into the buffer.                             *)

\* What such a step leaves.
Calm ==
  /\ IInv'
  /\ Flushing' \subseteq Flushing
  /\ groups' = groups \/ groups' = <<>>

LEMMA StayKeeps ==
  ASSUME IInv, queue' = queue, waited' = waited, groups' = groups \/ groups' = <<>>,
         at' \in Places, at' = "idle" <=> at = "idle",
         at' = at \/ at' \in {"trigger", "turn"} \/ at \notin {"trigger", "turn"}
  PROVE  /\ Tidy' /\ Apart' /\ AgesAreTrue' /\ MsgTasks' /\ Flushing' \subseteq Flushing
         /\ queue' \in Seq(Task) /\ (at' = "idle" <=> queue' = <<>>)
<1>1. Shrinks
  BY SameShrinks
<1>2. Tidy' /\ Apart' /\ AgesAreTrue' /\ Flushing' \subseteq Flushing
  BY <1>1, ShrinkKeeps DEF IInv
<1>3. MsgTasks'
  BY DEF IInv, MsgTasks
<1> QED BY <1>2, <1>3 DEF IInv, TypeOK

LEMMA UnlockKeeps ==
  ASSUME IInv, queue # <<>>, Unlock, waited' = waited, groups' = groups \/ groups' = <<>>
  PROVE  /\ Tidy' /\ Apart' /\ AgesAreTrue' /\ MsgTasks' /\ Flushing' \subseteq Flushing
         /\ queue' \in Seq(Task) /\ (at' = "idle" <=> queue' = <<>>) /\ at' \in Places
<1>1. /\ queue' \in Seq(Task) /\ Shrinks /\ MsgTasks'
      /\ at' \in {"idle", "admit"} /\ (at' = "idle" <=> queue' = <<>>)
  BY UnlockFacts DEF IInv
<1>2. Tidy' /\ Apart' /\ AgesAreTrue' /\ Flushing' \subseteq Flushing
  BY <1>1, ShrinkKeeps DEF IInv
<1> QED BY <1>1, <1>2 DEF Places

LEMMA InboxSame ==
  ASSUME IInv, UNCHANGED inboxVars, life # "closing" \/ life' = life
  PROVE  /\ Scheduled' /\ NothingStuck'
         /\ groups' \in Seq(Entry) /\ sleeping' \in Delay \cup {NoTask} /\ registered' \in BOOLEAN
<1>1. Scheduled' /\ NothingStuck'
  BY DEF IInv, Scheduled, NothingStuck, inboxVars
<1> QED BY <1>1 DEF IInv, TypeOK, inboxVars

LEMMA ArriveCalm ==
  ASSUME IInv, NEW m \in Msg, Arrive(m)
  PROVE  Calm
<1>1. PICK e : e = [msg |-> m, age |-> 0]
  OBVIOUS
<1>2. PICK t : t = [kind |-> "msg", batch |-> <<e>>]
  OBVIOUS
<1>3. e \in Entry /\ e.msg = m /\ e.age = 0
  BY <1>1, EntryFields DEF Entry, Age
<1>4. t \in Task /\ t.kind = "msg" /\ t.batch = <<e>>
  BY <1>2, <1>3 DEF Task
<1>5. Enqueue(t) /\ waited' = waited /\ UNCHANGED <<life, inboxVars, otherTurn, announced>>
  BY <1>1, <1>2 DEF Arrive
<1>6. groups' = groups /\ m \notin Live
  BY <1>5 DEF inboxVars, Arrive
<1>7. /\ Len(<<e>>) = 1 /\ DOMAIN <<e>> = {1} /\ <<e>>[1] = e
      /\ Sorted(<<e>>) /\ Distinct(<<e>>) /\ MsgsOf(<<e>>) = {m}
  <2>1. Len(<<e>>) = 1 /\ DOMAIN <<e>> = {1} /\ <<e>>[1] = e
    OBVIOUS
  <2> QED BY <1>3, <2>1 DEF Sorted, Distinct, MsgsOf
<1>8. m \notin MsgsOf(groups) /\ \A k \in DOMAIN queue : m \notin MsgsOf(queue[k].batch)
  BY <1>6 DEF Live, Deferred
<1>9. Tidy' /\ Apart' /\ AgesAreTrue' /\ MsgTasks' /\ Flushing' \subseteq Flushing
  <2>1. MsgsOf(t.batch) = {m} /\ Sorted(t.batch) /\ Distinct(t.batch)
    BY <1>4, <1>7
  <2>2. MsgsOf(groups') \cap MsgsOf(t.batch) = {}
    BY <1>6, <1>8, <2>1
  <2>3. \A k \in DOMAIN queue : MsgsOf(queue[k].batch) \cap MsgsOf(t.batch) = {}
    BY <1>8, <2>1
  <2>4. Len(t.batch) = 1 /\ \A i \in DOMAIN t.batch : t.batch[i].age = 0
    BY <1>3, <1>4, <1>7
  <2>5. t.kind # "flush"
    BY <1>4
  <2>6. TypeOK /\ Tidy /\ Apart /\ AgesAreTrue /\ MsgTasks
    BY DEF IInv
  <2> QED BY <1>4, <1>5, <1>6, <2>1, <2>2, <2>3, <2>4, <2>5, <2>6, EnqueueKeeps
<1>10. queue' \in Seq(Task) /\ queue' # <<>> /\ at' \in Places /\ at' # "idle"
  BY <1>4, <1>5, EnqueueFacts DEF IInv
<1>11. /\ Scheduled' /\ NothingStuck'
       /\ groups' \in Seq(Entry) /\ sleeping' \in Delay \cup {NoTask} /\ registered' \in BOOLEAN
  BY <1>5, InboxSame
<1>12. TypeOK'
  BY <1>5, <1>10, <1>11 DEF IInv, TypeOK
<1> QED BY <1>6, <1>9, <1>11, <1>12 DEF Calm, IInv

\* Steps that only move the holder on, or let the next task in.
LEMMA HolderCalm ==
  ASSUME IInv, Admit \/ WindowOpen \/ Prepare \/ TakeTurn \/ TurnEnds
  PROVE  Calm
<1>1. /\ queue # <<>> /\ UNCHANGED inboxVars /\ waited' = waited
      /\ life' = life /\ otherTurn' = otherTurn
      /\ announced' \in Reason \cup {"none"}
  BY DEF Admit, WindowOpen, Prepare, TakeTurn, TurnEnds, Holds, IInv, TypeOK, Reason
<1>2. \/ Unlock
      \/ queue' = queue /\ at' \in {"window", "prepare"} /\ at \in {"admit", "window"}
      \/ queue' = queue /\ at' \in {"trigger", "turn"} /\ at # "idle"
  BY DEF Admit, WindowOpen, Prepare, TakeTurn, TurnEnds, Holds, GoesTo
<1>3. groups' = groups
  BY <1>1 DEF inboxVars
<1>4. /\ Tidy' /\ Apart' /\ AgesAreTrue' /\ MsgTasks' /\ Flushing' \subseteq Flushing
      /\ queue' \in Seq(Task) /\ (at' = "idle" <=> queue' = <<>>) /\ at' \in Places
  <2>1. CASE Unlock
    BY <1>1, <1>3, <2>1, UnlockKeeps
  <2>2. CASE ~Unlock
    <3>1. /\ queue' = queue /\ at' \in Places /\ (at' = "idle" <=> at = "idle")
          /\ at' \in {"trigger", "turn"} \/ at \notin {"trigger", "turn"}
      BY <1>2, <2>2 DEF Places
    <3> QED BY <1>1, <1>3, <3>1, StayKeeps
  <2> QED BY <2>1, <2>2
<1>5. /\ Scheduled' /\ NothingStuck'
      /\ groups' \in Seq(Entry) /\ sleeping' \in Delay \cup {NoTask} /\ registered' \in BOOLEAN
  BY <1>1, InboxSame
<1>6. TypeOK'
  BY <1>1, <1>4, <1>5 DEF IInv, TypeOK
<1> QED BY <1>3, <1>4, <1>5, <1>6 DEF Calm, IInv

\* The task that only says that its message is dropped has no messages any more.
LEMMA EmptiedFacts ==
  ASSUME TypeOK, MsgTasks, queue # <<>>,
         queue' = [queue EXCEPT ![1].batch = <<>>], at' = "trigger"
  PROVE  queue' \in Seq(Task) /\ queue' # <<>> /\ Shrinks /\ MsgTasks'
<1>1. queue \in Seq(Task) /\ 1 \in DOMAIN queue /\ queue[1] \in Task
  BY TaskFields, EmptyFacts DEF TypeOK
<1>2. PICK t : t = [queue[1] EXCEPT !.batch = <<>>]
  OBVIOUS
<1>3. t \in Task /\ t.kind = queue[1].kind /\ t.batch = <<>>
  BY <1>1, <1>2, EmptyFacts DEF Task
<1>4. queue' = [queue EXCEPT ![1] = t]
  BY <1>2
<1>5. /\ queue' \in Seq(Task) /\ DOMAIN queue' = DOMAIN queue /\ queue'[1] = t
      /\ \A k \in DOMAIN queue : k # 1 => queue'[k] = queue[k]
  BY <1>1, <1>3, <1>4
<1>6. Shrinks
  <2> DEFINE from == [k \in DOMAIN queue |-> k]
  <2>1. from \in [DOMAIN queue' -> DOMAIN queue]
    BY <1>5
  <2>2. \A k, l \in DOMAIN queue' : from[k] = from[l] => k = l
    BY <1>5
  <2>3. \A k \in DOMAIN queue' :
          /\ queue'[k].kind = queue[from[k]].kind
          /\ queue'[k].batch = queue[from[k]].batch \/ queue'[k].batch = <<>>
    BY <1>3, <1>5
  <2> HIDE DEF from
  <2> QED BY <2>1, <2>2, <2>3 DEF Shrinks
<1>7. MsgTasks'
  <2>1. ASSUME NEW k \in DOMAIN queue', queue'[k].kind = "msg"
        PROVE  /\ \/ Len(queue'[k].batch) = 1
                  \/ queue'[k].batch = <<>> /\ k = 1 /\ at' \in {"trigger", "turn"}
               /\ \A i \in DOMAIN queue'[k].batch : queue'[k].batch[i].age = 0
    <3>1. CASE k = 1
      BY <1>3, <1>5, <3>1, EmptyFacts
    <3>2. CASE k # 1
      <4>1. k \in DOMAIN queue /\ queue'[k] = queue[k]
        BY <1>5, <3>2
      <4> QED BY <2>1, <3>2, <4>1 DEF MsgTasks
    <3> QED BY <3>1, <3>2
  <2> QED BY <2>1 DEF MsgTasks
<1>8. queue' # <<>>
  BY <1>1, <1>5, EmptyFacts
<1> QED BY <1>5, <1>6, <1>7, <1>8

LEMMA ClosedCalm ==
  ASSUME IInv, NEW reason \in Reason \ {"open"}, ClosedForLong(reason)
  PROVE  Calm
<1>1. /\ queue # <<>> /\ at = "window" /\ UNCHANGED inboxVars /\ waited' = waited
      /\ life' = life /\ otherTurn' = otherTurn
      /\ announced' \in Reason \cup {"none"}
  BY DEF ClosedForLong, Holds, IInv, TypeOK
<1>2. groups' = groups
  BY <1>1 DEF inboxVars
<1>3. \/ Unlock
      \/ queue' = [queue EXCEPT ![1].batch = <<>>] /\ at' = "trigger"
  BY DEF ClosedForLong
<1>4. /\ Tidy' /\ Apart' /\ AgesAreTrue' /\ MsgTasks' /\ Flushing' \subseteq Flushing
      /\ queue' \in Seq(Task) /\ (at' = "idle" <=> queue' = <<>>) /\ at' \in Places
  <2>1. CASE Unlock
    BY <1>1, <1>2, <2>1, UnlockKeeps
  <2>2. CASE ~Unlock
    <3>1. queue' = [queue EXCEPT ![1].batch = <<>>] /\ at' = "trigger"
      BY <1>3, <2>2
    <3>2. queue' \in Seq(Task) /\ queue' # <<>> /\ Shrinks /\ MsgTasks'
      BY <1>1, <3>1, EmptiedFacts DEF IInv
    <3>3. Tidy' /\ Apart' /\ AgesAreTrue' /\ Flushing' \subseteq Flushing
      BY <1>1, <1>2, <3>2, ShrinkKeeps DEF IInv
    <3> QED BY <3>1, <3>2, <3>3 DEF Places
  <2> QED BY <2>1, <2>2
<1>5. /\ Scheduled' /\ NothingStuck'
      /\ groups' \in Seq(Entry) /\ sleeping' \in Delay \cup {NoTask} /\ registered' \in BOOLEAN
  BY <1>1, InboxSame
<1>6. TypeOK'
  BY <1>1, <1>4, <1>5 DEF IInv, TypeOK
<1> QED BY <1>2, <1>4, <1>5, <1>6 DEF Calm, IInv

\* A start, a stop, and a turn that came another way.
LEMMA LifeCalm ==
  ASSUME IInv, OtherTurn \/ Start \/ Stop \/ InboxCancels \/ InboxCloses \/ StopEnds
  PROVE  Calm
<1>1. /\ UNCHANGED lockVars /\ waited' = waited /\ announced' = announced
      /\ life' \in Life /\ otherTurn' \in BOOLEAN
      /\ groups' = groups \/ groups' = <<>>
  BY DEF OtherTurn, Start, Stop, InboxCancels, InboxCloses, StopEnds, inboxVars,
         IInv, TypeOK, Life
<1>2. queue' = queue /\ at' = at /\ at' \in Places
  BY <1>1 DEF lockVars, IInv, TypeOK
<1>3. /\ Tidy' /\ Apart' /\ AgesAreTrue' /\ MsgTasks' /\ Flushing' \subseteq Flushing
      /\ queue' \in Seq(Task) /\ (at' = "idle" <=> queue' = <<>>)
  BY <1>1, <1>2, StayKeeps
<1>4. /\ Scheduled' /\ NothingStuck'
      /\ groups' \in Seq(Entry) /\ sleeping' \in Delay \cup {NoTask} /\ registered' \in BOOLEAN
  <2>1. CASE OtherTurn \/ Start \/ Stop \/ StopEnds
    <3>1. UNCHANGED inboxVars /\ (life # "closing" \/ life' = life)
      BY <2>1 DEF OtherTurn, Start, Stop, StopEnds
    <3> QED BY <3>1, InboxSame
  <2>2. CASE InboxCancels
    BY <2>2 DEF InboxCancels, IInv, TypeOK, Scheduled, NothingStuck
  <2>3. CASE InboxCloses
    <3>1. /\ groups' = <<>> /\ registered' = registered
          /\ sleeping' \in IF registered THEN {0, sleeping} ELSE {NoTask}
      BY <2>3 DEF InboxCloses
    <3>2. /\ registered => sleeping # NoTask
          /\ sleeping \in Delay \cup {NoTask} /\ registered \in BOOLEAN
      BY DEF IInv, TypeOK, Scheduled
    <3>3. 0 \in Delay /\ 0 # NoTask
      BY PipelineAssumption DEF Delay, NoTask
    <3> QED BY <3>1, <3>2, <3>3, EmptyFacts DEF Scheduled, NothingStuck
  <2> QED BY <2>1, <2>2, <2>3
<1>5. TypeOK'
  BY <1>1, <1>2, <1>3, <1>4 DEF IInv, TypeOK
<1> QED BY <1>1, <1>3, <1>4, <1>5 DEF Calm, IInv

LEMMA CancelledCalm ==
  ASSUME IInv, NEW i, HandlerCancelled(i)
  PROVE  Calm
<1>1. /\ i \in DOMAIN queue /\ UNCHANGED inboxVars /\ waited' = waited
      /\ life' = life /\ otherTurn' = otherTurn /\ announced' = announced
      /\ IF i = 1 THEN Unlock ELSE queue' = RemoveAt(queue, i) /\ at' = at
  BY DEF HandlerCancelled
<1>2. groups' = groups /\ queue # <<>>
  BY <1>1, EmptyFacts DEF inboxVars
<1>3. /\ Tidy' /\ Apart' /\ AgesAreTrue' /\ MsgTasks' /\ Flushing' \subseteq Flushing
      /\ queue' \in Seq(Task) /\ (at' = "idle" <=> queue' = <<>>) /\ at' \in Places
  <2>1. CASE i = 1
    BY <1>1, <1>2, <2>1, UnlockKeeps
  <2>2. CASE i # 1
    <3>1. queue' \in Seq(Task) /\ queue' # <<>> /\ Shrinks /\ MsgTasks'
      BY <1>1, <2>2, RemoveFacts DEF IInv
    <3>2. Tidy' /\ Apart' /\ AgesAreTrue' /\ Flushing' \subseteq Flushing
      BY <1>1, <1>2, <3>1, ShrinkKeeps DEF IInv
    <3> QED BY <1>1, <1>2, <2>2, <3>1, <3>2 DEF IInv, TypeOK
  <2> QED BY <2>1, <2>2
<1>4. /\ Scheduled' /\ NothingStuck'
      /\ groups' \in Seq(Entry) /\ sleeping' \in Delay \cup {NoTask} /\ registered' \in BOOLEAN
  BY <1>1, InboxSame
<1>5. TypeOK'
  BY <1>1, <1>3, <1>4 DEF IInv, TypeOK
<1> QED BY <1>2, <1>3, <1>4, <1>5 DEF Calm, IInv

-----------------------------------------------------------------------------
(* The buffer is flushed.                                                  *)

LEMMA FreshFacts ==
  ASSUME NEW s \in Seq(Entry), Sorted(s)
  PROVE  /\ Fresh(s) \in Seq(Entry)
         /\ Sorted(Fresh(s))
         /\ Distinct(s) => Distinct(Fresh(s))
         /\ \A i \in DOMAIN Fresh(s) :
              /\ Fresh(s)[i].age <= MaxAge
              /\ \E j \in DOMAIN s : Fresh(s)[i] = s[j]
<1>1. /\ Len(s) \in Nat /\ DOMAIN s = 1..Len(s) /\ MaxAge + 1 \in Int
      /\ \A i \in DOMAIN s : s[i].age \in Nat
  BY EntryFields
<1>2. PICK k : k = AtLeast(s, MaxAge + 1)
  OBVIOUS
<1>3. k \in 0..Len(s) /\ \A i \in DOMAIN s : s[i].age >= MaxAge + 1 <=> i <= k
  BY <1>1, <1>2, AtLeastPrefix
<1> DEFINE r == SubSeq(s, k + 1, Len(s))
<1>4. k \in 0..Len(s) /\ Len(s) \in Nat
  BY <1>1, <1>3
<1>5. /\ r \in Seq(Entry) /\ Len(r) = Len(s) - k
      /\ \A i \in 1..Len(s) - k : r[i] = s[k + i]
  BY <1>4
<1> HIDE DEF r
<1>6. DOMAIN r = 1..Len(s) - k
  BY <1>5
<1>7. \A i \in DOMAIN r : k + i \in DOMAIN s /\ r[i] = s[k + i]
  BY <1>1, <1>3, <1>5, <1>6
<1>8. Sorted(r)
  <2>1. ASSUME NEW i \in DOMAIN r, NEW j \in DOMAIN r, i < j PROVE r[i].age >= r[j].age
    <3>1. k + i < k + j
      BY <1>1, <1>3, <1>6, <2>1
    <3> QED BY <1>7, <3>1 DEF Sorted
  <2> QED BY <2>1 DEF Sorted
<1>9. ASSUME Distinct(s) PROVE Distinct(r)
  <2>1. ASSUME NEW i \in DOMAIN r, NEW j \in DOMAIN r, r[i].msg = r[j].msg PROVE i = j
    <3>1. k + i = k + j
      BY <1>7, <1>9, <2>1 DEF Distinct
    <3> QED BY <1>1, <1>3, <1>6, <3>1
  <2> QED BY <2>1 DEF Distinct
<1>10. ASSUME NEW i \in DOMAIN r PROVE r[i].age <= MaxAge
  <2>1. k + i \in DOMAIN s /\ r[i] = s[k + i] /\ ~(k + i <= k)
    BY <1>1, <1>3, <1>6, <1>7
  <2>2. ~(s[k + i].age >= MaxAge + 1) /\ s[k + i].age \in Nat
    BY <1>1, <1>3, <2>1
  <2> QED BY <2>1, <2>2, EntryFields
<1>11. Fresh(s) = r
  BY <1>2 DEF Fresh, r
<1> QED BY <1>5, <1>7, <1>8, <1>9, <1>10, <1>11

\* A flush takes only what was first deferred at most MAX_AGE ago.
LEMMA FlushKeeps ==
  ASSUME IInv, FlushAfter
  PROVE  IInv' /\ \A m \in Flushing' \ Flushing : waited[m] <= MaxAge
<1>1. PICK f : f = Fresh(groups)
  OBVIOUS
<1>2. /\ groups' = <<>> /\ sleeping' = NoTask /\ registered' = FALSE
      /\ UNCHANGED <<life, otherTurn, announced, waited>>
      /\ IF f = <<>> THEN UNCHANGED lockVars
         ELSE Enqueue([kind |-> "flush", batch |-> f])
  BY <1>1 DEF FlushAfter
<1>3. /\ f \in Seq(Entry) /\ Sorted(f) /\ Distinct(f)
      /\ \A i \in DOMAIN f : f[i].age <= MaxAge /\ \E j \in DOMAIN groups : f[i] = groups[j]
  BY <1>1, FreshFacts DEF IInv, TypeOK, Tidy
<1>4. \A i \in DOMAIN f : f[i].age = waited[f[i].msg]
  BY <1>3 DEF IInv, AgesAreTrue
<1>5. /\ Tidy' /\ Apart' /\ AgesAreTrue' /\ MsgTasks'
      /\ Flushing' \subseteq Flushing \cup MsgsOf(f)
      /\ queue' \in Seq(Task) /\ (at' = "idle" <=> queue' = <<>>) /\ at' \in Places
  <2>1. CASE f = <<>>
    <3>1. queue' = queue /\ at' = at /\ at' \in Places
      BY <1>2, <2>1 DEF lockVars, IInv, TypeOK
    <3> QED BY <1>2, <3>1, StayKeeps
  <2>2. CASE f # <<>>
    <3>1. PICK t : t = [kind |-> "flush", batch |-> f]
      OBVIOUS
    <3>2. t \in Task /\ t.kind = "flush" /\ t.batch = f
      BY <1>3, <3>1 DEF Task
    <3>3. Enqueue(t)
      BY <1>2, <2>2, <3>1
    <3>4. MsgsOf(f) \subseteq MsgsOf(groups)
      BY <1>3 DEF MsgsOf
    <3>5. \A k \in DOMAIN queue : MsgsOf(queue[k].batch) \cap MsgsOf(f) = {}
      BY <3>4 DEF IInv, Apart
    <3>6. MsgsOf(groups') \cap MsgsOf(f) = {}
      BY <1>2, EmptyFacts
    <3>7. TypeOK /\ Tidy /\ Apart /\ AgesAreTrue /\ MsgTasks /\ waited' = waited
      BY <1>2 DEF IInv
    <3>8. Tidy' /\ Apart' /\ AgesAreTrue' /\ MsgTasks' /\ Flushing' \subseteq Flushing \cup MsgsOf(f)
      BY <1>2, <1>3, <1>4, <3>2, <3>3, <3>5, <3>6, <3>7, EnqueueKeeps
    <3> QED BY <3>2, <3>3, <3>7, <3>8, EnqueueFacts
  <2> QED BY <2>1, <2>2
<1>6. Scheduled' /\ NothingStuck'
  BY <1>2 DEF Scheduled, NothingStuck
<1>7. TypeOK'
  BY <1>2, <1>5, EmptyFacts DEF IInv, TypeOK
<1>8. \A m \in MsgsOf(f) : waited[m] <= MaxAge
  BY <1>3, <1>4 DEF MsgsOf
<1> QED BY <1>5, <1>6, <1>7, <1>8 DEF IInv

-----------------------------------------------------------------------------
(* Time passes.                                                            *)

LEMMA OlderFacts ==
  /\ \A a \in Age : Older(a) \in Age
  /\ \A a, b \in Age : a >= b => Older(a) >= Older(b)
BY EntryFields DEF Age, Older

LEMMA AgedFacts ==
  ASSUME NEW b \in Seq(Entry)
  PROVE  /\ Aged(b) \in Seq(Entry) /\ DOMAIN Aged(b) = DOMAIN b /\ Len(Aged(b)) = Len(b)
         /\ \A i \in DOMAIN b : Aged(b)[i].msg = b[i].msg /\ Aged(b)[i].age = Older(b[i].age)
         /\ MsgsOf(Aged(b)) = MsgsOf(b)
         /\ Sorted(b) => Sorted(Aged(b))
         /\ Distinct(b) => Distinct(Aged(b))
         /\ Aged(b) = <<>> <=> b = <<>>
<1>1. /\ Len(b) \in Nat /\ DOMAIN b = 1..Len(b)
      /\ \A i \in DOMAIN b : b[i] \in Entry /\ b[i].msg \in Msg /\ b[i].age \in Age
  BY EntryFields
<1>2. ASSUME NEW i \in DOMAIN b
      PROVE  /\ [b[i] EXCEPT !.age = Older(@)] \in Entry
             /\ [b[i] EXCEPT !.age = Older(@)].msg = b[i].msg
             /\ [b[i] EXCEPT !.age = Older(@)].age = Older(b[i].age)
  <2>1. b[i] \in Entry /\ Older(b[i].age) \in Age
    BY <1>1, OlderFacts
  <2> QED BY <2>1 DEF Entry
<1>3. /\ DOMAIN Aged(b) = DOMAIN b
      /\ \A i \in DOMAIN b : Aged(b)[i] = [b[i] EXCEPT !.age = Older(@)]
  BY DEF Aged
<1>4. Aged(b) \in Seq(Entry) /\ Len(Aged(b)) = Len(b)
  <2>1. Aged(b) = [i \in 1..Len(b) |-> Aged(b)[i]]
    BY <1>1 DEF Aged
  <2>2. \A i \in 1..Len(b) : Aged(b)[i] \in Entry
    BY <1>1, <1>2, <1>3
  <2>3. Aged(b) \in [1..Len(b) -> Entry]
    BY <2>1, <2>2
  <2>4. Aged(b) \in Seq(Entry)
    BY <1>1, <2>3
  <2> QED BY <1>1, <1>3, <2>4
<1>5. \A i \in DOMAIN b : Aged(b)[i].msg = b[i].msg /\ Aged(b)[i].age = Older(b[i].age)
  BY <1>2, <1>3
<1>6. MsgsOf(Aged(b)) = MsgsOf(b)
  BY <1>3, <1>5 DEF MsgsOf
<1>7. Sorted(b) => Sorted(Aged(b))
  BY <1>1, <1>3, <1>5, OlderFacts DEF Sorted
<1>8. Distinct(b) => Distinct(Aged(b))
  BY <1>3, <1>5 DEF Distinct
<1>9. Aged(b) = <<>> <=> b = <<>>
  BY <1>1, <1>4
<1> QED BY <1>3, <1>4, <1>5, <1>6, <1>7, <1>8, <1>9

LEMMA TickKeeps ==
  ASSUME IInv, Tick
  PROVE  /\ IInv' /\ Flushing' = Flushing /\ Deferred' = Deferred
         /\ MsgsOf(groups') = MsgsOf(groups) /\ DOMAIN queue' = DOMAIN queue
         /\ \A k \in DOMAIN queue : MsgsOf(queue'[k].batch) = MsgsOf(queue[k].batch)
<1>1. /\ groups' = Aged(groups)
      /\ queue' = [k \in DOMAIN queue |->
                     IF queue[k].kind = "flush"
                       THEN [queue[k] EXCEPT !.batch = Aged(@)] ELSE queue[k]]
      /\ sleeping' = IF sleeping > 0 THEN sleeping - 1 ELSE sleeping
      /\ waited' = [m \in Msg |-> IF m \in Deferred THEN Older(waited[m]) ELSE 0]
      /\ UNCHANGED <<life, registered, at, otherTurn, announced>>
  BY DEF Tick
<1>2. /\ groups \in Seq(Entry) /\ queue \in Seq(Task) /\ waited \in [Msg -> Age]
      /\ sleeping \in Delay \cup {NoTask} /\ (at = "idle" <=> queue = <<>>)
      /\ Len(queue) \in Nat /\ DOMAIN queue = 1..Len(queue)
      /\ \A k \in DOMAIN queue : queue[k] \in Task
  BY TaskFields DEF IInv, TypeOK
<1>3. /\ groups' \in Seq(Entry) /\ DOMAIN groups' = DOMAIN groups
      /\ \A i \in DOMAIN groups : /\ groups'[i].msg = groups[i].msg
                                  /\ groups'[i].age = Older(groups[i].age)
      /\ MsgsOf(groups') = MsgsOf(groups) /\ Sorted(groups') /\ Distinct(groups')
      /\ Len(groups') <= MaxGroups
      /\ groups' = <<>> <=> groups = <<>>
  BY <1>1, <1>2, AgedFacts DEF IInv, Tidy
<1>4. ASSUME NEW k \in DOMAIN queue
      PROVE  /\ queue'[k] \in Task /\ queue'[k].kind = queue[k].kind
             /\ queue[k].kind = "flush" => queue'[k].batch = Aged(queue[k].batch)
             /\ queue[k].kind = "msg" => queue'[k].batch = queue[k].batch
  <2>1. queue[k] \in Task /\ queue[k].batch \in Seq(Entry) /\ queue[k].kind \in {"msg", "flush"}
    BY <1>2, TaskFields
  <2>2. CASE queue[k].kind = "flush"
    <3>1. queue'[k] = [queue[k] EXCEPT !.batch = Aged(@)]
      BY <1>1, <2>2
    <3>2. PICK b : b = Aged(queue[k].batch)
      OBVIOUS
    <3>3. b \in Seq(Entry)
      BY <2>1, <3>2, AgedFacts
    <3>4. queue'[k] = [queue[k] EXCEPT !.batch = b]
      BY <3>1, <3>2
    <3>5. queue'[k] \in Task /\ queue'[k].kind = queue[k].kind /\ queue'[k].batch = b
      BY <2>1, <3>3, <3>4 DEF Task
    <3> QED BY <2>2, <3>2, <3>5
  <2>3. CASE queue[k].kind = "msg"
    BY <1>1, <2>1, <2>3
  <2> QED BY <2>1, <2>2, <2>3
<1>5. ASSUME NEW k \in DOMAIN queue
      PROVE  /\ MsgsOf(queue'[k].batch) = MsgsOf(queue[k].batch)
             /\ Sorted(queue'[k].batch) /\ Distinct(queue'[k].batch)
  <2>1. queue[k].batch \in Seq(Entry) /\ queue[k].kind \in {"msg", "flush"}
    BY <1>2, TaskFields
  <2>2. Sorted(queue[k].batch) /\ Distinct(queue[k].batch)
    BY DEF IInv, Tidy
  <2>3. CASE queue[k].kind = "flush"
    BY <1>4, <2>1, <2>2, <2>3, AgedFacts
  <2>4. CASE queue[k].kind = "msg"
    BY <1>4, <2>2, <2>4
  <2> QED BY <2>1, <2>3, <2>4
<1>6. DOMAIN queue' = DOMAIN queue /\ queue' \in Seq(Task) /\ (queue' = <<>> <=> queue = <<>>)
  <2>1. DOMAIN queue' = 1..Len(queue)
    BY <1>1, <1>2
  <2>2. queue' = [k \in 1..Len(queue) |-> queue'[k]]
    BY <1>1, <1>2
  <2>3. \A k \in 1..Len(queue) : queue'[k] \in Task
    BY <1>2, <1>4
  <2>4. queue' \in [1..Len(queue) -> Task]
    BY <2>2, <2>3
  <2>5. queue' \in Seq(Task)
    BY <1>2, <2>4
  <2> QED BY <1>2, <2>1, <2>5
<1>7. Tidy' /\ Apart'
  BY <1>3, <1>5, <1>6 DEF IInv, Tidy, Apart
<1>8. Flushing' = Flushing /\ Deferred' = Deferred
  <2>1. Flushing' = Flushing
    BY <1>4, <1>5, <1>6 DEF Flushing
  <2> QED BY <1>3, <2>1 DEF Deferred
<1>9. AgesAreTrue'
  <2>1. \A m \in Msg : m \in Deferred => waited'[m] = Older(waited[m])
    BY <1>1
  <2>2. ASSUME NEW i \in DOMAIN groups' PROVE groups'[i].age = waited'[groups'[i].msg]
    <3>1. groups[i].msg \in Msg /\ groups[i].msg \in Deferred
      BY <1>2, <1>3, EntryFields DEF Deferred, MsgsOf
    <3> QED BY <1>3, <2>1, <3>1 DEF IInv, AgesAreTrue
  <2>3. ASSUME NEW k \in DOMAIN queue', queue'[k].kind = "flush",
               NEW i \in DOMAIN queue'[k].batch
        PROVE  queue'[k].batch[i].age = waited'[queue'[k].batch[i].msg]
    <3>1. /\ k \in DOMAIN queue /\ queue[k].kind = "flush"
          /\ queue'[k].batch = Aged(queue[k].batch) /\ queue[k].batch \in Seq(Entry)
      BY <1>2, <1>4, <1>6, <2>3, TaskFields
    <3>2. /\ i \in DOMAIN queue[k].batch
          /\ queue'[k].batch[i].msg = queue[k].batch[i].msg
          /\ queue'[k].batch[i].age = Older(queue[k].batch[i].age)
      BY <2>3, <3>1, AgedFacts
    <3>3. queue[k].batch[i].msg \in Msg
      BY <3>1, <3>2, EntryFields
    <3>4. queue[k].batch[i].msg \in Flushing
      BY <3>1, <3>2 DEF Flushing, MsgsOf
    <3>5. queue[k].batch[i].age = waited[queue[k].batch[i].msg]
      BY <3>1, <3>2 DEF IInv, AgesAreTrue
    <3> QED BY <2>1, <3>2, <3>3, <3>4, <3>5 DEF Deferred
  <2> QED BY <2>2, <2>3 DEF AgesAreTrue
<1>10. MsgTasks'
  BY <1>1, <1>4, <1>6 DEF IInv, MsgTasks
<1>11. /\ sleeping' \in Delay \cup {NoTask}
       /\ sleeping # NoTask => sleeping' # NoTask
  BY <1>1, <1>2, PipelineAssumption DEF Delay, NoTask
<1>12. Scheduled' /\ NothingStuck'
  BY <1>1, <1>3, <1>11 DEF IInv, Scheduled, NothingStuck
<1>13. waited' \in [Msg -> Age]
  <2>1. 0 \in Age
    BY EntryFields DEF Age
  <2>2. \A m \in Msg : waited[m] \in Age
    BY <1>2
  <2> QED BY <1>1, <2>1, <2>2, OlderFacts
<1>14. TypeOK'
  BY <1>1, <1>2, <1>3, <1>6, <1>11, <1>13 DEF IInv, TypeOK
<1> QED BY <1>3, <1>5, <1>6, <1>7, <1>8, <1>9, <1>10, <1>12, <1>14 DEF IInv

-----------------------------------------------------------------------------
(* A batch goes into the buffer, for the first time or again.              *)

LEMMA DeferKeeps ==
  ASSUME IInv, NEW reason \in Reason \ {"open"}, NEW delay \in 1..DeferLimit,
         DeferUntilOpen(reason, delay)
  PROVE  /\ IInv' /\ Flushing' \subseteq Flushing
         /\ \A m \in Deferred \ Deferred', n \in MsgsOf(groups') : waited'[m] >= waited'[n]
         /\ MsgsOf(groups') \subseteq MsgsOf(groups) \cup MsgsOf(queue[1].batch)
<1>1. PICK b : b = queue[1].batch
  OBVIOUS
<1>2. /\ queue # <<>> /\ at = "window" /\ Unlock
      /\ groups' = Put(groups, b) /\ registered' = TRUE
      /\ sleeping' = IF registered THEN sleeping ELSE delay
      /\ life' = life /\ otherTurn' = otherTurn
  BY <1>1 DEF DeferUntilOpen, AddAll, Put, Holds
<1>3. /\ queue[1].kind = "msg" =>
           announced' = reason /\ waited' = [waited EXCEPT ![b[1].msg] = 0]
      /\ queue[1].kind # "msg" => announced' = announced /\ waited' = waited
  BY <1>1 DEF DeferUntilOpen
<1>4. /\ queue \in Seq(Task) /\ groups \in Seq(Entry) /\ waited \in [Msg -> Age]
      /\ 1 \in DOMAIN queue /\ queue[1] \in Task
      /\ b \in Seq(Entry) /\ queue[1].kind \in {"msg", "flush"}
  <2>1. queue \in Seq(Task) /\ groups \in Seq(Entry) /\ waited \in [Msg -> Age]
    BY DEF IInv, TypeOK
  <2>2. 1 \in DOMAIN queue
    BY <1>2, <2>1
  <2> QED BY <1>1, <2>1, <2>2, TaskFields
<1>5. /\ Sorted(groups) /\ Distinct(groups) /\ Sorted(b) /\ Distinct(b)
      /\ Len(groups) <= MaxGroups
      /\ MsgsOf(groups) \cap MsgsOf(b) = {}
  BY <1>1, <1>4 DEF IInv, Tidy, Apart
<1>6. /\ groups' \in Seq(Entry) /\ Sorted(groups') /\ Distinct(groups')
      /\ Range(groups') \subseteq Range(groups) \cup Range(b)
      /\ \A x \in Range(groups) \cup Range(b) :
           x \in Range(groups') \/ FullUpTo(groups', x.age)
      /\ Len(groups') <= MaxGroups
  BY <1>2, <1>4, <1>5, PutFacts
<1>7. /\ queue' \in Seq(Task)
      /\ \A k \in DOMAIN queue' : k + 1 \in DOMAIN queue /\ queue'[k] = queue[k + 1] /\ k + 1 # 1
      /\ at' \in {"idle", "admit"} /\ (at' = "idle" <=> queue' = <<>>)
      /\ MsgTasks'
  <2>1. TypeOK /\ MsgTasks
    BY DEF IInv
  <2>2. /\ queue' \in Seq(Task) /\ MsgTasks'
        /\ \A k \in DOMAIN queue' : k + 1 \in DOMAIN queue /\ queue'[k] = queue[k + 1]
        /\ at' \in {"idle", "admit"} /\ (at' = "idle" <=> queue' = <<>>)
    BY <1>2, <2>1, UnlockFacts
  <2>3. \A k \in DOMAIN queue' : k + 1 # 1
    BY <2>2, TaskFields
  <2> QED BY <2>2, <2>3
<1>8. /\ MsgsOf(groups') \subseteq MsgsOf(groups) \cup MsgsOf(b)
      /\ \A s \in {groups, b, groups'} : \A m \in MsgsOf(s) :
           \E x \in Range(s) : x.msg = m
      /\ \A s \in {groups, b, groups'} : \A x \in Range(s) : x.msg \in MsgsOf(s)
  BY <1>6 DEF MsgsOf, Range
\* Only the message that is new gets another time.
<1>9. /\ waited' \in [Msg -> Age]
      /\ \A m \in Msg : m \notin MsgsOf(b) => waited'[m] = waited[m]
  <2>1. CASE queue[1].kind = "msg"
    <3>1. Len(b) = 1
      BY <1>1, <1>2, <1>4, <2>1 DEF IInv, MsgTasks
    <3>2. 1 \in DOMAIN b /\ b[1].msg \in MsgsOf(b) /\ 0 \in Age
      BY <1>4, <3>1, EntryFields DEF MsgsOf, Age
    <3> QED BY <1>3, <1>4, <2>1, <3>2
  <2>2. CASE queue[1].kind # "msg"
    BY <1>3, <1>4, <2>2
  <2> QED BY <2>1, <2>2
<1>10. ASSUME NEW x \in Range(b) PROVE x.age = waited'[x.msg]
  <2>1. PICK i \in DOMAIN b : x = b[i]
    BY DEF Range
  <2>2. CASE queue[1].kind = "msg"
    <3>1. Len(b) = 1 /\ \A j \in DOMAIN b : b[j].age = 0
      BY <1>1, <1>2, <1>4, <2>2 DEF IInv, MsgTasks
    <3>2. i = 1 /\ b[1].msg \in Msg
      BY <1>4, <2>1, <3>1, EntryFields
    <3> QED BY <1>3, <1>4, <2>1, <2>2, <3>1, <3>2
  <2>3. CASE queue[1].kind = "flush"
    <3>1. b[i].age = waited[b[i].msg]
      BY <1>1, <1>4, <2>3 DEF IInv, AgesAreTrue
    <3> QED BY <1>3, <2>1, <2>3, <3>1
  <2> QED BY <1>4, <2>2, <2>3
<1>11. ASSUME NEW x \in Range(groups) PROVE x.age = waited'[x.msg]
  <2>1. PICK i \in DOMAIN groups : x = groups[i]
    BY DEF Range
  <2>2. x.age = waited[x.msg] /\ x.msg \in Msg
    BY <1>4, <2>1, EntryFields DEF IInv, AgesAreTrue
  <2>3. x.msg \notin MsgsOf(b)
    BY <1>5, <1>8
  <2> QED BY <1>9, <2>2, <2>3
<1>12. Tidy'
  BY <1>6, <1>7 DEF IInv, Tidy
<1>13. Apart'
  <2>1. ASSUME NEW k \in DOMAIN queue' PROVE MsgsOf(groups') \cap MsgsOf(queue'[k].batch) = {}
    <3>1. /\ MsgsOf(groups) \cap MsgsOf(queue[k + 1].batch) = {}
          /\ MsgsOf(b) \cap MsgsOf(queue[k + 1].batch) = {}
      BY <1>1, <1>4, <1>7 DEF IInv, Apart
    <3>2. queue'[k] = queue[k + 1]
      BY <1>7
    <3> QED BY <1>8, <3>1, <3>2
  <2>2. ASSUME NEW k \in DOMAIN queue', NEW l \in DOMAIN queue', k # l
        PROVE  MsgsOf(queue'[k].batch) \cap MsgsOf(queue'[l].batch) = {}
    <3>1. k \in Int /\ l \in Int
      BY <1>7, TaskFields
    <3>2. k + 1 # l + 1
      BY <2>2, <3>1
    <3>3. /\ k + 1 \in DOMAIN queue /\ queue'[k] = queue[k + 1]
          /\ l + 1 \in DOMAIN queue /\ queue'[l] = queue[l + 1]
      BY <1>7
    <3> QED BY <3>2, <3>3 DEF IInv, Apart
  <2> QED BY <2>1, <2>2 DEF Apart
<1>14. AgesAreTrue'
  <2>1. ASSUME NEW i \in DOMAIN groups' PROVE groups'[i].age = waited'[groups'[i].msg]
    <3>1. groups'[i] \in Range(groups) \cup Range(b)
      BY <1>6 DEF Range
    <3> QED BY <1>10, <1>11, <3>1
  <2>2. ASSUME NEW k \in DOMAIN queue', queue'[k].kind = "flush",
               NEW i \in DOMAIN queue'[k].batch
        PROVE  queue'[k].batch[i].age = waited'[queue'[k].batch[i].msg]
    <3>1. /\ k + 1 \in DOMAIN queue /\ queue'[k] = queue[k + 1] /\ k + 1 # 1
          /\ queue[k + 1].batch \in Seq(Entry)
      BY <1>4, <1>7, TaskFields
    <3>2. /\ queue[k + 1].batch[i].age = waited[queue[k + 1].batch[i].msg]
          /\ queue[k + 1].batch[i].msg \in Msg
          /\ queue[k + 1].batch[i].msg \in MsgsOf(queue[k + 1].batch)
      BY <2>2, <3>1, EntryFields DEF IInv, AgesAreTrue, MsgsOf
    <3>3. MsgsOf(queue[k + 1].batch) \cap MsgsOf(b) = {}
      BY <1>1, <1>4, <3>1 DEF IInv, Apart
    <3> QED BY <1>9, <3>1, <3>2, <3>3
  <2> QED BY <2>1, <2>2 DEF AgesAreTrue
<1>15. Flushing' \subseteq Flushing
  BY <1>7 DEF Flushing
<1>16. Scheduled' /\ NothingStuck'
  <2>1. sleeping' # NoTask
    BY <1>2 DEF IInv, Scheduled, NoTask
  <2> QED BY <2>1 DEF Scheduled, NothingStuck
<1>17. TypeOK'
  <2>1. sleeping' \in Delay \cup {NoTask} /\ registered' \in BOOLEAN
    BY <1>2, PipelineAssumption DEF IInv, TypeOK, Delay
  <2>2. announced' \in Reason \cup {"none"}
    BY <1>3 DEF IInv, TypeOK
  <2>3. at' \in Places
    BY <1>7 DEF Places
  <2> QED BY <1>2, <1>6, <1>7, <1>9, <2>1, <2>2, <2>3 DEF IInv, TypeOK
<1>18. ASSUME NEW m \in Deferred \ Deferred', NEW n \in MsgsOf(groups')
       PROVE  waited'[m] >= waited'[n]
  <2>1. PICK x \in Range(groups) \cup Range(b) : x.msg = m
    <3>1. CASE m \in MsgsOf(groups)
      BY <1>8, <3>1
    <3>2. CASE m \in Flushing
      <4>1. PICK k \in DOMAIN queue : queue[k].kind = "flush" /\ m \in MsgsOf(queue[k].batch)
        BY <3>2 DEF Flushing
      <4>2. CASE k = 1
        BY <1>1, <1>8, <4>1, <4>2
      <4>3. CASE k # 1
        <5>1. Len(queue) \in Nat /\ DOMAIN queue = 1..Len(queue)
          BY <1>4
        <5>2. Len(queue') = Len(queue) - 1 /\ DOMAIN queue' = 1..Len(queue')
          BY <1>2, <1>7, UnlockFacts DEF IInv
        <5>3. k - 1 \in DOMAIN queue' /\ (k - 1) + 1 = k
          BY <4>3, <5>1, <5>2
        <5>4. queue'[k - 1] = queue[k]
          BY <1>7, <5>3
        <5>5. m \in Flushing'
          BY <4>1, <5>3, <5>4 DEF Flushing
        <5> QED BY <5>5 DEF Deferred
      <4> QED BY <4>2, <4>3
    <3> QED BY <3>1, <3>2 DEF Deferred
  <2>2. x \notin Range(groups')
    <3>1. x \in Range(groups') => m \in MsgsOf(groups')
      BY <1>8, <2>1
    <3> QED BY <3>1 DEF Deferred
  <2>3. FullUpTo(groups', x.age) /\ x.age = waited'[m]
    BY <1>6, <1>10, <1>11, <2>1, <2>2
  <2>4. PICK i \in DOMAIN groups' : n = groups'[i].msg
    BY DEF MsgsOf
  <2>5. groups'[i].age <= x.age /\ groups'[i].age = waited'[n]
    BY <1>14, <2>3, <2>4 DEF FullUpTo, AgesAreTrue
  <2>6. groups'[i].age \in Nat /\ x.age \in Nat
    <3>1. groups'[i] \in Entry
      BY <1>6, EntryFields
    <3>2. x \in Entry
      BY <1>4, <2>1, EntryFields DEF Range
    <3> QED BY <3>1, <3>2, EntryFields
  <2> QED BY <2>3, <2>5, <2>6
<1> QED BY <1>1, <1>7, <1>8, <1>12, <1>13, <1>14, <1>15, <1>16, <1>17, <1>18 DEF IInv

-----------------------------------------------------------------------------
(* The steps together.                                                     *)

LEMMA InitHolds ==
  ASSUME Init
  PROVE  IInv
<1>1. TypeOK
  <2>1. 0 \in Age
    BY EntryFields DEF Age
  <2>2. waited \in [Msg -> Age]
    BY <2>1 DEF Init
  <2>3. queue \in Seq(Task) /\ groups \in Seq(Entry) /\ (at = "idle" <=> queue = <<>>)
    BY EmptyFacts DEF Init
  <2>4. /\ life \in Life /\ sleeping \in Delay \cup {NoTask} /\ registered \in BOOLEAN
        /\ at \in Places /\ otherTurn \in BOOLEAN /\ announced \in Reason \cup {"none"}
    BY DEF Init, Life, Places
  <2> QED BY <2>2, <2>3, <2>4 DEF TypeOK
<1>2. Tidy /\ Apart /\ AgesAreTrue /\ MsgTasks
  BY EmptyFacts DEF Init, Tidy, Apart, AgesAreTrue, MsgTasks
<1>3. Scheduled /\ NothingStuck
  BY DEF Init, Scheduled, NothingStuck
<1> QED BY <1>1, <1>2, <1>3 DEF IInv

LEMMA StutterCalm ==
  ASSUME IInv, UNCHANGED vars
  PROVE  Calm
<1>1. IInv'
  BY DEF vars, IInv, TypeOK, Tidy, Apart, AgesAreTrue, MsgTasks, Scheduled, NothingStuck
<1>2. Flushing' \subseteq Flushing /\ groups' = groups
  BY DEF vars, Flushing
<1> QED BY <1>1, <1>2 DEF Calm

\* A step is calm, a flush, a deferral or the passing of time.
LEMMA StepCases ==
  ASSUME IInv, [Next]_vars
  PROVE  \/ Calm
         \/ FlushAfter
         \/ \E reason \in Reason \ {"open"}, delay \in 1..DeferLimit :
              DeferUntilOpen(reason, delay)
         \/ Tick
<1>1. CASE \E m \in Msg : Arrive(m)
  BY <1>1, ArriveCalm
<1>2. CASE HolderStep
  <2>1. CASE Admit \/ WindowOpen \/ Prepare \/ TurnEnds
    BY <2>1, HolderCalm
  <2>2. CASE \E reason \in Reason \ {"open"} : ClosedForLong(reason)
    BY <2>2, ClosedCalm
  <2>3. CASE \E reason \in Reason \ {"open"}, delay \in 1..DeferLimit :
               DeferUntilOpen(reason, delay)
    BY <2>3
  <2> QED BY <1>2, <2>1, <2>2, <2>3 DEF HolderStep
<1>3. CASE TakeTurn
  BY <1>3, HolderCalm
<1>4. CASE OtherTurn \/ Start \/ Stop \/ InboxCancels \/ InboxCloses \/ StopEnds
  BY <1>4, LifeCalm
<1>5. CASE \E i \in 1..2 * Cardinality(Msg) : HandlerCancelled(i)
  BY <1>5, CancelledCalm
<1>6. CASE UNCHANGED vars
  BY <1>6, StutterCalm
<1>7. CASE FlushAfter \/ Tick
  BY <1>7
<1> QED BY <1>1, <1>2, <1>3, <1>4, <1>5, <1>6, <1>7 DEF Next

LEMMA StepKeeps ==
  ASSUME IInv, [Next]_vars
  PROVE  IInv'
<1>1. CASE Calm
  BY <1>1 DEF Calm
<1>2. CASE FlushAfter
  BY <1>2, FlushKeeps
<1>3. CASE \E reason \in Reason \ {"open"}, delay \in 1..DeferLimit :
             DeferUntilOpen(reason, delay)
  BY <1>3, DeferKeeps
<1>4. CASE Tick
  BY <1>4, TickKeeps
<1> QED BY <1>1, <1>2, <1>3, <1>4, StepCases

\* The inductive invariant holds in every state of every behaviour.
LEMMA AlwaysSafe == Spec => []IInv
<1>1. Init => IInv
  BY InitHolds
<1>2. IInv /\ [Next]_vars => IInv'
  BY StepKeeps
<1> QED BY <1>1, <1>2, PTL DEF Spec

-----------------------------------------------------------------------------
(* The theorems.                                                           *)

\* Every variable has its type, in every behaviour.
THEOREM TypeCorrect == Spec => []TypeOK
<1>1. IInv => TypeOK
  BY DEF IInv
<1> QED BY <1>1, AlwaysSafe, PTL

\* A message is in the buffer, or in the batch of one task at the dispatch lock,
\* and there once: _flush_after takes what it flushes away from _groups, and a batch
\* that comes back leaves its task.
THEOREM MessageIsInOnePlace == Spec => []InOnePlace
<1>1. ASSUME IInv PROVE InOnePlace
  <2>1. SUFFICES ASSUME NEW k \in 0..Len(queue), NEW l \in 0..Len(queue),
                        NEW i \in DOMAIN Batch(k), NEW j \in DOMAIN Batch(l),
                        Batch(k)[i].msg = Batch(l)[j].msg
                 PROVE  k = l /\ i = j
    BY DEF InOnePlace
  <2>2. \A n \in 0..Len(queue) : n # 0 => n \in DOMAIN queue
    BY <1>1, TaskFields DEF IInv, TypeOK
  <2>3. /\ Batch(k)[i].msg \in MsgsOf(Batch(k))
        /\ Batch(l)[j].msg \in MsgsOf(Batch(l))
    BY DEF MsgsOf
  <2>4. k = l
    <3>1. SUFFICES ASSUME k # l PROVE MsgsOf(Batch(k)) \cap MsgsOf(Batch(l)) = {}
      BY <2>1, <2>3
    <3>2. CASE k = 0
      BY <1>1, <2>2, <3>1, <3>2 DEF IInv, Apart, Batch
    <3>3. CASE l = 0
      BY <1>1, <2>2, <3>1, <3>3 DEF IInv, Apart, Batch
    <3>4. CASE k # 0 /\ l # 0
      BY <1>1, <2>2, <3>1, <3>4 DEF IInv, Apart, Batch
    <3> QED BY <3>2, <3>3, <3>4
  <2>5. Distinct(Batch(k))
    BY <1>1, <2>2 DEF IInv, Tidy, Batch
  <2> QED BY <2>1, <2>4, <2>5 DEF Distinct
<1>2. IInv => InOnePlace
  BY <1>1
<1> QED BY <1>2, AlwaysSafe, PTL

\* What the deferred inbox holds has a task in _tasks, or one that runs its last
\* step, that is going to flush it, unless close() is dropping it.
THEOREM NothingIsForgotten == Spec => []NothingStuck
<1>1. IInv => NothingStuck
  BY DEF IInv
<1> QED BY <1>1, AlwaysSafe, PTL

\* _process_batch gets the messages of a chat in the order in which they came,
\* however often a flush had to put them back.
THEOREM TurnIsInOrder == Spec => []BatchInOrder
<1>1. ASSUME IInv, queue # <<>>, NEW i \in DOMAIN queue[1].batch,
             NEW j \in DOMAIN queue[1].batch, i < j
      PROVE  waited[queue[1].batch[i].msg] >= waited[queue[1].batch[j].msg]
  <2>1. 1 \in DOMAIN queue /\ queue[1] \in Task
    BY <1>1, EmptyFacts, TaskFields DEF IInv, TypeOK
  <2>2. queue[1].kind \in {"msg", "flush"} /\ queue[1].batch \in Seq(Entry)
    BY <2>1, TaskFields
  <2>3. CASE queue[1].kind = "msg"
    <3>1. Len(queue[1].batch) = 1 \/ queue[1].batch = <<>>
      BY <1>1, <2>1, <2>3 DEF IInv, MsgTasks
    <3>2. Len(queue[1].batch) = 1 /\ DOMAIN queue[1].batch = 1..1
      BY <2>2, <3>1, EmptyFacts, EntryFields
    <3> QED BY <1>1, <3>2
  <2>4. CASE queue[1].kind = "flush"
    <3>1. Sorted(queue[1].batch)
      BY <1>1, <2>1 DEF IInv, Tidy
    <3>2. queue[1].batch[i].age >= queue[1].batch[j].age
      BY <1>1, <3>1 DEF Sorted
    <3>3. /\ queue[1].batch[i].age = waited[queue[1].batch[i].msg]
          /\ queue[1].batch[j].age = waited[queue[1].batch[j].msg]
      BY <1>1, <2>1, <2>4 DEF IInv, AgesAreTrue
    <3> QED BY <3>2, <3>3
  <2> QED BY <2>2, <2>3, <2>4
<1>2. IInv => BatchInOrder
  BY <1>1 DEF BatchInOrder
<1> QED BY <1>2, AlwaysSafe, PTL

\* add() cuts off the groups that have waited longest, also when the batch of a
\* flush comes back to a buffer that filled up meanwhile.
THEOREM NewestStay == Spec => NewestAreKept
<1> DEFINE Kept == groups' # groups =>
             \A m \in Deferred \ Deferred', n \in MsgsOf(groups') : waited'[m] >= waited'[n]
<1>1. ASSUME IInv, [Next]_vars PROVE Kept
  <2>1. CASE Calm
    BY <2>1, EmptyFacts DEF Calm
  <2>2. CASE FlushAfter
    BY <2>2, EmptyFacts DEF FlushAfter
  <2>3. CASE \E reason \in Reason \ {"open"}, delay \in 1..DeferLimit :
               DeferUntilOpen(reason, delay)
    BY <1>1, <2>3, DeferKeeps
  <2>4. CASE Tick
    <3>1. Deferred' = Deferred
      BY <1>1, <2>4, TickKeeps
    <3> QED BY <3>1
  <2> QED BY <1>1, <2>1, <2>2, <2>3, <2>4, StepCases
<1>2. IInv /\ [Next]_vars => [Kept]_vars
  BY <1>1
<1>3. Spec => [][Kept]_vars
  <2> HIDE DEF Kept
  <2> QED BY <1>2, AlwaysSafe, PTL DEF Spec
<1> QED BY <1>3, PTL DEF NewestAreKept

\* _flush_after takes no group to the lock that was first deferred more than
\* MAX_AGE ago.
THEOREM FlushStaysFresh == Spec => FlushIsFresh
<1> DEFINE FreshStep == \A m \in Flushing' \ Flushing : waited[m] <= MaxAge
<1>1. ASSUME IInv, [Next]_vars PROVE FreshStep
  <2>1. CASE Calm
    BY <2>1 DEF Calm
  <2>2. CASE FlushAfter
    BY <1>1, <2>2, FlushKeeps
  <2>3. CASE \E reason \in Reason \ {"open"}, delay \in 1..DeferLimit :
               DeferUntilOpen(reason, delay)
    BY <1>1, <2>3, DeferKeeps
  <2>4. CASE Tick
    BY <1>1, <2>4, TickKeeps
  <2> QED BY <1>1, <2>1, <2>2, <2>3, <2>4, StepCases
<1>2. IInv /\ [Next]_vars => [FreshStep]_vars
  BY <1>1
<1>3. Spec => [][FreshStep]_vars
  <2> HIDE DEF FreshStep
  <2> QED BY <1>2, AlwaysSafe, PTL DEF Spec
<1> QED BY <1>3, PTL DEF FlushIsFresh

-----------------------------------------------------------------------------
(* The pipeline implements ChatInbox.                                      *)

\* A buffer holds no more messages than it has places.
LEMMA FewMessages ==
  ASSUME NEW s \in Seq(Entry)
  PROVE  Cardinality(MsgsOf(s)) \in Nat /\ Cardinality(MsgsOf(s)) <= Len(s)
<1> DEFINE f == [i \in 1..Len(s) |-> s[i].msg]
<1>1. Len(s) \in Nat /\ DOMAIN s = 1..Len(s)
  BY EntryFields
<1>2. f \in Surjection(1..Len(s), MsgsOf(s))
  BY <1>1 DEF Surjection, MsgsOf
<1>3. ExistsSurjection(1..Len(s), MsgsOf(s))
  BY <1>2 DEF ExistsSurjection
<1>4. Cardinality(MsgsOf(s)) <= Len(s)
  BY <1>1, <1>3, FS_SurjCardinalityBound
<1>5. IsFiniteSet(1..Len(s))
  BY <1>1, FS_Interval
<1>6. Cardinality(MsgsOf(s)) \in Nat
  BY <1>2, <1>5, FS_Surjection, FS_CardinalityType
<1> QED BY <1>4, <1>6

\* The messages of the tasks at the lock are messages; those of a turn are the
\* holder's.
LEMMA QueuedFacts ==
  ASSUME IInv
  PROVE  /\ Queued \subseteq Msg /\ MsgsOf(groups) \subseteq Msg
         /\ Answering \subseteq Queued
         /\ at # "turn" => Answering = {}
         /\ at = "turn" => queue # <<>> /\ Answering = MsgsOf(queue[1].batch)
         /\ queue # <<>> => 1 \in DOMAIN queue /\ MsgsOf(queue[1].batch) \subseteq Queued
<1>1. /\ groups \in Seq(Entry)
      /\ \A k \in DOMAIN queue : queue[k].batch \in Seq(Entry)
      /\ queue # <<>> => 1 \in DOMAIN queue
      /\ at = "turn" => queue # <<>>
  BY TaskFields DEF IInv, TypeOK
<1>2. \A s \in Seq(Entry) : MsgsOf(s) \subseteq Msg
  BY EntryFields DEF MsgsOf
<1>3. \A k \in DOMAIN queue : MsgsOf(queue[k].batch) \subseteq Queued
  BY DEF Queued
<1>4. Queued \subseteq Msg
  BY <1>1, <1>2 DEF Queued
<1> QED BY <1>1, <1>2, <1>3, <1>4 DEF Answering

\* A step that handles no message and takes none up, but may give some up.
LEMMA DropStep ==
  ASSUME IInv, Received' \subseteq Received, Answering' = Answering,
         at' = "turn" <=> at = "turn", MsgsOf(groups') = MsgsOf(groups), life' = life
  PROVE  Inbox!Next
<1> DEFINE batch == Received \ Received'
<1>1. batch \in SUBSET Msg /\ batch \subseteq Received /\ Received' = Received \ batch
  BY QueuedFacts DEF Received
<1>2. Inbox!Drop(batch)
  BY <1>1 DEF Inbox!Drop
<1> QED BY <1>1, <1>2 DEF Inbox!Next

\* Tasks that leave take their messages with them.
LEMMA ShrinkQueued ==
  ASSUME Shrinks
  PROVE  Queued' \subseteq Queued
<1>1. PICK from \in [DOMAIN queue' -> DOMAIN queue] :
        \A k \in DOMAIN queue' :
          queue'[k].batch = queue[from[k]].batch \/ queue'[k].batch = <<>>
  BY DEF Shrinks
<1>2. ASSUME NEW k \in DOMAIN queue', NEW m \in MsgsOf(queue'[k].batch)
      PROVE  m \in Queued
  <2>1. from[k] \in DOMAIN queue /\ queue'[k].batch = queue[from[k]].batch
    BY <1>1, <1>2, EmptyFacts
  <2> QED BY <1>2, <2>1 DEF Queued
<1>3. \A m \in Queued' : \E k \in DOMAIN queue' : m \in MsgsOf(queue'[k].batch)
  BY DEF Queued
<1> QED BY <1>2, <1>3

\* The holder leaves with its messages, and no other task has one of them.
LEMMA UnlockQueued ==
  ASSUME IInv, queue # <<>>, Unlock
  PROVE  /\ Queued' = Queued \ MsgsOf(queue[1].batch)
         /\ Answering' = {} /\ at' # "turn"
<1>1. /\ Len(queue') = Len(queue) - 1 /\ queue' \in Seq(Task)
      /\ \A k \in DOMAIN queue' : k + 1 \in DOMAIN queue /\ queue'[k] = queue[k + 1]
      /\ at' \in {"idle", "admit"}
  BY UnlockFacts DEF IInv
<1>2. Answering' = {}
  BY <1>1 DEF Answering
<1>3. /\ Len(queue) \in Nat /\ DOMAIN queue = 1..Len(queue) /\ DOMAIN queue' = 1..Len(queue) - 1
      /\ 1 \in DOMAIN queue
  BY <1>1, TaskFields DEF IInv, TypeOK
<1>4. Queued' \subseteq Queued
  BY <1>1, ShrinkQueued, UnlockFacts DEF IInv
<1>5. ASSUME NEW k \in DOMAIN queue', NEW m \in MsgsOf(queue'[k].batch)
      PROVE  m \notin MsgsOf(queue[1].batch)
  <2>1. k + 1 \in DOMAIN queue /\ k + 1 # 1 /\ queue'[k] = queue[k + 1]
    BY <1>1, <1>3
  <2> QED BY <1>3, <1>5, <2>1 DEF IInv, Apart
<1>6. ASSUME NEW k \in DOMAIN queue, NEW m \in MsgsOf(queue[k].batch),
             m \notin MsgsOf(queue[1].batch)
      PROVE  m \in Queued'
  <2>1. k # 1
    BY <1>6
  <2>2. k - 1 \in DOMAIN queue' /\ (k - 1) + 1 = k
    BY <1>3, <2>1
  <2>3. queue'[k - 1] = queue[k]
    BY <1>1, <2>2
  <2> QED BY <1>6, <2>2, <2>3 DEF Queued
<1>7. \A m : m \in Queued' => \E k \in DOMAIN queue' : m \in MsgsOf(queue'[k].batch)
  BY DEF Queued
<1>8. \A m : m \in Queued => \E k \in DOMAIN queue : m \in MsgsOf(queue[k].batch)
  BY DEF Queued
<1> QED BY <1>1, <1>2, <1>4, <1>5, <1>6, <1>7, <1>8

\* A task that comes to the lock brings its messages.
LEMMA EnqueueQueued ==
  ASSUME IInv, NEW t \in Task, Enqueue(t)
  PROVE  /\ Queued' = Queued \cup MsgsOf(t.batch) /\ Answering' = Answering
         /\ at' = "turn" <=> at = "turn"
<1>1. /\ DOMAIN queue' = DOMAIN queue \cup {Len(queue) + 1}
      /\ \A k \in DOMAIN queue : queue'[k] = queue[k]
      /\ queue'[Len(queue) + 1] = t
      /\ at' = at \/ queue = <<>>
  BY EnqueueFacts DEF IInv
<1>2. Queued' = Queued \cup MsgsOf(t.batch)
  BY <1>1 DEF Queued
<1>3. CASE queue = <<>>
  <2>1. at = "idle" /\ at' = "admit"
    BY <1>3 DEF IInv, TypeOK, Enqueue
  <2> QED BY <1>2, <2>1 DEF Answering
<1>4. CASE queue # <<>>
  <2>1. at' = at /\ queue'[1] = queue[1]
    BY <1>1, <1>4, QueuedFacts
  <2> QED BY <1>2, <2>1 DEF Answering
<1> QED BY <1>3, <1>4

\* The lock is left: with the messages of the turn, or with messages that get none.
LEMMA UnlockInbox ==
  ASSUME IInv, queue # <<>>, Unlock, groups' = groups, life' = life
  PROVE  Inbox!Next
<1>1. CASE at = "turn"
  <2>1. Received' = Received /\ Answering' = {} /\ at' # "turn"
    BY <1>1, UnlockQueued, QueuedFacts DEF Received
  <2>2. Inbox!Answered
    BY <2>1 DEF Inbox!Answered
  <2> QED BY <2>2 DEF Inbox!Next
<1>2. CASE at # "turn"
  <2>1. Received' \subseteq Received /\ Answering' = Answering /\ at' # "turn"
    BY <1>2, UnlockQueued, QueuedFacts DEF Received
  <2> QED BY <1>2, <2>1, DropStep
<1> QED BY <1>1, <1>2

\* The holder goes on to a place where nothing is answered yet.
LEMMA StayInbox ==
  ASSUME IInv, queue' = queue, at # "turn", at' # "turn", groups' = groups, life' = life
  PROVE  Inbox!Next
<1>1. Queued' = Queued /\ Answering' = {} /\ Answering = {}
  BY DEF Queued, Answering
<1> QED BY <1>1, DropStep DEF Received

LEMMA ArriveInbox ==
  ASSUME IInv, NEW m \in Msg, Arrive(m)
  PROVE  Inbox!Next
<1> DEFINE t == [kind |-> "msg", batch |-> <<[msg |-> m, age |-> 0]>>]
<1>1. t \in Task /\ MsgsOf(t.batch) = {m}
  <2>1. [msg |-> m, age |-> 0] \in Entry
    BY EntryFields DEF Entry, Age
  <2>2. <<[msg |-> m, age |-> 0]>> \in Seq(Entry)
    BY <2>1
  <2>3. MsgsOf(<<[msg |-> m, age |-> 0]>>) = {m}
    BY DEF MsgsOf
  <2> QED BY <2>2, <2>3, TaskFields
<1>2. Enqueue(t) /\ m \notin Live /\ groups' = groups /\ life' = life
  BY DEF Arrive, inboxVars
<1> HIDE DEF t
<1>3. m \notin Queued /\ m \notin MsgsOf(groups)
  BY <1>2 DEF Live, Deferred, Queued
<1>4. Queued' = Queued \cup {m} /\ Answering' = Answering /\ (at' = "turn" <=> at = "turn")
  BY <1>1, <1>2, EnqueueQueued
<1>5. Received' = Received \cup {m} /\ m \notin Received \cup Answering
  BY <1>3, <1>4, QueuedFacts DEF Received
<1>6. Inbox!Receive(m)
  BY <1>2, <1>3, <1>4, <1>5 DEF Inbox!Receive, MsgsOf
<1> QED BY <1>6 DEF Inbox!Next

LEMMA HolderInbox ==
  ASSUME IInv, Admit \/ WindowOpen \/ Prepare \/ TurnEnds
  PROVE  Inbox!Next
<1>1. queue # <<>> /\ groups' = groups /\ life' = life
  BY DEF Admit, WindowOpen, Prepare, TurnEnds, Holds, inboxVars
<1>2. \/ Unlock
      \/ queue' = queue /\ at # "turn" /\ at' # "turn"
  BY DEF Admit, WindowOpen, Prepare, TurnEnds, Holds, GoesTo
<1> QED BY <1>1, <1>2, UnlockInbox, StayInbox

\* A turn takes up the messages of the holder.
LEMMA TurnInbox ==
  ASSUME IInv, TakeTurn
  PROVE  Inbox!Next
<1>1. queue # <<>> /\ at = "trigger" /\ groups' = groups /\ life' = life
  BY DEF TakeTurn, Holds, inboxVars
<1>2. CASE Unlock
  BY <1>1, <1>2, UnlockInbox
<1>3. CASE life = "running" /\ GoesTo("turn")
  <2> DEFINE batch == MsgsOf(queue[1].batch)
  <2>1. Answering = {} /\ Answering' = batch /\ Queued' = Queued
    BY <1>1, <1>3 DEF Answering, Queued, GoesTo
  <2>2. batch \subseteq Queued /\ Queued \subseteq Msg
    BY <1>1, QueuedFacts
  <2> HIDE DEF batch
  <2>3. Received' = Received \ batch /\ batch \subseteq Received /\ batch \in SUBSET Msg
    BY <2>1, <2>2 DEF Received
  <2>4. MsgsOf(groups') = MsgsOf(groups)
    BY <1>1
  <2>5. at' = "turn"
    BY <1>3 DEF GoesTo
  <2>6. Inbox!Answer(batch)
    BY <2>5, <1>1, <1>3, <2>1, <2>3, <2>4 DEF Inbox!Answer
  <2> QED BY <2>3, <2>6 DEF Inbox!Next
<1> QED BY <1>2, <1>3 DEF TakeTurn

\* The messages that the agent does not see are given up.
LEMMA ClosedInbox ==
  ASSUME IInv, NEW reason \in Reason \ {"open"}, ClosedForLong(reason)
  PROVE  Inbox!Next
<1>1. queue # <<>> /\ at = "window" /\ groups' = groups /\ life' = life
  BY DEF ClosedForLong, Holds, inboxVars
<1>2. CASE Unlock
  BY <1>1, <1>2, UnlockInbox
<1>3. CASE queue' = [queue EXCEPT ![1].batch = <<>>] /\ at' = "trigger"
  <2>1. Queued' \subseteq Queued
    BY <1>1, <1>3, EmptiedFacts, ShrinkQueued DEF IInv
  <2>2. Answering = {} /\ Answering' = {}
    BY <1>1, <1>3 DEF Answering
  <2>3. Received' \subseteq Received
    BY <2>1, <2>2 DEF Received
  <2> QED BY <1>1, <1>3, <2>2, <2>3, DropStep
<1> QED BY <1>2, <1>3 DEF ClosedForLong

LEMMA CancelledInbox ==
  ASSUME IInv, NEW i, HandlerCancelled(i)
  PROVE  Inbox!Next
<1>1. i \in DOMAIN queue /\ queue # <<>> /\ groups' = groups /\ life' = life
  BY DEF HandlerCancelled, inboxVars
<1>2. CASE i = 1
  BY <1>1, <1>2, UnlockInbox DEF HandlerCancelled
<1>3. CASE i # 1
  <2>1. queue' = RemoveAt(queue, i) /\ at' = at
    BY <1>3 DEF HandlerCancelled
  <2>2. queue'[1] = queue[1] /\ Shrinks
    BY <1>1, <1>3, <2>1, RemoveFacts DEF IInv
  <2>3. Queued' \subseteq Queued
    BY <2>2, ShrinkQueued
  <2>4. Answering' = Answering
    BY <2>1, <2>2 DEF Answering
  <2>5. Received' \subseteq Received
    BY <2>3, <2>4 DEF Received
  <2> QED BY <1>1, <2>1, <2>4, <2>5, DropStep
<1> QED BY <1>2, <1>3

\* The holder's messages go into the buffer, which has places for so many.
LEMMA DeferInbox ==
  ASSUME IInv, IInv', NEW reason \in Reason \ {"open"}, NEW delay \in 1..DeferLimit,
         DeferUntilOpen(reason, delay)
  PROVE  Inbox!Next
<1> DEFINE batch == MsgsOf(queue[1].batch)
<1>1. queue # <<>> /\ at = "window" /\ Unlock /\ life' = life
  BY DEF DeferUntilOpen, Holds
<1>2. MsgsOf(groups') \subseteq MsgsOf(groups) \cup batch
  BY DeferKeeps
<1>3. Queued' = Queued \ batch /\ Answering' = {} /\ at' # "turn"
  BY <1>1, UnlockQueued
<1>4. Answering = {} /\ batch \subseteq Queued /\ Queued \subseteq Msg
  BY <1>1, QueuedFacts
<1>5. Cardinality(MsgsOf(groups')) <= MaxGroups
  <2>1. PICK g \in Seq(Entry) : g = groups' /\ Len(g) <= MaxGroups
    BY DEF IInv, TypeOK, Tidy
  <2>2. Cardinality(MsgsOf(g)) \in Nat /\ Cardinality(MsgsOf(g)) <= Len(g)
    BY FewMessages
  <2> QED BY <2>1, <2>2, EntryFields
<1> HIDE DEF batch
<1>6. Received' = Received \ batch /\ batch \subseteq Received /\ batch \in SUBSET Msg
  BY <1>3, <1>4 DEF Received
<1>7. Inbox!Cardinality(MsgsOf(groups')) <= MaxGroups
  BY <1>5 DEF Cardinality, Inbox!Cardinality, IsFiniteSet, Inbox!IsFiniteSet
<1>8. Inbox!Defer(batch)
  BY <1>1, <1>2, <1>3, <1>4, <1>6, <1>7 DEF Inbox!Defer
<1> QED BY <1>6, <1>8 DEF Inbox!Next

\* What is fresh in the buffer goes to the lock together.
LEMMA FlushInbox ==
  ASSUME IInv, FlushAfter
  PROVE  Inbox!Next
<1>1. groups' = <<>> /\ MsgsOf(groups') = {} /\ life' = life
  BY EmptyFacts DEF FlushAfter
<1>2. /\ Received' \subseteq Received \cup MsgsOf(groups)
      /\ Received \subseteq Received'
      /\ Answering' = Answering /\ (at' = "turn" <=> at = "turn")
  <2>1. CASE UNCHANGED lockVars
    BY <2>1 DEF lockVars, Received, Queued, Answering
  <2>2. CASE Enqueue([kind |-> "flush", batch |-> Fresh(groups)])
    <3> DEFINE t == [kind |-> "flush", batch |-> Fresh(groups)]
    <3>1. /\ groups \in Seq(Entry) /\ Fresh(groups) \in Seq(Entry)
          /\ \A i \in DOMAIN Fresh(groups) : \E j \in DOMAIN groups : Fresh(groups)[i] = groups[j]
      BY FreshFacts DEF IInv, TypeOK, Tidy
    <3>2. t \in Task /\ t.batch = Fresh(groups)
      BY <3>1, TaskFields
    <3>3. MsgsOf(Fresh(groups)) \subseteq MsgsOf(groups)
      BY <3>1 DEF MsgsOf
    <3>4. /\ Queued' = Queued \cup MsgsOf(Fresh(groups)) /\ Answering' = Answering
          /\ (at' = "turn" <=> at = "turn")
      BY <2>2, <3>2, EnqueueQueued
    <3> QED BY <3>3, <3>4 DEF Received
  <2> QED BY <2>1, <2>2 DEF FlushAfter
<1>3. Inbox!Flush
  BY <1>1, <1>2 DEF Inbox!Flush
<1> QED BY <1>3 DEF Inbox!Next

\* Starts and stops touch no task at the lock.
LEMMA LifeInbox ==
  ASSUME IInv, OtherTurn \/ Start \/ Stop \/ InboxCancels \/ InboxCloses \/ StopEnds
  PROVE  Inbox!Next
<1>1. queue' = queue /\ at' = at /\ (groups' = groups \/ groups' = <<>>)
  BY DEF OtherTurn, Start, Stop, InboxCancels, InboxCloses, StopEnds, lockVars, inboxVars
<1>2. Queued' = Queued /\ Answering' = Answering
  BY <1>1 DEF Queued, Answering
<1>3. MsgsOf(groups') \in {MsgsOf(groups), {}}
  BY <1>1, EmptyFacts
<1>4. Inbox!StartOrStop
  BY <1>1, <1>2, <1>3 DEF Inbox!StartOrStop, Received
<1> QED BY <1>4 DEF Inbox!Next

\* Time makes messages older and moves none.
LEMMA TickInbox ==
  ASSUME IInv, Tick
  PROVE  Inbox!Next
<1>1. /\ MsgsOf(groups') = MsgsOf(groups) /\ DOMAIN queue' = DOMAIN queue
      /\ \A k \in DOMAIN queue : MsgsOf(queue'[k].batch) = MsgsOf(queue[k].batch)
  BY TickKeeps
<1>2. life' = life /\ at' = at
  BY DEF Tick
<1>3. Queued' = Queued
  BY <1>1 DEF Queued
<1>4. Answering' = Answering
  BY <1>1, <1>2, QueuedFacts DEF Answering
<1> QED BY <1>1, <1>2, <1>3, <1>4, DropStep DEF Received

LEMMA InboxNext ==
  ASSUME IInv, IInv', [Next]_vars
  PROVE  [Inbox!Next]_(Inbox!inboxState)
<1>1. CASE \E m \in Msg : Arrive(m)
  BY <1>1, ArriveInbox
<1>2. CASE HolderStep
  <2>1. CASE Admit \/ WindowOpen \/ Prepare \/ TurnEnds
    BY <2>1, HolderInbox
  <2>2. CASE \E reason \in Reason \ {"open"} : ClosedForLong(reason)
    BY <2>2, ClosedInbox
  <2>3. CASE \E reason \in Reason \ {"open"}, delay \in 1..DeferLimit :
               DeferUntilOpen(reason, delay)
    BY <2>3, DeferInbox
  <2> QED BY <1>2, <2>1, <2>2, <2>3 DEF HolderStep
<1>3. CASE TakeTurn
  BY <1>3, TurnInbox
<1>4. CASE OtherTurn \/ Start \/ Stop \/ InboxCancels \/ InboxCloses \/ StopEnds
  BY <1>4, LifeInbox
<1>5. CASE \E i \in 1..2 * Cardinality(Msg) : HandlerCancelled(i)
  BY <1>5, CancelledInbox
<1>6. CASE FlushAfter
  BY <1>6, FlushInbox
<1>7. CASE Tick
  BY <1>7, TickInbox
<1>8. CASE UNCHANGED vars
  BY <1>8 DEF vars, Inbox!inboxState, Received, Queued, Answering
<1> QED BY <1>1, <1>2, <1>3, <1>4, <1>5, <1>6, <1>7, <1>8 DEF Next

LEMMA InboxInit ==
  ASSUME Init
  PROVE  Inbox!Init
<1>1. Queued = {} /\ Answering = {} /\ MsgsOf(groups) = {}
  BY EmptyFacts DEF Init, Queued, Answering
<1> QED BY <1>1 DEF Init, Inbox!Init, Received

\* Whatever tasks, locks and clocks do, a message waits, is deferred, or is in the one
\* turn of the chat; what was in a turn is done with (_process_batch puts nothing back),
\* and a turn begins only if the agent runs (_trigger_while_running looks once more).
THEOREM ImplementsInbox == Spec => AnsweredOnce
<1>1. Init => Inbox!Init
  BY InboxInit
<1>2. IInv /\ IInv' /\ [Next]_vars => [Inbox!Next]_(Inbox!inboxState)
  BY InboxNext
<1> QED BY <1>1, <1>2, AlwaysSafe, PTL DEF Spec, AnsweredOnce, Inbox!Spec

=============================================================================
