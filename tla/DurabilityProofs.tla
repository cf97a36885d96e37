-------------------------- MODULE DurabilityProofs --------------------------
(***************************************************************************)
(* What the durable files promise: audit records stay in the order of their*)
(* ids whatever fails, and while no I/O operation has failed nothing that  *)
(* was acknowledged is lost by a crash at any point.                       *)
(***************************************************************************)
EXTENDS GovernorProofs, WellFoundedInduction
-----------------------------------------------------------------------------
(* Sequences of audit records                                              *)

\* No record has an id above n.
UpTo(s, n) == \A i \in 1..Len(s) : s[i].id <= n

\* The last record has id n and no other one has; n is 0 when there is none.
Ends(s, n) ==
  IF s = <<>> THEN n = 0
  ELSE s[Len(s)].id = n /\ \A i \in 1..(Len(s) - 1) : s[i].id < n

\* The ids and ticks in a sequence of records.
LEMMA RecordTypes ==
  ASSUME NEW s \in Seq(AuditRecord), NEW i \in 1..Len(s)
  PROVE  s[i] \in AuditRecord /\ s[i].id \in Nat \ {0} /\ s[i].tick \in Nat
<1>1. s[i] \in AuditRecord
  OBVIOUS
<1> QED BY <1>1 DEF AuditRecord

\* t is what s ends with.
Suffix(t, s) ==
  \E k \in Nat : Len(s) = Len(t) + k /\ \A i \in 1..Len(t) : t[i] = s[i + k]

\* The newest n records are the end of the sequence.
LEMMA NewestSuffix ==
  ASSUME NEW s \in Seq(AuditRecord), NEW n \in Nat
  PROVE  /\ Newest(s, n) \in Seq(AuditRecord)
         /\ Suffix(Newest(s, n), s)
         /\ Len(Newest(s, n)) <= n
         /\ n # 0 /\ s # <<>> => Newest(s, n) # <<>>
<1>1. Newest(s, n) \in Seq(AuditRecord)
  BY NewestType
<1>2. CASE ~(Len(s) > n)
  <2>1. Newest(s, n) = s
    BY <1>2 DEF Newest
  <2>2. Len(s) = Len(s) + 0 /\ \A i \in 1..Len(s) : s[i] = s[i + 0]
    OBVIOUS
  <2>3. Suffix(s, s)
    BY <2>2 DEF Suffix
  <2>4. Len(s) <= n
    BY <1>2
  <2> QED BY <2>1, <2>3, <2>4
<1>3. CASE Len(s) > n
  <2> DEFINE k == Len(s) - n
  <2>1. k \in Nat /\ k + 1 \in 1..(Len(s) + 1) /\ Len(s) \in 0..Len(s) /\ Len(s) \in Nat
    BY <1>3
  <2>2. Newest(s, n) = SubSeq(s, k + 1, Len(s))
    BY <1>3 DEF Newest
  <2>3. /\ Len(SubSeq(s, k + 1, Len(s))) = n
        /\ \A i \in 1..n : SubSeq(s, k + 1, Len(s))[i] = s[i + k]
    <3> HIDE DEF k
    <3>1. Len(s) = n + k
      BY <2>1 DEF k
    <3> DEFINE m == k + 1
               l == Len(s)
    <3>2. m \in Int /\ l \in Int /\ \A i \in m..l : s[i] \in AuditRecord
      BY <2>1
    <3> HIDE DEF m, l
    <3>3. /\ Len(SubSeq(s, m, l)) = IF m <= l THEN l - m + 1 ELSE 0
          /\ \A i \in 1..(l - m + 1) : SubSeq(s, m, l)[i] = s[m + i - 1]
      BY <3>2, SubSeqProperties
    <3> USE DEF m, l
    <3>4. Len(SubSeq(s, k + 1, Len(s))) = IF k + 1 <= Len(s) THEN Len(s) - (k + 1) + 1 ELSE 0
      BY <3>3
    <3>5. \A i \in 1..(Len(s) - (k + 1) + 1) : SubSeq(s, k + 1, Len(s))[i] = s[k + 1 + i - 1]
      BY <3>3
    <3>6. Len(SubSeq(s, k + 1, Len(s))) = n
      BY <2>1, <3>1, <3>4
    <3>7. ASSUME NEW i \in 1..n
          PROVE  SubSeq(s, k + 1, Len(s))[i] = s[i + k]
      <4>1. i \in 1..(Len(s) - (k + 1) + 1) /\ k + 1 + i - 1 = i + k
        BY <2>1, <3>1
      <4> QED BY <3>5, <4>1
    <3> QED BY <3>6, <3>7
  <2>4. Len(s) = n + k
    BY <2>1
  <2> HIDE DEF k
  <2>5. Suffix(Newest(s, n), s)
    BY <2>1, <2>2, <2>3, <2>4 DEF Suffix
  <2>6. n # 0 => Newest(s, n) # <<>>
    <3>1. Len(Newest(s, n)) = n
      BY <2>2, <2>3 DEF k
    <3>2. Newest(s, n) = <<>> => n = 0
      BY <3>1
    <3> QED BY <3>2
  <2> QED BY <1>1, <2>2, <2>3, <2>5, <2>6
<1> QED BY <1>2, <1>3

\* The end of a sequence inherits its order and its last record.
LEMMA SuffixKeeps ==
  ASSUME NEW s \in Seq(AuditRecord), NEW t \in Seq(AuditRecord), Suffix(t, s)
  PROVE  /\ Ordered(s) => Ordered(t)
         /\ \A n : UpTo(s, n) => UpTo(t, n)
         /\ t # <<>> => s # <<>> /\ t[Len(t)] = s[Len(s)]
         /\ \A n : t # <<>> /\ Ends(s, n) => Ends(t, n)
<1>1. PICK k \in Nat : Len(s) = Len(t) + k /\ \A i \in 1..Len(t) : t[i] = s[i + k]
  BY DEF Suffix
<1>2. Len(s) \in Nat /\ Len(t) \in Nat
  OBVIOUS
<1>3. \A i \in 1..Len(t) : i + k \in 1..Len(s)
  BY <1>1, <1>2
<1>4. \A n : UpTo(s, n) => UpTo(t, n)
  <2> SUFFICES ASSUME NEW n, UpTo(s, n), NEW i \in 1..Len(t) PROVE t[i].id <= n
    BY DEF UpTo
  <2>1. i + k \in 1..Len(s)
    BY <1>3
  <2>2. s[i + k].id <= n
    BY <2>1 DEF UpTo
  <2> QED BY <1>1, <2>2
<1>5. Ordered(s) => Ordered(t)
  <2> SUFFICES ASSUME Ordered(s), NEW i \in 1..Len(t), NEW j \in 1..Len(t), i < j
               PROVE  t[i].id <= t[j].id
    BY DEF Ordered
  <2>1. i + k \in 1..Len(s) /\ j + k \in 1..Len(s) /\ i + k < j + k
    BY <1>1, <1>2, <1>3
  <2>2. s[i + k].id <= s[j + k].id
    BY <2>1 DEF Ordered
  <2> QED BY <1>1, <2>2
<1>6. ASSUME t # <<>>
      PROVE  s # <<>> /\ t[Len(t)] = s[Len(s)] /\ Len(t) \in 1..Len(t)
  <2>1. Len(t) \in 1..Len(t) /\ Len(s) # 0
    BY <1>1, <1>2, <1>6
  <2> QED BY <1>1, <2>1
<1>7. ASSUME NEW n, t # <<>>, Ends(s, n)
      PROVE  Ends(t, n)
  <2>1. s[Len(s)].id = n /\ \A i \in 1..(Len(s) - 1) : s[i].id < n
    BY <1>6, <1>7 DEF Ends
  <2>2. \A i \in 1..(Len(t) - 1) : i \in 1..Len(t) /\ i + k \in 1..(Len(s) - 1)
    BY <1>1, <1>2
  <2>3. \A i \in 1..(Len(t) - 1) : t[i].id < n
    BY <1>1, <2>1, <2>2
  <2> QED BY <1>6, <1>7, <2>1, <2>3 DEF Ends
<1> QED BY <1>4, <1>5, <1>6, <1>7

\* One more record, of an id that is not below the others.
LEMMA AppendKeeps ==
  ASSUME NEW s \in Seq(AuditRecord), NEW r \in AuditRecord
  PROVE  /\ Append(s, r) \in Seq(AuditRecord) /\ Append(s, r) # <<>>
         /\ Len(Append(s, r)) = Len(s) + 1 /\ Append(s, r)[Len(Append(s, r))] = r
         /\ Ordered(s) /\ UpTo(s, r.id) => Ordered(Append(s, r))
         /\ \A n : UpTo(s, n) /\ r.id <= n => UpTo(Append(s, r), n)
         /\ \A n \in Nat : UpTo(s, n) /\ r.id = n + 1 => Ends(Append(s, r), r.id)
<1> DEFINE t == Append(s, r)
<1>1. t \in Seq(AuditRecord) /\ Len(t) = Len(s) + 1 /\ Len(s) \in Nat /\ t # <<>>
  OBVIOUS
<1>2. t[Len(t)] = r /\ \A i \in 1..Len(s) : t[i] = s[i]
  OBVIOUS
<1> HIDE DEF t
<1>3. \A i \in 1..Len(t) : i \in 1..Len(s) \/ i = Len(t)
  BY <1>1
<1>4. Ordered(s) /\ UpTo(s, r.id) => Ordered(t)
  <2> SUFFICES ASSUME Ordered(s), UpTo(s, r.id), NEW i \in 1..Len(t), NEW j \in 1..Len(t), i < j
               PROVE  t[i].id <= t[j].id
    BY DEF Ordered
  <2>1. i \in 1..Len(s)
    BY <1>1
  <2>2. CASE j \in 1..Len(s)
    BY <1>2, <2>1, <2>2 DEF Ordered
  <2>3. CASE j = Len(t)
    BY <1>2, <2>1, <2>3 DEF UpTo
  <2> QED BY <1>3, <2>2, <2>3
<1>5. \A n : UpTo(s, n) /\ r.id <= n => UpTo(t, n)
  BY <1>2, <1>3 DEF UpTo
<1>6. ASSUME NEW n \in Nat, UpTo(s, n), r.id = n + 1
      PROVE  Ends(t, r.id)
  <2>1. \A i \in 1..(Len(t) - 1) : i \in 1..Len(s)
    BY <1>1
  <2>2. \A i \in 1..Len(s) : s[i].id \in Nat
    BY RecordTypes
  <2>3. \A i \in 1..(Len(t) - 1) : t[i].id < r.id
    BY <1>2, <1>6, <2>1, <2>2 DEF UpTo
  <2> QED BY <1>1, <1>2, <2>3 DEF Ends
<1> QED BY <1>1, <1>2, <1>4, <1>5, <1>6 DEF t

\* The id that a sequence ends with bounds the others.
LEMMA EndsBounds ==
  ASSUME NEW s \in Seq(AuditRecord), NEW n \in Nat, Ends(s, n)
  PROVE  UpTo(s, n) /\ (s = <<>> <=> n = 0)
<1>1. CASE s = <<>>
  <2>1. Len(s) = 0 /\ n = 0
    BY <1>1 DEF Ends
  <2> QED BY <1>1, <2>1 DEF UpTo
<1>2. CASE s # <<>>
  <2>1. Len(s) \in 1..Len(s) /\ s[Len(s)].id = n /\ \A i \in 1..(Len(s) - 1) : s[i].id < n
    BY <1>2 DEF Ends
  <2>2. n # 0
    BY <2>1, RecordTypes
  <2>3. \A i \in 1..Len(s) : s[i].id \in Nat
    BY RecordTypes
  <2>4. \A i \in 1..Len(s) : i \in 1..(Len(s) - 1) \/ i = Len(s)
    OBVIOUS
  <2> QED BY <1>2, <2>1, <2>2, <2>3, <2>4 DEF UpTo
<1> QED BY <1>1, <1>2
-----------------------------------------------------------------------------
(* Replay                                                                  *)

\* A set of numbers has a least element.
LEMMA LeastExists ==
  ASSUME NEW S \in SUBSET Nat, S # {}
  PROVE  \E x \in S : \A y \in S : x <= y
<1>1. PICK x \in S : \A y \in S : ~(<<y, x>> \in OpToRel(<, Nat))
  BY NatLessThanWellFounded, WFMin
<1>2. ASSUME NEW y \in S PROVE x <= y
  <2>1. x \in Nat /\ y \in Nat
    OBVIOUS
  <2>2. ~(y < x)
    BY <1>1, <2>1 DEF OpToRel
  <2> QED BY <2>1, <2>2
<1> QED BY <1>2

\* The first n numbers of a list of k are bounded.
BoundedTo(f, k, n) == \E b \in Nat : \A i \in 1..k : i <= n => f[i] <= b

\* One more number leaves them bounded.
LEMMA OneMoreIsBounded ==
  ASSUME NEW k \in Nat, NEW f \in [1..k -> Nat], NEW n \in Nat, n # 0, BoundedTo(f, k, n - 1)
  PROVE  BoundedTo(f, k, n)
<1>1. PICK b \in Nat : \A i \in 1..k : i <= n - 1 => f[i] <= b
  BY DEF BoundedTo
<1>2. PICK c \in Nat : b <= c /\ (n \in 1..k => f[n] <= c)
  <2>1. CASE n \in 1..k
    <3>1. f[n] \in Nat
      BY <2>1
    <3>2. b + f[n] \in Nat /\ b <= b + f[n] /\ f[n] <= b + f[n]
      BY <3>1
    <3> QED BY <3>2
  <2>2. CASE n \notin 1..k
    BY <2>2
  <2> QED BY <2>1, <2>2
<1>3. ASSUME NEW i \in 1..k, i <= n PROVE f[i] <= c
  <2>1. CASE i = n
    BY <1>2, <2>1
  <2>2. CASE i # n
    <3>1. i <= n - 1 /\ f[i] \in Nat
      BY <1>3, <2>2
    <3>2. f[i] <= b
      BY <1>1, <3>1
    <3> QED BY <1>2, <3>1, <3>2
  <2> QED BY <2>1, <2>2
<1> QED BY <1>3 DEF BoundedTo

\* The numbers that a finite list of them names have a greatest one.
LEMMA GreatestExists ==
  ASSUME NEW k \in Nat, NEW f \in [1..k -> Nat], NEW I \in SUBSET (1..k), I # {}
  PROVE  \E m \in {f[i] : i \in I} : \A y \in {f[i] : i \in I} : y <= m
<1> DEFINE Unbounded == {n \in Nat : ~BoundedTo(f, k, n)}
           Above == {b \in Nat : \A i \in I : f[i] <= b}
<1>1. BoundedTo(f, k, k)
  <2> SUFFICES ASSUME ~BoundedTo(f, k, k) PROVE FALSE
    OBVIOUS
  <2>1. PICK n \in Unbounded : \A y \in Unbounded : n <= y
    <3>1. Unbounded \in SUBSET Nat /\ k \in Unbounded
      OBVIOUS
    <3> HIDE DEF Unbounded
    <3> QED BY <3>1, LeastExists
  <2>2. n \in Nat /\ ~BoundedTo(f, k, n)
    OBVIOUS
  <2>3. BoundedTo(f, k, 0)
    <3>1. \A i \in 1..k : i <= 0 => f[i] <= 0
      OBVIOUS
    <3> QED BY <3>1 DEF BoundedTo
  <2>4. n # 0
    BY <2>2, <2>3
  <2>5. n - 1 \in Nat /\ ~(n <= n - 1)
    BY <2>2, <2>4
  <2>6. BoundedTo(f, k, n - 1)
    BY <2>1, <2>5
  <2> QED BY <2>2, <2>4, <2>6, OneMoreIsBounded
<1>2. PICK b \in Nat : \A i \in 1..k : i <= k => f[i] <= b
  BY <1>1 DEF BoundedTo
<1>3. b \in Above
  BY <1>2
<1>4. PICK m \in Above : \A y \in Above : m <= y
  <2>1. Above \in SUBSET Nat /\ Above # {}
    BY <1>3
  <2> HIDE DEF Above
  <2> QED BY <2>1, LeastExists
<1>5. m \in Nat /\ \A i \in I : f[i] <= m
  OBVIOUS
<1>6. \E i \in I : f[i] = m
  <2> SUFFICES ASSUME \A i \in I : f[i] # m PROVE FALSE
    OBVIOUS
  <2>1. ASSUME NEW i \in I PROVE m # 0 /\ f[i] <= m - 1
    <3>1. f[i] \in Nat /\ f[i] <= m /\ f[i] # m
      BY <1>5
    <3> HIDE DEF Above
    <3> QED BY <1>5, <3>1
  <2>2. m # 0 /\ m - 1 \in Nat
    <3>1. \E i \in I : TRUE
      OBVIOUS
    <3>2. m # 0
      BY <2>1, <3>1
    <3> QED BY <1>5, <3>2
  <2>3. \A i \in I : f[i] <= m - 1
    BY <2>1
  <2>4. m - 1 \in Above
    BY <2>2, <2>3
  <2> QED BY <1>4, <1>5, <2>2, <2>4
<1> QED BY <1>5, <1>6

\* The highest of n and a set with a greatest element is the greater of the two.
LEMMA HighestCovers ==
  ASSUME NEW S \in SUBSET Nat, NEW n \in Nat, NEW m \in S, \A y \in S : y <= m
  PROVE  /\ Highest(n, S) = IF m > n THEN m ELSE n
         /\ \A y \in S : y <= Highest(n, S)
<1> DEFINE Best(x) == x > n /\ \A y \in S : y <= x
<1>1. CASE m > n
  <2>1. \E x \in S : Best(x)
    BY <1>1
  <2>2. Highest(n, S) = CHOOSE x \in S : Best(x)
    BY <2>1 DEF Highest
  <2>3. Highest(n, S) \in S /\ \A y \in S : y <= Highest(n, S)
    BY <2>1, <2>2
  <2>4. Highest(n, S) \in Nat /\ m <= Highest(n, S) /\ Highest(n, S) <= m
    BY <2>3
  <2>5. Highest(n, S) = m
    BY <2>4
  <2> QED BY <1>1, <2>3, <2>5
<1>2. CASE ~(m > n)
  <2>1. \A x \in S : ~(x > n)
    BY <1>2
  <2>2. Highest(n, S) = n
    BY <2>1 DEF Highest
  <2> QED BY <1>2, <2>1, <2>2
<1> QED BY <1>1, <1>2

\* In an ordered journal the first of the records with the last id is applied, so
\* replay raises the counter to the last id.
LEMMA RebuildCovers ==
  ASSUME NEW s \in Seq(AuditRecord), s # <<>>, Ordered(s), NEW n \in Nat
  PROVE  /\ RebuildIssued(n, s) = IF s[Len(s)].id > n THEN s[Len(s)].id ELSE n
         /\ UpTo(s, RebuildIssued(n, s))
<1> DEFINE last == s[Len(s)].id
           Same == {i \in 1..Len(s) : s[i].id = last}
           S == {s[i].id : i \in Applied(s)}
<1>1. Len(s) \in 1..Len(s) /\ Len(s) \in Nat /\ last \in Nat
  <2>1. Len(s) \in 1..Len(s)
    OBVIOUS
  <2> QED BY <2>1, RecordTypes
<1>2. \A i \in 1..Len(s) : s[i].id \in Nat /\ s[i].id <= last
  <2> SUFFICES ASSUME NEW i \in 1..Len(s) PROVE s[i].id \in Nat /\ s[i].id <= last
    OBVIOUS
  <2>1. s[i].id \in Nat
    BY RecordTypes
  <2>2. CASE i < Len(s)
    BY <1>1, <2>1, <2>2 DEF Ordered
  <2>3. CASE i = Len(s)
    BY <1>1, <2>3
  <2> QED BY <2>1, <2>2, <2>3
<1>3. PICK i \in Same : \A j \in Same : i <= j
  <2>1. Same \in SUBSET Nat /\ Same # {}
    BY <1>1
  <2> HIDE DEF Same
  <2> QED BY <2>1, LeastExists
<1>4. i \in Applied(s)
  <2>1. i \in 1..Len(s) /\ s[i].id = last
    OBVIOUS
  <2>2. ASSUME NEW j \in 1..(i - 1) PROVE s[j].id < s[i].id
    <3>1. j \in 1..Len(s) /\ ~(i <= j)
      BY <2>1
    <3>2. s[j].id # last
      BY <1>3, <3>1
    <3> QED BY <1>1, <1>2, <2>1, <3>1, <3>2
  <2> QED BY <2>1, <2>2 DEF Applied
<1>5. S \in SUBSET Nat /\ last \in S /\ \A y \in S : y <= last
  BY <1>2, <1>4 DEF Applied
<1>6. RebuildIssued(n, s) = Highest(n, S)
  BY DEF RebuildIssued
<1> HIDE DEF S, last
<1>7. RebuildIssued(n, s) = IF last > n THEN last ELSE n
  BY <1>5, <1>6, HighestCovers
<1>8. last <= RebuildIssued(n, s) /\ RebuildIssued(n, s) \in Nat
  BY <1>1, <1>7
<1>9. UpTo(s, RebuildIssued(n, s))
  BY <1>1, <1>2, <1>8 DEF UpTo
<1> QED BY <1>7, <1>9 DEF last

\* Without records nothing is replayed.
LEMMA RebuildNothing ==
  ASSUME NEW n \in Nat
  PROVE  RebuildIssued(n, <<>>) = n /\ RebuildTick(n, <<>>) = n /\ RebuildEpoch(n, <<>>) = n
<1>1. Applied(<<>>) = {}
  BY DEF Applied
<1>2. Highest(n, {}) = n
  BY DEF Highest
<1> QED BY <1>1, <1>2 DEF RebuildIssued, RebuildTick, RebuildEpoch

\* The clock is restored to no less than the tick of a record that is applied.
LEMMA RebuildTickCovers ==
  ASSUME NEW s \in Seq(AuditRecord), NEW n \in Nat, NEW i \in Applied(s)
  PROVE  s[i].tick <= RebuildTick(n, s)
<1> DEFINE f == [j \in 1..Len(s) |-> s[j].tick]
           S == {f[j] : j \in Applied(s)}
<1>1. f \in [1..Len(s) -> Nat] /\ Len(s) \in Nat
  BY RecordTypes
<1>2. Applied(s) \in SUBSET (1..Len(s)) /\ Applied(s) # {}
  BY DEF Applied
<1>3. S = {s[j].tick : j \in Applied(s)} /\ s[i].tick \in S
  BY <1>2
<1>4. S \in SUBSET Nat
  BY <1>1, <1>2
<1>5. PICK m \in S : \A y \in S : y <= m
  <2> HIDE DEF f
  <2> QED BY <1>1, <1>2, GreatestExists
<1>6. RebuildTick(n, s) = Highest(n, S)
  BY <1>3 DEF RebuildTick
<1> HIDE DEF S, f
<1>7. \A y \in S : y <= Highest(n, S)
  BY <1>4, <1>5, HighestCovers
<1> QED BY <1>3, <1>6, <1>7
-----------------------------------------------------------------------------
(* What a recovery reads                                                   *)

\* A bound may be raised.
LEMMA UpToRises ==
  ASSUME NEW s \in Seq(AuditRecord), NEW m \in Nat, NEW n \in Nat, m <= n, UpTo(s, m)
  PROVE  UpTo(s, n)
<1>1. \A i \in 1..Len(s) : s[i].id \in Nat
  BY RecordTypes
<1> QED BY <1>1 DEF UpTo

\* The beginning of a sequence.
LEMMA PrefixFacts ==
  ASSUME NEW s \in Seq(AuditRecord), NEW h \in 0..Len(s)
  PROVE  /\ SubSeq(s, 1, h) \in Seq(AuditRecord) /\ Len(SubSeq(s, 1, h)) = h
         /\ \A i \in 1..h : SubSeq(s, 1, h)[i] = s[i]
         /\ Ordered(s) => Ordered(SubSeq(s, 1, h))
<1>1. h \in Nat /\ Len(s) \in Nat /\ \A i \in 1..h : i \in 1..Len(s)
  OBVIOUS
<1>2. \A i \in 1..h : s[i] \in AuditRecord
  BY <1>1
<1> DEFINE t == SubSeq(s, 1, h)
<1>3. /\ t \in Seq(AuditRecord)
      /\ Len(t) = IF 1 <= h THEN h - 1 + 1 ELSE 0
      /\ \A i \in 1..(h - 1 + 1) : t[i] = s[1 + i - 1]
  BY <1>1, <1>2, SubSeqProperties
<1> HIDE DEF t
<1>4. Len(t) = h /\ h - 1 + 1 = h
  BY <1>1, <1>3
<1>5. ASSUME NEW i \in 1..h PROVE t[i] = s[i]
  <2>1. 1 + i - 1 = i
    OBVIOUS
  <2> QED BY <1>3, <1>4, <2>1
<1>6. Ordered(s) => Ordered(t)
  <2> SUFFICES ASSUME Ordered(s), NEW i \in 1..h, NEW j \in 1..h, i < j
               PROVE  t[i].id <= t[j].id
    BY <1>4 DEF Ordered
  <2>1. s[i].id <= s[j].id
    BY <1>1 DEF Ordered
  <2> QED BY <1>5, <2>1
<1> QED BY <1>3, <1>4, <1>5, <1>6 DEF t

\* Cutting a journal keeps its order, and cuts nothing while the bound is kept.
LEMMA LoadKeeps ==
  ASSUME NEW s \in Seq(AuditRecord)
  PROVE  /\ LoadJournal(s) \in Seq(AuditRecord)
         /\ Ordered(s) => Ordered(LoadJournal(s))
         /\ \A n : UpTo(s, n) => UpTo(LoadJournal(s), n)
         /\ Len(s) <= MaxJournalRecords => LoadJournal(s) = s
<1>1. Len(s) \in Nat /\ MaxJournalRecords \in Nat
  BY StoreAssumption
<1>2. CASE ~(Len(s) > MaxJournalRecords + 1)
  BY <1>2 DEF LoadJournal
<1>3. CASE Len(s) > MaxJournalRecords + 1
  <2> DEFINE h == MaxJournalRecords + 1
  <2>1. h \in 0..Len(s) /\ ~(Len(s) <= MaxJournalRecords) /\ \A i \in 1..h : i \in 1..Len(s)
    BY <1>1, <1>3
  <2>2. LoadJournal(s) = SubSeq(s, 1, h)
    BY <1>3 DEF LoadJournal
  <2> HIDE DEF h
  <2>3. \A n : UpTo(s, n) => UpTo(SubSeq(s, 1, h), n)
    BY <2>1, PrefixFacts DEF UpTo
  <2> QED BY <2>1, <2>2, <2>3, PrefixFacts
<1> QED BY <1>2, <1>3

\* Older records in front of a journal.
LEMMA JoinKeeps ==
  ASSUME NEW s \in Seq(AuditRecord), NEW r \in Seq(AuditRecord), r # <<>>,
         Ordered(s), Ordered(r), \A i \in 1..Len(s) : s[i].id < r[1].id
  PROVE  /\ s \o r \in Seq(AuditRecord) /\ s \o r # <<>>
         /\ (s \o r)[Len(s \o r)] = r[Len(r)]
         /\ Ordered(s \o r)
         /\ \A n \in Nat : UpTo(r, n) => UpTo(s \o r, n)
         /\ \A n \in Nat : Ends(r, n) => Ends(s \o r, n)
<1> DEFINE q == s \o r
<1>1. /\ q \in Seq(AuditRecord) /\ Len(s) \in Nat /\ Len(r) \in Nat /\ Len(q) = Len(s) + Len(r)
      /\ 1 \in 1..Len(r) /\ Len(r) \in 1..Len(r)
  OBVIOUS
<1>2. \A i \in 1..Len(s) : q[i] = s[i]
  OBVIOUS
<1>3. \A i \in 1..Len(q) : i > Len(s) => i - Len(s) \in 1..Len(r) /\ q[i] = r[i - Len(s)]
  OBVIOUS
<1> HIDE DEF q
<1>4. \A i \in 1..Len(q) : i \in 1..Len(s) \/ i > Len(s)
  BY <1>1
<1>5. q # <<>> /\ q[Len(q)] = r[Len(r)]
  <2>1. Len(q) \in 1..Len(q) /\ Len(q) > Len(s) /\ Len(q) - Len(s) = Len(r)
    BY <1>1
  <2> QED BY <1>3, <2>1
<1>6. /\ \A i \in 1..Len(r) : r[i].id \in Nat /\ r[1].id <= r[i].id
      /\ \A i \in 1..Len(s) : s[i].id \in Nat
  <2>1. \A i \in 1..Len(r) : r[i].id \in Nat
    BY RecordTypes
  <2>2. ASSUME NEW i \in 1..Len(r) PROVE r[1].id <= r[i].id
    <3>1. CASE i = 1
      BY <2>1, <3>1
    <3>2. CASE i # 1
      <4>1. 1 \in 1..Len(r) /\ 1 < i
        BY <3>2
      <4> QED BY <4>1 DEF Ordered
    <3> QED BY <3>1, <3>2
  <2> QED BY <2>1, <2>2, RecordTypes
<1>7. Ordered(q)
  <2> SUFFICES ASSUME NEW i \in 1..Len(q), NEW j \in 1..Len(q), i < j
               PROVE  q[i].id <= q[j].id
    BY DEF Ordered
  <2>1. CASE j \in 1..Len(s)
    <3>1. i \in 1..Len(s)
      BY <1>1, <2>1
    <3>2. s[i].id <= s[j].id
      BY <2>1, <3>1 DEF Ordered
    <3> QED BY <1>2, <2>1, <3>1, <3>2
  <2>2. CASE i \in 1..Len(s) /\ j > Len(s)
    <3>1. s[i].id < r[1].id /\ s[i].id \in Nat /\ q[i] = s[i]
      BY <1>2, <1>6, <2>2
    <3>2. q[j] = r[j - Len(s)] /\ r[1].id <= r[j - Len(s)].id /\ r[j - Len(s)].id \in Nat
      BY <1>3, <1>6, <2>2
    <3>3. r[1].id \in Nat
      BY <1>1, <1>6
    <3> QED BY <3>1, <3>2, <3>3
  <2>3. CASE i > Len(s)
    <3>1. j > Len(s) /\ i - Len(s) < j - Len(s)
      BY <1>1, <2>3
    <3>2. r[i - Len(s)].id <= r[j - Len(s)].id
      BY <1>3, <2>3, <3>1 DEF Ordered
    <3> QED BY <1>3, <2>3, <3>1, <3>2
  <2> QED BY <1>4, <2>1, <2>2, <2>3
<1>8. ASSUME NEW n \in Nat, UpTo(r, n)
      PROVE  UpTo(q, n)
  <2>1. r[1].id <= n /\ r[1].id \in Nat
    BY <1>1, <1>6, <1>8 DEF UpTo
  <2> SUFFICES ASSUME NEW i \in 1..Len(q) PROVE q[i].id <= n
    BY DEF UpTo
  <2>2. CASE i \in 1..Len(s)
    <3>1. s[i].id < r[1].id /\ s[i].id \in Nat
      BY <1>6, <2>2
    <3> QED BY <1>2, <2>1, <2>2, <3>1
  <2>3. CASE i > Len(s)
    BY <1>3, <1>8, <2>3 DEF UpTo
  <2> QED BY <1>4, <2>2, <2>3
<1>9. ASSUME NEW n \in Nat, Ends(r, n)
      PROVE  Ends(q, n)
  <2>1. r[Len(r)].id = n /\ \A i \in 1..(Len(r) - 1) : r[i].id < n
    BY <1>9 DEF Ends
  <2> SUFFICES ASSUME NEW i \in 1..(Len(q) - 1) PROVE q[i].id < n
    BY <1>5, <2>1 DEF Ends
  <2>2. i \in 1..Len(q)
    BY <1>1
  <2>3. CASE i \in 1..Len(s)
    <3>1. s[i].id < r[1].id /\ s[i].id \in Nat /\ r[1].id <= n /\ r[1].id \in Nat
      BY <1>1, <1>6, <2>1, <2>3
    <3> QED BY <1>2, <2>3, <3>1
  <2>4. CASE i > Len(s)
    <3>1. i - Len(s) \in 1..(Len(r) - 1)
      BY <1>1, <2>4
    <3> QED BY <1>3, <2>1, <2>2, <2>4, <3>1
  <2> QED BY <1>4, <2>2, <2>3, <2>4
<1> QED BY <1>1, <1>5, <1>7, <1>8, <1>9 DEF q

\* The audit tail after a recovery keeps the order and ends with the journal.
LEMMA MergeKeeps ==
  ASSUME NEW s \in Seq(AuditRecord), NEW r \in Seq(AuditRecord), r # <<>>,
         Ordered(s), Ordered(r)
  PROVE  /\ MergeAudit(s, r) # <<>> /\ MergeAudit(s, r)[Len(MergeAudit(s, r))] = r[Len(r)]
         /\ Ordered(MergeAudit(s, r))
         /\ \A n \in Nat : UpTo(r, n) => UpTo(MergeAudit(s, r), n)
         /\ \A n \in Nat : Ends(r, n) => Ends(MergeAudit(s, r), n)
<1> DEFINE older == {i \in 1..Len(s) : s[i].id < r[1].id}
           h == Highest(0, older)
           p == SubSeq(s, 1, h)
<1>1. 1 \in 1..Len(r) /\ r[1].id \in Nat
  <2>1. 1 \in 1..Len(r)
    OBVIOUS
  <2> QED BY <2>1, RecordTypes
<1>2. h \in Nat /\ (h # 0 => h \in older)
  <2>1. older \in SUBSET Nat
    OBVIOUS
  <2> HIDE DEF older
  <2> QED BY <2>1, HighestFacts
<1>3. h \in 0..Len(s)
  BY <1>2
<1>4. ASSUME NEW i \in 1..h PROVE s[i].id < r[1].id
  <2>1. h \in 1..Len(s) /\ s[h].id < r[1].id /\ i \in 1..Len(s)
    BY <1>2, <1>3
  <2>2. s[i].id \in Nat /\ s[h].id \in Nat
    BY <2>1, RecordTypes
  <2>3. s[i].id <= s[h].id
    <3>1. CASE i = h
      BY <2>2, <3>1
    <3>2. CASE i # h
      <4>1. i < h
        BY <1>2, <3>2
      <4> QED BY <2>1, <4>1 DEF Ordered
    <3> QED BY <3>1, <3>2
  <2> QED BY <1>1, <2>1, <2>2, <2>3
<1> HIDE DEF h
<1>5. p \in Seq(AuditRecord) /\ Ordered(p) /\ \A i \in 1..Len(p) : p[i].id < r[1].id
  BY <1>3, <1>4, PrefixFacts
<1>6. MergeAudit(s, r) = Newest(p \o r, MaxAuditRecords)
  BY DEF MergeAudit, h
<1> HIDE DEF p
<1> DEFINE q == p \o r
           t == Newest(q, MaxAuditRecords)
<1>7. /\ q \in Seq(AuditRecord) /\ q # <<>> /\ q[Len(q)] = r[Len(r)] /\ Ordered(q)
      /\ \A n \in Nat : UpTo(r, n) => UpTo(q, n)
      /\ \A n \in Nat : Ends(r, n) => Ends(q, n)
  BY <1>5, JoinKeeps
<1> HIDE DEF q
<1>8. t \in Seq(AuditRecord) /\ Suffix(t, q) /\ t # <<>>
  BY <1>7, NewestSuffix, StoreAssumption
<1> HIDE DEF t
<1>9. /\ Ordered(t) /\ t[Len(t)] = q[Len(q)]
      /\ \A n : UpTo(q, n) => UpTo(t, n)
      /\ \A n : Ends(q, n) => Ends(t, n)
  BY <1>7, <1>8, SuffixKeeps
<1> QED BY <1>6, <1>7, <1>8, <1>9 DEF t, q
-----------------------------------------------------------------------------
(* What a step writes                                                      *)

\* A step that writes no record: at most it saves the state as it is.
Quiet ==
  /\ UNCHANGED <<issued, audit, journal, decisions>>
  /\ disk' = disk \/ disk' = Snapshot'
  /\ clock' >= clock

\* A step of an evaluation of domain d, at a tick not before the clock: the
\* journal is compacted if it is full, and then nothing, a record that does not
\* count, or the record of the next decision is written.
Writes(d, tick) ==
  LET rec == RecordFor(d, tick)
  IN  /\ tick \in Nat /\ tick >= clock /\ clock' = tick
      /\ \/ /\ journal' = Room.journal \/ journal' = Frames(rec)
            /\ audit' = Room.audit
            /\ UNCHANGED <<issued, disk, decisions>>
         \/ /\ journal' = Frames(rec)
            /\ audit' = Newest(Append(Room.audit, rec), MaxAuditRecords)
            /\ issued' = issued + 1
            /\ disk' = disk \/ disk' = Snapshot'
            /\ decisions' = decisions \/ decisions' = decisions \cup {DecisionFor(d, tick)}

\* The clock of an evaluation does not run backwards.
LEMMA TickRises ==
  ASSUME TypeOK, NEW t \in Ticks
  PROVE  EvaluationTick(t) \in Nat /\ EvaluationTick(t) >= clock
<1>1. clock \in Nat /\ t \in Nat
  BY GovernorAssumption DEF TypeOK, Ticks
<1> QED BY <1>1 DEF EvaluationTick

\* The record of an evaluation carries the id of its decision and its tick.
LEMMA RecordFacts ==
  ASSUME TypeOK, NEW d \in Domains, NEW tick \in Nat
  PROVE  /\ RecordFor(d, tick) \in AuditRecord
         /\ RecordFor(d, tick).id = issued + 1 /\ RecordFor(d, tick).tick = tick
         /\ DecisionFor(d, tick).id = issued + 1 /\ DecisionFor(d, tick).tick = tick
<1>1. RecordFor(d, tick) \in AuditRecord
  BY EvaluationFacts, TypeHalves
<1>2. RecordFor(d, tick).id = issued + 1 /\ RecordFor(d, tick).tick = tick
  BY DEF RecordFor
<1>3. DecisionFor(d, tick).id = issued + 1 /\ DecisionFor(d, tick).tick = tick
  BY DEF DecisionFor
<1> QED BY <1>1, <1>2, <1>3

\* A save leaves the old file or the state as it is.
LEMMA SaveWrites ==
  ASSUME SaveSucceeds \/ SaveFails \/ Persist
  PROVE  disk' = disk \/ disk' = Snapshot'
  BY DEF Persist, SaveSucceeds, SaveFails

\* A call that observes a tick does not turn the clock back.
LEMMA ObserveRises ==
  ASSUME TypeOK, NEW t \in Ticks, Observe(t)
  PROVE  clock' >= clock
<1>1. clock \in Nat /\ t \in Nat
  BY GovernorAssumption DEF TypeOK, Ticks
<1> QED BY <1>1 DEF Observe

\* Recoveries and evaluations aside, every step is quiet.
LEMMA StepWrites ==
  ASSUME TypeOK, [Next]_vars
  PROVE  \/ Quiet
         \/ Recover
         \/ RecoverFails
         \/ \E d \in Domains, tick \in Nat : Writes(d, tick)
<1>1. clock \in Nat /\ clock >= clock
  BY DEF TypeOK
<1>2. CASE UNCHANGED vars
  BY <1>1, <1>2 DEF vars, memory, files, history, Quiet
<1>3. CASE Lifecycle
  <2>1. ASSUME NEW c \in PolicyContents, OpenFresh(c)
        PROVE  Quiet
    BY <1>1, <2>1, SaveWrites DEF OpenFresh, history, Quiet
  <2>2. CASE Crash \/ BeginShutdown \/ Close
    BY <1>1, <2>2 DEF Crash, BeginShutdown, Close, memory, files, history, Quiet
  <2>3. CASE EndShutdown \/ Save
    BY <1>1, <2>3, SaveWrites DEF EndShutdown, Save, Persist, memory, history, Quiet
  <2> QED BY <1>3, <2>1, <2>2, <2>3 DEF Lifecycle
<1>4. CASE Configure
  <2>1. ASSUME NEW c \in PolicyContents, NEW t \in Ticks, InstallPolicy(c, t)
        PROVE  Quiet
    <3>1. clock' >= clock
      BY <2>1, ObserveRises DEF InstallPolicy
    <3> QED BY <2>1, <3>1, SaveWrites DEF InstallPolicy, Persist, history, Quiet
  <2>2. ASSUME NEW next \in 1..MaxEpoch, AdvanceEpoch(next)
        PROVE  Quiet
    BY <1>1, <2>2, SaveWrites DEF AdvanceEpoch, Persist, history, Quiet
  <2>3. ASSUME NEW delta \in 1..MaxTick, AdvanceTick(delta)
        PROVE  Quiet
    <3>1. clock' >= clock
      BY <1>1, <2>3 DEF AdvanceTick
    <3> QED BY <2>3, <3>1 DEF AdvanceTick, files, history, Quiet
  <2> QED BY <1>4, <2>1, <2>2, <2>3 DEF Configure
<1>5. CASE Publish
  <2>1. ASSUME NEW p \in Publishers, NEW i \in 1..MaxPublisherIncarnation, NEW t \in Ticks,
               RegisterPublisher(p, i, t) \/ AdoptIncarnation(p, i, t)
        PROVE  Quiet
    <3>1. clock' >= clock
      BY <2>1, ObserveRises DEF RegisterPublisher, AdoptIncarnation
    <3> QED BY <2>1, <3>1, SaveWrites
            DEF RegisterPublisher, AdoptIncarnation, Persist, history, Quiet
  <2>2. ASSUME NEW p \in Publishers, FencePublisher(p)
        PROVE  Quiet
    BY <1>1, <2>2, SaveWrites DEF FencePublisher, Persist, history, Quiet
  <2>3. ASSUME NEW m \in Publication, IngestDuplicate(m) \/ IngestRefused(m)
        PROVE  Quiet
    BY <1>1, <2>3 DEF IngestDuplicate, IngestRefused, memory, files, history, Quiet
  <2>4. ASSUME NEW m \in Publication, IngestAccepted(m) \/ IngestUnsaved(m)
        PROVE  Quiet
    BY <1>1, <2>4, SaveWrites DEF IngestAccepted, IngestUnsaved, history, Quiet
  <2> QED BY <1>5, <2>1, <2>2, <2>3, <2>4 DEF Publish
<1>6. CASE Govern
  <2> SUFFICES ASSUME NEW d \in Domains, NEW t \in Ticks,
                      \/ Evaluate(d, t) \/ EvaluateWedged(d, t)
                      \/ EvaluateAppendFails(d, t) \/ EvaluateCompactionFails(d, t)
                      \/ CrashInEvaluate(d, t)
               PROVE  Quiet \/ Writes(d, EvaluationTick(t))
    BY <1>6, TickRises DEF Govern
  <2> DEFINE tick == EvaluationTick(t)
  <2>1. tick \in Nat /\ tick >= clock
    BY TickRises
  <2>2. CASE Evaluate(d, t)
    BY <2>1, <2>2 DEF Evaluate, DeliverDecision, SaveSucceeds, Writes
  <2>3. CASE EvaluateWedged(d, t)
    BY <2>1, <2>3 DEF EvaluateWedged, history, Writes
  <2>4. CASE EvaluateAppendFails(d, t)
    BY <2>1, <2>4 DEF EvaluateAppendFails, history, Writes
  <2>5. CASE EvaluateCompactionFails(d, t)
    BY <2>1, <2>5 DEF EvaluateCompactionFails, files, history, Quiet
  <2>6. CASE CrashInEvaluate(d, t)
    BY <2>1, <2>6 DEF CrashInEvaluate, history, Writes
  <2> QED BY <2>2, <2>3, <2>4, <2>5, <2>6
<1> QED BY <1>2, <1>3, <1>4, <1>5, <1>6 DEF Next
-----------------------------------------------------------------------------
(* The order of the audit, whatever fails                                  *)

\* The inductive invariant: records are in order and the counter covers them; the
\* journal alone may hold records of the decision that is still to come.
AuditInv ==
  /\ Ordered(audit) /\ UpTo(audit, issued)
  /\ Ordered(journal) /\ UpTo(journal, issued + 1)
  /\ disk # None => Ordered(disk.audit) /\ UpTo(disk.audit, disk.issued)

\* A new directory.
LEMMA AuditInit == Init => AuditInv
  BY DEF Init, AuditInv, Ordered, UpTo

\* The parts of a state file.
LEMMA DiskTypes ==
  ASSUME TypeOK, disk # None
  PROVE  disk.audit \in Seq(AuditRecord) /\ disk.issued \in Nat /\ disk.tick \in Nat
<1>1. disk \in DurableState
  BY DEF TypeOK
<1> QED BY <1>1 DEF DurableState

\* Compaction keeps the order, in memory and in the journal.
LEMMA RoomKeeps ==
  ASSUME TypeOK, AuditInv
  PROVE  /\ Room.journal \in Seq(AuditRecord) /\ Room.audit \in Seq(AuditRecord)
         /\ Ordered(Room.journal) /\ UpTo(Room.journal, issued + 1)
         /\ Ordered(Room.audit) /\ UpTo(Room.audit, issued)
<1>1. CASE counted < MaxJournalRecords
  <2>1. Room.journal = journal /\ Room.audit = audit
    BY <1>1 DEF Room
  <2> QED BY <2>1 DEF AuditInv, TypeOK
<1>2. CASE ~(counted < MaxJournalRecords)
  <2> DEFINE kept == Newest(audit, CompactionKeep)
  <2>1. Room.journal = kept /\ Room.audit = kept
    BY <1>2 DEF Room
  <2>2. audit \in Seq(AuditRecord) /\ issued \in Nat /\ CompactionKeep \in Nat
    BY GovernorAssumption, StoreAssumption DEF TypeOK, CompactionKeep
  <2>3. kept \in Seq(AuditRecord) /\ Suffix(kept, audit)
    BY <2>2, NewestSuffix
  <2> HIDE DEF kept
  <2>4. Ordered(kept) /\ UpTo(kept, issued)
    BY <2>2, <2>3, SuffixKeeps DEF AuditInv
  <2>5. UpTo(kept, issued + 1)
    BY <2>2, <2>3, <2>4, UpToRises
  <2> QED BY <2>1, <2>3, <2>4, <2>5
<1> QED BY <1>1, <1>2

\* The frame of the next decision keeps the journal in order.
LEMMA FramesKeep ==
  ASSUME TypeOK, AuditInv, NEW r \in AuditRecord, r.id = issued + 1
  PROVE  Frames(r) \in Seq(AuditRecord) /\ Ordered(Frames(r)) /\ UpTo(Frames(r), issued + 1)
<1>1. Frames(r) = Room.journal \/ Frames(r) = Append(Room.journal, r)
  BY DEF Frames
<1>2. issued + 1 \in Nat /\ r.id <= issued + 1
  BY DEF TypeOK
<1>3. /\ Room.journal \in Seq(AuditRecord) /\ Ordered(Room.journal)
      /\ UpTo(Room.journal, issued + 1) /\ UpTo(Room.journal, r.id)
  BY RoomKeeps
<1>4. /\ Append(Room.journal, r) \in Seq(AuditRecord) /\ Ordered(Append(Room.journal, r))
      /\ UpTo(Append(Room.journal, r), issued + 1)
  BY <1>2, <1>3, AppendKeeps
<1> QED BY <1>1, <1>3, <1>4

\* The audit tail with the record of the next decision.
LEMMA TailKeeps ==
  ASSUME TypeOK, AuditInv, NEW r \in AuditRecord, r.id = issued + 1
  PROVE  LET tail == Newest(Append(Room.audit, r), MaxAuditRecords)
         IN  /\ tail \in Seq(AuditRecord) /\ Ordered(tail) /\ UpTo(tail, issued + 1)
             /\ Ends(tail, issued + 1) /\ tail # <<>> /\ tail[Len(tail)] = r
<1> DEFINE q == Append(Room.audit, r)
           tail == Newest(q, MaxAuditRecords)
<1>1. issued \in Nat /\ issued + 1 \in Nat /\ r.id <= issued + 1
  BY DEF TypeOK
<1>2. UpTo(Room.audit, issued + 1)
  BY <1>1, RoomKeeps, UpToRises
<1>3. /\ q \in Seq(AuditRecord) /\ q # <<>> /\ q[Len(q)] = r
      /\ Ordered(q) /\ UpTo(q, issued + 1) /\ Ends(q, issued + 1)
  BY <1>1, <1>2, RoomKeeps, AppendKeeps
<1> HIDE DEF q
<1>4. tail \in Seq(AuditRecord) /\ Suffix(tail, q) /\ tail # <<>>
  BY <1>3, NewestSuffix, StoreAssumption
<1> HIDE DEF tail
<1>5. Ordered(tail) /\ UpTo(tail, issued + 1) /\ Ends(tail, issued + 1) /\ tail[Len(tail)] = r
  BY <1>3, <1>4, SuffixKeeps
<1> QED BY <1>4, <1>5 DEF tail, q

\* A recovery restores an order that its counter covers.
LEMMA RecoveredOrder ==
  ASSUME TypeOK, TypeOK', AuditInv, Recover
  PROVE  /\ Ordered(audit') /\ UpTo(audit', issued')
         /\ Ordered(journal') /\ UpTo(journal', issued')
<1> DEFINE r == LoadJournal(journal)
<1>1. /\ disk # None /\ journal' = r
      /\ audit' = MergeAudit(disk.audit, r)
      /\ issued' = RebuildIssued(disk.issued, r)
  BY DEF Recover
<1>2. /\ disk.audit \in Seq(AuditRecord) /\ disk.issued \in Nat
      /\ Ordered(disk.audit) /\ UpTo(disk.audit, disk.issued)
  BY <1>1, DiskTypes DEF AuditInv
<1>3. r \in Seq(AuditRecord) /\ Ordered(r)
  BY LoadKeeps DEF TypeOK, AuditInv
<1>4. issued' \in Nat
  BY DEF TypeOK
<1> HIDE DEF r
<1>5. CASE r = <<>>
  <2>1. MergeAudit(disk.audit, r) = disk.audit
    BY <1>5 DEF MergeAudit
  <2>2. RebuildIssued(disk.issued, r) = disk.issued
    BY <1>2, <1>5, RebuildNothing
  <2>3. Ordered(r) /\ UpTo(r, disk.issued)
    BY <1>5 DEF Ordered, UpTo
  <2> QED BY <1>1, <1>2, <2>1, <2>2, <2>3
<1>6. CASE r # <<>>
  <2>1. UpTo(r, issued')
    BY <1>1, <1>2, <1>3, <1>6, RebuildCovers
  <2>2. Ordered(audit') /\ UpTo(audit', issued')
    BY <1>1, <1>2, <1>3, <1>4, <1>6, <2>1, MergeKeeps
  <2> QED BY <1>1, <1>3, <2>1, <2>2
<1> QED BY <1>5, <1>6

\* Every step keeps the order.
LEMMA AuditStep ==
  ASSUME TypeOK, TypeOK', AuditInv, [Next]_vars
  PROVE  AuditInv'
<1>1. /\ issued \in Nat /\ issued' \in Nat /\ journal \in Seq(AuditRecord)
      /\ journal' \in Seq(AuditRecord)
  BY DEF TypeOK
<1>2. ASSUME Ordered(audit'), UpTo(audit', issued'), Ordered(journal'), UpTo(journal', issued' + 1),
             disk' = disk \/ disk' = Snapshot'
      PROVE  AuditInv'
  <2>1. Snapshot'.audit = audit' /\ Snapshot'.issued = issued'
    BY DEF Snapshot
  <2> QED BY <1>2, <2>1 DEF AuditInv
<1>3. CASE Quiet
  BY <1>2, <1>3 DEF Quiet, AuditInv
<1>4. CASE Recover
  <2>1. UpTo(journal', issued' + 1)
    <3>1. UpTo(journal', issued')
      BY <1>4, RecoveredOrder
    <3>2. \A n \in Nat : n <= n + 1 /\ n + 1 \in Nat
      OBVIOUS
    <3>3. issued' <= issued' + 1 /\ issued' + 1 \in Nat
      BY <1>1, <3>2
    <3> HIDE DEF UpTo
    <3> QED BY <1>1, <3>1, <3>3, UpToRises
  <2>2. disk' = disk \/ disk' = Snapshot'
    BY <1>4, SaveWrites DEF Recover
  <2> QED BY <1>2, <1>4, <2>1, <2>2, RecoveredOrder
<1>5. CASE RecoverFails
  <2>1. journal' = LoadJournal(journal) /\ UNCHANGED <<issued, audit, disk>>
    BY <1>5 DEF RecoverFails, memory
  <2> QED BY <1>1, <1>2, <2>1, LoadKeeps DEF AuditInv
<1>6. ASSUME NEW d \in Domains, NEW tick \in Nat, Writes(d, tick)
      PROVE  AuditInv'
  <2> DEFINE rec == RecordFor(d, tick)
  <2>1. rec \in AuditRecord /\ rec.id = issued + 1
    BY RecordFacts
  <2> HIDE DEF rec
  <2>2. Ordered(Frames(rec)) /\ UpTo(Frames(rec), issued + 1)
    BY <2>1, FramesKeep
  <2>3. CASE /\ journal' = Room.journal \/ journal' = Frames(rec)
             /\ audit' = Room.audit
             /\ UNCHANGED <<issued, disk>>
    BY <1>2, <2>2, <2>3, RoomKeeps
  <2>4. CASE /\ journal' = Frames(rec)
             /\ audit' = Newest(Append(Room.audit, rec), MaxAuditRecords)
             /\ issued' = issued + 1
             /\ disk' = disk \/ disk' = Snapshot'
    <3>1. Ordered(audit') /\ UpTo(audit', issued')
      BY <2>1, <2>4, TailKeeps
    <3>2. UpTo(journal', issued' + 1)
      <4>1. issued + 1 \in Nat /\ issued' + 1 \in Nat /\ issued + 1 <= issued' + 1
        BY <1>1, <2>4
      <4>2. journal' = Frames(rec) /\ Frames(rec) \in Seq(AuditRecord)
        BY <2>1, <2>4, FramesKeep
      <4> QED BY <2>2, <4>1, <4>2, UpToRises
    <3> QED BY <1>2, <2>2, <2>4, <3>1, <3>2
  <2> QED BY <1>6, <2>3, <2>4 DEF Writes, rec
<1> QED BY <1>3, <1>4, <1>5, <1>6, StepWrites

\* The order holds throughout.
LEMMA AuditKept == Spec => []AuditInv
<1>1. TypeOK /\ TypeOK' /\ AuditInv /\ [Next]_vars => AuditInv'
  BY AuditStep
<1> QED BY <1>1, AuditInit, TypeCorrect, PTL DEF Spec

\* AuditOrdered: whatever appends, saves and compactions fail and wherever the
\* process dies, audit records stay in the order of their decisions, so that the
\* merge and the replay of a recovery read them as they were written.
THEOREM RecordsInOrder == Spec => []AuditOrdered
<1>1. AuditInv => AuditOrdered
  BY DEF AuditInv, AuditOrdered
<1> QED BY <1>1, AuditKept, PTL
-----------------------------------------------------------------------------
(* Acknowledged decisions while the disk does what it is told               *)

\* No I/O operation has failed and compaction keeps something.  (What a failed
\* append loses is shown by FailedAppend; a compaction that keeps nothing drops the
\* only copy of the decisions that the state file does not know yet.)
Unharmed == failures = 0 /\ journal_compaction_records # 0

\* The record a journal or an audit tail ends with.
Final(s) == s[Len(s)]

\* The inductive invariant while unharmed: the journal is readable, counted and
\* within its bound; it ends, like the audit tail, with the newest decision; the
\* state file is not ahead of it; and it covers the decisions handed out.
DurableInv ==
  /\ disk = None => journal = <<>> /\ ~damaged /\ counted = 0
  /\ Len(journal) <= MaxJournalRecords
  /\ Open => ~damaged /\ counted = Len(journal)
  /\ Ends(audit, issued) /\ Ends(journal, issued)
  /\ journal # <<>> => Final(audit) = Final(journal) /\ Final(journal).tick <= clock
  /\ disk # None => Ends(disk.audit, disk.issued) /\ disk.issued <= issued
  /\ \A dec \in decisions :
       dec.id # 0 /\ dec.id <= issued /\ dec.tick <= Final(journal).tick

\* A new directory.
LEMMA DurableInit == Init => DurableInv
<1> SUFFICES ASSUME Init PROVE DurableInv
  OBVIOUS
<1>1. Len(<<>>) <= MaxJournalRecords
  BY StoreAssumption
<1> QED BY <1>1 DEF Init, DurableInv, Ends, Open

\* Failures are not forgotten.
LEMMA FailuresStay ==
  ASSUME TypeOK, [Next]_vars
  PROVE  failures' = failures \/ failures' = failures + 1
<1>1. SaveSucceeds \/ SaveFails \/ Persist \/ IoFails
        => failures' = failures \/ failures' = failures + 1
  BY DEF Persist, SaveSucceeds, SaveFails, IoFails
<1>2. CASE UNCHANGED vars
  BY <1>2 DEF vars
<1>3. CASE Lifecycle
  BY <1>1, <1>3 DEF Lifecycle, OpenFresh, Recover, RecoverFails, Crash, BeginShutdown,
                    EndShutdown, Close, Save
<1>4. CASE Configure
  BY <1>1, <1>4 DEF Configure, InstallPolicy, AdvanceEpoch, AdvanceTick
<1>5. CASE Publish
  BY <1>1, <1>5 DEF Publish, RegisterPublisher, AdoptIncarnation, FencePublisher,
                    IngestDuplicate, IngestRefused, IngestAccepted, IngestUnsaved
<1>6. CASE Govern
  BY <1>1, <1>6 DEF Govern, Evaluate, EvaluateWedged, EvaluateAppendFails,
                    EvaluateCompactionFails, CrashInEvaluate, DeliverDecision
<1> QED BY <1>2, <1>3, <1>4, <1>5, <1>6 DEF Next

\* What is unharmed was unharmed before.
LEMMA UnharmedBefore ==
  ASSUME TypeOK, [Next]_vars, failures' = 0
  PROVE  failures = 0
<1>1. failures \in Nat
  BY DEF TypeOK
<1> QED BY <1>1, FailuresStay

\* The final record is a record.
LEMMA FinalType ==
  ASSUME NEW s \in Seq(AuditRecord), s # <<>>
  PROVE  /\ Len(s) \in 1..Len(s)
         /\ Final(s) \in AuditRecord /\ Final(s).id \in Nat \ {0} /\ Final(s).tick \in Nat
<1>1. Len(s) \in 1..Len(s)
  OBVIOUS
<1> QED BY <1>1, RecordTypes DEF Final

\* A decision's number and tick.
LEMMA DecisionNumbers ==
  ASSUME TypeOK, NEW dec \in decisions
  PROVE  dec.id \in Nat /\ dec.tick \in Nat
<1>1. dec \in Decision
  BY DEF TypeOK
<1> QED BY <1>1 DEF Decision

\* A sequence that ends with some number has a record, unless the number is 0.
LEMMA EndsFacts ==
  ASSUME NEW s \in Seq(AuditRecord), NEW n \in Nat, Ends(s, n)
  PROVE  /\ UpTo(s, n)
         /\ s = <<>> <=> n = 0
         /\ s # <<>> => Final(s).id = n /\ Len(s) \in Applied(s)
<1>1. UpTo(s, n) /\ (s = <<>> <=> n = 0)
  BY EndsBounds
<1>2. ASSUME s # <<>>
      PROVE  Final(s).id = n /\ Len(s) \in Applied(s)
  <2>1. Len(s) \in 1..Len(s) /\ s[Len(s)].id = n /\ \A i \in 1..(Len(s) - 1) : s[i].id < n
    BY <1>2 DEF Ends
  <2> QED BY <2>1 DEF Final, Applied
<1> QED BY <1>1, <1>2

\* Room, while unharmed, ends with the newest decision and is as large as counted.
LEMMA DurableRoom ==
  ASSUME TypeOK, Unharmed, DurableInv, Open
  PROVE  /\ Room.journal \in Seq(AuditRecord) /\ Room.audit \in Seq(AuditRecord)
         /\ ~Room.damaged /\ Room.counted = Len(Room.journal)
         /\ Len(Room.journal) <= MaxJournalRecords
         /\ Ends(Room.journal, issued) /\ Ends(Room.audit, issued)
         /\ journal = <<>> <=> Room.journal = <<>>
         /\ journal # <<>> => /\ Final(Room.journal) = Final(journal)
                              /\ Final(Room.audit) = Final(journal)
<1>1. CASE counted < MaxJournalRecords
  <2>1. /\ Room.journal = journal /\ Room.audit = audit
        /\ Room.damaged = damaged /\ Room.counted = counted
    BY <1>1 DEF Room
  <2> QED BY <2>1 DEF DurableInv, TypeOK
<1>2. CASE ~(counted < MaxJournalRecords)
  <2> DEFINE kept == Newest(audit, CompactionKeep)
  <2>1. /\ Room.journal = kept /\ Room.audit = kept
        /\ Room.damaged = FALSE /\ Room.counted = Len(kept)
    BY <1>2 DEF Room
  <2>2. audit \in Seq(AuditRecord) /\ journal \in Seq(AuditRecord) /\ issued \in Nat
    BY DEF TypeOK
  <2>3. CompactionKeep \in Nat \ {0} /\ CompactionKeep <= MaxJournalRecords
    BY GovernorAssumption, StoreAssumption DEF CompactionKeep, Unharmed
  <2>4. journal # <<>>
    <3>1. Len(journal) # 0
      BY <1>2, StoreAssumption DEF DurableInv
    <3> QED BY <3>1
  <2>5. audit # <<>> /\ Final(audit) = Final(journal)
    <3>1. issued # 0
      BY <2>2, <2>4, EndsFacts DEF DurableInv
    <3> QED BY <2>2, <2>4, <3>1, EndsFacts DEF DurableInv
  <2>6. kept \in Seq(AuditRecord) /\ Suffix(kept, audit) /\ kept # <<>> /\ Len(kept) <= CompactionKeep
    BY <2>2, <2>3, <2>5, NewestSuffix
  <2> HIDE DEF kept
  <2>7. Ends(kept, issued) /\ kept[Len(kept)] = audit[Len(audit)]
    BY <2>2, <2>6, SuffixKeeps DEF DurableInv
  <2>8. Len(kept) <= MaxJournalRecords
    <3>1. Len(kept) \in Nat /\ MaxJournalRecords \in Nat
      BY <2>6, StoreAssumption
    <3> QED BY <2>3, <2>6, <3>1
  <2> QED BY <2>1, <2>4, <2>5, <2>6, <2>7, <2>8 DEF Final
<1> QED BY <1>1, <1>2

\* The decision counter and the clock that a recovery rebuilds.
LEMMA RecoveredCounter ==
  ASSUME TypeOK, AuditInv, DurableInv, disk # None
  PROVE  /\ LoadJournal(journal) = journal
         /\ RebuildIssued(disk.issued, journal) = issued
         /\ journal # <<>> => Final(journal).tick <= RebuildTick(disk.tick, journal)
         /\ journal = <<>> => MergeAudit(disk.audit, journal) = disk.audit
         /\ journal # <<>> => /\ MergeAudit(disk.audit, journal) # <<>>
                              /\ Final(MergeAudit(disk.audit, journal)) = Final(journal)
         /\ Ends(MergeAudit(disk.audit, journal), issued)
<1>1. /\ journal \in Seq(AuditRecord) /\ issued \in Nat
      /\ disk.audit \in Seq(AuditRecord) /\ disk.issued \in Nat /\ disk.tick \in Nat
  BY DiskTypes DEF TypeOK
<1>2. LoadJournal(journal) = journal
  BY <1>1, LoadKeeps DEF DurableInv
<1>3. Ends(journal, issued) /\ disk.issued <= issued /\ Ends(disk.audit, disk.issued)
  BY DEF DurableInv
<1>4. CASE journal = <<>>
  <2>1. issued = 0 /\ disk.issued = 0
    <3>1. issued = 0
      BY <1>1, <1>3, <1>4, EndsFacts
    <3> QED BY <1>1, <1>3, <3>1
  <2>2. RebuildIssued(disk.issued, journal) = disk.issued
    BY <1>1, <1>4, RebuildNothing
  <2>3. MergeAudit(disk.audit, journal) = disk.audit
    BY <1>4 DEF MergeAudit
  <2> QED BY <1>2, <1>3, <1>4, <2>1, <2>2, <2>3
<1>5. CASE journal # <<>>
  <2>1. journal[Len(journal)].id = issued /\ Len(journal) \in Applied(journal)
    BY <1>1, <1>3, <1>5, EndsFacts DEF Final
  <2>2. Ordered(journal) /\ Ordered(disk.audit)
    BY DEF AuditInv
  <2>3. RebuildIssued(disk.issued, journal) = issued
    <3>1. RebuildIssued(disk.issued, journal)
            = IF journal[Len(journal)].id > disk.issued THEN journal[Len(journal)].id ELSE disk.issued
      BY <1>1, <1>5, <2>2, RebuildCovers
    <3> QED BY <1>1, <1>3, <2>1, <3>1
  <2>4. Final(journal).tick <= RebuildTick(disk.tick, journal)
    BY <1>1, <2>1, RebuildTickCovers DEF Final
  <2>5. /\ MergeAudit(disk.audit, journal) # <<>>
        /\ Final(MergeAudit(disk.audit, journal)) = Final(journal)
        /\ Ends(MergeAudit(disk.audit, journal), issued)
    BY <1>1, <1>3, <1>5, <2>2, MergeKeeps DEF Final
  <2> QED BY <1>2, <1>5, <2>3, <2>4, <2>5
<1> QED BY <1>4, <1>5
-----------------------------------------------------------------------------
(* What a step that succeeds writes                                         *)

\* A quiet step, and what it does to the journal file: a runtime that is open
\* after it was open before, or is on a new directory.
QuietFiles ==
  /\ Quiet
  /\ Open' => Open \/ disk = None
  /\ Open' \/ disk' = None => UNCHANGED <<damaged, counted>>

\* A step of an evaluation in which no I/O operation fails: the journal is
\* compacted if it is full, and a record is appended or the process died before.
Records(d, tick) ==
  LET rec == RecordFor(d, tick)
  IN  /\ Open /\ tick \in Nat /\ tick >= clock /\ clock' = tick
      /\ \/ /\ journal' = Room.journal /\ audit' = Room.audit
            /\ Open' => damaged' = Room.damaged /\ counted' = Room.counted
            /\ UNCHANGED <<issued, disk, decisions>>
         \/ /\ Room.counted < MaxJournalRecords
            /\ journal' = Frames(rec)
            /\ damaged' = Room.damaged /\ counted' = Room.counted + 1
            /\ audit' = Newest(Append(Room.audit, rec), MaxAuditRecords)
            /\ issued' = issued + 1
            /\ disk' = disk \/ disk' = Snapshot'
            /\ decisions' = decisions \/ decisions' = decisions \cup {DecisionFor(d, tick)}

\* Without failures every step is quiet, a recovery or an evaluation.
LEMMA StepRecords ==
  ASSUME TypeOK, AuthorityInv, failures = 0, failures' = 0, [Next]_vars
  PROVE  \/ QuietFiles
         \/ Recover
         \/ \E d \in Domains, tick \in Nat : Records(d, tick)
<1>1. clock \in Nat /\ clock >= clock
  BY DEF TypeOK
<1>2. ~IoFails /\ ~SaveFails /\ (Persist => SaveSucceeds /\ UNCHANGED <<journal, damaged, counted>>)
  BY DEF IoFails, SaveFails, Persist
<1>3. Open => disk # None
  BY DEF AuthorityInv
<1>4. CASE UNCHANGED vars
  BY <1>1, <1>4 DEF vars, memory, files, history, Quiet, QuietFiles, Open
<1>5. CASE Lifecycle
  <2>1. ASSUME NEW c \in PolicyContents, OpenFresh(c)
        PROVE  QuietFiles
    BY <1>1, <2>1, SaveWrites DEF OpenFresh, history, Quiet, QuietFiles
  <2>2. CASE Crash \/ BeginShutdown \/ Close
    BY <1>1, <1>3, <2>2
       DEF Crash, BeginShutdown, Close, memory, files, history, Quiet, QuietFiles, Open, Accepting
  <2>3. CASE EndShutdown \/ Save
    BY <1>1, <1>2, <2>3, SaveWrites DEF EndShutdown, Save, memory, history, Quiet, QuietFiles, Open
  <2>4. ~RecoverFails
    BY <1>2 DEF RecoverFails
  <2> QED BY <1>5, <2>1, <2>2, <2>3, <2>4 DEF Lifecycle
<1>6. CASE Configure
  <2>1. ASSUME NEW c \in PolicyContents, NEW t \in Ticks, InstallPolicy(c, t)
        PROVE  QuietFiles
    <3>1. clock' >= clock
      BY <2>1, ObserveRises DEF InstallPolicy
    <3> QED BY <1>2, <2>1, <3>1, SaveWrites DEF InstallPolicy, history, Quiet, QuietFiles, Open
  <2>2. ASSUME NEW next \in 1..MaxEpoch, AdvanceEpoch(next)
        PROVE  QuietFiles
    BY <1>1, <1>2, <2>2, SaveWrites DEF AdvanceEpoch, history, Quiet, QuietFiles, Open
  <2>3. ASSUME NEW delta \in 1..MaxTick, AdvanceTick(delta)
        PROVE  QuietFiles
    <3>1. clock' >= clock
      BY <1>1, <2>3 DEF AdvanceTick
    <3> QED BY <2>3, <3>1 DEF AdvanceTick, files, history, Quiet, QuietFiles, Open
  <2> QED BY <1>6, <2>1, <2>2, <2>3 DEF Configure
<1>7. CASE Publish
  <2>1. ASSUME NEW p \in Publishers, NEW i \in 1..MaxPublisherIncarnation, NEW t \in Ticks,
               RegisterPublisher(p, i, t) \/ AdoptIncarnation(p, i, t)
        PROVE  QuietFiles
    <3>1. clock' >= clock
      BY <2>1, ObserveRises DEF RegisterPublisher, AdoptIncarnation
    <3> QED BY <1>2, <2>1, <3>1, SaveWrites
            DEF RegisterPublisher, AdoptIncarnation, history, Quiet, QuietFiles, Open
  <2>2. ASSUME NEW p \in Publishers, FencePublisher(p)
        PROVE  QuietFiles
    BY <1>1, <1>2, <2>2, SaveWrites DEF FencePublisher, history, Quiet, QuietFiles, Open
  <2>3. ASSUME NEW m \in Publication, IngestDuplicate(m) \/ IngestRefused(m)
        PROVE  QuietFiles
    BY <1>1, <2>3 DEF IngestDuplicate, IngestRefused, memory, files, history, Quiet, QuietFiles, Open
  <2>4. ASSUME NEW m \in Publication, IngestAccepted(m)
        PROVE  QuietFiles
    <3>1. phase' = phase /\ UNCHANGED <<damaged, counted>>
      BY <2>4 DEF IngestAccepted
    <3>2. Quiet
      BY <1>1, <2>4, SaveWrites DEF IngestAccepted, history, Quiet
    <3> QED BY <3>1, <3>2 DEF QuietFiles, Open
  <2>5. ASSUME NEW m \in Publication
        PROVE  ~IngestUnsaved(m)
    BY <1>2 DEF IngestUnsaved
  <2> QED BY <1>7, <2>1, <2>2, <2>3, <2>4, <2>5 DEF Publish
<1>8. CASE Govern
  <2> SUFFICES ASSUME NEW d \in Domains, NEW t \in Ticks,
                      \/ Evaluate(d, t) \/ EvaluateWedged(d, t)
                      \/ EvaluateAppendFails(d, t) \/ EvaluateCompactionFails(d, t)
                      \/ CrashInEvaluate(d, t)
               PROVE  Records(d, EvaluationTick(t))
    BY <1>8, TickRises DEF Govern
  <2> DEFINE tick == EvaluationTick(t)
  <2>1. tick \in Nat /\ tick >= clock
    BY TickRises
  <2>2. CanEvaluate(d) => Open
    BY DEF CanEvaluate, Open
  <2>3. CASE Evaluate(d, t)
    <3>1. ~IoFails
      BY <1>2
    <3> QED BY <2>1, <2>2, <2>3, <3>1 DEF Evaluate, DeliverDecision, SaveSucceeds, Records
  <2>4. CASE EvaluateWedged(d, t)
    BY <2>1, <2>2, <2>4 DEF EvaluateWedged, history, Records
  <2>5. CASE CrashInEvaluate(d, t)
    <3>1. ~Open'
      BY <2>5 DEF CrashInEvaluate, Open
    <3> QED BY <2>1, <2>2, <2>5, <3>1 DEF CrashInEvaluate, history, Records
  <2>6. ~EvaluateAppendFails(d, t) /\ ~EvaluateCompactionFails(d, t)
    BY <1>2 DEF EvaluateAppendFails, EvaluateCompactionFails
  <2> QED BY <2>3, <2>4, <2>5, <2>6
<1> QED BY <1>4, <1>5, <1>6, <1>7, <1>8 DEF Next

\* A decision handed out is covered by the counter, and the clock is past its tick.
LEMMA KnownDecision ==
  ASSUME TypeOK, DurableInv, NEW dec \in decisions
  PROVE  /\ dec.id \in Nat \ {0} /\ dec.id <= issued
         /\ dec.tick \in Nat /\ dec.tick <= clock
         /\ journal # <<>> /\ dec.tick <= Final(journal).tick
<1>1. dec.id \in Nat \ {0} /\ dec.id <= issued /\ dec.tick \in Nat /\ dec.tick <= Final(journal).tick
  BY DecisionNumbers DEF DurableInv
<1>2. journal \in Seq(AuditRecord) /\ issued \in Nat /\ clock \in Nat
  BY DEF TypeOK
<1>3. journal # <<>>
  <2>1. issued # 0
    BY <1>1, <1>2
  <2> QED BY <1>2, <2>1, EndsFacts DEF DurableInv
<1>4. Final(journal).tick \in Nat /\ Final(journal).tick <= clock
  BY <1>2, <1>3, FinalType DEF DurableInv
<1>5. dec.tick <= clock
  BY <1>1, <1>2, <1>4
<1> QED BY <1>1, <1>3, <1>5

\* What a save writes is a state file.
LEMMA SnapshotParts ==
  ASSUME TypeOK'
  PROVE  Snapshot' # None /\ Snapshot'.audit = audit' /\ Snapshot'.issued = issued'
<1>1. Snapshot'.audit = audit' /\ Snapshot'.issued = issued'
  BY DEF Snapshot
<1>2. MemoryOK'
  BY TypeHalves DEF TypeOK, MemoryOK
<1> QED BY <1>1, <1>2, SnapshotType

\* A quiet step keeps the files as durable as they were.
LEMMA QuietDurable ==
  ASSUME TypeOK, TypeOK', DurableInv, QuietFiles
  PROVE  DurableInv'
<1>1. /\ UNCHANGED <<issued, audit, journal, decisions>>
      /\ disk' = disk \/ disk' = Snapshot'
      /\ clock' >= clock
      /\ Open' => Open \/ disk = None
      /\ Open' \/ disk' = None => UNCHANGED <<damaged, counted>>
  BY DEF QuietFiles, Quiet
<1>2. journal \in Seq(AuditRecord) /\ issued \in Nat /\ clock \in Nat /\ clock' \in Nat
  BY DEF TypeOK
<1>3. disk' = None => journal' = <<>> /\ ~damaged' /\ counted' = 0
  BY <1>1, SnapshotParts DEF DurableInv
<1>4. Len(journal') <= MaxJournalRecords
  BY <1>1 DEF DurableInv
<1>5. Open' => ~damaged' /\ counted' = Len(journal')
  <2>1. Len(<<>>) = 0
    OBVIOUS
  <2> QED BY <1>1, <2>1 DEF DurableInv
<1>6. Ends(audit', issued') /\ Ends(journal', issued')
  BY <1>1 DEF DurableInv
<1>7. journal' # <<>> => Final(audit') = Final(journal') /\ Final(journal').tick <= clock'
  <2> SUFFICES ASSUME journal # <<>>
               PROVE  Final(audit) = Final(journal) /\ Final(journal).tick <= clock'
    BY <1>1
  <2>1. Final(journal).tick \in Nat
    BY <1>2, FinalType
  <2>2. Final(audit) = Final(journal) /\ Final(journal).tick <= clock
    BY DEF DurableInv
  <2>3. Final(journal).tick <= clock'
    BY <1>1, <1>2, <2>1, <2>2
  <2> QED BY <2>2, <2>3
<1>8. disk' # None => Ends(disk'.audit, disk'.issued) /\ disk'.issued <= issued'
  <2>1. CASE disk' = disk
    BY <1>1, <2>1 DEF DurableInv
  <2>2. CASE disk' = Snapshot'
    <3>1. disk'.audit = audit' /\ disk'.issued = issued'
      BY <2>2, SnapshotParts
    <3>2. issued' <= issued'
      BY <1>1, <1>2
    <3> QED BY <1>6, <3>1, <3>2
  <2> QED BY <1>1, <2>1, <2>2
<1>9. \A dec \in decisions' :
        dec.id # 0 /\ dec.id <= issued' /\ dec.tick <= Final(journal').tick
  BY <1>1 DEF DurableInv
<1> QED BY <1>3, <1>4, <1>5, <1>6, <1>7, <1>8, <1>9 DEF DurableInv, Ends, Final

\* A recovery reads back the counter, the newest record and its tick.
LEMMA RecoverDurable ==
  ASSUME TypeOK, TypeOK', AuditInv, DurableInv, Recover
  PROVE  DurableInv' /\ UNCHANGED decisions
<1>1. /\ disk # None /\ disk' = Snapshot' /\ UNCHANGED decisions
      /\ journal' = LoadJournal(journal) /\ ~damaged' /\ counted' = Len(LoadJournal(journal))
      /\ issued' = RebuildIssued(disk.issued, LoadJournal(journal))
      /\ audit' = MergeAudit(disk.audit, LoadJournal(journal))
      /\ clock' = RebuildTick(disk.tick, LoadJournal(journal))
  BY DEF Recover, SaveSucceeds, history
<1>2. /\ LoadJournal(journal) = journal
      /\ RebuildIssued(disk.issued, journal) = issued
      /\ Ends(MergeAudit(disk.audit, journal), issued)
      /\ journal # <<>> => /\ Final(MergeAudit(disk.audit, journal)) = Final(journal)
                           /\ Final(journal).tick <= RebuildTick(disk.tick, journal)
  BY <1>1, RecoveredCounter
<1>3. journal' = journal /\ issued' = issued /\ counted' = Len(journal)
  BY <1>1, <1>2
<1>4. disk'.audit = audit' /\ disk'.issued = issued' /\ disk' # None
  BY <1>1, SnapshotParts
<1>5. Ends(audit', issued') /\ Ends(journal', issued')
  BY <1>1, <1>2, <1>3 DEF DurableInv
<1>6. journal' # <<>> => Final(audit') = Final(journal') /\ Final(journal').tick <= clock'
  BY <1>1, <1>2, <1>3
<1>7. issued' <= issued'
  BY DEF TypeOK
<1>8. Len(journal') <= MaxJournalRecords
  BY <1>3 DEF DurableInv
<1>9. \A dec \in decisions' :
        dec.id # 0 /\ dec.id <= issued' /\ dec.tick <= Final(journal').tick
  BY <1>1, <1>3 DEF DurableInv
<1> QED BY <1>1, <1>3, <1>4, <1>5, <1>6, <1>7, <1>8, <1>9 DEF DurableInv, Ends, Final

\* A compaction alone keeps the newest record.
LEMMA CompactionDurable ==
  ASSUME TypeOK, TypeOK', Unharmed, DurableInv, disk # None, Open,
         clock' >= clock, journal' = Room.journal, audit' = Room.audit,
         Open' => damaged' = Room.damaged /\ counted' = Room.counted,
         UNCHANGED <<issued, disk, decisions>>
  PROVE  DurableInv'
<1>1. /\ ~Room.damaged /\ Room.counted = Len(Room.journal)
      /\ Len(Room.journal) <= MaxJournalRecords
      /\ Ends(Room.journal, issued) /\ Ends(Room.audit, issued)
      /\ journal = <<>> <=> Room.journal = <<>>
      /\ journal # <<>> => /\ Final(Room.journal) = Final(journal)
                           /\ Final(Room.audit) = Final(journal)
  BY DurableRoom
<1>2. journal \in Seq(AuditRecord) /\ clock \in Nat /\ clock' \in Nat
  BY DEF TypeOK
<1>3. Ends(audit', issued') /\ Ends(journal', issued')
  BY <1>1
<1>4. journal' # <<>> => Final(audit') = Final(journal') /\ Final(journal').tick <= clock'
  <2> SUFFICES ASSUME journal # <<>>
               PROVE  Final(Room.audit) = Final(Room.journal) /\ Final(Room.journal).tick <= clock'
    BY <1>1
  <2>1. Final(journal).tick \in Nat
    BY <1>2, FinalType
  <2>2. Final(journal).tick <= clock
    BY DEF DurableInv
  <2>3. Final(journal).tick <= clock'
    BY <1>2, <2>1, <2>2
  <2> QED BY <1>1, <2>3
<1>5. disk' # None => Ends(disk'.audit, disk'.issued) /\ disk'.issued <= issued'
  BY DEF DurableInv
<1>6. \A dec \in decisions' :
        dec.id # 0 /\ dec.id <= issued' /\ dec.tick <= Final(journal').tick
  <2> SUFFICES ASSUME NEW dec \in decisions
               PROVE  dec.id # 0 /\ dec.id <= issued /\ dec.tick <= Final(Room.journal).tick
    OBVIOUS
  <2> QED BY <1>1, KnownDecision
<1>7. Len(journal') <= MaxJournalRecords /\ (Open' => ~damaged' /\ counted' = Len(journal'))
  BY <1>1
<1> QED BY <1>3, <1>4, <1>5, <1>6, <1>7 DEF DurableInv, Ends, Final

\* A record appended is the newest one, in the journal and in the audit tail.
LEMMA RecordDurable ==
  ASSUME TypeOK, TypeOK', AuditInv, Unharmed, DurableInv, disk # None, Open,
         NEW d \in Domains, NEW tick \in Nat, tick >= clock, clock' = tick,
         Room.counted < MaxJournalRecords,
         journal' = Frames(RecordFor(d, tick)),
         damaged' = Room.damaged, counted' = Room.counted + 1,
         audit' = Newest(Append(Room.audit, RecordFor(d, tick)), MaxAuditRecords),
         issued' = issued + 1,
         disk' = disk \/ disk' = Snapshot',
         decisions' = decisions \/ decisions' = decisions \cup {DecisionFor(d, tick)}
  PROVE  DurableInv'
<1> DEFINE rec == RecordFor(d, tick)
           dec1 == DecisionFor(d, tick)
<1>1. /\ rec \in AuditRecord /\ rec.id = issued + 1 /\ rec.tick = tick
      /\ dec1.id = issued + 1 /\ dec1.tick = tick
  BY RecordFacts
<1>2. issued \in Nat /\ issued' \in Nat /\ clock \in Nat /\ MaxJournalRecords \in Nat
  BY StoreAssumption DEF TypeOK
<1>3. /\ Room.journal \in Seq(AuditRecord) /\ ~Room.damaged /\ Room.counted = Len(Room.journal)
      /\ Ends(Room.journal, issued)
  BY DurableRoom
<1> HIDE DEF rec, dec1
<1>4. journal' = Append(Room.journal, rec)
  BY <1>3 DEF Frames, rec
<1>5. UpTo(Room.journal, issued)
  BY <1>2, <1>3, EndsBounds
<1>6. /\ Append(Room.journal, rec) # <<>>
      /\ Len(Append(Room.journal, rec)) = Len(Room.journal) + 1
      /\ Final(Append(Room.journal, rec)) = rec
      /\ Ends(Append(Room.journal, rec), issued + 1)
  BY <1>1, <1>2, <1>3, <1>5, AppendKeeps DEF Final
<1>7. Final(journal') = rec /\ journal' # <<>> /\ Ends(journal', issued')
  BY <1>4, <1>6
<1>8. Len(journal') = Len(Room.journal) + 1 /\ Len(Room.journal) \in Nat
  BY <1>3, <1>4, <1>6
<1>9. Len(journal') <= MaxJournalRecords /\ ~damaged' /\ counted' = Len(journal')
  BY <1>2, <1>3, <1>8
<1>10. Ends(audit', issued') /\ Final(audit') = rec
  BY <1>1, TailKeeps DEF rec, Final
<1>11. Final(journal').tick <= clock'
  BY <1>1, <1>7
<1>12. disk' # None /\ Ends(disk'.audit, disk'.issued) /\ disk'.issued <= issued'
  <2>1. CASE disk' = disk
    <3>1. disk.issued \in Nat /\ disk.issued <= issued /\ Ends(disk.audit, disk.issued)
      BY DiskTypes DEF DurableInv
    <3>2. disk.issued <= issued'
      BY <1>2, <3>1
    <3> QED BY <2>1, <3>1, <3>2
  <2>2. CASE disk' = Snapshot'
    <3>1. disk' # None /\ disk'.audit = audit' /\ disk'.issued = issued'
      BY <2>2, SnapshotParts
    <3>2. issued' <= issued'
      BY <1>2
    <3> QED BY <1>10, <3>1, <3>2
  <2> QED BY <2>1, <2>2
<1>13. \A dec \in decisions' :
        dec.id # 0 /\ dec.id <= issued' /\ dec.tick <= Final(journal').tick
  <2> SUFFICES ASSUME NEW dec \in decisions'
               PROVE  dec.id # 0 /\ dec.id <= issued + 1 /\ dec.tick <= tick
    BY <1>1, <1>7
  <2>1. CASE dec \in decisions
    <3>1. dec.id \in Nat \ {0} /\ dec.id <= issued /\ dec.tick \in Nat /\ dec.tick <= clock
      BY <2>1, KnownDecision
    <3>2. dec.id <= issued + 1 /\ dec.tick <= tick
      BY <1>2, <3>1
    <3> QED BY <3>1, <3>2
  <2>2. CASE dec = dec1
    BY <1>1, <1>2, <2>2
  <2> QED BY <2>1, <2>2 DEF dec1
<1> QED BY <1>7, <1>9, <1>10, <1>11, <1>12, <1>13 DEF DurableInv, Ends, Final

\* A step without failures keeps the files durable and adds at most a decision with
\* the next id, at a tick that is not earlier.
LEMMA DurableStep ==
  ASSUME TypeOK, TypeOK', AuthorityInv, AuditInv, Unharmed, failures' = 0,
         DurableInv, [Next]_vars
  PROVE  /\ DurableInv'
         /\ \/ decisions' = decisions
            \/ \E d \in Domains, tick \in Nat :
                 tick >= clock /\ decisions' = decisions \cup {DecisionFor(d, tick)}
<1>1. failures = 0
  BY DEF Unharmed
<1>2. CASE QuietFiles
  BY <1>2, QuietDurable DEF QuietFiles, Quiet
<1>3. CASE Recover
  BY <1>3, RecoverDurable
<1>4. ASSUME NEW d \in Domains, NEW tick \in Nat, Records(d, tick)
      PROVE  /\ DurableInv'
             /\ decisions' = decisions \/ decisions' = decisions \cup {DecisionFor(d, tick)}
             /\ tick >= clock
  <2>1. disk # None /\ Open /\ tick >= clock /\ clock' = tick
    BY <1>4 DEF Records, AuthorityInv
  <2>2. CASE /\ journal' = Room.journal /\ audit' = Room.audit
             /\ Open' => damaged' = Room.damaged /\ counted' = Room.counted
             /\ UNCHANGED <<issued, disk, decisions>>
    BY <2>1, <2>2, CompactionDurable
  <2>3. CASE /\ Room.counted < MaxJournalRecords
             /\ journal' = Frames(RecordFor(d, tick))
             /\ damaged' = Room.damaged /\ counted' = Room.counted + 1
             /\ audit' = Newest(Append(Room.audit, RecordFor(d, tick)), MaxAuditRecords)
             /\ issued' = issued + 1
             /\ disk' = disk \/ disk' = Snapshot'
             /\ decisions' = decisions \/ decisions' = decisions \cup {DecisionFor(d, tick)}
    BY <2>1, <2>3, RecordDurable
  <2> QED BY <1>4, <2>1, <2>2, <2>3 DEF Records
<1> QED BY <1>1, <1>2, <1>3, <1>4, StepRecords

\* A decision with the next id leaves the decisions in order.
LEMMA AdvanceStep ==
  ASSUME TypeOK, DurableInv, DecisionsAdvance,
         \/ decisions' = decisions
         \/ \E d \in Domains, tick \in Nat :
              tick >= clock /\ decisions' = decisions \cup {DecisionFor(d, tick)}
  PROVE  DecisionsAdvance'
<1>1. CASE decisions' = decisions
  BY <1>1 DEF DecisionsAdvance
<1>2. ASSUME NEW d \in Domains, NEW tick \in Nat, tick >= clock,
             decisions' = decisions \cup {DecisionFor(d, tick)}
      PROVE  DecisionsAdvance'
  <2> DEFINE new == DecisionFor(d, tick)
  <2>1. new.id = issued + 1 /\ new.tick = tick /\ issued \in Nat /\ clock \in Nat
    BY RecordFacts DEF TypeOK
  <2> HIDE DEF new
  <2>2. \A dec \in decisions : dec.id < new.id /\ dec.tick <= new.tick /\ dec.id \in Nat
    <3> SUFFICES ASSUME NEW dec \in decisions
                 PROVE  dec.id < new.id /\ dec.tick <= new.tick /\ dec.id \in Nat
      OBVIOUS
    <3>1. /\ dec.id \in Nat \ {0} /\ dec.id <= issued
          /\ dec.tick \in Nat /\ dec.tick <= clock
      BY KnownDecision
    <3> QED BY <1>2, <2>1, <3>1
  <2> SUFFICES ASSUME NEW a \in decisions', NEW b \in decisions'
               PROVE  /\ a.id = b.id => a = b
                      /\ a.id < b.id => a.tick <= b.tick
    BY DEF DecisionsAdvance
  <2>3. (a \in decisions \/ a = new) /\ (b \in decisions \/ b = new)
    BY <1>2 DEF new
  <2>4. CASE a \in decisions /\ b \in decisions
    BY <2>4 DEF DecisionsAdvance
  <2>5. CASE a \in decisions /\ b = new
    <3>1. a.id < b.id /\ a.tick <= b.tick /\ a.id \in Nat /\ b.id \in Nat
      BY <2>1, <2>2, <2>5
    <3> QED BY <3>1
  <2>6. CASE a = new /\ b \in decisions
    <3>1. b.id < a.id /\ a.id \in Nat /\ b.id \in Nat
      BY <2>1, <2>2, <2>6
    <3> QED BY <3>1
  <2>7. CASE a = new /\ b = new
    <3>1. a.id \in Nat /\ a = b
      BY <2>1, <2>7
    <3> QED BY <3>1
  <2> QED BY <2>3, <2>4, <2>5, <2>6, <2>7
<1> QED BY <1>1, <1>2

\* Durable and in order, for as long as nothing has failed.
DurableWhileUnharmed == Unharmed => DurableInv /\ DecisionsAdvance

\* Every step keeps it.
LEMMA UnharmedStep ==
  ASSUME TypeOK, TypeOK', AuthorityInv, AuditInv, DurableWhileUnharmed, [Next]_vars
  PROVE  DurableWhileUnharmed'
<1> SUFFICES ASSUME Unharmed' PROVE (DurableInv /\ DecisionsAdvance)'
  BY DEF DurableWhileUnharmed
<1>1. failures' = 0 /\ journal_compaction_records # 0
  BY DEF Unharmed
<1>2. Unharmed
  BY <1>1, UnharmedBefore DEF Unharmed
<1>3. DurableInv /\ DecisionsAdvance
  BY <1>2 DEF DurableWhileUnharmed
<1>4. /\ DurableInv'
      /\ \/ decisions' = decisions
         \/ \E d \in Domains, tick \in Nat :
              tick >= clock /\ decisions' = decisions \cup {DecisionFor(d, tick)}
  BY <1>1, <1>2, <1>3, DurableStep
<1>5. DecisionsAdvance'
  BY <1>3, <1>4, AdvanceStep
<1> QED BY <1>4, <1>5

\* It holds throughout.
LEMMA DurableKept == Spec => [](TypeOK /\ DurableWhileUnharmed)
<1>1. Init => DurableWhileUnharmed
  <2>1. Init => DecisionsAdvance
    BY DEF Init, DecisionsAdvance
  <2> QED BY <2>1, DurableInit DEF DurableWhileUnharmed
<1>2. /\ TypeOK /\ AuthorityInv /\ AuditInv /\ DurableWhileUnharmed
      /\ [Next]_vars /\ TypeOK'
      => DurableWhileUnharmed'
  BY UnharmedStep
<1> QED BY <1>1, <1>2, DecisionsBound, AuditKept, PTL DEF Spec

\* AcknowledgedDecisionsDurable: while no I/O operation has failed, a process that
\* dies at any point, between the writes of an evaluation included, leaves files
\* that cover every decision a caller was given.
THEOREM DecisionsAreDurable == Spec => [](Unharmed => AcknowledgedDecisionsDurable)
<1>1. ASSUME TypeOK, AuditInv, DurableInv
      PROVE  AcknowledgedDecisionsDurable
  <2> SUFFICES ASSUME disk # None, NEW dec \in decisions
               PROVE  dec.id <= RebuildIssued(disk.issued, LoadJournal(journal))
    BY DEF AcknowledgedDecisionsDurable
  <2>1. LoadJournal(journal) = journal /\ RebuildIssued(disk.issued, journal) = issued
    BY <1>1, RecoveredCounter
  <2> QED BY <1>1, <2>1, KnownDecision
<1>2. TypeOK /\ AuditInv /\ DurableWhileUnharmed => (Unharmed => AcknowledgedDecisionsDurable)
  BY <1>1 DEF DurableWhileUnharmed
<1> QED BY <1>2, DurableKept, AuditKept, PTL

\* DecisionsAdvance: under the same condition, decision ids are never given out
\* twice and ticks never run backwards from one decision to a later one, across
\* restarts.
THEOREM DecisionsOnlyAdvance == Spec => [](Unharmed => DecisionsAdvance)
<1>1. DurableWhileUnharmed => (Unharmed => DecisionsAdvance)
  BY DEF DurableWhileUnharmed
<1> QED BY <1>1, DurableKept, PTL
-----------------------------------------------------------------------------
(* Acknowledged evidence while the disk does what it is told                *)

\* Two bookkeepings of a slot name the same snapshot.
Alike(s, t) == s.generation = t.generation /\ s.payload_digest = t.payload_digest

\* The inductive invariant without failures: the state file names the snapshots
\* that memory names, and no acknowledged snapshot is newer than its slot's, or
\* other than it at the same generation.
StoredInv ==
  /\ disk # None => \A key \in SlotKeys : Alike(disk.evidence[key], slots[key])
  /\ disk = None => acks = {}
  /\ \A a \in acks :
       /\ a.generation <= slots[a.key].generation
       /\ a.generation = slots[a.key].generation => a.digest = slots[a.key].payload_digest

\* Revoking evidence keeps the snapshot a slot names.
LEMMA RevalidatingAlike ==
  ASSUME NEW ev \in [SlotKeys -> EvidenceSlotState], NEW key \in SlotKeys
  PROVE  Alike(Revalidating(ev)[key], ev[key])
<1>1. Revalidating(ev)[key] = [ev[key] EXCEPT !.revalidation_required = ev[key].present]
  BY DEF Revalidating
<1>2. ev[key] \in EvidenceSlotState
  OBVIOUS
<1> QED BY <1>1, <1>2 DEF EvidenceSlotState, Alike

\* Without failures, every step but a publication keeps the snapshots that the
\* slots name.
LEMMA StepStores ==
  ASSUME TypeOK, TypeOK', AuthorityInv, failures = 0, failures' = 0, StoredInv, [Next]_vars
  PROVE  \/ /\ \A key \in SlotKeys : Alike(slots'[key], slots[key])
            /\ disk' = disk \/ disk' = Snapshot'
            /\ UNCHANGED acks
         \/ \E m \in Publication : IngestDuplicate(m)
         \/ \E m \in Publication : IngestAccepted(m)
<1> DEFINE Kept == /\ \A key \in SlotKeys : Alike(slots'[key], slots[key])
                   /\ disk' = disk \/ disk' = Snapshot'
                   /\ UNCHANGED acks
<1>1. ~IoFails /\ ~SaveFails /\ (SaveSucceeds \/ Persist => disk' = Snapshot')
  BY DEF IoFails, SaveFails, SaveSucceeds, Persist
<1>2. UNCHANGED slots => \A key \in SlotKeys : Alike(slots'[key], slots[key])
  BY DEF Alike
<1>3. DropEvidenceContent => \A key \in SlotKeys : Alike(slots'[key], slots[key])
  BY RevalidatingAlike DEF DropEvidenceContent, TypeOK
<1>4. CASE UNCHANGED vars
  BY <1>2, <1>4 DEF vars, memory, files, history
<1>5. CASE Lifecycle
  <2>1. ASSUME NEW c \in PolicyContents, OpenFresh(c)
        PROVE  Kept
    BY <1>1, <1>2, <2>1 DEF OpenFresh, history
  <2>2. CASE Crash \/ BeginShutdown \/ Close
    BY <1>2, <2>2 DEF Crash, BeginShutdown, Close, memory, files, history
  <2>3. CASE EndShutdown \/ Save
    BY <1>1, <1>2, <2>3 DEF EndShutdown, Save, memory, history
  <2>4. CASE Recover
    <3>1. disk # None /\ disk' = Snapshot' /\ UNCHANGED acks /\ slots' = Revalidating(disk.evidence)
      BY <1>1, <2>4 DEF Recover, history
    <3>2. disk \in DurableState
      BY <3>1 DEF TypeOK
    <3>3. disk.evidence \in [SlotKeys -> EvidenceSlotState]
      BY <3>2 DEF DurableState
    <3>4. ASSUME NEW key \in SlotKeys PROVE Alike(slots'[key], slots[key])
      <4>1. Alike(Revalidating(disk.evidence)[key], disk.evidence[key])
        BY <3>3, RevalidatingAlike
      <4>2. Alike(disk.evidence[key], slots[key])
        BY <3>1 DEF StoredInv
      <4> QED BY <3>1, <4>1, <4>2 DEF Alike
    <3> QED BY <3>1, <3>4
  <2>5. ~RecoverFails
    BY <1>1 DEF RecoverFails
  <2> QED BY <1>5, <2>1, <2>2, <2>3, <2>4, <2>5 DEF Lifecycle
<1>6. CASE Configure
  BY <1>1, <1>2, <1>3, <1>6
     DEF Configure, InstallPolicy, AdvanceEpoch, AdvanceTick, files, history
<1>7. CASE Publish
  <2>1. ASSUME NEW p \in Publishers, NEW i \in 1..MaxPublisherIncarnation, NEW t \in Ticks,
               RegisterPublisher(p, i, t)
        PROVE  Kept
    BY <1>1, <1>2, <2>1 DEF RegisterPublisher, history
  <2>2. ASSUME NEW p \in Publishers, NEW i \in 1..MaxPublisherIncarnation, NEW t \in Ticks,
               AdoptIncarnation(p, i, t)
        PROVE  Kept
    <3>1. RevokeSlotsOf(p) /\ disk' = Snapshot' /\ UNCHANGED acks
      BY <1>1, <2>2 DEF AdoptIncarnation, history
    <3>2. ASSUME NEW key \in SlotKeys PROVE Alike(slots'[key], slots[key])
      <4>1. slots[key] \in EvidenceSlotState
        BY DEF TypeOK
      <4>2. slots'[key] = slots[key] \/ slots'[key] = [slots[key] EXCEPT !.revalidation_required = TRUE]
        BY <3>1 DEF RevokeSlotsOf
      <4> QED BY <4>1, <4>2 DEF EvidenceSlotState, Alike
    <3> QED BY <3>1, <3>2
  <2>3. ASSUME NEW p \in Publishers, FencePublisher(p)
        PROVE  Kept
    BY <1>1, <1>2, <2>3 DEF FencePublisher, history
  <2>4. ASSUME NEW m \in Publication, IngestRefused(m)
        PROVE  Kept
    <3>1. disk' = disk /\ UNCHANGED acks /\ slots' = [slots EXCEPT ![m.key].present = TRUE]
      BY <2>4 DEF IngestRefused, files, history
    <3>2. ASSUME NEW key \in SlotKeys PROVE Alike(slots'[key], slots[key])
      <4>1. slots \in [SlotKeys -> EvidenceSlotState] /\ slots[key] \in EvidenceSlotState
        BY DEF TypeOK
      <4>2. slots'[key] = slots[key] \/ slots'[key] = [slots[key] EXCEPT !.present = TRUE]
        BY <3>1, <4>1
      <4> QED BY <4>1, <4>2 DEF EvidenceSlotState, Alike
    <3> QED BY <3>1, <3>2
  <2>5. ASSUME NEW m \in Publication
        PROVE  ~IngestUnsaved(m)
    BY <1>1 DEF IngestUnsaved
  <2> HIDE DEF Kept
  <2>6. \/ Kept
        \/ \E m \in Publication : IngestDuplicate(m)
        \/ \E m \in Publication : IngestAccepted(m)
    BY <1>7, <2>1, <2>2, <2>3, <2>4, <2>5 DEF Publish
  <2> QED BY <2>6 DEF Kept
<1>8. CASE Govern
  <2> SUFFICES ASSUME NEW d \in Domains, NEW t \in Ticks,
                      \/ Evaluate(d, t) \/ EvaluateWedged(d, t)
                      \/ EvaluateAppendFails(d, t) \/ EvaluateCompactionFails(d, t)
                      \/ CrashInEvaluate(d, t)
               PROVE  Kept
    BY <1>8 DEF Govern
  <2>1. CASE Evaluate(d, t)
    BY <1>1, <1>2, <2>1 DEF Evaluate, DeliverDecision
  <2>2. CASE EvaluateWedged(d, t)
    BY <1>2, <2>2 DEF EvaluateWedged, history
  <2>3. CASE CrashInEvaluate(d, t)
    BY <1>2, <2>3 DEF CrashInEvaluate, history
  <2>4. ~EvaluateAppendFails(d, t) /\ ~EvaluateCompactionFails(d, t)
    BY <1>1 DEF EvaluateAppendFails, EvaluateCompactionFails
  <2> QED BY <2>1, <2>2, <2>3, <2>4
<1> QED BY <1>4, <1>5, <1>6, <1>7, <1>8 DEF Next

\* A save writes the snapshots that memory names.
LEMMA SnapshotStores ==
  ASSUME TypeOK', disk' = Snapshot'
  PROVE  disk' # None /\ \A key \in SlotKeys : Alike(disk'.evidence[key], slots'[key])
<1>1. Snapshot'.evidence = slots' /\ Snapshot' # None
  BY SnapshotParts DEF Snapshot
<1> QED BY <1>1 DEF Alike

\* A step that keeps the snapshots and the acknowledgements keeps both promises.
LEMMA AlikeStored ==
  ASSUME TypeOK, TypeOK', AuthorityInv, StoredInv,
         \A key \in SlotKeys : Alike(slots'[key], slots[key]),
         disk' = disk \/ disk' = Snapshot',
         UNCHANGED acks
  PROVE  StoredInv'
<1>1. disk' # None => \A key \in SlotKeys : Alike(disk'.evidence[key], slots'[key])
  <2>1. CASE disk' = disk
    BY <2>1 DEF StoredInv, Alike
  <2>2. CASE disk' = Snapshot'
    BY <2>2, SnapshotStores
  <2> QED BY <2>1, <2>2
<1>2. disk' = None => acks' = {}
  BY SnapshotParts DEF StoredInv
<1>3. ASSUME NEW a \in acks'
      PROVE  /\ a.generation <= slots'[a.key].generation
             /\ a.generation = slots'[a.key].generation => a.digest = slots'[a.key].payload_digest
  <2>1. a \in acks /\ a.key \in SlotKeys
    BY DEF TypeOK, Acknowledgement
  <2> QED BY <2>1 DEF StoredInv, Alike
<1> QED BY <1>1, <1>2, <1>3 DEF StoredInv

\* A duplicate is acknowledged with the snapshot its slot names.
LEMMA DuplicateStored ==
  ASSUME TypeOK, TypeOK', AuthorityInv, StoredInv, GenerationNamesOneSnapshot,
         NEW m \in Publication, IngestDuplicate(m)
  PROVE  StoredInv' /\ GenerationNamesOneSnapshot'
<1> DEFINE new == AckOf(m, slots[m.key].generation)
<1>1. /\ acks' = acks \cup {new} /\ slots' = slots /\ disk' = disk
      /\ slots[m.key].payload_digest = DigestOf(m)
      /\ disk # None
  BY DEF IngestDuplicate, IsDuplicate, MayPublish, Accepting, AuthorityInv, Open, memory, files
<1>2. /\ new.key = m.key /\ new.generation = slots[m.key].generation
      /\ new.digest = slots[m.key].payload_digest
  BY <1>1 DEF AckOf
<1>3. slots[m.key].generation \in Nat /\ slots[m.key].generation <= slots[m.key].generation
  BY PublicationFacts, PublicationTyped
<1> HIDE DEF new
<1>4. ASSUME NEW a \in acks'
      PROVE  /\ a.generation <= slots[a.key].generation
             /\ a.generation = slots[a.key].generation => a.digest = slots[a.key].payload_digest
  <2>1. a \in acks \/ a = new
    BY <1>1
  <2>2. CASE a \in acks
    BY <2>2 DEF StoredInv
  <2>3. CASE a = new
    BY <1>2, <1>3, <2>3
  <2> QED BY <2>1, <2>2, <2>3
<1>5. StoredInv'
  BY <1>1, <1>4 DEF StoredInv
<1>6. GenerationNamesOneSnapshot'
  <2> SUFFICES ASSUME NEW a \in acks', NEW b \in acks', a.key = b.key,
                      a.generation = b.generation
               PROVE  a.digest = b.digest
    BY DEF GenerationNamesOneSnapshot
  <2>1. (a \in acks \/ a = new) /\ (b \in acks \/ b = new)
    BY <1>1
  <2>2. CASE a \in acks /\ b \in acks
    BY <2>2 DEF GenerationNamesOneSnapshot
  <2>3. CASE a = new \/ b = new
    BY <1>2, <1>4, <2>3
  <2> QED BY <2>1, <2>2, <2>3
<1> QED BY <1>5, <1>6

\* An accepted publication takes a generation that none was acknowledged with.
LEMMA AcceptedStored ==
  ASSUME TypeOK, TypeOK', AuthorityInv, failures' = 0, StoredInv, GenerationNamesOneSnapshot,
         NEW m \in Publication, IngestAccepted(m)
  PROVE  StoredInv' /\ GenerationNamesOneSnapshot'
<1> DEFINE g   == slots[m.key].generation
           new == AckOf(m, g + 1)
<1>1. /\ acks' = acks \cup {new}
      /\ slots' = [slots EXCEPT ![m.key] = AcceptedSlot(m)]
      /\ disk' = Snapshot'
  BY DEF IngestAccepted, SaveSucceeds
<1>2. new.key = m.key /\ new.generation = g + 1 /\ new.digest = DigestOf(m)
  BY DEF AckOf
<1>3. m.key \in SlotKeys /\ g \in Nat /\ slots \in [SlotKeys -> EvidenceSlotState]
  BY PublicationFacts, PublicationTyped DEF TypeOK
<1>4. AcceptedSlot(m).generation = g + 1 /\ AcceptedSlot(m).payload_digest = DigestOf(m)
  BY DEF AcceptedSlot
<1> HIDE DEF g, new
<1>5. ASSUME NEW a \in acks
      PROVE  /\ a.key \in SlotKeys /\ a.generation \in Nat
             /\ a.generation <= slots[a.key].generation
             /\ a.key = m.key => a.generation <= g
  BY DEF TypeOK, Acknowledgement, StoredInv, g
<1>6. slots'[m.key] = AcceptedSlot(m) /\ \A key \in SlotKeys : key # m.key => slots'[key] = slots[key]
  BY <1>1, <1>3
<1>7. ASSUME NEW a \in acks'
      PROVE  /\ a.generation <= slots'[a.key].generation
             /\ a.generation = slots'[a.key].generation => a.digest = slots'[a.key].payload_digest
  <2>1. a \in acks \/ a = new
    BY <1>1
  <2>2. CASE a \in acks /\ a.key # m.key
    <3>1. slots'[a.key] = slots[a.key]
      BY <1>5, <1>6, <2>2
    <3> QED BY <2>2, <3>1 DEF StoredInv
  <2>3. CASE a \in acks /\ a.key = m.key
    <3>1. slots'[a.key].generation = g + 1
      BY <1>4, <1>6, <2>3
    <3>2. a.generation \in Nat /\ a.generation <= g
      BY <1>5, <2>3
    <3>3. a.generation <= g + 1 /\ a.generation # g + 1
      BY <1>3, <3>2
    <3> QED BY <3>1, <3>3
  <2>4. CASE a = new
    <3>1. a.generation = slots'[a.key].generation /\ a.digest = slots'[a.key].payload_digest
      BY <1>2, <1>4, <1>6, <2>4
    <3>2. a.generation \in Nat
      BY <1>2, <1>3, <2>4
    <3> QED BY <3>1, <3>2
  <2> QED BY <2>1, <2>2, <2>3, <2>4
<1>8. StoredInv'
  BY <1>1, <1>7, SnapshotStores DEF StoredInv
<1>9. GenerationNamesOneSnapshot'
  <2> SUFFICES ASSUME NEW a \in acks', NEW b \in acks', a.key = b.key,
                      a.generation = b.generation
               PROVE  a.digest = b.digest
    BY DEF GenerationNamesOneSnapshot
  <2>1. (a \in acks \/ a = new) /\ (b \in acks \/ b = new)
    BY <1>1
  <2>2. CASE a \in acks /\ b \in acks
    BY <2>2 DEF GenerationNamesOneSnapshot
  <2>3. ASSUME NEW c \in acks, c.key = m.key
        PROVE  c.generation # g + 1
    <3>1. c.generation \in Nat /\ c.generation <= g
      BY <1>5, <2>3
    <3> QED BY <1>3, <3>1
  <2>4. ~(a \in acks /\ b = new) /\ ~(a = new /\ b \in acks)
    BY <1>2, <2>3
  <2> QED BY <2>1, <2>2, <2>4
<1> QED BY <1>8, <1>9

\* Stored and named once, for as long as nothing has failed.
StoredWithoutFailures == failures = 0 => StoredInv /\ GenerationNamesOneSnapshot

\* Every step keeps it.
LEMMA StoredStep ==
  ASSUME TypeOK, TypeOK', AuthorityInv, StoredWithoutFailures, [Next]_vars
  PROVE  StoredWithoutFailures'
<1> SUFFICES ASSUME failures' = 0 PROVE (StoredInv /\ GenerationNamesOneSnapshot)'
  BY DEF StoredWithoutFailures
<1>1. failures = 0
  BY UnharmedBefore
<1>2. StoredInv /\ GenerationNamesOneSnapshot
  BY <1>1 DEF StoredWithoutFailures
<1>3. CASE /\ \A key \in SlotKeys : Alike(slots'[key], slots[key])
           /\ disk' = disk \/ disk' = Snapshot'
           /\ UNCHANGED acks
  <2>1. GenerationNamesOneSnapshot'
    BY <1>2, <1>3 DEF GenerationNamesOneSnapshot
  <2> QED BY <1>2, <1>3, <2>1, AlikeStored
<1>4. CASE \E m \in Publication : IngestDuplicate(m)
  BY <1>2, <1>4, DuplicateStored
<1>5. CASE \E m \in Publication : IngestAccepted(m)
  BY <1>2, <1>5, AcceptedStored
<1> QED BY <1>1, <1>2, <1>3, <1>4, <1>5, StepStores

\* It holds throughout.
LEMMA StoredKept == Spec => [](TypeOK /\ StoredWithoutFailures)
<1>1. Init => StoredWithoutFailures
  BY DEF Init, StoredWithoutFailures, StoredInv, GenerationNamesOneSnapshot
<1>2. /\ TypeOK /\ AuthorityInv /\ StoredWithoutFailures /\ [Next]_vars /\ TypeOK'
      => StoredWithoutFailures'
  BY StoredStep
<1> QED BY <1>1, <1>2, DecisionsBound, PTL DEF Spec

\* AcknowledgedEvidenceDurable: while no I/O operation has failed, what ingest
\* acknowledged is in the state file, whenever the process dies.
THEOREM EvidenceIsDurable == Spec => [](failures = 0 => AcknowledgedEvidenceDurable)
<1>1. ASSUME TypeOK, StoredInv
      PROVE  AcknowledgedEvidenceDurable
  <2> SUFFICES ASSUME NEW a \in acks
               PROVE  disk # None /\ a.generation <= disk.evidence[a.key].generation
    BY DEF AcknowledgedEvidenceDurable
  <2>1. disk # None /\ a.key \in SlotKeys
    BY <1>1 DEF StoredInv, TypeOK, Acknowledgement
  <2>2. Alike(disk.evidence[a.key], slots[a.key]) /\ a.generation <= slots[a.key].generation
    BY <1>1, <2>1 DEF StoredInv
  <2> QED BY <2>1, <2>2 DEF Alike
<1>2. TypeOK /\ StoredWithoutFailures => (failures = 0 => AcknowledgedEvidenceDurable)
  BY <1>1 DEF StoredWithoutFailures
<1> QED BY <1>2, StoredKept, PTL

\* GenerationNamesOneSnapshot: under the same condition, two acknowledgements of one
\* generation of a slot are about the same snapshot, across restarts.
THEOREM GenerationsNameOneSnapshot == Spec => [](failures = 0 => GenerationNamesOneSnapshot)
<1>1. StoredWithoutFailures => (failures = 0 => GenerationNamesOneSnapshot)
  BY DEF StoredWithoutFailures
<1> QED BY <1>1, StoredKept, PTL
-----------------------------------------------------------------------------
(* Sequences without gaps                                                   *)

\* The records have the ids that lead up to n.
Consecutive(s, n) == \A i \in 1..Len(s) : s[i].id + Len(s) = n + i

Elements(s) == {s[i] : i \in 1..Len(s)}

\* The elements of a sequence of records are records.
LEMMA ElementTypes ==
  ASSUME NEW s \in Seq(AuditRecord)
  PROVE  Elements(s) \subseteq AuditRecord
<1>1. \A i \in 1..Len(s) : s[i] \in AuditRecord
  OBVIOUS
<1> QED BY <1>1 DEF Elements

\* Moving a record within its sequence, or the end of the sequence with it.
LEMMA Shifted ==
  ASSUME NEW x \in Nat, NEW l \in Nat, NEW k \in Nat, NEW n \in Nat, NEW i \in Nat,
         x + (l + k) = n + (i + k)
  PROVE  x + l = n + i
OBVIOUS

\* A suffix inherits both.
LEMMA SuffixConsecutive ==
  ASSUME NEW s \in Seq(AuditRecord), NEW t \in Seq(AuditRecord), Suffix(t, s), NEW n \in Nat
  PROVE  /\ Consecutive(s, n) => Consecutive(t, n)
         /\ Elements(t) \subseteq Elements(s)
<1>1. PICK k \in Nat : Len(s) = Len(t) + k /\ \A i \in 1..Len(t) : t[i] = s[i + k]
  BY DEF Suffix
<1>2. Len(s) \in Nat /\ Len(t) \in Nat
  OBVIOUS
<1>3. \A i \in 1..Len(t) : i + k \in 1..Len(s)
  BY <1>1, <1>2
<1>4. ASSUME Consecutive(s, n), NEW i \in 1..Len(t)
      PROVE  t[i].id + Len(t) = n + i
  <2>1. s[i + k].id + Len(s) = n + (i + k) /\ s[i + k].id \in Nat
    BY <1>3, <1>4, RecordTypes DEF Consecutive
  <2>2. t[i].id = s[i + k].id
    BY <1>1
  <2>3. t[i].id \in Nat /\ Len(t) \in Nat /\ k \in Nat /\ n \in Nat /\ i \in Nat
    BY <1>2, <2>1, <2>2
  <2>4. t[i].id + (Len(t) + k) = n + (i + k)
    BY <1>1, <2>1, <2>2
  <2> QED BY <2>3, <2>4, Shifted
<1>5. Elements(t) \subseteq Elements(s)
  BY <1>1, <1>3 DEF Elements
<1> QED BY <1>4, <1>5 DEF Consecutive

\* How many records Newest keeps.
LEMMA NewestLength ==
  ASSUME NEW s \in Seq(AuditRecord), NEW n \in Nat
  PROVE  Len(Newest(s, n)) = IF Len(s) > n THEN n ELSE Len(s)
<1>1. CASE ~(Len(s) > n)
  BY <1>1 DEF Newest
<1>2. CASE Len(s) > n
  <2> DEFINE m == Len(s) - n + 1
             l == Len(s)
  <2>1. m \in Int /\ l \in Int /\ m <= l + 1 /\ l - m + 1 = n /\ \A i \in m..l : s[i] \in AuditRecord
    BY <1>2
  <2>2. Newest(s, n) = SubSeq(s, m, l)
    BY <1>2 DEF Newest
  <2> HIDE DEF m, l
  <2>3. Len(SubSeq(s, m, l)) = IF m <= l THEN l - m + 1 ELSE 0
    BY <2>1, SubSeqProperties
  <2>4. Len(SubSeq(s, m, l)) = n
    BY <2>1, <2>3
  <2> QED BY <1>2, <2>2, <2>4
<1> QED BY <1>1, <1>2

\* The next record keeps the sequence without gaps.
LEMMA AppendConsecutive ==
  ASSUME NEW s \in Seq(AuditRecord), NEW r \in AuditRecord, NEW n \in Nat,
         Consecutive(s, n), r.id = n + 1
  PROVE  /\ Append(s, r) \in Seq(AuditRecord) /\ Len(Append(s, r)) = Len(s) + 1
         /\ Consecutive(Append(s, r), n + 1)
         /\ Elements(Append(s, r)) \subseteq Elements(s) \cup {r}
<1> DEFINE t == Append(s, r)
<1>1. t \in Seq(AuditRecord) /\ Len(t) = Len(s) + 1 /\ Len(s) \in Nat
  OBVIOUS
<1>2. t[Len(t)] = r /\ \A i \in 1..Len(s) : t[i] = s[i]
  OBVIOUS
<1> HIDE DEF t
<1>3. \A i \in 1..Len(t) : i \in 1..Len(s) \/ i = Len(t)
  BY <1>1
<1>4. ASSUME NEW i \in 1..Len(t) PROVE t[i].id + Len(t) = (n + 1) + i
  <2>1. CASE i \in 1..Len(s)
    <3> DEFINE x == s[i].id
    <3>1. x + Len(s) = n + i /\ x \in Nat /\ i \in Nat
      BY <2>1, RecordTypes DEF Consecutive
    <3>2. t[i].id = x
      BY <1>2, <2>1
    <3> HIDE DEF x
    <3>3. x + (Len(s) + 1) = (n + 1) + i
      BY <1>1, <3>1
    <3> QED BY <1>1, <3>2, <3>3
  <2>2. CASE i = Len(t)
    BY <1>1, <1>2, <2>2
  <2> QED BY <1>3, <2>1, <2>2
<1>5. Elements(t) \subseteq Elements(s) \cup {r}
  BY <1>2, <1>3 DEF Elements
<1> QED BY <1>1, <1>4, <1>5 DEF Consecutive, t

\* The record with a given id that the sequence is long enough for.
LEMMA FindRecord ==
  ASSUME NEW s \in Seq(AuditRecord), NEW n \in Nat, Consecutive(s, n),
         NEW id \in Nat, id <= n, id + Len(s) > n
  PROVE  \E j \in 1..Len(s) : s[j].id = id
<1> DEFINE j == id + Len(s) - n
<1>1. Len(s) \in Nat /\ j \in 1..Len(s)
  OBVIOUS
<1>2. s[j].id + Len(s) = n + j /\ s[j].id \in Nat
  BY <1>1, RecordTypes DEF Consecutive
<1>3. s[j].id = id
  BY <1>1, <1>2
<1> QED BY <1>1, <1>3

\* The greatest of some indices.
LEMMA HighestIndex ==
  ASSUME NEW k \in Nat, NEW I \in SUBSET (1..k)
  PROVE  /\ Highest(0, I) \in 0..k
         /\ Highest(0, I) # 0 => Highest(0, I) \in I
         /\ \A j \in I : j <= Highest(0, I)
<1>1. CASE I = {}
  <2>1. Highest(0, I) = 0
    BY <1>1 DEF Highest
  <2> QED BY <1>1, <2>1
<1>2. CASE I # {}
  <2> DEFINE f == [i \in 1..k |-> i]
  <2>1. f \in [1..k -> Nat] /\ \A i \in I : f[i] = i
    OBVIOUS
  <2> HIDE DEF f
  <2>2. {f[i] : i \in I} = I
    BY <2>1
  <2>3. \E m \in {f[i] : i \in I} : \A y \in {f[i] : i \in I} : y <= m
    BY <1>2, <2>1, GreatestExists
  <2>4. PICK m \in I : \A y \in I : y <= m
    BY <2>2, <2>3
  <2>5. I \in SUBSET Nat /\ m \in 1..k /\ 0 \in Nat
    OBVIOUS
  <2>6. Highest(0, I) = IF m > 0 THEN m ELSE 0
    BY <2>4, <2>5, HighestCovers
  <2>7. Highest(0, I) = m
    BY <2>5, <2>6
  <2> QED BY <2>4, <2>5, <2>7
<1> QED BY <1>1, <1>2

\* Replay takes every record of a sequence without gaps, and the last one of a
\* domain decides.
LEMMA LastAppliedFacts ==
  ASSUME NEW s \in Seq(AuditRecord), NEW n \in Nat, Consecutive(s, n), NEW d \in Domains
  PROVE  /\ LastApplied(s, d) \in 0..Len(s)
         /\ LastApplied(s, d) # 0 => s[LastApplied(s, d)].domain = d
         /\ \A j \in 1..Len(s) : s[j].domain = d => j <= LastApplied(s, d)
<1>1. Len(s) \in Nat
  OBVIOUS
<1>2. ASSUME NEW i \in 1..Len(s) PROVE i \in Applied(s)
  <2> SUFFICES ASSUME NEW j \in 1..(i - 1) PROVE s[j].id < s[i].id
    BY DEF Applied
  <2>1. j \in 1..Len(s) /\ j < i
    BY <1>1
  <2>2. s[j].id + Len(s) = n + j /\ s[i].id + Len(s) = n + i
    BY <2>1 DEF Consecutive
  <2>3. s[j].id \in Nat /\ s[i].id \in Nat
    BY <2>1, RecordTypes
  <2> QED BY <1>1, <2>1, <2>2, <2>3
<1> DEFINE I == {i \in Applied(s) : s[i].domain = d}
<1>3. I \in SUBSET (1..Len(s)) /\ LastApplied(s, d) = Highest(0, I)
  BY DEF Applied, LastApplied
<1>4. \A j \in 1..Len(s) : s[j].domain = d => j \in I
  BY <1>2
<1>5. \A j \in I : s[j].domain = d
  OBVIOUS
<1> HIDE DEF I
<1> QED BY <1>1, <1>3, <1>4, <1>5, HighestIndex

\* Positions in the two parts of a joined sequence.
LEMMA Joined ==
  ASSUME NEW x \in Nat, NEW l \in Nat, NEW h \in Nat, NEW k \in Nat, NEW m \in Nat,
         NEW n \in Nat, NEW i \in Nat
  PROVE  /\ x + l = m + i /\ m + h = l + (n - k) => x + (h + k) = n + i
         /\ x + k = n + (i - h) => x + (h + k) = n + i
OBVIOUS

\* The audit tail after a recovery has no gap if the two files have none and the
\* journal reaches back to the state file's last record.
LEMMA MergeConsecutive ==
  ASSUME NEW s \in Seq(AuditRecord), NEW r \in Seq(AuditRecord), NEW m \in Nat, NEW n \in Nat,
         Consecutive(s, m), Consecutive(r, n), m <= n, n <= m + Len(r)
  PROVE  /\ Consecutive(MergeAudit(s, r), n)
         /\ Elements(MergeAudit(s, r)) \subseteq Elements(s) \cup Elements(r)
<1>1. Len(s) \in Nat /\ Len(r) \in Nat
  OBVIOUS
<1>2. CASE r = <<>>
  <2>1. MergeAudit(s, r) = s /\ m = n
    <3>1. Len(r) = 0
      BY <1>2
    <3> QED BY <1>2, <3>1 DEF MergeAudit
  <2> QED BY <2>1
<1>3. CASE r # <<>>
  <2> DEFINE older == {i \in 1..Len(s) : s[i].id < r[1].id}
             h == Highest(0, older)
             p == SubSeq(s, 1, h)
             q == p \o r
  <2>1. 1 \in 1..Len(r) /\ r[1].id \in Nat /\ r[1].id + Len(r) = n + 1
    <3>1. 1 \in 1..Len(r)
      BY <1>3
    <3> QED BY <3>1, RecordTypes DEF Consecutive
  <2>2. h \in 0..Len(s) /\ (h # 0 => h \in older) /\ \A j \in older : j <= h
    BY <1>1, HighestIndex
  <2>3. \A i \in 1..Len(s) : s[i].id + Len(s) = m + i /\ s[i].id \in Nat
    BY RecordTypes DEF Consecutive
  <2> DEFINE first == r[1].id
             sl == Len(s)
             rl == Len(r)
  <2> HIDE DEF h
  <2>4. h # 0 => m + h = Len(s) + (n - Len(r))
    <3> SUFFICES ASSUME h # 0 PROVE m + h = Len(s) + (n - Len(r))
      OBVIOUS
    <3>1. h \in 1..Len(s) /\ s[h].id < r[1].id
      BY <2>2
    <3>2. s[h].id + Len(s) = m + h /\ s[h].id \in Nat
      BY <2>3, <3>1
    <3>3. s[h].id <= n - Len(r)
      BY <1>1, <2>1, <3>1, <3>2
    <3>4. ASSUME s[h].id < n - Len(r) PROVE FALSE
      <4>1. h + 1 \in 1..Len(s)
        BY <1>1, <3>1, <3>2, <3>4
      <4>2. s[h + 1].id + Len(s) = m + (h + 1) /\ s[h + 1].id \in Nat
        BY <2>3, <4>1
      <4>3. s[h + 1].id < r[1].id
        <5> DEFINE x == s[h].id
                   y == s[h + 1].id
        <5>1. /\ x \in Nat /\ y \in Nat /\ first \in Nat /\ sl \in Nat /\ rl \in Nat /\ h \in Nat
              /\ x + sl = m + h /\ y + sl = m + (h + 1) /\ first + rl = n + 1 /\ x < n - rl
          BY <1>1, <2>1, <3>1, <3>2, <3>4, <4>2
        <5> HIDE DEF x, y, first, sl, rl
        <5>2. y < first
          BY <5>1
        <5> QED BY <5>2 DEF y, first
      <4>4. h + 1 <= h
        BY <2>2, <4>1, <4>3
      <4> QED BY <3>1, <4>4
    <3>5. s[h].id = n - Len(r)
      BY <1>1, <3>2, <3>3, <3>4
    <3> QED BY <1>1, <3>1, <3>2, <3>5
  <2>5. /\ p \in Seq(AuditRecord) /\ Len(p) = h /\ h \in Nat
        /\ \A i \in 1..h : p[i] = s[i] /\ i \in 1..Len(s)
    BY <1>1, <2>2, PrefixFacts
  <2>6. MergeAudit(s, r) = Newest(q, MaxAuditRecords)
    BY <1>3 DEF MergeAudit, h
  <2> HIDE DEF p
  <2>7. /\ q \in Seq(AuditRecord) /\ Len(q) = h + Len(r)
        /\ \A i \in 1..h : q[i] = p[i]
        /\ \A i \in 1..Len(q) : i > h => i - h \in 1..Len(r) /\ q[i] = r[i - h]
    BY <2>5
  <2> HIDE DEF q
  <2>8. ASSUME NEW i \in 1..Len(q)
        PROVE  q[i].id + Len(q) = n + i /\ q[i] \in Elements(s) \cup Elements(r)
    <3>1. CASE i \in 1..h
      <4>1. q[i] = s[i] /\ i \in 1..Len(s) /\ h # 0
        BY <2>5, <2>7, <3>1
      <4>2. s[i].id + Len(s) = m + i /\ s[i].id \in Nat
        BY <2>3, <4>1
      <4>3. s[i].id + (h + Len(r)) = n + i
        <5> DEFINE x == s[i].id
        <5>1. /\ x \in Nat /\ sl \in Nat /\ rl \in Nat /\ h \in Nat /\ i \in Nat
              /\ x + sl = m + i /\ m + h = sl + (n - rl)
          BY <1>1, <2>4, <2>5, <4>1, <4>2
        <5> HIDE DEF x, sl, rl
        <5>2. x + (h + rl) = n + i
          BY <5>1, Joined
        <5> QED BY <5>2 DEF x, rl
      <4>4. s[i] \in Elements(s)
        BY <4>1 DEF Elements
      <4> QED BY <2>7, <4>1, <4>3, <4>4
    <3>2. CASE i > h
      <4>1. i - h \in 1..Len(r) /\ q[i] = r[i - h]
        BY <2>7, <3>2
      <4>2. r[i - h].id + Len(r) = n + (i - h) /\ r[i - h].id \in Nat
        BY <4>1, RecordTypes DEF Consecutive
      <4>3. r[i - h].id + (h + Len(r)) = n + i
        <5> DEFINE x == r[i - h].id
        <5>1. /\ x \in Nat /\ rl \in Nat /\ h \in Nat /\ i \in Nat /\ x + rl = n + (i - h)
          BY <1>1, <2>5, <4>2
        <5> HIDE DEF x, rl
        <5>2. x + (h + rl) = n + i
          BY <5>1, Joined
        <5> QED BY <5>2 DEF x, rl
      <4>4. r[i - h] \in Elements(r)
        BY <4>1 DEF Elements
      <4> QED BY <2>7, <4>1, <4>3, <4>4
    <3>3. i \in 1..h \/ i > h
      BY <2>5
    <3> QED BY <3>1, <3>2, <3>3
  <2>9. Consecutive(q, n) /\ Elements(q) \subseteq Elements(s) \cup Elements(r)
    BY <2>8 DEF Consecutive, Elements
  <2>10. /\ Newest(q, MaxAuditRecords) \in Seq(AuditRecord)
         /\ Suffix(Newest(q, MaxAuditRecords), q)
    BY <2>7, NewestSuffix, StoreAssumption
  <2> QED BY <2>6, <2>7, <2>9, <2>10, SuffixConsecutive
<1> QED BY <1>2, <1>3
-----------------------------------------------------------------------------
(* What a restart brings back                                                *)

\* Nothing has failed, and the state file is saved often enough for the journal and
\* the audit tail to reach back to it, even when compaction has just cut them.
\* (As with the defaults: a save every 256 decisions, 4096 records kept.)
InTime ==
  /\ Unharmed
  /\ save_state_every_decisions <= CompactionKeep + 1
  /\ save_state_every_decisions <= MaxAuditRecords + 1

\* The records that memory and the files hold.
KnownRecords ==
  Elements(audit) \cup Elements(journal)
    \cup (IF disk = None THEN {} ELSE Elements(disk.audit))

\* A record is about a known domain and not ahead of it, the domain's last decision
\* is recorded for no other domain, and an id stands for one record.
RecordInv ==
  /\ \A d \in Domains : domains[d].last_decision <= issued
  /\ \A r \in KnownRecords :
       /\ r.id <= issued /\ r.epoch <= epoch
       /\ domains[r.domain].known /\ r.id <= domains[r.domain].last_decision
       /\ \A d \in Domains : domains[d].last_decision = r.id => d = r.domain
       /\ \A q \in KnownRecords : q.id = r.id => q = r

NoGaps ==
  /\ Consecutive(audit, issued) /\ Consecutive(journal, issued)
  /\ disk # None => Consecutive(disk.audit, disk.issued)

\* The journal reaches back to the state file.  A runtime that is up could also
\* write a journal that does from its audit tail, and saves in time.
ReachInv ==
  /\ disk # None => issued <= disk.issued + Len(journal)
  /\ Open => /\ issued <= disk.issued + Len(audit)
             /\ issued <= disk.issued + unsaved
             /\ unsaved = 0 \/ unsaved < save_state_every_decisions

\* The state file lags behind in its decisions only.
SavedInv ==
  disk # None =>
    /\ disk.epoch = epoch /\ disk.policy = policy /\ disk.publishers = publishers
    /\ \A d \in Domains : domains[d].last_decision <= disk.issued => disk.domains[d] = domains[d]

\* The inductive invariant while saves are in time.
CoverInv == RecordInv /\ NoGaps /\ ReachInv /\ SavedInv

\* A new directory.
LEMMA CoverInit == Init => CoverInv
<1> SUFFICES ASSUME Init PROVE CoverInv
  OBVIOUS
<1>1. /\ audit = <<>> /\ journal = <<>> /\ disk = None /\ issued = 0
      /\ ~Open /\ \A d \in Domains : domains[d] = UnknownDomain
  BY DEF Init, Open
<1>2. Elements(<<>>) = {} /\ Consecutive(<<>>, 0)
  BY DEF Elements, Consecutive
<1>3. KnownRecords = {}
  BY <1>1, <1>2 DEF KnownRecords
<1>4. RecordInv
  BY <1>1, <1>3 DEF RecordInv, UnknownDomain
<1>5. NoGaps /\ ReachInv /\ SavedInv
  BY <1>1, <1>2 DEF NoGaps, ReachInv, SavedInv
<1> QED BY <1>4, <1>5 DEF CoverInv

\* The records are records.
LEMMA KnownTypes ==
  ASSUME TypeOK
  PROVE  /\ KnownRecords \subseteq AuditRecord
         /\ \A r \in KnownRecords : r.id \in Nat \ {0} /\ r.epoch \in Nat /\ r.domain \in Domains
<1>1. Elements(audit) \subseteq AuditRecord /\ Elements(journal) \subseteq AuditRecord
  BY ElementTypes DEF TypeOK
<1>2. disk # None => Elements(disk.audit) \subseteq AuditRecord
  BY DiskTypes, ElementTypes
<1>3. KnownRecords \subseteq AuditRecord
  BY <1>1, <1>2 DEF KnownRecords
<1> QED BY <1>3 DEF AuditRecord

\* Before the first save there are none.
LEMMA NothingYet ==
  ASSUME TypeOK, DurableInv, disk = None
  PROVE  KnownRecords = {}
<1>1. audit \in Seq(AuditRecord) /\ journal \in Seq(AuditRecord) /\ issued \in Nat
  BY DEF TypeOK
<1>2. journal = <<>> /\ Ends(journal, issued) /\ Ends(audit, issued)
  BY DEF DurableInv
<1>3. issued = 0
  BY <1>1, <1>2, EndsFacts
<1>4. audit = <<>>
  BY <1>1, <1>2, <1>3, EndsFacts
<1>5. Elements(<<>>) = {}
  BY DEF Elements
<1> QED BY <1>2, <1>4, <1>5 DEF KnownRecords

\* The number of a domain's last decision.
LEMMA LastDecisionType ==
  ASSUME TypeOK, NEW d \in Domains
  PROVE  domains[d] \in DomainRuntimeState /\ domains[d].last_decision \in Nat
<1>1. domains[d] \in DomainRuntimeState
  BY DEF TypeOK
<1> QED BY <1>1 DEF DomainRuntimeState
-----------------------------------------------------------------------------
(* What a step does to memory, records and state file                       *)

KeepsDomains ==
  \A d \in Domains : /\ domains'[d].known = domains[d].known
                     /\ domains'[d].last_decision = domains[d].last_decision

\* A step that writes no record saves what it changes.
Calm ==
  /\ UNCHANGED <<issued, audit, journal>>
  /\ KeepsDomains
  /\ \/ disk' = Snapshot' /\ unsaved' = 0 /\ (epoch' >= epoch \/ disk = None)
     \/ UNCHANGED <<disk, epoch, policy, publishers, domains, unsaved>> /\ (Open' => Open)

\* An evaluation compacts the journal, and records a decision that is saved in time
\* or by a process that dies.
Appraises(d, tick) ==
  LET rec == RecordFor(d, tick)
  IN  /\ Open /\ UNCHANGED <<epoch, policy, publishers>>
      /\ \/ /\ journal' = Room.journal /\ audit' = Room.audit
            /\ UNCHANGED <<issued, disk, domains, unsaved>>
         \/ /\ journal' = Frames(rec)
            /\ audit' = Newest(Append(Room.audit, rec), MaxAuditRecords)
            /\ issued' = issued + 1
            /\ domains' = [domains EXCEPT ![d] = DomainAfter(d, tick)]
            /\ \/ disk' = Snapshot' /\ unsaved' = 0
               \/ /\ disk' = disk /\ unsaved' = unsaved + 1
                  /\ unsaved + 1 < save_state_every_decisions
               \/ disk' = disk /\ ~Open'

\* Without failures every step is calm, a recovery or an evaluation.
LEMMA StepCovers ==
  ASSUME TypeOK, failures = 0, failures' = 0, [Next]_vars
  PROVE  \/ Calm
         \/ Recover
         \/ \E d \in Domains, tick \in Nat : Appraises(d, tick)
<1>1. ~IoFails /\ ~SaveFails
  BY DEF IoFails, SaveFails
<1>2. SaveSucceeds => disk' = Snapshot' /\ unsaved' = 0
  BY DEF SaveSucceeds
<1>3. Persist => disk' = Snapshot' /\ unsaved' = 0 /\ journal' = journal
  BY <1>1, <1>2 DEF Persist
<1>4. epoch \in Nat /\ epoch >= epoch
  BY DEF TypeOK
<1>5. UNCHANGED domains => KeepsDomains
  BY DEF KeepsDomains
<1>6. CASE UNCHANGED vars
  BY <1>5, <1>6 DEF vars, memory, files, Calm, Open
<1>7. CASE Lifecycle
  <2>1. ASSUME NEW c \in PolicyContents, OpenFresh(c)
        PROVE  Calm
    BY <1>2, <1>5, <2>1 DEF OpenFresh, Calm
  <2>2. CASE Crash \/ BeginShutdown \/ Close
    BY <1>5, <2>2 DEF Crash, BeginShutdown, Close, memory, files, Calm, Open, Accepting
  <2>3. CASE EndShutdown \/ Save
    BY <1>3, <1>4, <1>5, <2>3 DEF EndShutdown, Save, memory, Calm
  <2>4. ~RecoverFails
    BY <1>1 DEF RecoverFails
  <2> QED BY <1>7, <2>1, <2>2, <2>3, <2>4 DEF Lifecycle
<1>8. CASE Configure
  <2>1. ASSUME NEW c \in PolicyContents, NEW t \in Ticks, InstallPolicy(c, t)
        PROVE  Calm
    BY <1>3, <1>4, <1>5, <2>1 DEF InstallPolicy, Calm
  <2>2. ASSUME NEW next \in 1..MaxEpoch, AdvanceEpoch(next)
        PROVE  Calm
    <3>1. ASSUME NEW d \in Domains
          PROVE  /\ domains'[d].known = domains[d].known
                 /\ domains'[d].last_decision = domains[d].last_decision
      <4>1. domains[d] \in DomainRuntimeState
        BY LastDecisionType
      <4>2. \/ domains'[d] = domains[d]
            \/ domains'[d] = [domains[d] EXCEPT !.fenced = TRUE, !.sticky_outcome = "Stale"]
        BY <2>2 DEF AdvanceEpoch
      <4> QED BY <4>1, <4>2 DEF DomainRuntimeState
    <3>2. KeepsDomains
      BY <3>1 DEF KeepsDomains
    <3>3. epoch' >= epoch
      <4>1. epoch' = next /\ next > epoch
        BY <2>2 DEF AdvanceEpoch
      <4> QED BY <1>4, <4>1
    <3> QED BY <1>3, <2>2, <3>2, <3>3 DEF AdvanceEpoch, Calm
  <2>3. ASSUME NEW delta \in 1..MaxTick, AdvanceTick(delta)
        PROVE  Calm
    BY <1>5, <2>3 DEF AdvanceTick, files, Calm, Open
  <2> QED BY <1>8, <2>1, <2>2, <2>3 DEF Configure
<1>9. CASE Publish
  <2>1. ASSUME NEW p \in Publishers, NEW i \in 1..MaxPublisherIncarnation, NEW t \in Ticks,
               RegisterPublisher(p, i, t) \/ AdoptIncarnation(p, i, t)
        PROVE  Calm
    BY <1>3, <1>4, <1>5, <2>1 DEF RegisterPublisher, AdoptIncarnation, Calm
  <2>2. ASSUME NEW p \in Publishers, FencePublisher(p)
        PROVE  Calm
    BY <1>3, <1>4, <1>5, <2>2 DEF FencePublisher, Calm
  <2>3. ASSUME NEW m \in Publication, IngestDuplicate(m) \/ IngestRefused(m)
        PROVE  Calm
    BY <1>5, <2>3 DEF IngestDuplicate, IngestRefused, memory, files, Calm, Open
  <2>4. ASSUME NEW m \in Publication, IngestAccepted(m)
        PROVE  Calm
    BY <1>2, <1>4, <1>5, <2>4 DEF IngestAccepted, Calm
  <2>5. ASSUME NEW m \in Publication
        PROVE  ~IngestUnsaved(m)
    BY <1>1 DEF IngestUnsaved
  <2> QED BY <1>9, <2>1, <2>2, <2>3, <2>4, <2>5 DEF Publish
<1>10. CASE Govern
  <2> SUFFICES ASSUME NEW d \in Domains, NEW t \in Ticks,
                      \/ Evaluate(d, t) \/ EvaluateWedged(d, t)
                      \/ EvaluateAppendFails(d, t) \/ EvaluateCompactionFails(d, t)
                      \/ CrashInEvaluate(d, t)
               PROVE  Appraises(d, EvaluationTick(t))
    BY <1>10, TickRises DEF Govern
  <2>1. CanEvaluate(d) => Open
    BY DEF CanEvaluate, Open
  <2>2. CASE Evaluate(d, t)
    BY <1>1, <1>2, <2>1, <2>2 DEF Evaluate, DeliverDecision, Appraises
  <2>3. CASE EvaluateWedged(d, t)
    BY <2>1, <2>3 DEF EvaluateWedged, history, Appraises
  <2>4. CASE CrashInEvaluate(d, t)
    <3>1. ~Open'
      BY <2>4 DEF CrashInEvaluate, Open
    <3> QED BY <2>1, <2>4, <3>1 DEF CrashInEvaluate, history, Appraises
  <2>5. ~EvaluateAppendFails(d, t) /\ ~EvaluateCompactionFails(d, t)
    BY <1>1 DEF EvaluateAppendFails, EvaluateCompactionFails
  <2> QED BY <2>2, <2>3, <2>4, <2>5
<1> QED BY <1>6, <1>7, <1>8, <1>9, <1>10 DEF Next

\* What a save writes covers everything.
LEMMA SavedCovers ==
  ASSUME TypeOK', disk' = Snapshot'
  PROVE  SavedInv' /\ disk' # None /\ disk'.audit = audit' /\ disk'.issued = issued'
<1>1. disk' # None /\ disk'.audit = audit' /\ disk'.issued = issued'
  BY SnapshotParts
<1>2. /\ disk'.epoch = epoch' /\ disk'.policy = policy' /\ disk'.publishers = publishers'
      /\ disk'.domains = domains'
  BY DEF Snapshot
<1> QED BY <1>1, <1>2 DEF SavedInv

\* Records that were there before, of domains that are as they were.
LEMMA RecordsKept ==
  ASSUME TypeOK, TypeOK', RecordInv, KnownRecords' \subseteq KnownRecords,
         issued' = issued, KeepsDomains, epoch' >= epoch \/ KnownRecords = {}
  PROVE  RecordInv'
<1>1. epoch \in Nat /\ epoch' \in Nat
  BY DEF TypeOK
<1>2. \A d \in Domains : domains'[d].last_decision <= issued'
  BY DEF RecordInv, KeepsDomains
<1>3. ASSUME NEW r \in KnownRecords'
      PROVE  /\ r.id <= issued' /\ r.epoch <= epoch'
             /\ domains'[r.domain].known /\ r.id <= domains'[r.domain].last_decision
             /\ \A d \in Domains : domains'[d].last_decision = r.id => d = r.domain
             /\ \A q \in KnownRecords' : q.id = r.id => q = r
  <2>1. r \in KnownRecords /\ r.domain \in Domains /\ r.epoch \in Nat
    BY KnownTypes
  <2>2. r.epoch <= epoch /\ epoch' >= epoch
    BY <2>1 DEF RecordInv
  <2>3. r.epoch <= epoch'
    BY <1>1, <2>1, <2>2
  <2>4. /\ r.id <= issued
        /\ domains[r.domain].known /\ r.id <= domains[r.domain].last_decision
        /\ \A d \in Domains : domains[d].last_decision = r.id => d = r.domain
        /\ \A q \in KnownRecords : q.id = r.id => q = r
    BY <2>1 DEF RecordInv
  <2> QED BY <2>1, <2>3, <2>4 DEF KeepsDomains
<1> QED BY <1>2, <1>3 DEF RecordInv

\* A calm step.
LEMMA CalmCovers ==
  ASSUME TypeOK, TypeOK', DurableInv, CoverInv, Calm
  PROVE  CoverInv'
<1>1. UNCHANGED <<issued, audit, journal>> /\ KeepsDomains
  BY DEF Calm
<1>2. issued \in Nat /\ journal \in Seq(AuditRecord) /\ audit \in Seq(AuditRecord)
  BY DEF TypeOK
<1>3. Len(journal) \in Nat /\ Len(audit) \in Nat
  BY <1>2
<1>4. CASE disk' = Snapshot' /\ unsaved' = 0 /\ (epoch' >= epoch \/ disk = None)
  <2>1. SavedInv' /\ disk' # None /\ disk'.audit = audit' /\ disk'.issued = issued'
    BY <1>4, SavedCovers
  <2>2. KnownRecords' \subseteq KnownRecords
    BY <1>1, <2>1 DEF KnownRecords
  <2>3. epoch' >= epoch \/ KnownRecords = {}
    BY <1>4, NothingYet
  <2>4. RecordInv'
    BY <1>1, <2>2, <2>3, RecordsKept DEF CoverInv
  <2>5. NoGaps'
    BY <1>1, <2>1 DEF CoverInv, NoGaps, Consecutive
  <2>6. ReachInv'
    <3>1. issued <= issued + Len(journal) /\ issued <= issued + Len(audit) /\ issued <= issued + 0
      BY <1>2, <1>3
    <3> QED BY <1>1, <1>4, <2>1, <3>1 DEF ReachInv
  <2> QED BY <2>1, <2>4, <2>5, <2>6 DEF CoverInv
<1>5. CASE UNCHANGED <<disk, epoch, policy, publishers, domains, unsaved>> /\ (Open' => Open)
  <2>1. KnownRecords' = KnownRecords
    BY <1>1, <1>5 DEF KnownRecords
  <2>2. RecordInv'
    BY <1>1, <1>5, <2>1 DEF CoverInv, RecordInv
  <2>3. NoGaps'
    BY <1>1, <1>5 DEF CoverInv, NoGaps, Consecutive
  <2>4. ReachInv' /\ SavedInv'
    BY <1>1, <1>5 DEF CoverInv, ReachInv, SavedInv
  <2> QED BY <2>2, <2>3, <2>4 DEF CoverInv
<1> QED BY <1>4, <1>5 DEF Calm

\* Compaction leaves no gap and cuts nothing that the state file needs.
LEMMA RoomCovers ==
  ASSUME TypeOK, InTime, DurableInv, CoverInv, disk # None, Open
  PROVE  /\ Room.journal \in Seq(AuditRecord) /\ Room.audit \in Seq(AuditRecord)
         /\ Consecutive(Room.journal, issued) /\ Consecutive(Room.audit, issued)
         /\ issued <= disk.issued + Len(Room.journal)
         /\ issued <= disk.issued + Len(Room.audit)
         /\ Elements(Room.journal) \subseteq KnownRecords
         /\ Elements(Room.audit) \subseteq KnownRecords
<1>1. audit \in Seq(AuditRecord) /\ journal \in Seq(AuditRecord) /\ issued \in Nat
  BY DEF TypeOK
<1>2. /\ Consecutive(journal, issued) /\ Consecutive(audit, issued)
      /\ issued <= disk.issued + Len(journal) /\ issued <= disk.issued + Len(audit)
  BY DEF CoverInv, NoGaps, ReachInv
<1>3. Elements(audit) \subseteq KnownRecords /\ Elements(journal) \subseteq KnownRecords
  BY DEF KnownRecords
<1>4. CASE counted < MaxJournalRecords
  <2>1. Room.journal = journal /\ Room.audit = audit
    BY <1>4 DEF Room
  <2> QED BY <1>1, <1>2, <1>3, <2>1
<1>5. CASE ~(counted < MaxJournalRecords)
  <2> DEFINE kept == Newest(audit, CompactionKeep)
  <2>1. Room.journal = kept /\ Room.audit = kept
    BY <1>5 DEF Room
  <2>2. CompactionKeep \in Nat
    BY GovernorAssumption, StoreAssumption DEF CompactionKeep
  <2>3. kept \in Seq(AuditRecord) /\ Suffix(kept, audit)
    BY <1>1, <2>2, NewestSuffix
  <2>4. Len(kept) = IF Len(audit) > CompactionKeep THEN CompactionKeep ELSE Len(audit)
    BY <1>1, <2>2, NewestLength
  <2> HIDE DEF kept
  <2>5. Consecutive(kept, issued) /\ Elements(kept) \subseteq KnownRecords
    BY <1>1, <1>2, <1>3, <2>3, SuffixConsecutive
  <2>6. issued <= disk.issued + Len(kept)
    <3>1. /\ issued <= disk.issued + unsaved
          /\ unsaved = 0 \/ unsaved < save_state_every_decisions
          /\ save_state_every_decisions <= CompactionKeep + 1
      BY DEF CoverInv, ReachInv, InTime
    <3>2. disk.issued \in Nat /\ unsaved \in Nat /\ save_state_every_decisions \in Nat
      BY DiskTypes, GovernorAssumption DEF TypeOK
    <3>3. unsaved <= CompactionKeep
      BY <2>2, <3>1, <3>2
    <3>4. issued <= disk.issued + CompactionKeep
      BY <1>1, <2>2, <3>1, <3>2, <3>3
    <3>5. Len(kept) = CompactionKeep \/ Len(kept) = Len(audit)
      BY <2>4
    <3> QED BY <1>2, <3>4, <3>5
  <2> QED BY <2>1, <2>3, <2>5, <2>6
<1> QED BY <1>4, <1>5

\* The record of the next decision.
LEMMA RecordedCovers ==
  ASSUME TypeOK, TypeOK', RecordInv, NEW d \in Domains, NEW tick \in Nat,
         KnownRecords' \subseteq KnownRecords \cup {RecordFor(d, tick)},
         issued' = issued + 1, epoch' = epoch,
         domains' = [domains EXCEPT ![d] = DomainAfter(d, tick)]
  PROVE  RecordInv'
<1> DEFINE rec == RecordFor(d, tick)
           after == DomainAfter(d, tick)
<1>1. issued \in Nat /\ epoch \in Nat /\ domains \in [Domains -> DomainRuntimeState]
  BY DEF TypeOK
<1>2. rec.id = issued + 1 /\ rec.epoch = epoch /\ rec.domain = d
  BY DEF RecordFor
<1>3. after.known /\ after.last_decision = issued + 1
  BY EvaluationFacts, TypeHalves
<1>4. domains'[d] = after /\ \A e \in Domains : e # d => domains'[e] = domains[e]
  BY <1>1
<1>5. \A r \in KnownRecords : /\ r.id \in Nat /\ r.id <= issued /\ r.epoch <= epoch /\ r.domain \in Domains
                              /\ domains[r.domain].known /\ r.id <= domains[r.domain].last_decision
                              /\ \A e \in Domains : domains[e].last_decision = r.id => e = r.domain
                              /\ \A q \in KnownRecords : q.id = r.id => q = r
  BY KnownTypes DEF RecordInv
<1>6. \A e \in Domains : domains[e].last_decision \in Nat /\ domains[e].last_decision <= issued
  BY LastDecisionType DEF RecordInv
<1> HIDE DEF rec, after
<1>7. ASSUME NEW e \in Domains PROVE domains'[e].last_decision <= issued'
  <2>1. CASE e = d
    <3>1. domains'[e].last_decision = issued + 1
      BY <1>3, <1>4, <2>1
    <3> QED BY <1>1, <3>1
  <2>2. CASE e # d
    <3>1. domains'[e].last_decision = domains[e].last_decision
      BY <1>4, <2>2
    <3> QED BY <1>1, <1>6, <3>1
  <2> QED BY <2>1, <2>2
<1>8. ASSUME NEW r \in KnownRecords'
      PROVE  /\ r.id <= issued' /\ r.epoch <= epoch'
             /\ domains'[r.domain].known /\ r.id <= domains'[r.domain].last_decision
             /\ \A e \in Domains : domains'[e].last_decision = r.id => e = r.domain
             /\ \A q \in KnownRecords' : q.id = r.id => q = r
  <2>1. CASE r = rec
    <3>1. r.id <= issued' /\ r.epoch <= epoch'
      BY <1>1, <1>2, <2>1
    <3>2. domains'[r.domain].known /\ domains'[r.domain].last_decision = issued + 1
      BY <1>2, <1>3, <1>4, <2>1
    <3>3. r.id <= domains'[r.domain].last_decision
      BY <1>1, <1>2, <2>1, <3>2
    <3>4. ASSUME NEW e \in Domains, domains'[e].last_decision = r.id PROVE e = r.domain
      <4>1. ASSUME e # d PROVE FALSE
        <5>1. domains[e].last_decision = issued + 1
          BY <1>2, <1>4, <2>1, <3>4, <4>1
        <5> QED BY <1>1, <1>6, <5>1
      <4> QED BY <1>2, <2>1, <4>1
    <3>5. ASSUME NEW q \in KnownRecords', q.id = r.id PROVE q = r
      <4>1. ASSUME q \in KnownRecords PROVE FALSE
        <5>1. q.id \in Nat /\ q.id <= issued /\ q.id = issued + 1
          BY <1>2, <1>5, <2>1, <3>5, <4>1
        <5> QED BY <1>1, <5>1
      <4>2. q \in KnownRecords \/ q = rec
        BY DEF rec
      <4> QED BY <2>1, <4>1, <4>2
    <3> QED BY <3>1, <3>2, <3>3, <3>4, <3>5
  <2>2. CASE r # rec
    <3>1. r \in KnownRecords
      BY <2>2 DEF rec
    <3>2. r.id \in Nat /\ r.id <= issued /\ r.epoch <= epoch /\ r.domain \in Domains
      BY <1>5, <3>1
    <3>3. r.id <= issued' /\ r.epoch <= epoch'
      BY <1>1, <3>2
    <3>4. domains'[r.domain].known
      BY <1>3, <1>4, <1>5, <3>1, <3>2
    <3>5. r.id <= domains'[r.domain].last_decision
      <4>1. CASE r.domain = d
        <5>1. domains'[r.domain].last_decision = issued + 1
          BY <1>3, <1>4, <4>1
        <5> QED BY <1>1, <3>2, <5>1
      <4>2. CASE r.domain # d
        BY <1>4, <1>5, <3>1, <3>2, <4>2
      <4> QED BY <4>1, <4>2
    <3>6. ASSUME NEW e \in Domains, domains'[e].last_decision = r.id PROVE e = r.domain
      <4>1. ASSUME e = d PROVE FALSE
        <5>1. r.id = issued + 1
          BY <1>3, <1>4, <3>6, <4>1
        <5> QED BY <1>1, <3>2, <5>1
      <4>2. domains[e].last_decision = r.id
        BY <1>4, <3>6, <4>1
      <4> QED BY <1>5, <3>1, <4>2
    <3>7. ASSUME NEW q \in KnownRecords', q.id = r.id PROVE q = r
      <4>1. ASSUME q = rec PROVE FALSE
        <5>1. r.id = issued + 1
          BY <1>2, <3>7, <4>1
        <5> QED BY <1>1, <3>2, <5>1
      <4>2. q \in KnownRecords
        BY <4>1 DEF rec
      <4> QED BY <1>5, <3>1, <3>7, <4>2
    <3> QED BY <3>3, <3>4, <3>5, <3>6, <3>7
  <2> QED BY <2>1, <2>2
<1> QED BY <1>7, <1>8 DEF RecordInv

\* An evaluation, or what a process that died in it has written of it.
LEMMA AppraiseCovers ==
  ASSUME TypeOK, TypeOK', InTime, DurableInv, CoverInv, disk # None,
         NEW d \in Domains, NEW tick \in Nat, Appraises(d, tick)
  PROVE  CoverInv'
<1>1. Open /\ UNCHANGED <<epoch, policy, publishers>>
  BY DEF Appraises
<1>2. /\ Room.journal \in Seq(AuditRecord) /\ Room.audit \in Seq(AuditRecord)
      /\ Consecutive(Room.journal, issued) /\ Consecutive(Room.audit, issued)
      /\ issued <= disk.issued + Len(Room.journal)
      /\ issued <= disk.issued + Len(Room.audit)
      /\ Elements(Room.journal) \subseteq KnownRecords
      /\ Elements(Room.audit) \subseteq KnownRecords
  BY <1>1, RoomCovers
<1>3. /\ issued \in Nat /\ unsaved \in Nat /\ disk.issued \in Nat /\ epoch \in Nat
      /\ save_state_every_decisions \in Nat /\ MaxAuditRecords \in Nat
      /\ disk.issued <= issued
  BY DiskTypes, GovernorAssumption, StoreAssumption DEF TypeOK, DurableInv
<1>4. /\ issued <= disk.issued + unsaved
      /\ unsaved = 0 \/ unsaved < save_state_every_decisions
  BY <1>1 DEF CoverInv, ReachInv
<1>5. CASE /\ journal' = Room.journal /\ audit' = Room.audit
           /\ UNCHANGED <<issued, disk, domains, unsaved>>
  <2>1. KnownRecords' \subseteq KnownRecords
    BY <1>2, <1>5 DEF KnownRecords
  <2>2. KeepsDomains /\ epoch' >= epoch
    BY <1>1, <1>3, <1>5 DEF KeepsDomains
  <2>3. RecordInv'
    BY <1>5, <2>1, <2>2, RecordsKept DEF CoverInv
  <2>4. NoGaps'
    BY <1>2, <1>5 DEF CoverInv, NoGaps, Consecutive
  <2>5. ReachInv'
    BY <1>2, <1>4, <1>5 DEF ReachInv
  <2>6. SavedInv'
    BY <1>1, <1>5 DEF CoverInv, SavedInv
  <2> QED BY <2>3, <2>4, <2>5, <2>6 DEF CoverInv
<1>6. CASE /\ journal' = Frames(RecordFor(d, tick))
           /\ audit' = Newest(Append(Room.audit, RecordFor(d, tick)), MaxAuditRecords)
           /\ issued' = issued + 1
           /\ domains' = [domains EXCEPT ![d] = DomainAfter(d, tick)]
           /\ \/ disk' = Snapshot' /\ unsaved' = 0
              \/ /\ disk' = disk /\ unsaved' = unsaved + 1
                 /\ unsaved + 1 < save_state_every_decisions
              \/ disk' = disk /\ ~Open'
  <2> DEFINE rec == RecordFor(d, tick)
             q == Append(Room.audit, rec)
             tail == Newest(q, MaxAuditRecords)
  <2>1. rec \in AuditRecord /\ rec.id = issued + 1
    BY RecordFacts
  <2>2. journal' = Append(Room.journal, rec)
    BY <1>1, <1>6, DurableRoom DEF Frames, InTime
  <2>3. audit' = tail
    BY <1>6
  <2> HIDE DEF rec
  <2>4. /\ Len(journal') = Len(Room.journal) + 1
        /\ Consecutive(journal', issued + 1)
        /\ Elements(journal') \subseteq KnownRecords \cup {rec}
    BY <1>2, <1>3, <2>1, <2>2, AppendConsecutive
  <2>5. /\ q \in Seq(AuditRecord) /\ Len(q) = Len(Room.audit) + 1
        /\ Consecutive(q, issued + 1)
        /\ Elements(q) \subseteq KnownRecords \cup {rec}
    BY <1>2, <1>3, <2>1, AppendConsecutive
  <2> HIDE DEF q
  <2>6. tail \in Seq(AuditRecord) /\ Suffix(tail, q)
    BY <1>3, <2>5, NewestSuffix
  <2>7. Len(tail) = IF Len(q) > MaxAuditRecords THEN MaxAuditRecords ELSE Len(q)
    BY <1>3, <2>5, NewestLength
  <2> HIDE DEF tail
  <2>8. issued + 1 \in Nat
    BY <1>3
  <2>9. Consecutive(tail, issued + 1) /\ Elements(tail) \subseteq KnownRecords \cup {rec}
    BY <2>5, <2>6, <2>8, SuffixConsecutive
  <2>10. disk' # None => disk'.audit = audit' \/ disk' = disk
    BY <1>6, SnapshotParts
  <2>11. KnownRecords' \subseteq KnownRecords \cup {rec}
    <3>1. Elements(audit') \subseteq KnownRecords \cup {rec}
      BY <2>3, <2>9
    <3>2. disk # None => Elements(disk.audit) \subseteq KnownRecords
      BY DEF KnownRecords
    <3>3. disk' # None => Elements(disk'.audit) \subseteq KnownRecords \cup {rec}
      BY <2>10, <3>1, <3>2
    <3> QED BY <2>4, <3>1, <3>3 DEF KnownRecords
  <2>12. RecordInv'
    BY <1>1, <1>6, <2>11, RecordedCovers DEF CoverInv, rec
  <2>13. Consecutive(journal, issued)' /\ Consecutive(audit, issued)'
    BY <1>6, <2>3, <2>4, <2>9 DEF Consecutive
  <2>14. CASE disk' = Snapshot' /\ unsaved' = 0
    <3>1. SavedInv' /\ disk' # None /\ disk'.audit = audit' /\ disk'.issued = issued'
      BY <2>14, SavedCovers
    <3>2. NoGaps'
      BY <2>13, <3>1 DEF NoGaps, Consecutive
    <3>3. ReachInv'
      <4>1. issued' \in Nat /\ Len(journal') \in Nat /\ Len(audit') \in Nat
        BY DEF TypeOK
      <4>2. \A n, l \in Nat : n <= n + l
        OBVIOUS
      <4>3. /\ issued' <= issued' + Len(journal') /\ issued' <= issued' + Len(audit')
            /\ issued' <= issued' + 0
        BY <4>1, <4>2
      <4> QED BY <2>14, <3>1, <4>3 DEF ReachInv
    <3> QED BY <2>12, <3>1, <3>2, <3>3 DEF CoverInv
  <2>15. CASE disk' = disk /\ (Open' => unsaved' = unsaved + 1
                                        /\ unsaved + 1 < save_state_every_decisions)
    <3>1. NoGaps'
      BY <2>13, <2>15 DEF CoverInv, NoGaps, Consecutive
    <3>2. issued' <= disk'.issued + Len(journal')
      <4>1. Len(Room.journal) \in Nat
        BY <1>2
      <4> QED BY <1>2, <1>3, <1>6, <2>4, <2>15, <4>1
    <3>3. ASSUME Open'
          PROVE  /\ issued' <= disk'.issued + Len(audit')
                 /\ issued' <= disk'.issued + unsaved'
                 /\ unsaved' < save_state_every_decisions
      <4>1. Len(Room.audit) \in Nat
        BY <1>2
      <4>2. save_state_every_decisions <= MaxAuditRecords + 1
        BY DEF InTime
      <4>3. issued + 1 <= disk.issued + (unsaved + 1) /\ unsaved + 1 <= MaxAuditRecords
        BY <1>3, <1>4, <2>15, <3>3, <4>2
      <4>4. issued + 1 <= disk.issued + MaxAuditRecords
        BY <1>3, <4>3
      <4>5. issued + 1 <= disk.issued + (Len(Room.audit) + 1)
        BY <1>2, <1>3, <4>1
      <4>6. issued + 1 <= disk.issued + Len(tail)
        BY <2>5, <2>7, <4>4, <4>5
      <4> QED BY <1>6, <2>3, <2>15, <3>3, <4>3, <4>6
    <3>4. ReachInv'
      BY <3>2, <3>3 DEF ReachInv
    <3>5. SavedInv'
      <4>1. disk.epoch = epoch /\ disk.policy = policy /\ disk.publishers = publishers
        BY DEF CoverInv, SavedInv
      <4>2. ASSUME NEW e \in Domains, domains'[e].last_decision <= disk.issued
            PROVE  disk.domains[e] = domains'[e]
        <5>1. domains \in [Domains -> DomainRuntimeState]
          BY DEF TypeOK
        <5>2. ASSUME e = d PROVE FALSE
          <6>1. domains'[e] = DomainAfter(d, tick)
            BY <1>6, <5>1, <5>2
          <6>2. domains'[e].last_decision = issued + 1
            BY <6>1, EvaluationFacts, TypeHalves
          <6> QED BY <1>3, <4>2, <6>2
        <5>3. domains'[e] = domains[e]
          BY <1>6, <5>1, <5>2
        <5> QED BY <4>2, <5>3 DEF CoverInv, SavedInv
      <4> QED BY <1>1, <2>15, <4>1, <4>2 DEF SavedInv
    <3> QED BY <2>12, <3>1, <3>4, <3>5 DEF CoverInv
  <2> QED BY <1>6, <2>14, <2>15
<1> QED BY <1>5, <1>6 DEF Appraises
-----------------------------------------------------------------------------
(* Recovery                                                                 *)

\* A record of the journal that is a domain's last decision is the domain's own.
LEMMA JournalHolds ==
  ASSUME TypeOK, CoverInv, disk # None, NEW d \in Domains,
         domains[d].last_decision + Len(journal) > issued
  PROVE  \E k \in 1..Len(journal) : /\ journal[k].id = domains[d].last_decision
                                    /\ journal[k].domain = d
<1>1. journal \in Seq(AuditRecord) /\ issued \in Nat /\ domains[d].last_decision \in Nat
  BY LastDecisionType DEF TypeOK
<1>2. domains[d].last_decision <= issued /\ Consecutive(journal, issued)
  BY DEF CoverInv, RecordInv, NoGaps
<1>3. PICK k \in 1..Len(journal) : journal[k].id = domains[d].last_decision
  BY <1>1, <1>2, FindRecord
<1>4. journal[k] \in KnownRecords
  BY DEF KnownRecords, Elements
<1>5. journal[k].domain = d
  BY <1>3, <1>4 DEF CoverInv, RecordInv
<1> QED BY <1>3, <1>5

\* What a recovery makes of a domain: its state, or the replay of its last record.
LEMMA Remembered ==
  ASSUME TypeOK, DurableInv, CoverInv, disk # None, NEW d \in Domains
  PROVE  \/ RebuildDomains(disk.domains, journal)[d] = domains[d]
         \/ \E r \in KnownRecords :
              /\ r.domain = d /\ r.id = domains[d].last_decision /\ domains[d].known
              /\ RebuildDomains(disk.domains, journal)[d] = Replayed(r)
<1> DEFINE last == domains[d].last_decision
           j == LastApplied(journal, d)
           rebuilt == RebuildDomains(disk.domains, journal)[d]
<1>1. /\ journal \in Seq(AuditRecord) /\ issued \in Nat /\ last \in Nat
      /\ disk.issued \in Nat /\ disk.issued <= issued
  BY DiskTypes, LastDecisionType DEF TypeOK, DurableInv
<1>2. Consecutive(journal, issued) /\ issued <= disk.issued + Len(journal)
  BY DEF CoverInv, NoGaps, ReachInv
<1>3. /\ j \in 0..Len(journal)
      /\ j # 0 => journal[j].domain = d
      /\ \A k \in 1..Len(journal) : journal[k].domain = d => k <= j
  BY <1>1, <1>2, LastAppliedFacts
<1>4. rebuilt = IF j = 0 THEN disk.domains[d] ELSE Replayed(journal[j])
  BY DEF RebuildDomains
<1>5. Len(journal) \in Nat
  BY <1>1
<1>6. last + Len(journal) > issued
        => \E k \in 1..Len(journal) : journal[k].id = last /\ journal[k].domain = d
  BY JournalHolds
<1> HIDE DEF last, j, rebuilt
<1>7. CASE j = 0
  <2>1. ~(last + Len(journal) > issued)
    BY <1>3, <1>6, <1>7
  <2>2. last <= disk.issued
    BY <1>1, <1>2, <1>5, <2>1
  <2>3. disk.domains[d] = domains[d]
    BY <2>2 DEF CoverInv, SavedInv, last
  <2> QED BY <1>4, <1>7, <2>3 DEF rebuilt
<1>8. CASE j # 0
  <2> DEFINE r == journal[j]
             x == r.id
             l == Len(journal)
  <2>1. j \in 1..Len(journal) /\ r.domain = d
    BY <1>3, <1>8
  <2>2. r \in KnownRecords
    BY <2>1 DEF KnownRecords, Elements
  <2>3. domains[d].known /\ x <= last
    BY <2>1, <2>2 DEF CoverInv, RecordInv, last
  <2>4. x + l = issued + j /\ x \in Nat /\ l \in Nat /\ j \in Nat /\ j # 0
    BY <1>1, <1>2, <1>8, <2>1, RecordTypes DEF Consecutive
  <2>5. x = last
    <3> SUFFICES ASSUME x # last PROVE FALSE
      OBVIOUS
    <3>1. x < last
      <4> HIDE DEF x
      <4> QED BY <1>1, <2>3, <2>4
    <3>2. last + l > issued
      <4> HIDE DEF x, l
      <4> QED BY <1>1, <2>4, <3>1
    <3>3. PICK k \in 1..Len(journal) : journal[k].id = last /\ journal[k].domain = d
      BY <1>6, <3>2
    <3>4. k <= j /\ k \in Nat
      BY <1>3, <3>3
    <3>5. last + l = issued + k
      BY <1>2, <3>3 DEF Consecutive
    <3> HIDE DEF x, l
    <3> QED BY <1>1, <2>4, <3>1, <3>4, <3>5
  <2>6. rebuilt = Replayed(r)
    BY <1>4, <1>8
  <2> QED BY <2>1, <2>2, <2>3, <2>5, <2>6 DEF last, rebuilt
<1> QED BY <1>7, <1>8

\* No record is of a later epoch than the state file.
LEMMA EpochRemembered ==
  ASSUME TypeOK, CoverInv, disk # None
  PROVE  RebuildEpoch(disk.epoch, journal) = epoch
<1> DEFINE S == {journal[i].epoch : i \in Applied(journal)}
<1>1. disk.epoch = epoch /\ epoch \in Nat
  BY DEF CoverInv, SavedInv, TypeOK
<1>2. ASSUME NEW x \in S PROVE x \in Nat /\ x <= epoch
  <2>1. PICK i \in 1..Len(journal) : x = journal[i].epoch
    BY DEF Applied
  <2>2. journal[i] \in KnownRecords
    BY DEF KnownRecords, Elements
  <2> QED BY <2>1, <2>2, KnownTypes DEF CoverInv, RecordInv
<1> HIDE DEF S
<1>3. \A x \in S : ~(x > epoch)
  BY <1>1, <1>2
<1>4. Highest(epoch, S) = epoch
  BY <1>3 DEF Highest
<1> QED BY <1>1, <1>4 DEF RebuildEpoch, S

\* What a restart remembers.
LEMMA RecoverFacts ==
  ASSUME TypeOK, AuditInv, DurableInv, CoverInv, Recover
  PROVE  /\ disk # None /\ disk' = Snapshot' /\ unsaved' = 0
         /\ issued' = issued /\ epoch' = epoch /\ policy' = policy
         /\ publishers' = publishers /\ journal' = journal
         /\ audit' = MergeAudit(disk.audit, journal)
         /\ incarnation' = disk.incarnation + 1
         /\ slots' = Revalidating(disk.evidence)
         /\ domains' = RebuildDomains(disk.domains, journal)
         /\ KeepsDomains
<1>1. /\ disk # None /\ disk' = Snapshot' /\ unsaved' = 0
      /\ incarnation' = disk.incarnation + 1
      /\ epoch' = RebuildEpoch(disk.epoch, LoadJournal(journal))
      /\ policy' = disk.policy /\ publishers' = disk.publishers
      /\ domains' = RebuildDomains(disk.domains, LoadJournal(journal))
      /\ slots' = Revalidating(disk.evidence)
      /\ issued' = RebuildIssued(disk.issued, LoadJournal(journal))
      /\ audit' = MergeAudit(disk.audit, LoadJournal(journal))
      /\ journal' = LoadJournal(journal)
  BY DEF Recover, SaveSucceeds
<1>2. LoadJournal(journal) = journal /\ RebuildIssued(disk.issued, journal) = issued
  BY <1>1, RecoveredCounter
<1>3. RebuildEpoch(disk.epoch, journal) = epoch
  BY <1>1, EpochRemembered
<1>4. disk.policy = policy /\ disk.publishers = publishers
  BY <1>1 DEF CoverInv, SavedInv
<1>5. ASSUME NEW d \in Domains
      PROVE  /\ domains'[d].known = domains[d].known
             /\ domains'[d].last_decision = domains[d].last_decision
  <2>1. domains'[d] = RebuildDomains(disk.domains, journal)[d]
    BY <1>1, <1>2
  <2>2. CASE domains'[d] = domains[d]
    BY <2>2
  <2>3. CASE \E r \in KnownRecords :
               /\ r.id = domains[d].last_decision /\ domains[d].known
               /\ domains'[d] = Replayed(r)
    <3>1. PICK r \in KnownRecords :
            /\ r.id = domains[d].last_decision /\ domains[d].known
            /\ domains'[d] = Replayed(r)
      BY <2>3
    <3>2. Replayed(r).known = TRUE /\ Replayed(r).last_decision = r.id
      BY DEF Replayed
    <3>3. domains'[d].last_decision = domains[d].last_decision
      BY <3>1, <3>2
    <3>4. domains'[d].known = TRUE /\ domains[d].known
      BY <3>1, <3>2
    <3>5. domains[d].known \in BOOLEAN
      BY LastDecisionType DEF DomainRuntimeState
    <3> QED BY <3>3, <3>4, <3>5
  <2> QED BY <1>1, <2>1, <2>2, <2>3, Remembered
<1> QED BY <1>1, <1>2, <1>3, <1>4, <1>5 DEF KeepsDomains

\* A restart leaves a state file that covers everything.
LEMMA RecoverCovers ==
  ASSUME TypeOK, TypeOK', AuditInv, DurableInv, CoverInv, Recover
  PROVE  CoverInv'
<1>1. /\ disk # None /\ disk' = Snapshot' /\ unsaved' = 0
      /\ issued' = issued /\ epoch' = epoch /\ journal' = journal
      /\ audit' = MergeAudit(disk.audit, journal) /\ KeepsDomains
  BY RecoverFacts
<1>2. /\ disk.audit \in Seq(AuditRecord) /\ journal \in Seq(AuditRecord)
      /\ disk.issued \in Nat /\ issued \in Nat /\ epoch \in Nat /\ disk.issued <= issued
  BY <1>1, DiskTypes DEF TypeOK, DurableInv
<1>3. /\ Consecutive(disk.audit, disk.issued) /\ Consecutive(journal, issued)
      /\ issued <= disk.issued + Len(journal)
  BY <1>1 DEF CoverInv, NoGaps, ReachInv
<1>4. /\ Consecutive(audit', issued)
      /\ Elements(audit') \subseteq Elements(disk.audit) \cup Elements(journal)
  BY <1>1, <1>2, <1>3, MergeConsecutive
<1>5. SavedInv' /\ disk' # None /\ disk'.audit = audit' /\ disk'.issued = issued'
  BY <1>1, SavedCovers
<1>6. KnownRecords' \subseteq KnownRecords
  BY <1>1, <1>4, <1>5 DEF KnownRecords
<1>7. RecordInv'
  <2>1. epoch' >= epoch
    BY <1>1, <1>2
  <2> QED BY <1>1, <1>6, <2>1, RecordsKept DEF CoverInv
<1>8. NoGaps'
  BY <1>1, <1>3, <1>4, <1>5 DEF NoGaps, Consecutive
<1>9. ReachInv'
  <2>1. issued' \in Nat /\ Len(journal') \in Nat /\ Len(audit') \in Nat
    BY DEF TypeOK
  <2>2. \A n, l \in Nat : n <= n + l
    OBVIOUS
  <2>3. /\ issued' <= issued' + Len(journal') /\ issued' <= issued' + Len(audit')
        /\ issued' <= issued' + 0
    BY <2>1, <2>2
  <2> QED BY <1>1, <1>5, <2>3 DEF ReachInv
<1> QED BY <1>5, <1>7, <1>8, <1>9 DEF CoverInv

\* The files cover what memory knows, for as long as saves are in time.
CoveredWhileInTime == InTime => CoverInv

\* Every step keeps it.
LEMMA CoverStep ==
  ASSUME TypeOK, TypeOK', AuthorityInv, AuditInv, DurableWhileUnharmed, CoveredWhileInTime,
         [Next]_vars
  PROVE  CoveredWhileInTime'
<1> SUFFICES ASSUME InTime' PROVE CoverInv'
  BY DEF CoveredWhileInTime
<1>1. failures' = 0
  BY DEF InTime, Unharmed
<1>2. InTime /\ failures = 0
  BY <1>1, UnharmedBefore DEF InTime, Unharmed
<1>3. DurableInv /\ CoverInv
  BY <1>2 DEF DurableWhileUnharmed, CoveredWhileInTime, InTime
<1>4. CASE Calm
  BY <1>3, <1>4, CalmCovers
<1>5. CASE Recover
  BY <1>3, <1>5, RecoverCovers
<1>6. ASSUME NEW d \in Domains, NEW tick \in Nat, Appraises(d, tick)
      PROVE  CoverInv'
  <2>1. disk # None
    BY <1>6 DEF Appraises, AuthorityInv
  <2> QED BY <1>2, <1>3, <1>6, <2>1, AppraiseCovers
<1> QED BY <1>1, <1>2, <1>4, <1>5, <1>6, StepCovers

\* It holds throughout.
LEMMA CoverKept == Spec => []CoveredWhileInTime
<1>1. Init => CoveredWhileInTime
  BY CoverInit DEF CoveredWhileInTime
<1>2. /\ TypeOK /\ AuthorityInv /\ AuditInv /\ DurableWhileUnharmed /\ CoveredWhileInTime
      /\ [Next]_vars /\ TypeOK'
      => CoveredWhileInTime'
  BY CoverStep
<1> QED BY <1>1, <1>2, DecisionsBound, AuditKept, DurableKept, PTL DEF Spec

\* RestartForgetsNothing: while no I/O operation fails and saves are in time,
\* the state file and the replayed journal together give back the counters, the
\* epoch, the policy, the registrations, the generations of the evidence and every
\* domain's last decision, wherever the process died, and the next incarnation.
THEOREM RestartsRemember == Spec /\ []InTime => RestartForgetsNothing
<1> DEFINE Remembers ==
      Recover =>
        /\ issued' = issued /\ epoch' = epoch /\ policy' = policy
        /\ publishers' = publishers
        /\ incarnation' > incarnation
        /\ \A key \in SlotKeys : slots'[key].generation = slots[key].generation
        /\ \A d \in Domains :
             /\ domains'[d].known = domains[d].known
             /\ domains'[d].last_decision = domains[d].last_decision
<1>1. ASSUME TypeOK, AuthorityInv, AuditInv, DurableWhileUnharmed, StoredWithoutFailures,
             CoveredWhileInTime, InTime, [Next]_vars
      PROVE  [Remembers]_vars
  <2> SUFFICES ASSUME Recover PROVE Remembers
    OBVIOUS
  <2>1. DurableInv /\ CoverInv /\ StoredInv
    BY <1>1 DEF InTime, Unharmed, DurableWhileUnharmed, StoredWithoutFailures,
                CoveredWhileInTime
  <2>2. /\ disk # None /\ issued' = issued /\ epoch' = epoch /\ policy' = policy
        /\ publishers' = publishers /\ incarnation' = disk.incarnation + 1
        /\ slots' = Revalidating(disk.evidence) /\ KeepsDomains
    BY <1>1, <2>1, RecoverFacts
  <2>3. incarnation' > incarnation
    <3>1. disk.incarnation = incarnation /\ incarnation \in Nat
      BY <1>1, <2>2 DEF AuthorityInv, TypeOK
    <3> QED BY <2>2, <3>1
  <2>4. ASSUME NEW key \in SlotKeys
        PROVE  slots'[key].generation = slots[key].generation
    <3>1. disk.evidence \in [SlotKeys -> EvidenceSlotState]
      BY <1>1, <2>2 DEF TypeOK, DurableState
    <3>2. Alike(slots'[key], disk.evidence[key])
      BY <2>2, <3>1, RevalidatingAlike
    <3>3. Alike(disk.evidence[key], slots[key])
      BY <2>1, <2>2 DEF StoredInv
    <3> QED BY <3>2, <3>3 DEF Alike
  <2>5. \A d \in Domains : /\ domains'[d].known = domains[d].known
                           /\ domains'[d].last_decision = domains[d].last_decision
    BY <2>2 DEF KeepsDomains
  <2> QED BY <2>2, <2>3, <2>4, <2>5
<1>2. [][Remembers]_vars => RestartForgetsNothing
  BY PTL DEF RestartForgetsNothing
<1> HIDE DEF Remembers
<1> QED BY <1>1, <1>2, DecisionsBound, AuditKept, DurableKept, StoredKept, CoverKept, PTL
        DEF Spec

\* DecidedFenceSurvivesRestart: under the same condition, a fence that a domain's
\* last decision raised or upheld is up again after a restart: it is in the state
\* file, or the last record of the domain that is replayed carries it.
THEOREM DecidedFences == Spec /\ []InTime => DecidedFenceSurvivesRestart
<1> DEFINE KeepsFences ==
      Recover =>
        \A d \in Domains : \A i \in 1..Len(audit) :
          (/\ audit[i].domain = d /\ audit[i].id = domains[d].last_decision
           /\ audit[i].fenced /\ domains[d].fenced)
            => domains'[d].fenced
<1>1. ASSUME TypeOK, AuthorityInv, AuditInv, DurableWhileUnharmed, CoveredWhileInTime, InTime,
             [Next]_vars
      PROVE  [KeepsFences]_vars
  <2> SUFFICES ASSUME Recover, NEW d \in Domains, NEW i \in 1..Len(audit),
                      audit[i].id = domains[d].last_decision,
                      audit[i].fenced, domains[d].fenced
               PROVE  domains'[d].fenced
    OBVIOUS
  <2>1. DurableInv /\ CoverInv
    BY <1>1 DEF InTime, DurableWhileUnharmed, CoveredWhileInTime
  <2>2. disk # None /\ domains'[d] = RebuildDomains(disk.domains, journal)[d]
    BY <1>1, <2>1, RecoverFacts
  <2>3. CASE domains'[d] = domains[d]
    BY <2>3
  <2>4. ASSUME NEW r \in KnownRecords, r.id = domains[d].last_decision,
               domains'[d] = Replayed(r)
        PROVE  domains'[d].fenced
    <3>1. audit[i] \in KnownRecords
      BY DEF KnownRecords, Elements
    <3>2. r = audit[i]
      BY <2>1, <2>4, <3>1 DEF CoverInv, RecordInv
    <3> QED BY <2>4, <3>2 DEF Replayed
  <2> QED BY <1>1, <2>1, <2>2, <2>3, <2>4, Remembered
<1>2. [][KeepsFences]_vars => DecidedFenceSurvivesRestart
  BY PTL DEF DecidedFenceSurvivesRestart
<1> HIDE DEF KeepsFences
<1> QED BY <1>1, <1>2, DecisionsBound, AuditKept, DurableKept, CoverKept, PTL DEF Spec
=============================================================================
