------------------------- MODULE PagedListingProofs -------------------------
(***************************************************************************)
(* PagedListing, for any table, clock, page size and number of rows added  *)
(* during the walk: rows of distinct instants have one order, every page   *)
(* is an interval of ids, and intervals that are pushed upwards leave no   *)
(* gap below the rows that were there at the start.                        *)
(***************************************************************************)
EXTENDS PagedListing, FiniteSetTheorems, TLAPS

PageSize == ResolvedPageSize(size)

LEMMA PageSizeType ==
  ASSUME size \in PageSizes
  PROVE  PageSize \in Nat \ {0}
BY DataAssumption, WalkAssumption DEF PageSize, ResolvedPageSize

LEMMA IntervalSize ==
  ASSUME NEW a \in Int, NEW b \in Int, a <= b + 1
  PROVE  IsFiniteSet(a .. b) /\ Cardinality(a .. b) = (b - a) + 1
BY FS_Interval

-----------------------------------------------------------------------------
(* A permutation of 1 .. n that descends is the reversal: its first i values *)
(* are above the others.                                                     *)
LEMMA Descending ==
  ASSUME NEW n \in Nat, NEW s \in [1 .. n -> 1 .. n],
         \A i, j \in 1 .. n : i < j => s[i] > s[j],
         NEW i \in 1 .. n
  PROVE  s[i] = (n + 1) - i
<1> DEFINE above == [j \in 1 .. i |-> s[j]]
           below == [j \in i .. n |-> s[j]]
<1>0. s[i] \in 1 .. n
  OBVIOUS
<1>1. i <= (n - s[i]) + 1
  <2>1. above \in Injection(1 .. i, s[i] .. n)
    <3>1. ASSUME NEW j \in 1 .. i PROVE s[j] \in s[i] .. n
      <4>1. j \in 1 .. n /\ s[j] \in 1 .. n
        OBVIOUS
      <4>2. j = i \/ j < i
        OBVIOUS
      <4>3. j < i => s[j] > s[i]
        BY <4>1
      <4> DEFINE u == s[j]
                 v == s[i]
      <4>4. u \in Int /\ v \in 1 .. n /\ u \in 1 .. n
        BY <1>0, <4>1
      <4>5. j = i => u = v
        OBVIOUS
      <4>6. j < i => u > v
        BY <4>3
      <4> HIDE DEF u, v
      <4>7. u >= v
        BY <4>2, <4>4, <4>5, <4>6
      <4>8. u \in v .. n
        BY <4>4, <4>7
      <4> QED
        BY <4>8 DEF u, v
    <3>2. ASSUME NEW j \in 1 .. i, NEW k \in 1 .. i, s[j] = s[k] PROVE j = k
      <4>1. j \in 1 .. n /\ k \in 1 .. n /\ s[j] \in 1 .. n
        OBVIOUS
      <4>2. ~ (j < k) /\ ~ (k < j)
        BY <3>2, <4>1
      <4> QED
        BY <4>1, <4>2
    <3> QED
      BY <3>1, <3>2 DEF Injection, IsInjective
  <2>2. /\ IsFiniteSet(s[i] .. n) /\ Cardinality(s[i] .. n) = (n - s[i]) + 1
        /\ Cardinality(1 .. i) = i
    BY <1>0, IntervalSize
  <2> HIDE DEF above
  <2>3. Cardinality(1 .. i) <= Cardinality(s[i] .. n)
    BY <2>1, <2>2, FS_Injection
  <2> QED
    BY <2>2, <2>3
<1>2. (n - i) + 1 <= s[i]
  <2>1. below \in Injection(i .. n, 1 .. s[i])
    <3>1. ASSUME NEW j \in i .. n PROVE s[j] \in 1 .. s[i]
      <4>1. j \in 1 .. n /\ s[j] \in 1 .. n
        OBVIOUS
      <4>2. j = i \/ i < j
        OBVIOUS
      <4>3. i < j => s[i] > s[j]
        BY <4>1
      <4> DEFINE u == s[j]
                 v == s[i]
      <4>4. u \in Int /\ v \in 1 .. n /\ u \in 1 .. n
        BY <1>0, <4>1
      <4>5. j = i => u = v
        OBVIOUS
      <4>6. i < j => u < v
        BY <4>3
      <4> HIDE DEF u, v
      <4>7. u <= v
        BY <4>2, <4>4, <4>5, <4>6
      <4>8. u \in 1 .. v
        BY <4>4, <4>7
      <4> QED
        BY <4>8 DEF u, v
    <3>2. ASSUME NEW j \in i .. n, NEW k \in i .. n, s[j] = s[k] PROVE j = k
      <4>1. j \in 1 .. n /\ k \in 1 .. n /\ s[j] \in 1 .. n
        OBVIOUS
      <4>2. ~ (j < k) /\ ~ (k < j)
        BY <3>2, <4>1
      <4> QED
        BY <4>1, <4>2
    <3> QED
      BY <3>1, <3>2 DEF Injection, IsInjective
  <2>2. /\ IsFiniteSet(1 .. s[i]) /\ Cardinality(1 .. s[i]) = s[i]
        /\ Cardinality(i .. n) = (n - i) + 1
    BY <1>0, IntervalSize
  <2> HIDE DEF below
  <2>3. Cardinality(i .. n) <= Cardinality(1 .. s[i])
    BY <2>1, <2>2, FS_Injection
  <2> QED
    BY <2>2, <2>3
<1> QED
  BY <1>0, <1>1, <1>2

(* The clock never goes back, so the ids are in the order of the instants.   *)
InOrder ==
    /\ now \in Nat /\ time \in Seq(Nat)
    /\ \A i, j \in DOMAIN time : i < j => time[i] <= time[j]
    /\ \A i \in DOMAIN time : time[i] <= now

(* One order, whatever the database does with ties: there are none.          *)
LEMMA OneOrder ==
  ASSUME InOrder, DistinctInstants, NEW s \in NewestFirst(DOMAIN time)
  PROVE  /\ Len(s) = Len(time) /\ Len(time) \in Nat
         /\ s = [i \in 1 .. Len(time) |-> (Len(time) + 1) - i]
<1> DEFINE n == Len(time)
<1>1. n \in Nat /\ DOMAIN time = 1 .. n
  BY DEF InOrder
<1>2. Cardinality(1 .. n) = n
  BY <1>1, IntervalSize
<1>3. /\ s \in [1 .. n -> 1 .. n]
      /\ \A i, j \in 1 .. n : i # j => s[i] # s[j]
      /\ \A i, j \in 1 .. n : i < j => time[s[i]] >= time[s[j]]
  BY <1>1, <1>2 DEF NewestFirst, SetToSeqs
<1>4. \A i, j \in 1 .. n : i < j => time[i] <= time[j] /\ time[i] # time[j]
  BY <1>1 DEF InOrder, DistinctInstants, IsInjective
<1>5. \A i \in 1 .. n : time[i] \in Nat
  BY <1>1 DEF InOrder
<1>6. ASSUME NEW i \in 1 .. n, NEW j \in 1 .. n, i < j PROVE s[i] > s[j]
  <2>1. s[i] \in 1 .. n /\ s[j] \in 1 .. n /\ s[i] # s[j]
    BY <1>3, <1>6
  <2>2. time[s[i]] >= time[s[j]] /\ time[s[i]] \in Nat /\ time[s[j]] \in Nat
    BY <1>3, <1>5, <1>6, <2>1
  <2>3. ~ (s[i] < s[j])
    BY <1>4, <2>1, <2>2
  <2> QED
    BY <2>1, <2>3
<1> HIDE DEF n
<1>7. \A i \in 1 .. n : s[i] = (n + 1) - i
  BY <1>1, <1>3, <1>6, Descending
<1> QED
  BY <1>1, <1>3, <1>7 DEF n

-----------------------------------------------------------------------------
(* A page is the interval of ids that its place in the order says. *)
Bottom == Len(time) - page * PageSize

Top == Len(time) - (page - 1) * PageSize

PageIds == (IF Bottom > 0 THEN Bottom + 1 ELSE 1) .. Top

LEMMA PageIsInterval ==
  ASSUME InOrder, DistinctInstants, size \in PageSizes, page \in Nat \ {0},
         NEW s \in NewestFirst(DOMAIN time)
  PROVE  /\ PageOf(s) \in Seq(Nat)
         /\ ToSet(PageOf(s)) = PageIds
         /\ Len(PageOf(s)) = Cardinality(PageIds)
         /\ Len(PageOf(s)) < PageSize => Bottom < 0
<1> DEFINE n == Len(time)
           P == PageSize
           offset == (page - 1) * P
           last == IF offset + P < n THEN offset + P ELSE n
<1>1. n \in Nat /\ P \in Nat /\ P > 0
  BY PageSizeType DEF InOrder
<1>2. offset \in Nat /\ offset + P = page * P
  BY <1>1
<1>3. Len(s) = n /\ s = [i \in 1 .. n |-> (n + 1) - i]
  BY OneOrder
<1>4. PageOf(s) = SubSeq(s, offset + 1, last)
  BY <1>3 DEF PageOf, Slice, Offset, PageSize
<1>5. Bottom = n - (offset + P) /\ Top = n - offset
  BY <1>1, <1>2 DEF Bottom, Top
<1> HIDE DEF n, P, offset
<1>6. last \in Nat /\ last <= n /\ last <= offset + P
  BY <1>1, <1>2
<1>7. PageOf(s) = [i \in 1 .. last - offset |-> (n + 1) - (offset + i)]
  <2>1. SubSeq(s, offset + 1, last) = [i \in 1 .. last - offset |-> s[offset + i]]
    <3>1. 1 .. (last - (offset + 1)) + 1 = 1 .. last - offset
      BY <1>2, <1>6
    <3>2. \A i \in 1 .. last - offset : (i + (offset + 1)) - 1 = offset + i
      BY <1>2, <1>6
    <3> QED
      BY <1>2, <1>6, <3>1, <3>2
  <2>2. \A i \in 1 .. last - offset : offset + i \in 1 .. n
    BY <1>1, <1>2, <1>6
  <2>3. \A i \in 1 .. last - offset : s[offset + i] = (n + 1) - (offset + i)
    BY <1>3, <2>2
  <2> QED
    BY <1>4, <2>1, <2>3
<1> DEFINE len == IF last >= offset THEN last - offset ELSE 0
<1>8. len \in Nat /\ 1 .. last - offset = 1 .. len
  BY <1>2, <1>6
<1>9. Len(PageOf(s)) = len /\ DOMAIN PageOf(s) = 1 .. len /\ PageOf(s) \in Seq(Nat)
  <2>1. \A i \in 1 .. len : (n + 1) - (offset + i) \in Nat
    BY <1>1, <1>2, <1>6
  <2>2. PageOf(s) = [i \in 1 .. len |-> (n + 1) - (offset + i)]
    BY <1>7, <1>8
  <2> HIDE DEF last, len
  <2>3. PageOf(s) \in Seq(Nat) /\ Len(PageOf(s)) = len
    BY <1>8, <2>1, <2>2
  <2> QED
    BY <2>2, <2>3
<1>10. PageIds = (n + 1) - last .. n - offset
  BY <1>1, <1>2, <1>5 DEF PageIds
<1>11. ToSet(PageOf(s)) = PageIds
  <2>1. ToSet(PageOf(s)) = {(n + 1) - (offset + i) : i \in 1 .. last - offset}
    BY <1>7 DEF ToSet
  <2>2. ASSUME NEW r \in PageIds PROVE \E i \in 1 .. last - offset : r = (n + 1) - (offset + i)
    <3>1. (n + 1) - (offset + r) \in 1 .. last - offset
      BY <1>1, <1>2, <1>6, <1>10, <2>2
    <3>2. r = (n + 1) - (offset + ((n + 1) - (offset + r)))
      BY <1>1, <1>2, <1>10, <2>2
    <3> QED
      BY <3>1, <3>2
  <2>3. \A i \in 1 .. last - offset : (n + 1) - (offset + i) \in PageIds
    BY <1>1, <1>2, <1>6, <1>10
  <2> QED
    BY <2>1, <2>2, <2>3
<1>12. Len(PageOf(s)) = Cardinality(PageIds)
  <2> DEFINE a == (n + 1) - last
             b == n - offset
  <2>1. a \in Int /\ b \in Int /\ (IF a > b THEN 0 ELSE (b - a) + 1) = len
    BY <1>1, <1>2, <1>6
  <2> HIDE DEF a, b, len
  <2>2. Cardinality(a .. b) = IF a > b THEN 0 ELSE b - a + 1
    BY <2>1, FS_Interval
  <2> QED
    BY <1>9, <1>10, <2>1, <2>2 DEF a, b
<1>13. len < P => Bottom < 0
  BY <1>1, <1>2, <1>5
<1> QED
  BY <1>9, <1>11, <1>12, <1>13 DEF P

-----------------------------------------------------------------------------
LEMMA ToSetConcat ==
  ASSUME NEW s \in Seq(Nat), NEW t \in Seq(Nat)
  PROVE  /\ s \o t \in Seq(Nat) /\ Len(s \o t) = Len(s) + Len(t)
         /\ ToSet(s \o t) = ToSet(s) \cup ToSet(t)
<1>1. /\ s \o t \in Seq(Nat) /\ Len(s \o t) = Len(s) + Len(t)
      /\ DOMAIN s = 1 .. Len(s) /\ DOMAIN t = 1 .. Len(t)
      /\ DOMAIN (s \o t) = 1 .. Len(s) + Len(t)
      /\ Len(s) \in Nat /\ Len(t) \in Nat
  OBVIOUS
<1>2. \A i \in 1 .. Len(s) : (s \o t)[i] = s[i]
  OBVIOUS
<1>3. \A i \in 1 .. Len(t) : (s \o t)[Len(s) + i] = t[i]
  OBVIOUS
<1>4. \A i \in 1 .. Len(s) + Len(t) :
         i \in 1 .. Len(s) \/ (i - Len(s) \in 1 .. Len(t) /\ Len(s) + (i - Len(s)) = i)
  BY <1>1
<1>5. \A i \in 1 .. Len(s) : i \in 1 .. Len(s) + Len(t)
  BY <1>1
<1>6. \A i \in 1 .. Len(t) : Len(s) + i \in 1 .. Len(s) + Len(t)
  BY <1>1
<1>7. ToSet(s \o t) \subseteq ToSet(s) \cup ToSet(t)
  <2> SUFFICES ASSUME NEW i \in 1 .. Len(s) + Len(t)
               PROVE  (s \o t)[i] \in ToSet(s) \cup ToSet(t)
    BY <1>1 DEF ToSet
  <2>1. CASE i \in 1 .. Len(s)
    BY <1>1, <1>2, <2>1 DEF ToSet
  <2>2. CASE i - Len(s) \in 1 .. Len(t) /\ Len(s) + (i - Len(s)) = i
    <3>1. (s \o t)[i] = t[i - Len(s)]
      BY <1>3, <2>2
    <3> QED
      BY <1>1, <2>2, <3>1 DEF ToSet
  <2> QED
    BY <1>4, <2>1, <2>2
<1>8. ToSet(s) \subseteq ToSet(s \o t)
  BY <1>1, <1>2, <1>5 DEF ToSet
<1>9. ToSet(t) \subseteq ToSet(s \o t)
  <2> SUFFICES ASSUME NEW i \in 1 .. Len(t) PROVE t[i] \in ToSet(s \o t)
    BY <1>1 DEF ToSet
  <2>1. (s \o t)[Len(s) + i] = t[i] /\ Len(s) + i \in DOMAIN (s \o t)
    BY <1>1, <1>3, <1>6
  <2> QED
    BY <2>1 DEF ToSet
<1> QED
  BY <1>1, <1>7, <1>8, <1>9

-----------------------------------------------------------------------------
(* All rows there at the start, down to the bottom of the last page. *)
Covered ==
    /\ walk = "asking" => \A r \in atStart : r > Top => r \in ToSet(shown)
    /\ walk = "done" => atStart \subseteq ToSet(shown)

(* Everything shown is above some low, and the rows shown twice, with those  *)
(* between low and the next page, were paid for by rows added.               *)
PaidFor ==
    \E low \in Int :
        /\ low <= Top
        /\ \A r \in ToSet(shown) : r > low
        /\ Repeats + Cardinality(atStart) + Top <= low + Len(time)

ShownOK == shown \in Seq(Nat) /\ IsFiniteSet(ToSet(shown))

LEMMA NothingShown == shown = << >> => ShownOK
<1> SUFFICES ASSUME shown = << >> PROVE ShownOK
  OBVIOUS
<1>1. shown \in Seq(Nat)
  OBVIOUS
<1>2. ToSet(shown) = {}
  BY DEF ToSet
<1>3. IsFiniteSet(ToSet(shown))
  BY <1>2, FS_EmptySet, Zenon
<1> QED
  BY <1>1, <1>3 DEF ShownOK

WalkOK ==
    /\ walk \in {"idle", "asking", "done"} /\ size \in PageSizes /\ page \in Nat \ {0}
    /\ walk = "idle" => page = 1 /\ shown = << >>
    /\ \E n \in 0 .. Len(time) : atStart = 1 .. n

IInv ==
    /\ InOrder /\ WalkOK
    /\ DistinctInstants => ShownOK /\ Covered /\ PaidFor

LEMMA IInvInit == Init => IInv
<1> SUFFICES ASSUME Init PROVE IInv
  OBVIOUS
<1>1. InOrder
  BY DEF Init, InOrder
<1>2. WalkOK
  BY DEF Init, WalkOK
<1>3. /\ shown = << >> /\ ToSet(shown) = {} /\ Len(shown) = 0
      /\ Cardinality({}) = 0 /\ IsFiniteSet({}) /\ atStart = {} /\ walk = "idle"
  BY FS_EmptySet DEF Init, ToSet
<1>4. ShownOK /\ Covered
  BY <1>3, NothingShown DEF Covered
<1>5. Len(time) = 0 /\ Top = 0 /\ PageSize \in Nat
  BY PageSizeType DEF Init, Top
<1>6. PaidFor
  <2>1. Repeats = 0 /\ Cardinality(atStart) = 0
    BY <1>3 DEF Repeats
  <2> QED
    BY <1>3, <1>5, <2>1 DEF PaidFor
<1> QED
  BY <1>1, <1>2, <1>4, <1>6 DEF IInv

LEMMA TickStep ==
  ASSUME IInv, Tick PROVE IInv'
<1>1. InOrder'
  BY DEF IInv, InOrder, Tick
<1>2. UNCHANGED <<Top, PageSize>>
  BY DEF Tick, Top, PageSize
<1>3. WalkOK' /\ (DistinctInstants' => ShownOK' /\ Covered' /\ PaidFor')
  BY <1>2 DEF IInv, Tick, WalkOK, DistinctInstants, ShownOK, Covered, PaidFor, Repeats
<1> QED
  BY <1>1, <1>3 DEF IInv

(* A new row pushes what is left of the walk up by one. *)
LEMMA InsertStep ==
  ASSUME IInv, Insert PROVE IInv'
<1>1. /\ time \in Seq(Nat) /\ now \in Nat /\ Len(time) \in Nat
      /\ DOMAIN time = 1 .. Len(time)
      /\ size \in PageSizes /\ page \in Nat \ {0}
  BY DEF IInv, InOrder, WalkOK
<1>2. /\ time' \in Seq(Nat) /\ Len(time') = Len(time) + 1
      /\ DOMAIN time' = 1 .. Len(time) + 1
      /\ time'[Len(time) + 1] = now
      /\ \A i \in 1 .. Len(time) : time'[i] = time[i]
  BY <1>1 DEF Insert
<1>3. InOrder'
  BY <1>1, <1>2 DEF IInv, InOrder, Insert
<1>4. DistinctInstants' => DistinctInstants
  <2> SUFFICES ASSUME DistinctInstants' PROVE DistinctInstants
    OBVIOUS
  <2>1. \A i, j \in 1 .. Len(time) : i \in DOMAIN time' /\ j \in DOMAIN time'
    BY <1>1, <1>2
  <2>2. \A i, j \in DOMAIN time' : time'[i] = time'[j] => i = j
    BY DEF DistinctInstants, IsInjective
  <2>3. \A i, j \in 1 .. Len(time) : time[i] = time[j] => i = j
    BY <1>2, <2>1, <2>2
  <2> QED
    BY <1>1, <2>3 DEF DistinctInstants, IsInjective
<1>5. Top' = Top + 1 /\ Top \in Int
  <2>1. PageSize' = PageSize /\ PageSize \in Nat
    BY <1>1, PageSizeType DEF Insert, PageSize
  <2> DEFINE above == (page - 1) * PageSize
  <2>2. above \in Int /\ above' = above
    BY <1>1, <2>1 DEF Insert
  <2>3. Top = Len(time) - above /\ Top' = Len(time') - above'
    BY DEF Top
  <2> HIDE DEF above
  <2> QED
    BY <1>1, <1>2, <2>2, <2>3
<1>6. WalkOK'
  BY <1>1, <1>2 DEF IInv, WalkOK, Insert
<1>7. ASSUME DistinctInstants PROVE ShownOK' /\ Covered' /\ PaidFor'
  <2>1. ShownOK' /\ UNCHANGED <<walk, shown, atStart, Repeats>>
    BY <1>7 DEF IInv, ShownOK, Insert, Repeats
  <2>2. Covered'
    <3>1. \A r \in atStart : r \in Int
      BY DEF IInv, WalkOK
    <3>2. Covered
      BY <1>7 DEF IInv
    <3> QED
      BY <1>5, <2>1, <3>1, <3>2 DEF Covered
  <2>3. PaidFor'
    <3>1. Repeats \in Int /\ Cardinality(atStart) \in Int
      <4>1. ShownOK /\ \E n \in 0 .. Len(time) : atStart = 1 .. n
        BY <1>7 DEF IInv, WalkOK
      <4>2. Cardinality(ToSet(shown)) \in Nat /\ Len(shown) \in Nat
        BY <4>1, FS_CardinalityType DEF ShownOK
      <4>3. IsFiniteSet(atStart)
        BY <1>1, <4>1, FS_Interval
      <4> QED
        BY <4>2, <4>3, FS_CardinalityType DEF Repeats
    <3>2. PaidFor
      BY <1>7 DEF IInv
    <3>3. PICK low \in Int : /\ low <= Top
                             /\ \A r \in ToSet(shown) : r > low
                             /\ Repeats + Cardinality(atStart) + Top <= low + Len(time)
      BY <3>2 DEF PaidFor
    <3>4. low <= Top' /\ Repeats' + Cardinality(atStart') + Top' <= low + Len(time')
      BY <1>1, <1>2, <1>5, <2>1, <3>1, <3>3
    <3> QED
      BY <2>1, <3>3, <3>4 DEF PaidFor
  <2> QED
    BY <2>1, <2>2, <2>3
<1> QED
  BY <1>3, <1>4, <1>6, <1>7 DEF IInv

LEMMA BeginStep ==
  ASSUME IInv, Begin PROVE IInv'
<1>1. /\ Len(time) \in Nat /\ DOMAIN time = 1 .. Len(time)
      /\ size \in PageSizes /\ page = 1 /\ shown = << >> /\ atStart' = 1 .. Len(time)
      /\ UNCHANGED <<now, time, size, page, shown>> /\ walk' = "asking"
  BY DEF IInv, InOrder, WalkOK, Begin
<1>2. InOrder'
  BY <1>1 DEF IInv, InOrder
<1>3. WalkOK'
  <2>1. Len(time) \in 0 .. Len(time) /\ Len(time') = Len(time)
    BY <1>1
  <2> QED
    BY <1>1, <2>1 DEF IInv, WalkOK
<1>4. Top' = Top /\ Top = Len(time)
  <2>1. PageSize \in Nat /\ PageSize' = PageSize
    BY <1>1, PageSizeType DEF PageSize
  <2>2. (page - 1) * PageSize = 0 /\ (page' - 1) * PageSize' = 0
    BY <1>1, <2>1
  <2> QED
    BY <1>1, <2>2 DEF Top
<1>5. ToSet(shown) = {} /\ Len(shown) = 0 /\ Cardinality({}) = 0 /\ IsFiniteSet({})
  BY <1>1, FS_EmptySet DEF ToSet
<1>6. ShownOK' /\ Covered'
  <2>1. ShownOK'
    BY <1>1, NothingShown DEF ShownOK
  <2>2. \A r \in atStart' : ~ (r > Top')
    BY <1>1, <1>4
  <2> QED
    BY <1>1, <2>1, <2>2 DEF Covered
<1>7. Repeats' = 0
  BY <1>1, <1>5 DEF Repeats
<1>8. Cardinality(atStart') = Len(time)
  BY <1>1, IntervalSize
<1>9. PaidFor'
  BY <1>1, <1>4, <1>5, <1>7, <1>8 DEF PaidFor
<1> QED
  BY <1>2, <1>3, <1>6, <1>9 DEF IInv

-----------------------------------------------------------------------------
(* What one page adds to the set of rows shown: as many as its length, less  *)
(* those that were shown before, and these lie between low and its top.      *)
LEMMA NewRows ==
  ASSUME NEW A, IsFiniteSet(A), NEW low \in Int, \A r \in A : r > low,
         NEW a \in Int, NEW b \in Int, low <= b
  PROVE  /\ IsFiniteSet(A \cup (a .. b))
         /\ Cardinality(A \cup (a .. b)) >= (Cardinality(A) + Cardinality(a .. b)) - (b - low)
         /\ Cardinality(A \cup (a .. b)) >= Cardinality(A)
         /\ Cardinality(A) \in Nat /\ Cardinality(A \cup (a .. b)) \in Nat
<1>1. IsFiniteSet(a .. b) /\ Cardinality(a .. b) \in Nat /\ Cardinality(A) \in Nat
  BY FS_Interval, FS_CardinalityType
<1>2. /\ IsFiniteSet(A \cup (a .. b))
      /\ Cardinality(A \cup (a .. b)) =
            Cardinality(A) + Cardinality(a .. b) - Cardinality(A \cap (a .. b))
  BY <1>1, FS_Union
<1>3. A \cap (a .. b) \subseteq low + 1 .. b
  OBVIOUS
<1>4. IsFiniteSet(low + 1 .. b) /\ Cardinality(low + 1 .. b) = b - low
  <2>1. low + 1 \in Int /\ low + 1 <= b + 1 /\ (b - (low + 1)) + 1 = b - low
    OBVIOUS
  <2> QED
    BY <2>1, IntervalSize
<1>5. Cardinality(A \cap (a .. b)) <= b - low
  BY <1>3, <1>4, FS_Subset
<1>6. Cardinality(A \cap (a .. b)) \in Nat
  <2>1. IsFiniteSet(A \cap (a .. b))
    BY <1>3, <1>4, FS_Subset
  <2> QED
    BY <2>1, FS_CardinalityType
<1>7. Cardinality(A) <= Cardinality(A \cup (a .. b))
  BY <1>2, FS_Subset
<1>8. Cardinality(A \cup (a .. b)) \in Nat
  BY <1>2, FS_CardinalityType
<1> QED
  BY <1>1, <1>2, <1>5, <1>6, <1>7, <1>8

LEMMA NextPageStep ==
  ASSUME IInv, NextPage PROVE IInv'
<1>1. /\ Len(time) \in Nat /\ DOMAIN time = 1 .. Len(time) /\ size \in PageSizes
      /\ page \in Nat \ {0} /\ page' = page + 1 /\ walk = "asking"
      /\ UNCHANGED <<now, time, size, atStart>>
  BY DEF IInv, InOrder, WalkOK, NextPage
<1>2. PICK s \in NewestFirst(DOMAIN time) :
         /\ shown' = shown \o PageOf(s)
         /\ walk' = IF Len(PageOf(s)) < PageSize THEN "done" ELSE "asking"
  BY DEF NextPage, PageSize
<1>3. InOrder' /\ (DistinctInstants' <=> DistinctInstants)
  BY <1>1 DEF IInv, InOrder, DistinctInstants
<1>4. WalkOK'
  BY <1>1, <1>2 DEF IInv, WalkOK
<1>5. PageSize' = PageSize /\ PageSize \in Nat \ {0}
  BY <1>1, PageSizeType DEF PageSize
<1>6. /\ Top' = Bottom /\ Bottom = Top - PageSize /\ Top \in Int /\ Bottom \in Int
      /\ Top <= Len(time)
  <2> DEFINE above == (page - 1) * PageSize
  <2>1. above \in Nat /\ page * PageSize = above + PageSize
    BY <1>1, <1>5
  <2>2. (page' - 1) * PageSize' = page * PageSize
    BY <1>1, <1>5
  <2>3. Top = Len(time) - above /\ Top' = Len(time') - (page' - 1) * PageSize'
    BY DEF Top
  <2> HIDE DEF above
  <2> QED
    BY <1>1, <1>5, <2>1, <2>2, <2>3 DEF Bottom
<1>7. ASSUME DistinctInstants PROVE ShownOK' /\ Covered' /\ PaidFor'
  <2>1. ShownOK /\ Covered /\ PaidFor /\ InOrder /\ WalkOK
    BY <1>7 DEF IInv
  <2>2. /\ PageOf(s) \in Seq(Nat) /\ ToSet(PageOf(s)) = PageIds
        /\ Len(PageOf(s)) = Cardinality(PageIds)
        /\ Len(PageOf(s)) < PageSize => Bottom < 0
    BY <1>1, <1>7, <2>1, PageIsInterval
  <2>3. /\ shown' \in Seq(Nat) /\ Len(shown') = Len(shown) + Len(PageOf(s))
        /\ ToSet(shown') = ToSet(shown) \cup PageIds
    BY <1>2, <2>1, <2>2, ToSetConcat DEF ShownOK
  <2>4. PICK a \in Int : a = (IF Bottom > 0 THEN Bottom + 1 ELSE 1) /\ PageIds = a .. Top
    BY <1>6 DEF PageIds
  <2>5. PICK low \in Int : /\ low <= Top
                           /\ \A r \in ToSet(shown) : r > low
                           /\ Repeats + Cardinality(atStart) + Top <= low + Len(time)
    BY <2>1 DEF PaidFor
  <2>6. /\ IsFiniteSet(ToSet(shown'))
        /\ Cardinality(ToSet(shown')) >= (Cardinality(ToSet(shown)) + Cardinality(PageIds)) - (Top - low)
        /\ Cardinality(ToSet(shown')) >= Cardinality(ToSet(shown))
        /\ Cardinality(ToSet(shown)) \in Nat /\ Cardinality(ToSet(shown')) \in Nat
    <3>1. IsFiniteSet(ToSet(shown))
      BY <2>1 DEF ShownOK
    <3> DEFINE A == ToSet(shown)
    <3>2. IsFiniteSet(A) /\ (\A r \in A : r > low) /\ low \in Int /\ low <= Top
      BY <2>5, <3>1
    <3> HIDE DEF A
    <3>3. /\ IsFiniteSet(A \cup (a .. Top))
          /\ Cardinality(A \cup (a .. Top)) >= (Cardinality(A) + Cardinality(a .. Top)) - (Top - low)
          /\ Cardinality(A \cup (a .. Top)) >= Cardinality(A)
          /\ Cardinality(A) \in Nat /\ Cardinality(A \cup (a .. Top)) \in Nat
      BY <1>6, <3>2, NewRows
    <3> QED
      BY <2>3, <2>4, <3>3 DEF A
  <2>7. ShownOK'
    BY <2>3, <2>6 DEF ShownOK
  <2>8. \A r \in atStart : r \in Int /\ r >= 1 /\ (r > Bottom => r > Top \/ r \in PageIds)
    BY <1>6, <2>1, <2>4 DEF WalkOK
  <2>9. Covered'
    BY <1>1, <1>2, <1>6, <2>1, <2>2, <2>3, <2>8 DEF Covered
  <2>10. Cardinality(PageIds) <= PageSize /\ Cardinality(PageIds) \in Nat
    <3>1. IsFiniteSet(PageIds) /\ Cardinality(PageIds) = IF a > Top THEN 0 ELSE Top - a + 1
      BY <1>6, <2>4, FS_Interval
    <3> QED
      BY <1>5, <1>6, <2>4, <3>1
  <2>11. PICK b \in Int : b = (IF low <= Bottom THEN low ELSE Bottom)
    BY <1>6
  <2>12. b <= Top' /\ \A r \in ToSet(shown') : r > b
    <3>1. \A r \in PageIds : r > Bottom
      BY <1>6, <2>4
    <3>2. \A r \in ToSet(shown) : r \in Int
      <4>1. DOMAIN shown = 1 .. Len(shown) /\ \A i \in 1 .. Len(shown) : shown[i] \in Nat
        BY <2>1 DEF ShownOK
      <4> QED
        BY <4>1 DEF ToSet
    <3> QED
      BY <1>6, <2>3, <2>4, <2>5, <2>11, <3>1, <3>2
  <2>13. Cardinality(atStart) \in Nat
    <3>1. IsFiniteSet(atStart)
      BY <1>1, <2>1, FS_Interval DEF WalkOK
    <3> QED
      BY <3>1, FS_CardinalityType
  <2>14. /\ Repeats = Len(shown) - Cardinality(ToSet(shown))
         /\ Repeats' = Len(shown) + Cardinality(PageIds) - Cardinality(ToSet(shown'))
         /\ Len(shown) \in Nat
    <3>1. Repeats' = Len(shown') - Cardinality(ToSet(shown'))
      BY DEF Repeats
    <3>2. Len(shown) \in Nat
      BY <2>1 DEF ShownOK
    <3>3. Len(shown') = Len(shown) + Cardinality(PageIds)
      BY <2>2, <2>3
    <3>4. Repeats = Len(shown) - Cardinality(ToSet(shown))
      BY DEF Repeats
    <3> QED
      BY <2>6, <2>10, <3>1, <3>2, <3>3, <3>4
  <2>15. Repeats' + Cardinality(atStart) + Bottom <= b + Len(time)
    <3> DEFINE had == Cardinality(ToSet(shown))
               has == Cardinality(ToSet(shown'))
               got == Cardinality(PageIds)
               len == Len(shown)
               start == Cardinality(atStart)
    <3>1. /\ had \in Nat /\ has \in Nat /\ got \in Nat /\ len \in Nat /\ start \in Nat
          /\ has >= (had + got) - (Top - low) /\ has >= had /\ got <= PageSize
          /\ (len - had) + start + Top <= low + Len(time)
          /\ Repeats' = len + got - has
      BY <2>5, <2>6, <2>10, <2>13, <2>14
    <3> HIDE DEF had, has, got, len
    <3>2. CASE low <= Bottom
      BY <1>1, <1>5, <1>6, <2>11, <3>1, <3>2
    <3>3. CASE ~ (low <= Bottom)
      BY <1>1, <1>5, <1>6, <2>11, <3>1, <3>3
    <3> QED
      BY <3>2, <3>3
  <2>16. PaidFor'
    BY <1>1, <1>6, <2>12, <2>15 DEF PaidFor
  <2> QED
    BY <2>7, <2>9, <2>16
<1> QED
  BY <1>3, <1>4, <1>7 DEF IInv

LEMMA IInvHolds == Spec => []IInv
<1>1. ASSUME IInv, UNCHANGED vars PROVE IInv'
  BY <1>1 DEF vars, IInv, InOrder, WalkOK, DistinctInstants, ShownOK, Covered, PaidFor, Top, PageSize,
              Repeats
<1>2. IInv /\ [Next]_vars => IInv'
  BY <1>1, TickStep, InsertStep, BeginStep, NextPageStep DEF Next
<1> QED
  BY <1>2, IInvInit, PTL DEF Spec

(* Without ties a client that walks to the first short page has been shown   *)
(* every punishment that was there when it began, however many are added     *)
(* between its requests and whatever size it asks for.                       *)
THEOREM WalkComplete == Spec => []NothingMissed
<1>1. IInv => NothingMissed
  BY DEF IInv, NothingMissed, Covered
<1> QED
  BY <1>1, IInvHolds, PTL

(* It sees no more rows twice than were added.                               *)
THEOREM RepeatsPaidFor == Spec => []RepeatsBounded
<1>1. ASSUME IInv, DistinctInstants PROVE Repeats <= Added
  <2>1. /\ Len(time) \in Nat /\ DOMAIN time = 1 .. Len(time)
        /\ PaidFor /\ ShownOK /\ size \in PageSizes /\ page \in Nat \ {0}
    BY <1>1 DEF IInv, InOrder, WalkOK
  <2>2. PICK n \in 0 .. Len(time) : atStart = 1 .. n
    BY <1>1 DEF IInv, WalkOK
  <2>3. Cardinality(atStart) = n
    BY <2>2, IntervalSize
  <2>4. Added = Len(time) - n
    <3>1. DOMAIN time \ atStart = n + 1 .. Len(time)
      BY <2>1, <2>2
    <3>2. n + 1 \in Int /\ n + 1 <= Len(time) + 1 /\ (Len(time) - (n + 1)) + 1 = Len(time) - n
      BY <2>1, <2>2
    <3>3. Cardinality(n + 1 .. Len(time)) = (Len(time) - (n + 1)) + 1
      BY <2>1, <3>2, IntervalSize
    <3> QED
      BY <3>1, <3>2, <3>3 DEF Added
  <2>5. Repeats \in Int
    BY <2>1, FS_CardinalityType DEF ShownOK, Repeats
  <2>6. Top \in Int
    <3>1. PageSize \in Nat
      BY <2>1, PageSizeType
    <3> QED
      BY <2>1, <3>1 DEF Top
  <2>7. PICK low \in Int : low <= Top /\ Repeats + Cardinality(atStart) + Top <= low + Len(time)
    BY <2>1 DEF PaidFor
  <2> QED
    BY <2>1, <2>2, <2>3, <2>4, <2>5, <2>6, <2>7
<1>2. IInv => RepeatsBounded
  BY <1>1 DEF RepeatsBounded
<1> QED
  BY <1>2, IInvHolds, PTL
=============================================================================
