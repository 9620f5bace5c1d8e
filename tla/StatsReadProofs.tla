--------------------------- MODULE StatsReadProofs ---------------------------
(***************************************************************************)
(* StatsRead, for every table, clock and number of writes: each counter    *)
(* lies between what was visible throughout and what was visible at some   *)
(* time, and an undisturbed request agrees with the unfiltered list.       *)
(***************************************************************************)
EXTENDS StatsRead, PunishmentReadsProofs

(* What is visible is a finite set of rows of one table. *)
LEMMA VisibleFinite ==
  ASSUME TypeOK, NEW t \in Nat, NEW k \in Kinds
  PROVE  /\ Visible(t)[k] \subseteq DOMAIN db
         /\ Visible(t)[k] \subseteq Ids
         /\ IsFiniteSet(Visible(t)[k])
         /\ Cardinality(Visible(t)[k]) \in Nat
<1>1. Visible(t)[k] \subseteq DOMAIN db
  BY DEF Visible
<1>2. IsFiniteSet(Visible(t)[k])
  BY <1>1, FS_Subset DEF TypeOK
<1> QED
  BY <1>1, <1>2, FS_CardinalityType DEF TypeOK

LEMMA OrderIsKinds ==
  /\ \A j \in 1 .. 4 : CountOrder[j] \in Kinds
  /\ CountOrder[1] = "ban" /\ CountOrder[2] = "mute"
  /\ CountOrder[3] = "warning" /\ CountOrder[4] = "kick"
<1>1. /\ CountOrder[1] = "ban" /\ CountOrder[2] = "mute"
      /\ CountOrder[3] = "warning" /\ CountOrder[4] = "kick"
  BY DEF CountOrder
<1>2. \A j \in 1 .. 4 : j = 1 \/ j = 2 \/ j = 3 \/ j = 4
  OBVIOUS
<1> QED
  BY <1>1, <1>2 DEF Kinds

(* A counter reads exactly the rows visible in its own table. *)
LEMMA CountedVisible ==
  ASSUME NEW k \in Kinds, NEW t
  PROVE  Counted(k, t) = Visible(t)[k]
BY DEF Counted, Visible, Reads, Kinds

LEMMA StatsInvInit == StatsInit => StatsIInv
<1> SUFFICES ASSUME StatsInit PROVE StatsIInv
  OBVIOUS
<1>1. IInv
  BY InvInit DEF StatsInit
<1>2. StatsTypeOK
  BY FS_EmptySet DEF StatsInit, StatsTypeOK
<1>3. KicksStand
  BY DEF StatsInit, Init, KicksStand
<1> QED
  BY <1>1, <1>2, <1>3 DEF StatsInit, StatsIInv, Watched, Undisturbed, CountsBracketed

(* The plugin writes, or time passes, between two counts. *)
LEMMA WatchStep ==
  ASSUME StatsIInv, Plugin \/ Tick, Watch
  PROVE  StatsIInv'
<1> USE DEF StatsIInv
<1>1. IInv'
  BY WriterStep DEF Plugin
<1>2. UNCHANGED <<stage, at, counts, reply, began>> /\ at \in Nat
  BY DEF Watch, StatsTypeOK
<1>3. \A k \in Kinds : /\ Visible(at)'[k] \subseteq Ids
                       /\ IsFiniteSet(Visible(at)'[k])
  <2>1. TypeOK'
    BY <1>1 DEF IInv
  <2> SUFFICES ASSUME NEW k \in Kinds
               PROVE  /\ Visible(at)'[k] \subseteq Ids
                      /\ IsFiniteSet(Visible(at)'[k])
    OBVIOUS
  <2>2. Visible(at)'[k] \subseteq DOMAIN db'
    BY DEF Visible
  <2> QED
    BY <2>1, <2>2, FS_Subset DEF TypeOK
<1>4. StatsTypeOK' /\ Watched' /\ CountsBracketed'
  <2>1. CASE stage = "counting"
    <3>1. /\ steady' = [k \in Kinds |-> steady[k] \cap Visible(at)'[k]]
          /\ seen' = [k \in Kinds |-> seen[k] \cup Visible(at)'[k]]
      BY <2>1 DEF Watch
    <3>2. /\ steady' \in [Kinds -> SUBSET Ids] /\ seen' \in [Kinds -> SUBSET Ids]
          /\ \A k \in Kinds : IsFiniteSet(seen'[k])
      BY <1>3, <3>1, FS_Union DEF StatsTypeOK
    <3>3. StatsTypeOK'
      BY <1>2, <3>2 DEF StatsTypeOK
    <3>4. Watched'
      BY <3>1 DEF Watched
    <3>5. \A k \in Kinds : /\ Cardinality(steady'[k]) <= Cardinality(steady[k])
                           /\ Cardinality(seen[k]) <= Cardinality(seen'[k])
                           /\ Cardinality(steady'[k]) \in Nat /\ Cardinality(steady[k]) \in Nat
                           /\ Cardinality(seen'[k]) \in Nat /\ Cardinality(seen[k]) \in Nat
      <4> SUFFICES ASSUME NEW k \in Kinds
                   PROVE  /\ Cardinality(steady'[k]) <= Cardinality(steady[k])
                          /\ Cardinality(seen[k]) <= Cardinality(seen'[k])
                          /\ Cardinality(steady'[k]) \in Nat
                          /\ Cardinality(steady[k]) \in Nat
                          /\ Cardinality(seen'[k]) \in Nat
                          /\ Cardinality(seen[k]) \in Nat
        OBVIOUS
      <4>1. steady'[k] \subseteq steady[k] /\ seen[k] \subseteq seen'[k]
        BY <3>1
      <4>2. steady[k] \subseteq seen[k]
        BY <2>1 DEF Watched
      <4>3. IsFiniteSet(seen'[k]) /\ IsFiniteSet(seen[k]) /\ IsFiniteSet(steady[k])
        BY <3>2, <4>2, FS_Subset DEF StatsTypeOK
      <4> QED
        BY <4>1, <4>3, FS_Subset, FS_CardinalityType
    <3>6. DOMAIN counts \subseteq 1 .. 4 /\ \A j \in DOMAIN counts : counts[j] \in Nat
      BY DEF StatsTypeOK
    <3>7. CountsBracketed'
      BY <1>2, <3>5, <3>6, OrderIsKinds DEF CountsBracketed
    <3> QED
      BY <3>3, <3>4, <3>7
  <2>2. CASE stage # "counting"
    BY <1>2, <2>2 DEF Watch, StatsTypeOK, Watched, CountsBracketed
  <2> QED
    BY <2>1, <2>2
<1>5. Undisturbed'
  <2>1. CASE Plugin
    <3>1. writes' = writes + 1 /\ writes \in Nat /\ began \in Nat
      BY <2>1 DEF Plugin, Insert, Lift, Write, IInv, TypeOK, StatsTypeOK
    <3> QED
      BY <1>2, <3>1 DEF Undisturbed
  <2>2. CASE Tick
    <3>1. UNCHANGED <<db, writes>>
      BY <2>2 DEF Tick
    <3>2. Visible(at)' = Visible(at)
      BY <1>2, <3>1 DEF Visible
    <3> QED
      BY <1>2, <3>1, <3>2 DEF Undisturbed
  <2> QED
    BY <2>1, <2>2
<1>6. KicksStand'
  <2>1. ASSUME NEW i \in Ids, NEW t \in Templates, Insert(i, t) PROVE KicksStand'
    <3>1. \A j \in DOMAIN db' :
             \/ j \in DOMAIN db /\ db'[j] = db[j]
             \/ db'[j].type = t.type /\ db'[j].removedBy = t.removedBy
      <4>1. t \in Row
        BY RequestsAssumption
      <4> QED
        BY <2>1, <4>1 DEF Insert, Row
    <3> QED
      BY <3>1, KicksAssumption DEF KicksStand
  <2>2. ASSUME NEW i \in Ids, NEW by \in Uuids, NEW bit \in Bits, Lift(i, by, bit)
        PROVE  KicksStand'
    <3>1. db[i] \in Row /\ db[i].type # "kick"
      BY <2>2 DEF Lift, IInv, TypeOK
    <3>2. \A j \in DOMAIN db' :
             \/ j \in DOMAIN db /\ db'[j] = db[j]
             \/ db'[j].type = db[i].type
      BY <2>2, <3>1 DEF Lift, Row
    <3> QED
      BY <3>1, <3>2 DEF KicksStand
  <2>3. CASE Tick
    BY <2>3 DEF Tick, KicksStand
  <2> QED
    BY <2>1, <2>2, <2>3 DEF Plugin
<1> QED
  BY <1>1, <1>4, <1>5, <1>6

(* The steps of the request leave the tables alone. *)
LEMMA TablesKept ==
  ASSUME StatsIInv, UNCHANGED vars
  PROVE  /\ IInv' /\ KicksStand'
         /\ writes' = writes /\ \A t \in Nat : Visible(t)' = Visible(t)
<1>1. IInv'
  BY InvStep DEF StatsIInv
<1>2. KicksStand' /\ writes' = writes
  BY DEF StatsIInv, KicksStand, vars, dbVars
<1>3. \A t \in Nat : Visible(t)' = Visible(t)
  BY DEF Visible, vars, dbVars
<1> QED
  BY <1>1, <1>2, <1>3

LEMMA CountStep ==
  ASSUME StatsIInv, CountNext
  PROVE  StatsIInv'
<1> DEFINE j == Len(counts) + 1
           k == CountOrder[j]
           c == Cardinality(Counted(k, at))
<1>1. /\ counts' = Append(counts, c) /\ stage = "counting"
      /\ UNCHANGED <<stage, at, reply, began, steady, seen>> /\ UNCHANGED vars
  BY DEF CountNext
<1>2. at \in Nat /\ counts \in Seq(Nat) /\ j \in 1 .. 4 /\ Len(counts) \in Nat
  BY DEF CountNext, StatsIInv, StatsTypeOK
<1>3. k \in Kinds
  BY <1>2, OrderIsKinds
<1> HIDE DEF j
<1>4. c = Cardinality(Visible(at)[k]) /\ c \in Nat
  BY <1>2, <1>3, CountedVisible, VisibleFinite DEF StatsIInv, IInv
<1>5. Cardinality(steady[k]) <= c /\ c <= Cardinality(seen[k])
  <2>1. steady[k] \subseteq Visible(at)[k] /\ Visible(at)[k] \subseteq seen[k]
    BY <1>1, <1>3 DEF StatsIInv, Watched
  <2>2. IsFiniteSet(seen[k]) /\ IsFiniteSet(Visible(at)[k])
    BY <1>2, <1>3, VisibleFinite DEF StatsIInv, StatsTypeOK, IInv
  <2> QED
    BY <1>4, <2>1, <2>2, FS_Subset
<1> HIDE DEF c, k
<1>6. /\ counts' \in Seq(Nat) /\ Len(counts') = j /\ DOMAIN counts' = 1 .. j
      /\ \A i \in DOMAIN counts' : \/ i \in DOMAIN counts /\ counts'[i] = counts[i]
                                   \/ i = j /\ counts'[i] = c
  <2>1. j = Len(counts) + 1
    BY DEF j
  <2> QED
    BY <1>1, <1>2, <1>4, <2>1
<1>7. /\ IInv' /\ KicksStand' /\ writes' = writes /\ Visible(at)' = Visible(at)
  <2>1. \A t \in Nat : Visible(t)' = Visible(t)
    BY <1>1, TablesKept
  <2>2. Visible(at)' = Visible(at)
    BY <1>1, <1>2, <2>1 DEF Visible, vars, dbVars
  <2> QED
    BY <1>1, <2>2, TablesKept
<1>8. StatsTypeOK'
  BY <1>1, <1>2, <1>6 DEF StatsIInv, StatsTypeOK
<1>9. Watched'
  BY <1>1, <1>7 DEF StatsIInv, Watched
<1>10. k = CountOrder[j]
  BY DEF k
<1>11. CountsBracketed'
  BY <1>1, <1>5, <1>6, <1>10 DEF StatsIInv, CountsBracketed
<1>12. Undisturbed'
  <2>1. \A i \in DOMAIN counts' :
           stage # "idle" /\ writes = began => counts'[i] = Cardinality(Visible(at)[CountOrder[i]])
    BY <1>4, <1>6, <1>10 DEF StatsIInv, Undisturbed
  <2>2. began <= writes /\ reply # "200"
    BY <1>1 DEF StatsIInv, Undisturbed
  <2> QED
    BY <1>1, <1>7, <2>1, <2>2 DEF Undisturbed
<1> QED
  BY <1>7, <1>8, <1>9, <1>11, <1>12 DEF StatsIInv

LEMMA EndStep ==
  ASSUME StatsIInv, StartStats \/ CountFails \/ Reply \/ Reset
  PROVE  StatsIInv'
<1>1. UNCHANGED vars
  BY DEF StartStats, CountFails, Reply, Reset
<1>2. /\ IInv' /\ KicksStand' /\ writes' = writes /\ \A t \in Nat : Visible(t)' = Visible(t)
  BY <1>1, TablesKept
<1>3. CASE StartStats
  <2>1. now \in Nat /\ writes \in Nat /\ counts = << >> /\ reply # "200"
    BY <1>3 DEF StartStats, StatsIInv, IInv, TypeOK, Undisturbed
  <2>2. /\ stage' = "counting" /\ at' = now /\ began' = writes
        /\ steady' = Visible(now) /\ seen' = Visible(now)
        /\ counts' = << >> /\ reply' = reply
    BY <1>3, <2>1 DEF StartStats
  <2>3. StatsTypeOK'
    <3>1. Visible(now) = [k \in Kinds |-> Visible(now)[k]]
      BY DEF Visible
    <3>2. Visible(now) \in [Kinds -> SUBSET Ids] /\ \A k \in Kinds : IsFiniteSet(Visible(now)[k])
      BY <2>1, <3>1, VisibleFinite DEF StatsIInv, IInv
    <3> QED
      BY <2>1, <2>2, <3>2 DEF StatsIInv, StatsTypeOK
  <2>4. Visible(at)' = Visible(now)
    BY <1>1, <2>2 DEF Visible, vars, dbVars
  <2> QED
    BY <1>2, <2>1, <2>2, <2>3, <2>4
    DEF StatsIInv, Watched, Undisturbed, CountsBracketed
<1>4. CASE CountFails
  BY <1>2, <1>4 DEF CountFails, StatsIInv, StatsTypeOK, Watched, Undisturbed, CountsBracketed
<1>5. CASE Reply
  <2>1. /\ stage' = "done" /\ reply' = "200" /\ stage = "counting" /\ Len(counts) = 4
        /\ UNCHANGED <<at, counts, began, steady, seen>>
    BY <1>5 DEF Reply
  <2>2. Visible(at)' = Visible(at)
    BY <1>1, <2>1 DEF Visible, vars, dbVars
  <2> QED
    BY <1>2, <2>1, <2>2 DEF StatsIInv, StatsTypeOK, Watched, Undisturbed, CountsBracketed
<1>6. CASE Reset
  BY <1>2, <1>6, FS_EmptySet
  DEF Reset, StatsIInv, StatsTypeOK, Watched, Undisturbed, CountsBracketed
<1> QED
  BY <1>3, <1>4, <1>5, <1>6

(* The counters, what they may count and what has been seen, in step with   *)
(* the tables.                                                              *)
THEOREM StatsInvariance == StatsSpec => []StatsIInv
<1>1. StatsInit => StatsIInv
  BY StatsInvInit
<1>2. StatsIInv /\ [StatsNext]_allVars => StatsIInv'
  <2> SUFFICES ASSUME StatsIInv, [StatsNext]_allVars PROVE StatsIInv'
    OBVIOUS
  <2>1. CASE UNCHANGED allVars
    <3>1. /\ IInv' /\ KicksStand' /\ writes' = writes
      BY <2>1, TablesKept DEF allVars
    <3>2. Visible(at)' = Visible(at)
      BY <2>1 DEF Visible, allVars, statsVars, vars, dbVars
    <3>3. StatsTypeOK'
      BY <2>1 DEF allVars, statsVars, StatsIInv, StatsTypeOK
    <3> QED
      BY <2>1, <3>1, <3>2, <3>3
      DEF allVars, statsVars, StatsIInv, Watched, Undisturbed, CountsBracketed
  <2> QED
    BY <2>1, WatchStep, CountStep, EndStep DEF StatsNext
<1> QED
  BY <1>1, <1>2, PTL DEF StatsSpec

(* No counter is wrong, whatever is written between the four queries.       *)
THEOREM StatsBracketed == StatsSpec => []CountsBracketed
<1>1. StatsIInv => CountsBracketed
  BY DEF StatsIInv
<1> QED
  BY <1>1, StatsInvariance, PTL

(* The padded columns of the unified list make no difference to a kick.     *)
LEMMA UnifiedVisible ==
  ASSUME KicksStand, TypeOK, NEW t \in Nat
  PROVE  Chosen(Unfiltered, t) =
            Visible(t)["ban"] \cup Visible(t)["mute"] \cup Visible(t)["warning"]
                              \cup Visible(t)["kick"]
<1>1. ListFilter(Unfiltered) = StatsFilter /\ ListKind(Unfiltered) = "all"
  BY DEF ListFilter, ListKind, Unfiltered, StatsFilter, NoParams, TierParams, ModParams,
         PublicParams, PlayerParams, Params
<1>2. HasRemoved("all") = TRUE /\ \A k \in Kinds : k # "kick" => HasRemoved(k) = TRUE
  BY DEF HasRemoved
<1>3. \A row \in Row : row.removedBy = Null => NotLifted(row, TRUE) = NotLifted(row, FALSE)
  BY DEF NotLifted, SqlOr, Sql
<1>4. \A i \in DOMAIN db :
         Selected(db[i], StatsFilter, t, TRUE)
            <=> Selected(db[i], StatsFilter, t, HasRemoved(db[i].type))
  <2> SUFFICES ASSUME NEW i \in DOMAIN db
               PROVE  Selected(db[i], StatsFilter, t, TRUE)
                        <=> Selected(db[i], StatsFilter, t, HasRemoved(db[i].type))
    OBVIOUS
  <2>1. db[i] \in Row /\ db[i].type \in Kinds
    BY DEF TypeOK, Row
  <2>2. CASE db[i].type # "kick"
    BY <1>2, <2>1, <2>2
  <2>3. CASE db[i].type = "kick"
    <3>1. NotLifted(db[i], TRUE) = NotLifted(db[i], HasRemoved(db[i].type))
      BY <1>3, <2>1, <2>3 DEF KicksStand, HasRemoved
    <3>2. ActiveExpr(db[i], t, TRUE) = ActiveExpr(db[i], t, HasRemoved(db[i].type))
      BY <3>1 DEF ActiveExpr
    <3> QED
      BY <3>2 DEF Selected, ActiveClause
  <2> QED
    BY <2>2, <2>3
<1>5. \A i : i \in Chosen(Unfiltered, t)
               <=> i \in DOMAIN db /\ Selected(db[i], StatsFilter, t, TRUE)
  BY <1>1, <1>2 DEF Chosen, Matches, Reads
<1>6. \A i \in DOMAIN db : db[i].type \in Kinds
  BY DEF TypeOK, Row
<1>7. \A k \in Kinds : \A i : i \in Visible(t)[k]
         <=> i \in DOMAIN db /\ db[i].type = k /\ Selected(db[i], StatsFilter, t, HasRemoved(k))
  BY DEF Visible
<1>8. \A i : i \in Chosen(Unfiltered, t) <=> \E k \in Kinds : i \in Visible(t)[k]
  BY <1>4, <1>5, <1>6, <1>7
<1> QED
  BY <1>8 DEF Kinds

LEMMA DisjointUnion ==
  ASSUME NEW S, NEW T, IsFiniteSet(S), IsFiniteSet(T), S \cap T = {}
  PROVE  IsFiniteSet(S \cup T) /\ Cardinality(S \cup T) = Cardinality(S) + Cardinality(T)
<1>1. Cardinality(S) \in Nat /\ Cardinality(T) \in Nat /\ Cardinality(S \cap T) = 0
  BY FS_EmptySet, FS_CardinalityType
<1>2. IsFiniteSet(S \cup T)
      /\ Cardinality(S \cup T) = Cardinality(S) + Cardinality(T) - Cardinality(S \cap T)
  BY FS_Union
<1> QED
  BY <1>1, <1>2

LEMMA InvImpliesSum == StatsIInv => StatsMatchList
<1> SUFFICES ASSUME StatsIInv, reply = "200", writes = began
             PROVE  counts[1] + counts[2] + counts[3] + counts[4]
                      = Cardinality(Chosen(Unfiltered, at))
  BY DEF StatsMatchList
<1> DEFINE V == Visible(at)
<1>1. at \in Nat /\ TypeOK /\ KicksStand
  BY DEF StatsIInv, StatsTypeOK, IInv
<1>2. /\ counts[1] = Cardinality(V["ban"]) /\ counts[2] = Cardinality(V["mute"])
      /\ counts[3] = Cardinality(V["warning"]) /\ counts[4] = Cardinality(V["kick"])
  <2>1. stage = "done" /\ Len(counts) = 4 /\ counts \in Seq(Nat)
    BY DEF StatsIInv, Undisturbed, StatsTypeOK
  <2>2. 1 \in DOMAIN counts /\ 2 \in DOMAIN counts /\ 3 \in DOMAIN counts /\ 4 \in DOMAIN counts
    BY <2>1
  <2> QED
    BY <2>1, <2>2, OrderIsKinds DEF StatsIInv, Undisturbed
<1>3. \A k \in Kinds : IsFiniteSet(V[k]) /\ Cardinality(V[k]) \in Nat
  BY <1>1, VisibleFinite
<1>4. \A k, l \in Kinds : k # l => V[k] \cap V[l] = {}
  BY DEF Visible
<1>5. Chosen(Unfiltered, at) = V["ban"] \cup V["mute"] \cup V["warning"] \cup V["kick"]
  BY <1>1, UnifiedVisible
<1> HIDE DEF V
<1>6. \A S, T : IsFiniteSet(S) /\ IsFiniteSet(T) /\ S \cap T = {} =>
         IsFiniteSet(S \cup T) /\ Cardinality(S \cup T) = Cardinality(S) + Cardinality(T)
  BY DisjointUnion
<1>7. "ban" \in Kinds /\ "mute" \in Kinds /\ "warning" \in Kinds /\ "kick" \in Kinds
  BY DEF Kinds
<1> DEFINE S2 == V["ban"] \cup V["mute"]
           S3 == S2 \cup V["warning"]
<1>8. IsFiniteSet(S2) /\ Cardinality(S2) = Cardinality(V["ban"]) + Cardinality(V["mute"])
  BY <1>3, <1>4, <1>6, <1>7
<1>9. IsFiniteSet(S3) /\ Cardinality(S3) = Cardinality(S2) + Cardinality(V["warning"])
  <2>1. S2 \cap V["warning"] = {}
    BY <1>4, <1>7
  <2> HIDE DEF S2
  <2> QED
    BY <1>3, <1>6, <1>7, <1>8, <2>1
<1>10. Cardinality(S3 \cup V["kick"]) = Cardinality(S3) + Cardinality(V["kick"])
  <2>1. S3 \cap V["kick"] = {}
    BY <1>4, <1>7
  <2> HIDE DEF S3
  <2> QED
    BY <1>3, <1>6, <1>7, <1>9, <2>1
<1> QED
  BY <1>2, <1>3, <1>5, <1>7, <1>8, <1>9, <1>10

(* Left undisturbed, the four counters add up to the unfiltered list.       *)
THEOREM StatsAgree == StatsSpec => []StatsMatchList
BY InvImpliesSum, StatsInvariance, PTL
=============================================================================
