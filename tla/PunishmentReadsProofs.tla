------------------------ MODULE PunishmentReadsProofs ------------------------
(***************************************************************************)
(* The rules of Punishments, and PunishmentReads for every table, request, *)
(* clock and number of writes: types, then that a list shows what was      *)
(* asked, one name per player, and that by-id finds what the list shows.   *)
(***************************************************************************)
EXTENDS PunishmentReads, FiniteSetTheorems, TLAPS

(***************************************************************************)
(* The rules of Punishments, for every row and instant: what the database  *)
(* selects and what the mapper shows are the same judgement.               *)
(***************************************************************************)
LEMMA SqlAndTrue == \A p, q \in {"T", "F", "U"} : SqlAnd(p, q) = "T" <=> p = "T" /\ q = "T"
BY DEF SqlAnd

LEMMA SqlTypes ==
  ASSUME NEW row \in Row, NEW t \in Int, NEW h \in BOOLEAN
  PROVE  /\ SqlBitSet(row.active) \in {"T", "F", "U"}
         /\ NotLifted(row, h) \in {"T", "F", "U"}
         /\ ActiveExpr(row, t, h) \in {"T", "F", "U"}
BY DEF Row, SqlBitSet, NotLifted, SqlOr, SqlEq, Sql, ActiveExpr, SqlAnd

(* The removal test is never unknown, whatever removed_by_uuid holds.       *)
LEMMA NotLiftedDecides ==
  ASSUME NEW row \in Row
  PROVE  NotLifted(row, TRUE) = Sql(~ ExplicitlyRemoved(row))
BY DataAssumption DEF Row, NotLifted, SqlOr, SqlEq, Sql, ExplicitlyRemoved

(* punishment_repo.go:195 and punishment_mapper.go:81-116: for one instant, *)
(* the rows the SQL filter calls active are those whose item shows active,  *)
(* unexpired and not removed, NULLs and empty strings included.             *)
THEOREM SqlAndMapperAgree ==
  ASSUME NEW row \in Row, NEW t \in Nat, NEW name, NEW moderator, row.type # "kick"
  PROVE  ActiveExpr(row, t, TRUE) = "T" <=> InForce(Item(row, t, name, moderator))
<1>1. ActiveExpr(row, t, TRUE) = "T" <=>
        row.active = "yes" /\ InWindow(row.until, t) /\ ~ ExplicitlyRemoved(row)
  BY SqlAndTrue, SqlTypes, NotLiftedDecides DEF ActiveExpr, SqlBitSet, Sql, Row, SqlAnd, Bits
<1>2. InForce(Item(row, t, name, moderator)) <=>
        row.active = "yes" /\ ~ Expired(row, t) /\ ~ ExplicitlyRemoved(row)
  BY DEF InForce, Item, Flag
<1>3. ~ ExplicitlyRemoved(row) => (InWindow(row.until, t) <=> ~ Expired(row, t))
  BY DEF InWindow, Expired, Row
<1> QED
  BY <1>1, <1>2, <1>3

(* A list asked for active=false shows nothing that looks in force.         *)
THEOREM InactiveListHonest ==
  ASSUME NEW row \in Row, NEW t \in Nat, NEW name, NEW moderator,
         ActiveClause(row, "no", t, TRUE) = "T"
  PROVE  ~ InForce(Item(row, t, name, moderator))
<1>1. ActiveExpr(row, t, TRUE) = "F"
  BY DEF ActiveClause, SqlNot, Sql
<1>2. CASE row.type = "kick"
  BY <1>2 DEF InForce, Item
<1>3. CASE row.type # "kick"
  BY <1>1, <1>3, SqlAndMapperAgree
<1> QED
  BY <1>2, <1>3

(* punishment_repo.go:195-203: of a row whose active bit is not NULL,       *)
(* exactly one of active=true and active=false selects; with a NULL bit     *)
(* never active=true.                                                       *)
THEOREM ActivePartition ==
  ASSUME NEW row \in Row, NEW t \in Nat, NEW h \in BOOLEAN
  PROVE  /\ row.active # "null" =>
              (ActiveClause(row, "yes", t, h) = "T" <=> ActiveClause(row, "no", t, h) # "T")
         /\ row.active = "null" => ActiveClause(row, "yes", t, h) # "T"
<1>1. NotLifted(row, h) \in {"T", "F"}
  BY NotLiftedDecides DEF NotLifted, Sql
<1>2. row.active # "null" => ActiveExpr(row, t, h) \in {"T", "F"}
  BY <1>1 DEF ActiveExpr, SqlAnd, SqlBitSet, Sql
<1>3. row.active = "null" => ActiveExpr(row, t, h) # "T"
  BY DEF ActiveExpr, SqlAnd, SqlBitSet
<1> QED
  BY <1>2, <1>3 DEF ActiveClause, SqlNot, Sql

-----------------------------------------------------------------------------
(***************************************************************************)
(* The requests that read by these rules.                                  *)
(***************************************************************************)

LEMMA WindowRows ==
  ASSUME TypeOK, NEW S, S \subseteq DOMAIN db, IsFiniteSet(S),
         NEW s \in SetToSeqs(S), NEW offset \in Nat, NEW size \in Nat
  PROVE  /\ Window(s, offset, size) \in Seq(Row)
         /\ \A i \in DOMAIN Window(s, offset, size) :
               \E j \in S : Window(s, offset, size)[i] = db[j]
<1>1. Cardinality(S) \in Nat
  BY FS_CardinalityType
<1>2. s \in Seq(S) /\ Len(s) \in Nat /\ DOMAIN s = 1 .. Len(s)
  BY <1>1 DEF SetToSeqs
<1> DEFINE length == IF Len(s) <= offset THEN 0
                     ELSE IF Len(s) - offset < size THEN Len(s) - offset ELSE size
<1>3. length \in Nat /\ \A i \in 1 .. length : offset + i \in 1 .. Len(s)
  BY <1>2
<1>4. \A i \in 1 .. length : s[offset + i] \in S
  BY <1>2, <1>3
<1>5. \A i \in 1 .. length : db[s[offset + i]] \in Row
  BY <1>4 DEF TypeOK
<1> HIDE DEF length
<1>6. Window(s, offset, size) = [i \in 1 .. length |-> db[s[offset + i]]]
  BY DEF Window, length
<1> DEFINE w == [i \in 1 .. length |-> db[s[offset + i]]]
<1>7. w \in Seq(Row) /\ DOMAIN w = 1 .. length
  BY <1>3, <1>5
<1>8. \A i \in 1 .. length : \E j \in S : w[i] = db[j]
  BY <1>4
<1> HIDE DEF w
<1> QED
  BY <1>6, <1>7, <1>8 DEF w

LEMMA ItemType ==
  ASSUME NEW row \in Row, NEW t \in Nat, NEW name \in Names \cup {Null},
         NEW latest \in [Uuids -> Names \cup {Null}]
  PROVE  LET m == ResolveModerator(latest, row.bannedBy, row.bannedByName)
         IN  Item(row, t, name, m) \in Items
<1> DEFINE m == ResolveModerator(latest, row.bannedBy, row.bannedByName)
<1>1. m \in [uuid : Uuids \cup {Null}, name : Names \cup {Null}, isConsole : BOOLEAN]
  <2>1. row.bannedBy \in Uuids \cup {Empty} /\ row.bannedByName \in Names \cup {Null}
    BY DEF Row
  <2> QED
    BY <2>1 DEF ResolveModerator
<1>2. /\ row.type \in Kinds
      /\ (IF row.uuid = Null THEN Empty ELSE row.uuid)
            \in Uuids \cup {Empty, OfflineUUIDMarker}
  BY DEF Row
<1>3. \A b : Flag(b) \in Statuses
  BY DEF Flag, Statuses
<1>4. "absent" \in Statuses
  BY DEF Statuses
<1> HIDE DEF m
<1>5. Item(row, t, name, m) \in Items
  BY <1>1, <1>2, <1>3, <1>4 DEF Item, Items
<1> QED
  BY <1>5 DEF m

LEMMA InsertType ==
  ASSUME NEW t \in Row, NEW n \in Nat
  PROVE  [t EXCEPT !.time = n, !.until = IF t.until <= 0 THEN t.until ELSE n + t.until] \in Row
<1> DEFINE u == IF t.until <= 0 THEN t.until ELSE n + t.until
<1>1. u \in Int
  BY DEF Row
<1> HIDE DEF u
<1>2. [t EXCEPT !.time = n] \in Row
  BY DEF Row
<1>3. [[t EXCEPT !.time = n] EXCEPT !.until = u] \in Row
  BY <1>1, <1>2 DEF Row
<1> QED
  BY <1>3 DEF u

LEMMA PageNat ==
  ASSUME NEW r \in Requests, r.endpoint = "list", Refusal(r) = "none"
  PROVE  /\ ResolvedPageSize(r.pageSize) \in Nat
         /\ Offset(ResolvedPage(r.page), ResolvedPageSize(r.pageSize)) \in Nat
<1>1. /\ r.page = Null \/ (r.page \in Int /\ r.page >= 1)
      /\ r.pageSize = Null \/ (r.pageSize \in Int /\ r.pageSize >= 1)
  BY RequestsAssumption DEF Refusal, PageRefused, Request
<1>2. ResolvedPageSize(r.pageSize) \in Nat
  BY <1>1, DataAssumption DEF ResolvedPageSize
<1>3. ResolvedPage(r.page) - 1 \in Nat
  BY <1>1 DEF ResolvedPage
<1>4. \A a, b \in Nat : a * b \in Nat
  OBVIOUS
<1> QED
  BY <1>2, <1>3, <1>4 DEF Offset

LEMMA PagePositive ==
  ASSUME NEW r \in Requests, r.endpoint = "list", Refusal(r) = "none"
  PROVE  /\ ResolvedPage(r.page) \in Nat \ {0}
         /\ ResolvedPageSize(r.pageSize) \in Nat \ {0}
<1>1. /\ r.page = Null \/ (r.page \in Int /\ r.page >= 1)
      /\ r.pageSize = Null \/ (r.pageSize \in Int /\ r.pageSize >= 1)
  BY RequestsAssumption DEF Refusal, PageRefused, Request
<1> QED
  BY <1>1, DataAssumption DEF ResolvedPage, ResolvedPageSize

LEMMA InvInit == Init => IInv
<1> SUFFICES ASSUME Init PROVE IInv
  OBVIOUS
<1>1. TypeOK
  BY FS_EmptySet DEF Init, TypeOK, Phases
<1> QED
  BY <1>1, RequestsAssumption
  DEF Init, IInv, Accepted, NothingYet, RowsAsked, ItemsMapped, HiddenOnly, AllOrNothing

(* The plugin and the clock leave the request alone.                        *)
LEMMA WriterStep ==
  ASSUME IInv,
         \/ \E i \in Ids, t \in Templates : Insert(i, t)
         \/ \E i \in Ids, by \in Uuids, bit \in Bits : Lift(i, by, bit)
         \/ \E u \in Uuids, n \in Names : Rename(u, n)
         \/ Tick
  PROVE  IInv'
<1> USE DEF IInv
<1>1. UNCHANGED reqVars =>
          (Accepted /\ NothingYet /\ RowsAsked /\ ItemsMapped /\ HiddenOnly /\ AllOrNothing)'
  BY DEF reqVars, Accepted, NothingYet, RowsAsked, ItemsMapped, HiddenOnly, AllOrNothing
<1>2. ASSUME NEW i \in Ids, NEW t \in Templates, Insert(i, t) PROVE TypeOK'
  <2>1. db' = [j \in DOMAIN db \cup {i} |->
                IF j = i
                THEN [t EXCEPT !.time = now,
                               !.until = IF t.until <= 0 THEN t.until ELSE now + t.until]
                ELSE db[j]]
    BY <1>2 DEF Insert
  <2>2. DOMAIN db' = DOMAIN db \cup {i}
    BY <2>1
  <2>3. IsFiniteSet(DOMAIN db')
    <3>1. IsFiniteSet(DOMAIN db)
      BY DEF TypeOK
    <3>2. IsFiniteSet(DOMAIN db \cup {i})
      BY <3>1, FS_AddElement
    <3> QED
      BY <2>2, <3>2
  <2>4. \A j \in DOMAIN db' : db'[j] \in Row
    <3> DEFINE fresh == [t EXCEPT !.time = now,
                               !.until = IF t.until <= 0 THEN t.until ELSE now + t.until]
    <3>1. fresh \in Row
      BY InsertType, RequestsAssumption DEF TypeOK
    <3> HIDE DEF fresh
    <3>2. db' = [j \in DOMAIN db \cup {i} |-> IF j = i THEN fresh ELSE db[j]]
      BY <2>1 DEF fresh
    <3> QED
      BY <2>2, <3>1, <3>2 DEF TypeOK
  <2>5. writes' = writes + 1 /\ UNCHANGED <<now, names>> /\ UNCHANGED reqVars
    BY <1>2 DEF Insert, Write
  <2> QED
    BY <2>2, <2>3, <2>4, <2>5 DEF TypeOK, reqVars
<1>3. ASSUME NEW i \in Ids, NEW by \in Uuids, NEW bit \in Bits, Lift(i, by, bit) PROVE TypeOK'
  <2>1. db' = [db EXCEPT ![i] = [db[i] EXCEPT !.removedBy = by, !.active = bit]]
    BY <1>3 DEF Lift
  <2>2. i \in DOMAIN db => [db[i] EXCEPT !.removedBy = by, !.active = bit] \in Row
    BY DEF TypeOK, Row
  <2>3. DOMAIN db' = DOMAIN db /\ \A j \in DOMAIN db' : db'[j] \in Row
    BY <1>3, <2>1, <2>2 DEF TypeOK, Lift
  <2> QED
    BY <1>3, <2>3 DEF Lift, Write, TypeOK, reqVars
<1>4. ASSUME NEW u \in Uuids, NEW n \in Names, Rename(u, n) PROVE TypeOK'
  BY <1>4 DEF Rename, Write, TypeOK, reqVars
<1>5. CASE Tick
  BY <1>1, <1>5 DEF Tick, TypeOK, reqVars
<1>6. UNCHANGED reqVars
  BY DEF Insert, Lift, Rename, Tick
<1> QED
  BY <1>1, <1>2, <1>3, <1>4, <1>5, <1>6

(* An empty page carries nothing that could be wrong.                       *)
LEMMA StartStep ==
  ASSUME IInv, \/ \E r \in Requests : Refuse(r) \/ StartList(r) \/ StartDetail(r)
               \/ Deliver
  PROVE  IInv'
<1> USE DEF IInv
<1>1. ASSUME NEW r \in Requests, Refuse(r) PROVE IInv'
  <2>1. rows' = << >> /\ items' = << >> /\ req' = r /\ phase' = "done"
    BY <1>1 DEF Refuse, Respond, NothingYet
  <2>2. status' \in {"400", "401"}
    BY <1>1 DEF Refuse, Respond, Refusal
  <2>3. TypeOK'
    BY <1>1, <2>2 DEF Refuse, Respond, TypeOK, Phases, dbVars
  <2> QED
    BY <2>1, <2>2, <2>3 DEF Accepted, NothingYet, RowsAsked, ItemsMapped, HiddenOnly, AllOrNothing
<1>2. ASSUME NEW r \in Requests, StartList(r) \/ StartDetail(r) PROVE IInv'
  <2>1. /\ rows' = << >> /\ items' = << >> /\ req' = r /\ Refusal(r) = "none"
        /\ \/ phase' = "count" /\ r.endpoint = "list"
           \/ phase' = "fetch" /\ r.endpoint = "detail"
    BY <1>2 DEF StartList, StartDetail, NothingYet
  <2>2. TypeOK'
    BY <1>2 DEF StartList, StartDetail, TypeOK, Phases, dbVars
  <2> QED
    BY <2>1, <2>2 DEF Accepted, NothingYet, RowsAsked, ItemsMapped, HiddenOnly, AllOrNothing
<1>3. ASSUME Deliver PROVE IInv'
  <2>1. rows' = << >> /\ items' = << >> /\ phase' = "idle" /\ status' = "none"
    BY <1>3 DEF Deliver
  <2>2. TypeOK'
    BY <1>3 DEF Deliver, TypeOK, Phases, dbVars
  <2> QED
    BY <2>1, <2>2 DEF Accepted, NothingYet, RowsAsked, ItemsMapped, HiddenOnly, AllOrNothing
<1> QED
  BY <1>1, <1>2, <1>3

(* The queries of a list, and the fetch by id.                              *)
LEMMA QueryStep ==
  ASSUME IInv, CountQuery \/ ListQuery \/ FetchRow \/ Stamp
  PROVE  IInv'
<1> USE DEF IInv
<1>1. ASSUME CountQuery PROVE IInv'
  <2>1. total' \in Nat
    <3>1. IsFiniteSet(Chosen(req, stamp))
      BY FS_Subset DEF Chosen, TypeOK
    <3> QED
      BY <1>1, <3>1, FS_CardinalityType DEF CountQuery
  <2>2. TypeOK'
    BY <1>1, <2>1 DEF CountQuery, TypeOK, Phases, dbVars
  <2> QED
    BY <1>1, <2>2
    DEF CountQuery, Accepted, NothingYet, RowsAsked, ItemsMapped, HiddenOnly, AllOrNothing
<1>2. ASSUME ListQuery PROVE IInv'
  <2> DEFINE size == ResolvedPageSize(req.pageSize)
             offset == Offset(ResolvedPage(req.page), size)
             S == Chosen(req, stamp)
  <2>1. req \in Requests /\ req.endpoint = "list" /\ items = << >>
    BY <1>2 DEF ListQuery, Accepted, NothingYet
  <2>2. size \in Nat /\ offset \in Nat
    BY <1>2, <2>1, PageNat DEF ListQuery, Accepted
  <2>3. S \subseteq DOMAIN db /\ IsFiniteSet(S)
    BY FS_Subset DEF Chosen, TypeOK
  <2>4. PICK s \in SetToSeqs(S) : rows' = Window(s, offset, size)
    BY <1>2 DEF ListQuery, Orderings
  <2> HIDE DEF size, offset, S
  <2>5. rows' \in Seq(Row) /\ \A i \in DOMAIN rows' : \E j \in S : rows'[i] = db[j]
    <3>1. /\ Window(s, offset, size) \in Seq(Row)
          /\ \A i \in DOMAIN Window(s, offset, size) :
                \E j \in S : Window(s, offset, size)[i] = db[j]
      <4>1. TypeOK
        OBVIOUS
      <4> HIDE DEF IInv
      <4> QED
        BY <2>2, <2>3, <2>4, <4>1, WindowRows, SMTT(30)
    <3> QED
      BY <2>4, <3>1, Zenon
  <2>6. \A i \in DOMAIN rows' : Matches(req, rows'[i], stamp)
    BY <2>5 DEF Chosen, S
  <2>7. TypeOK'
    BY <1>2, <2>5 DEF ListQuery, TypeOK, Phases, dbVars
  <2>8. UNCHANGED <<req, stamp, items, status>> /\ phase' = "names"
    BY <1>2 DEF ListQuery
  <2>9. Accepted' /\ NothingYet' /\ HiddenOnly' /\ AllOrNothing'
    BY <1>2, <2>1, <2>8 DEF ListQuery, Accepted, NothingYet, HiddenOnly, AllOrNothing
  <2>10. RowsAsked'
    BY <2>1, <2>6, <2>8 DEF RowsAsked
  <2>11. ItemsMapped'
    BY <2>1, <2>5, <2>8 DEF ItemsMapped
  <2> QED
    BY <2>7, <2>9, <2>10, <2>11
<1>3. ASSUME FetchRow PROVE IInv'
  <2>1. req.endpoint = "detail" /\ items = << >> /\ rows = << >>
    BY <1>3 DEF FetchRow, Accepted, NothingYet
  <2>2. CASE rows' = <<db[req.id]>> /\ phase' = "stamp" /\ UNCHANGED status
                /\ req.id \in DOMAIN db
    <3>1. rows' \in Seq(Row) /\ Len(rows') = 1
      BY <2>2 DEF TypeOK
    <3>2. UNCHANGED <<req, stamp, total, counted, nameMap, items, status>> /\ UNCHANGED dbVars
      BY <1>3, <2>2 DEF FetchRow
    <3>3. TypeOK'
      BY <2>2, <3>1, <3>2 DEF TypeOK, Phases, dbVars
    <3>4. Accepted' /\ NothingYet' /\ HiddenOnly' /\ AllOrNothing'
      BY <1>3, <2>1, <2>2, <3>2 DEF FetchRow, Accepted, NothingYet, HiddenOnly, AllOrNothing
    <3>5. RowsAsked' /\ ItemsMapped'
      BY <2>1, <2>2, <3>1, <3>2 DEF RowsAsked, ItemsMapped
    <3> QED
      BY <3>3, <3>4, <3>5
  <2>3. CASE Respond("404") /\ UNCHANGED rows
    <3>1. TypeOK'
      BY <1>3, <2>3 DEF FetchRow, Respond, TypeOK, Phases, dbVars
    <3> QED
      BY <1>3, <2>1, <2>3, <3>1
      DEF FetchRow, Respond, Accepted, NothingYet, RowsAsked, ItemsMapped, HiddenOnly, AllOrNothing
  <2> QED
    BY <1>3, <2>2, <2>3 DEF FetchRow, HasRow
<1>4. ASSUME Stamp PROVE IInv'
  <2>1. TypeOK'
    BY <1>4 DEF Stamp, TypeOK, Phases, dbVars
  <2> QED
    BY <1>4, <2>1 DEF Stamp, Accepted, NothingYet, RowsAsked, ItemsMapped, HiddenOnly, AllOrNothing
<1> QED
  BY <1>1, <1>2, <1>3, <1>4

(* Names, mapping and the answer.                                           *)
LEMMA AnswerStep ==
  ASSUME IInv, NamesQuery \/ MapRow \/ Finish \/ QueryFails
  PROVE  IInv'
<1> USE DEF IInv
<1>1. ASSUME NamesQuery PROVE IInv'
  <2>1. items = << >> /\ phase = "names"
    BY <1>1 DEF NamesQuery, NothingYet
  <2>2. /\ DOMAIN nameMap' \subseteq Uuids
        /\ \A u \in DOMAIN nameMap' : nameMap'[u] \in Names \cup {Null}
    BY <1>1 DEF NamesQuery, TypeOK
  <2>3. UNCHANGED <<req, stamp, total, rows, items, status>> /\ phase' = "map"
        /\ UNCHANGED counted /\ UNCHANGED dbVars
    BY <1>1 DEF NamesQuery
  <2>4. TypeOK'
    BY <2>2, <2>3 DEF TypeOK, Phases, dbVars
  <2> QED
    BY <2>1, <2>3, <2>4 DEF Accepted, NothingYet, RowsAsked, ItemsMapped, HiddenOnly, AllOrNothing
<1>2. ASSUME MapRow PROVE IInv'
  <2> DEFINE k == Len(items) + 1
             row == rows[k]
             name == NamePtr(nameMap, row.uuid)
             m == ResolveModerator(names, row.bannedBy, row.bannedByName)
             item == Item(row, stamp, name, m)
  <2>1. k \in 1 .. Len(rows) /\ items' = Append(items, item) /\ items \in Seq(Items)
    BY <1>2 DEF MapRow, TypeOK
  <2>2. row \in Row
    BY <2>1 DEF TypeOK
  <2>3. name \in Names \cup {Null}
    BY DEF NamePtr, TypeOK
  <2>4. item \in Items
    BY <2>2, <2>3, ItemType DEF TypeOK
  <2>5. item.moderator = m
    BY DEF Item
  <2>6. item = Item(rows[k], stamp, NamePtr(nameMap, rows[k].uuid), item.moderator)
    BY <2>5
  <2>0. k = Len(items) + 1 /\ Len(items) \in Nat
    BY <2>1
  <2> HIDE DEF item, k
  <2>7. /\ items' \in Seq(Items) /\ Len(items') = k /\ DOMAIN items' = 1 .. k
        /\ \A i \in DOMAIN items : items'[i] = items[i]
        /\ DOMAIN items = 1 .. Len(items)
        /\ items'[k] = item
    BY <2>0, <2>1, <2>4
  <2>8. UNCHANGED <<req, phase, stamp, total, counted, rows, nameMap, status>>
        /\ UNCHANGED dbVars /\ phase = "map"
    BY <1>2 DEF MapRow
  <2>9. TypeOK'
    BY <2>7, <2>8 DEF TypeOK, dbVars
  <2>10. ItemsMapped'
    <3> SUFFICES ASSUME NEW i \in 1 .. k
                 PROVE  items'[i] = Item(rows[i], stamp, NamePtr(nameMap, rows[i].uuid),
                                         items'[i].moderator)
      <4>1. \A i \in DOMAIN items' :
               NamePtr(nameMap, rows[i].uuid)' = NamePtr(nameMap, rows[i].uuid)
        BY <2>8 DEF NamePtr
      <4>2. Len(items') <= Len(rows')
        BY <2>1, <2>7, <2>8
      <4> QED
        BY <2>7, <2>8, <4>1, <4>2 DEF ItemsMapped
    <3>1. CASE i = k
      BY <2>6, <2>7, <3>1
    <3>2. CASE i # k
      <4>1. i \in DOMAIN items
        BY <2>0, <2>7, <3>2
      <4> QED
        BY <2>7, <4>1 DEF ItemsMapped
    <3> QED
      BY <3>1, <3>2
  <2>11. Accepted' /\ NothingYet' /\ RowsAsked' /\ HiddenOnly' /\ AllOrNothing'
    BY <2>8 DEF Accepted, NothingYet, RowsAsked, HiddenOnly, AllOrNothing
  <2> QED
    BY <2>9, <2>10, <2>11
<1>3. ASSUME Finish PROVE IInv'
  <2>1. /\ UNCHANGED <<req, stamp, total, counted, rows, nameMap, items>>
        /\ UNCHANGED dbVars
        /\ phase = "map" /\ phase' = "done" /\ status' \in {"200", "404"}
        /\ Len(items) = Len(rows)
        /\ status' = "404" => req.endpoint = "detail" /\ ~ DetailVisible(req, items[1])
    BY <1>3 DEF Finish, Respond
  <2>2. TypeOK'
    BY <2>1 DEF TypeOK, Phases, dbVars
  <2>3. HiddenOnly' /\ AllOrNothing'
    <3>1. status' = "404" => Len(items) = 1
      BY <2>1 DEF RowsAsked
    <3> QED
      BY <2>1, <3>1 DEF HiddenOnly, AllOrNothing
  <2> QED
    BY <2>1, <2>2, <2>3 DEF Accepted, NothingYet, RowsAsked, ItemsMapped
<1>4. ASSUME QueryFails PROVE IInv'
  <2>1. /\ items' = << >> /\ rows' = << >> /\ nameMap' = << >>
        /\ phase' = "done" /\ status' = "503" /\ phase # "idle"
        /\ total' = 0 /\ counted' = 0 /\ UNCHANGED <<req, stamp>> /\ UNCHANGED dbVars
    BY <1>4 DEF QueryFails, Respond
  <2>2. TypeOK'
    BY <2>1 DEF TypeOK, Phases, dbVars
  <2> QED
    BY <2>1, <2>2 DEF Accepted, NothingYet, RowsAsked, ItemsMapped, HiddenOnly, AllOrNothing, TypeOK
<1> QED
  BY <1>1, <1>2, <1>3, <1>4

LEMMA InvStep == IInv /\ [Next]_vars => IInv'
<1> SUFFICES ASSUME IInv, [Next]_vars PROVE IInv'
  OBVIOUS
<1>1. CASE UNCHANGED vars
  <2>1. TypeOK'
    BY <1>1 DEF vars, dbVars, reqVars, IInv, TypeOK
  <2> QED
    BY <1>1, <2>1 DEF vars, reqVars, IInv, Accepted, NothingYet, RowsAsked, ItemsMapped,
                      HiddenOnly, AllOrNothing, NamePtr
<1> QED
  BY <1>1, WriterStep, StartStep, QueryStep, AnswerStep DEF Next

(* What one query hands the next stays what the request asked for, whatever *)
(* the plugin writes in between.                                            *)
THEOREM Invariance == Spec => []IInv
<1>1. Init => IInv
  BY InvInit
<1>2. IInv /\ [Next]_vars => IInv'
  BY InvStep
<1> QED
  BY <1>1, <1>2, PTL DEF Spec

-----------------------------------------------------------------------------
(* What a selected row shows, whichever tier selected it.                   *)
LEMMA SelectedShows ==
  ASSUME NEW r \in Requests, NEW row \in Row, NEW t \in Nat, Matches(r, row, t),
         NEW name, NEW m
  PROVE  LET item == Item(row, t, name, m)
         IN  /\ r.tier = "public" =>
                   item.type = "ban" /\ InForce(item) /\ item.silent = "no"
             /\ r.tier = "mod" /\ r.active = "no" => ~ InForce(item)
             /\ r.tier = "player" /\ r.caller # Null => item.player = r.caller
<1> DEFINE item == Item(row, t, name, m)
<1>1. r \in Request
  BY RequestsAssumption
<1>2. CASE r.tier = "public"
  <2>1. row.type = "ban"
    BY <1>2 DEF Matches, Reads, ListKind
  <2>2. /\ Selected(row, ListFilter(r), t, TRUE)
        /\ ListFilter(r).active = "yes" /\ ListFilter(r).silent = "no"
    BY <1>2 DEF Matches, ListKind, HasRemoved, ListFilter, ResolveFilter, TierParams, Params,
            PublicParams, PlayerParams, ModParams
  <2>3. ActiveExpr(row, t, TRUE) = "T" /\ row.silent = "no"
    BY <2>2 DEF Selected, ActiveClause
  <2>4. InForce(item)
    BY <2>1, <2>3, SqlAndMapperAgree
  <2> QED
    BY <1>2, <2>1, <2>3, <2>4 DEF Item, Flag
<1>3. CASE r.tier = "mod"
  <2> SUFFICES ASSUME r.active = "no" PROVE ~ InForce(item)
    BY <1>3
  <2>1. ListFilter(r).active = "no" /\ ListKind(r) = r.kind
    BY <1>3 DEF ListFilter, ResolveFilter, TierParams, Params,
            PublicParams, PlayerParams, ModParams, ListKind
  <2>2. CASE row.type = "kick"
    BY <2>2 DEF InForce, Item
  <2>3. CASE row.type # "kick"
    <3>1. HasRemoved(ListKind(r)) = TRUE
      BY <2>1, <2>3 DEF Matches, Reads, HasRemoved
    <3>2. ActiveClause(row, "no", t, TRUE) = "T"
      BY <2>1, <3>1 DEF Matches, Selected
    <3> QED
      BY <3>2, InactiveListHonest
  <2> QED
    BY <2>2, <2>3
<1>4. CASE r.tier = "player"
  <2> SUFFICES ASSUME r.caller # Null PROVE item.player = r.caller
    BY <1>4
  <2>1. ListFilter(r).player = r.caller
    BY <1>4 DEF ListFilter, ResolveFilter, TierParams, Params,
            PublicParams, PlayerParams, ModParams
  <2>2. row.uuid = r.caller
    BY <2>1 DEF Matches, Selected
  <2> QED
    BY <2>2 DEF Item
<1> QED
  BY <1>1, <1>2, <1>3, <1>4 DEF Request

LEMMA InvImpliesLists == IInv => ListShowsWhatWasAsked
<1> SUFFICES ASSUME IInv, Listed, NEW i \in DOMAIN items
             PROVE  /\ req.tier = "public" =>
                          items[i].type = "ban" /\ InForce(items[i]) /\ items[i].silent = "no"
                    /\ req.tier = "mod" /\ req.active = "no" => ~ InForce(items[i])
                    /\ req.tier = "player" => items[i].player = req.caller
  BY DEF ListShowsWhatWasAsked
<1>1. i \in DOMAIN rows /\ rows[i] \in Row /\ stamp \in Nat /\ req \in Requests
  BY DEF IInv, TypeOK, ItemsMapped, Listed, Accepted
<1>2. Matches(req, rows[i], stamp)
  BY <1>1 DEF IInv, RowsAsked, Listed
<1>3. items[i] = Item(rows[i], stamp, NamePtr(nameMap, rows[i].uuid), items[i].moderator)
  BY DEF IInv, ItemsMapped
<1>4. req.tier = "player" => req.caller # Null
  BY DEF IInv, Accepted, Listed, Refusal
<1> QED
  BY <1>1, <1>2, <1>3, <1>4, SelectedShows

(* Every public list shows only bans in force and not silent, every         *)
(* active=false list only items out of force, every player's list only his. *)
THEOREM ListsHonest == Spec => []ListShowsWhatWasAsked
BY Invariance, InvImpliesLists, PTL

LEMMA InvImpliesOneName == IInv => OneNamePerPlayer
<1> SUFFICES ASSUME IInv, NEW i \in DOMAIN items, NEW j \in DOMAIN items,
                    items[i].player = items[j].player
             PROVE  items[i].name = items[j].name
  BY DEF OneNamePerPlayer
<1>1. \A k \in DOMAIN items :
         /\ rows[k] \in Row
         /\ items[k].player = IF rows[k].uuid = Null THEN Empty ELSE rows[k].uuid
         /\ items[k].name = NamePtr(nameMap, rows[k].uuid)
  BY DEF IInv, TypeOK, ItemsMapped, Item
<1>2. \A k \in DOMAIN items : rows[k].uuid # Empty
  BY <1>1, DataAssumption DEF Row
<1>3. rows[i].uuid = rows[j].uuid
  BY <1>1, <1>2
<1> QED
  BY <1>1, <1>3

(* A page never shows one player under two names.                           *)
THEOREM OneName == Spec => []OneNamePerPlayer
BY Invariance, InvImpliesOneName, PTL

LEMMA InvImpliesDetail == IInv => DetailCoversList
<1> SUFFICES ASSUME IInv, phase = "done", status = "404", rows # << >>,
                    req.tier = "player" => req.caller # Null,
                    Matches(req, rows[1], stamp)
             PROVE  FALSE
  BY DEF DetailCoversList
<1>1. items # << >> /\ ~ DetailVisible(req, items[1])
  BY DEF IInv, HiddenOnly
<1>2. 1 \in DOMAIN items
  BY <1>1 DEF IInv, TypeOK
<1>3. /\ rows[1] \in Row /\ stamp \in Nat /\ req \in Requests
      /\ items[1] = Item(rows[1], stamp, NamePtr(nameMap, rows[1].uuid), items[1].moderator)
  BY <1>2 DEF IInv, TypeOK, ItemsMapped, Accepted
<1>4. /\ req.tier = "public" => items[1].type = "ban" /\ InForce(items[1])
      /\ req.tier = "player" => items[1].player = req.caller
  BY <1>3, SelectedShows
<1>5. req.tier \in {"public", "player", "mod"}
  BY <1>3, RequestsAssumption DEF Request
<1> QED
  BY <1>1, <1>4, <1>5 DEF DetailVisible, PublicDetail, PlayerDetail, ActiveBan, InForce

(* What a tier's list shows, its by-id endpoint does not hide.              *)
THEOREM DetailCovers == Spec => []DetailCoversList
BY Invariance, InvImpliesDetail, PTL

-----------------------------------------------------------------------------
(* The count still holds when the list query runs, if nothing was written   *)
(* since.                                                                   *)
CountFresh ==
    /\ counted <= writes
    /\ phase = "list" /\ counted = writes => total = Cardinality(Chosen(req, stamp))

PageInv == CountFresh /\ PageAgreesWithTotal

(* LIMIT and OFFSET against the number of pages.                            *)
LEMMA PageArithmetic ==
  ASSUME NEW n \in Nat, NEW size \in Nat \ {0}, NEW page \in Nat \ {0}
  PROVE  LET offset == (page - 1) * size
             length == IF n <= offset THEN 0
                       ELSE IF n - offset < size THEN n - offset ELSE size
             last   == TotalPages(n, size)
         IN  /\ length \in Nat
             /\ page < last => length = size
             /\ page = last => length = n - (last - 1) * size
             /\ page > last => length = 0
<1> DEFINE q == n \div size
           r == n % size
           offset == (page - 1) * size
           last == TotalPages(n, size)
<1>1. q \in Nat /\ r \in 0 .. size - 1 /\ n = size * q + r
  OBVIOUS
<1>2. last = IF r # 0 THEN q + 1 ELSE q
  BY <1>1 DEF TotalPages
<1> HIDE DEF q, r, last
<1>3. \A a, b, c \in Nat : a <= b => a * c <= b * c
  OBVIOUS
<1>4. offset \in Nat /\ page * size = offset + size /\ (q + 1) * size = q * size + size
  <2>1. \A a, b \in Nat : a * b \in Nat
    OBVIOUS
  <2>2. page - 1 \in Nat
    OBVIOUS
  <2> QED
    BY <1>1, <2>1, <2>2
<1>5. CASE page <= q
  <2>1. page * size <= q * size
    BY <1>1, <1>3, <1>5
  <2> HIDE DEF offset
  <2>2. offset + size <= n
    BY <1>1, <1>4, <2>1
  <2>3. page = last => offset + size = n
    BY <1>1, <1>2, <1>4, <1>5
  <2>4. (last - 1) * size = offset \/ page # last
    BY DEF offset
  <2>5. page <= last
    BY <1>1, <1>2, <1>5
  <2> QED
    BY <1>1, <1>2, <1>4, <2>2, <2>3, <2>4, <2>5 DEF offset, last
<1>6. CASE page = q + 1
  <2>1. offset = q * size
    BY <1>1, <1>6
  <2> QED
    BY <1>1, <1>2, <1>4, <1>6, <2>1 DEF offset, last
<1>7. CASE page > q + 1
  <2>1. (q + 1) * size <= (page - 1) * size
    BY <1>1, <1>3, <1>7
  <2>2. n <= offset
    BY <1>1, <1>4, <2>1
  <2>3. page > last
    BY <1>1, <1>2, <1>7
  <2>4. last \in Nat
    BY <1>1, <1>2
  <2>5. ~ (page < last) /\ page # last
    BY <2>3, <2>4
  <2> QED
    BY <1>4, <2>2, <2>5 DEF offset, last
<1> QED
  BY <1>1, <1>5, <1>6, <1>7

LEMMA PageStep == IInv /\ PageInv /\ [Next]_vars => PageInv'
<1> SUFFICES ASSUME IInv, PageInv, [Next]_vars PROVE PageInv'
  OBVIOUS
<1> USE DEF PageInv, CountFresh
<1>1. counted \in Nat /\ writes \in Nat
  BY DEF IInv, TypeOK
<1>2. ASSUME Write, UNCHANGED reqVars PROVE PageInv'
  BY <1>1, <1>2 DEF Write, reqVars, PageAgreesWithTotal
<1>3. ASSUME Tick \/ UNCHANGED vars PROVE PageInv'
  <2>1. UNCHANGED <<db, writes>> /\ UNCHANGED reqVars
    BY <1>3 DEF Tick, vars, dbVars
  <2>2. Chosen(req, stamp)' = Chosen(req, stamp)
    BY <2>1 DEF Chosen, reqVars
  <2> QED
    BY <2>1, <2>2 DEF reqVars, PageAgreesWithTotal
<1>4. ASSUME \/ \E r \in Requests : Refuse(r) \/ StartList(r) \/ StartDetail(r)
             \/ FetchRow
      PROVE PageInv'
  BY <1>1, <1>4 DEF Refuse, StartList, StartDetail, FetchRow, Respond, dbVars,
                    PageAgreesWithTotal
<1>5. ASSUME NamesQuery \/ MapRow \/ Finish \/ QueryFails \/ Deliver PROVE PageInv'
  BY <1>1, <1>5 DEF NamesQuery, MapRow, Finish, QueryFails, Deliver, Respond, dbVars,
                    PageAgreesWithTotal
<1>6. ASSUME Stamp PROVE PageInv'
  <2>1. req.endpoint = "detail" /\ UNCHANGED <<req, counted, writes>> /\ phase' = "names"
    BY <1>6 DEF Stamp, dbVars, IInv, Accepted
  <2> QED
    BY <2>1 DEF PageAgreesWithTotal
<1>7. ASSUME CountQuery PROVE PageInv'
  <2>1. Chosen(req, stamp)' = Chosen(req, stamp)
    BY <1>7 DEF CountQuery, Chosen, dbVars
  <2> QED
    BY <1>1, <1>7, <2>1 DEF CountQuery, dbVars, PageAgreesWithTotal
<1>8. ASSUME ListQuery PROVE PageInv'
  <2> DEFINE S == Chosen(req, stamp)
             page == ResolvedPage(req.page)
             size == ResolvedPageSize(req.pageSize)
             offset == Offset(page, size)
             last == TotalPages(total, size)
  <2>1. /\ phase = "list" /\ phase' = "names" /\ UNCHANGED <<req, stamp, total, counted>>
        /\ UNCHANGED <<db, writes>>
    BY <1>8 DEF ListQuery, dbVars
  <2>2. CASE counted # writes
    BY <2>1, <2>2 DEF PageAgreesWithTotal
  <2>3. CASE counted = writes
    <3>1. IsFiniteSet(S)
      BY FS_Subset DEF Chosen, IInv, TypeOK
    <3>2. total = Cardinality(S) /\ total \in Nat
      BY <2>1, <2>3, <3>1, FS_CardinalityType
    <3>3. page \in Nat \ {0} /\ size \in Nat \ {0}
      <4>1. req \in Requests /\ req.endpoint = "list" /\ Refusal(req) = "none"
        BY <2>1 DEF IInv, Accepted
      <4> QED
        BY <4>1, PagePositive
    <3>4. PICK s \in SetToSeqs(S) : rows' = Window(s, offset, size)
      BY <1>8 DEF ListQuery, Orderings
    <3>5. Len(s) = total
      BY <3>2, <3>4 DEF SetToSeqs
    <3> DEFINE length == IF total <= offset THEN 0
                         ELSE IF total - offset < size THEN total - offset ELSE size
    <3>6. /\ length \in Nat
          /\ page < last => length = size
          /\ page = last => length = total - (last - 1) * size
          /\ page > last => length = 0
      <4> HIDE DEF page, size
      <4> QED
        BY <3>2, <3>3, PageArithmetic DEF Offset
    <3>7. rows' = [i \in 1 .. length |-> db[s[offset + i]]]
      BY <3>4, <3>5 DEF Window
    <3>8. Len(rows') = length
      <4> HIDE DEF length
      <4> QED
        BY <3>6, <3>7
    <3>9. PageAgreesWithTotal'
      <4> HIDE DEF length
      <4> QED
        BY <2>1, <3>6, <3>8 DEF PageAgreesWithTotal
    <3> QED
      BY <2>1, <3>9
  <2> QED
    BY <2>2, <2>3
<1> QED
  BY <1>2, <1>3, <1>4, <1>5, <1>6, <1>7, <1>8 DEF Next, Insert, Lift, Rename

(* When nothing is written between the count and the page, the two agree,   *)
(* for any page size and any number of rows.                                *)
THEOREM PagesAgree == Spec => []PageAgreesWithTotal
<1>1. Init => PageInv
  BY DEF Init, PageInv, CountFresh, PageAgreesWithTotal
<1>2. IInv /\ PageInv /\ [Next]_vars => PageInv'
  BY PageStep
<1>3. PageInv => PageAgreesWithTotal
  BY DEF PageInv
<1> QED
  BY <1>1, <1>2, <1>3, Invariance, PTL DEF Spec

-----------------------------------------------------------------------------
(* Whatever the item of a row shows of the filter, the SQL condition is     *)
(* true of that row, and so selects it.                                     *)
LEMMA WantedSelected ==
  ASSUME NEW r \in Requests, NEW row \in Row, NEW t \in Nat, Wanted(r, row, t)
  PROVE  Matches(r, row, t)
<1> DEFINE h == HasRemoved(ListKind(r))
           choice == ListFilter(r).active
<1>1. r \in Request
  BY RequestsAssumption
<1>2. choice \in Choice
  BY <1>1, DataAssumption
  DEF ListFilter, ResolveFilter, TierParams, PublicParams, PlayerParams, ModParams, Params,
      Request, Choice
<1>3. DOMAIN ListFilter(r) = {"active", "silent", "player", "moderator", "before", "after"}
  BY DEF ListFilter, ResolveFilter, TierParams, PublicParams, PlayerParams, ModParams, Params
<1>4. Selected(row, [ListFilter(r) EXCEPT !.active = "any"], t, TRUE)
        /\ Shows(choice, row, t) /\ Reads(ListKind(r), row)
  BY DEF Wanted
<1>5. choice # "any" => ActiveClause(row, choice, t, h) = "T"
  <2>1. CASE row.type = "kick"
    BY <1>2, <1>4, <2>1 DEF Shows, InForce, Item, Choice
  <2>2. CASE row.type # "kick"
    <3>1. h
      BY <1>4, <2>2 DEF Reads, HasRemoved
    <3>2. h = TRUE
      BY <3>1 DEF HasRemoved
    <3>3. ActiveExpr(row, t, h) = "T" <=> InForce(Item(row, t, Null, Null))
      BY <2>2, <3>2, SqlAndMapperAgree
    <3> HIDE DEF h, choice
    <3>4. CASE choice = "yes"
      BY <1>4, <3>3, <3>4 DEF Shows, ActiveClause
    <3>5. CASE choice = "no"
      <4>1. row.active # "null" /\ ~ InForce(Item(row, t, Null, Null))
        BY <1>4, <3>5 DEF Shows
      <4>2. ActiveClause(row, "yes", t, h) # "T"
        BY <3>3, <4>1 DEF ActiveClause
      <4> QED
        BY <3>2, <3>5, <4>1, <4>2, ActivePartition
    <3> QED
      BY <1>2, <3>4, <3>5 DEF Choice
  <2> QED
    BY <2>1, <2>2
<1>6. Selected(row, ListFilter(r), t, h)
  <2> DEFINE f == ListFilter(r)
             g == [f EXCEPT !.active = "any"]
  <2>1. g.silent = f.silent /\ g.player = f.player /\ g.moderator = f.moderator
          /\ g.before = f.before /\ g.after = f.after
    OBVIOUS
  <2> HIDE DEF g, h
  <2>2. Selected(row, g, t, TRUE)
    BY <1>4 DEF g
  <2> HIDE DEF f
  <2>3. f.active # "any" => ActiveClause(row, f.active, t, h) = "T"
    BY <1>5 DEF f, choice
  <2>4. Selected(row, f, t, h)
    BY <2>1, <2>2, <2>3 DEF Selected
  <2> QED
    BY <2>4 DEF f
<1> QED
  BY <1>4, <1>6 DEF Matches

(* An ordering leaves out no row.                                           *)
LEMMA OrderingCovers ==
  ASSUME NEW S, IsFiniteSet(S), NEW s \in SetToSeqs(S), NEW i \in S
  PROVE  \E m \in 1 .. Len(s) : s[m] = i
<1> DEFINE n == Cardinality(S)
<1>1. n \in Nat /\ IsFiniteSet(1 .. n) /\ Cardinality(1 .. n) = n
  <2>1. n \in Nat
    BY FS_CardinalityType
  <2> QED
    BY <2>1, FS_Interval
<1>2. IsFiniteSet(S \ {i}) /\ Cardinality(S \ {i}) = n - 1
  BY FS_RemoveElement
<1>3. /\ s \in [1 .. n -> S]
      /\ \A a, b \in 1 .. n : a # b => s[a] # s[b]
  BY DEF SetToSeqs
<1> HIDE DEF n
<1>4. Len(s) = n
  BY <1>1, <1>3
<1> SUFFICES ASSUME \A m \in 1 .. n : s[m] # i PROVE FALSE
  BY <1>4
<1>5. s \in [1 .. n -> S \ {i}]
  BY <1>3
<1>6. Cardinality(S \ {i}) < Cardinality(1 .. n)
  BY <1>1, <1>2
<1>7. \E a, b \in 1 .. n : a # b /\ s[a] = s[b]
  BY <1>1, <1>2, <1>5, <1>6, FS_PigeonHole
<1> QED
  BY <1>3, <1>7

(* The first page of an ordering: a chosen row is on it, or it is full of   *)
(* rows no older.                                                           *)
LEMMA FirstWindow ==
  ASSUME TypeOK, NEW S, S \subseteq DOMAIN db, IsFiniteSet(S), NEW s \in Orderings(S),
         NEW size \in Nat, NEW i \in S
  PROVE  LET w == Window(s, 0, size)
         IN  \/ \E j \in 1 .. Len(w) : w[j] = db[i]
             \/ Len(w) = size /\ \A j \in 1 .. Len(w) : w[j].time >= db[i].time
<1>1. /\ s \in SetToSeqs(S)
      /\ \A a, b \in DOMAIN s : a < b => db[s[a]].time >= db[s[b]].time
  BY DEF Orderings
<1>2. PICK m \in 1 .. Len(s) : s[m] = i
  BY <1>1, OrderingCovers
<1>3. Len(s) \in Nat /\ DOMAIN s = 1 .. Len(s)
  <2>1. Cardinality(S) \in Nat
    BY FS_CardinalityType
  <2> QED
    BY <1>1, <2>1 DEF SetToSeqs
<1> DEFINE length == IF Len(s) <= 0 THEN 0 ELSE IF Len(s) - 0 < size THEN Len(s) - 0 ELSE size
           w == [j \in 1 .. length |-> db[s[0 + j]]]
<1>4. length \in Nat /\ (m <= length \/ length = size) /\ length <= Len(s)
  <2> DEFINE n == Len(s)
  <2>1. n \in Nat /\ m \in 1 .. n /\ size \in Nat
    BY <1>3
  <2> HIDE DEF n
  <2>2. LET k == IF n <= 0 THEN 0 ELSE IF n - 0 < size THEN n - 0 ELSE size
        IN  k \in Nat /\ (m <= k \/ k = size) /\ k <= n
    BY <2>1
  <2> QED
    BY <2>2 DEF n
<1> HIDE DEF length
<1>5. Window(s, 0, size) = w /\ Len(w) = length /\ \A j \in 1 .. length : w[j] = db[s[j]]
  BY <1>4 DEF Window, length
<1> HIDE DEF w
<1>6. CASE m <= length
  BY <1>2, <1>4, <1>5, <1>6
<1>7. CASE ~ (m <= length)
  <2>1. \A j \in 1 .. length : j \in DOMAIN s /\ m \in DOMAIN s /\ j < m
    BY <1>3, <1>4, <1>7
  <2>2. \A j \in 1 .. length : w[j].time >= db[i].time
    BY <1>1, <1>2, <1>5, <2>1
  <2> QED
    BY <1>4, <1>5, <1>7, <2>2
<1> QED
  BY <1>6, <1>7

FirstPageRead ==
    /\ phase \in {"names", "map"} \/ (phase = "done" /\ status = "200")
    /\ req.endpoint = "list" /\ ResolvedPage(req.page) = 1

(* What the page holds of the settled rows, from the list query on.         *)
OnPage ==
    /\ counted <= writes /\ stamp <= now
    /\ FirstPageRead =>
          \A i \in DOMAIN db :
             Settled(db[i]) /\ Wanted(req, db[i], stamp) => PlacedAmong(Len(rows), db[i])

(* A row that is settled after a write was there, and settled, before.      *)
LEMMA OnPageKept ==
  ASSUME OnPage, UNCHANGED reqVars, (counted <= writes /\ stamp <= now)',
         \A i \in DOMAIN db' :
            Settled(db[i])' => i \in DOMAIN db /\ db'[i] = db[i] /\ Settled(db[i])
  PROVE  OnPage'
<1>1. \A n, row : PlacedAmong(n, row)' <=> PlacedAmong(n, row)
  BY DEF PlacedAmong, reqVars
<1> QED
  BY <1>1 DEF OnPage, FirstPageRead, reqVars

LEMMA OnPageStep == IInv /\ OnPage /\ [Next]_vars => OnPage'
<1> SUFFICES ASSUME IInv, OnPage, [Next]_vars PROVE OnPage'
  OBVIOUS
<1>1. /\ counted \in Nat /\ writes \in Nat /\ stamp \in Nat /\ now \in Nat
      /\ counted <= writes /\ stamp <= now
  BY DEF IInv, TypeOK, OnPage
<1>2. ASSUME NEW i \in Ids, NEW t \in Templates, Insert(i, t) PROVE OnPage'
  <2>1. /\ writes' = writes + 1 /\ UNCHANGED <<now, stamp, counted>> /\ UNCHANGED reqVars
        /\ DOMAIN db' = DOMAIN db \cup {i} /\ i \notin DOMAIN db
        /\ \A j \in DOMAIN db : db'[j] = db[j]
        /\ db'[i] = [t EXCEPT !.time = now,
                              !.until = IF t.until <= 0 THEN t.until ELSE now + t.until]
    BY <1>2 DEF Insert, Write, reqVars
  <2>2. db'[i].time = now
    BY <2>1, RequestsAssumption DEF Row
  <2>3. counted' # writes' /\ ~ (now < stamp)
    BY <1>1, <2>1
  <2>4. \A j \in DOMAIN db' :
            Settled(db[j])' => j \in DOMAIN db /\ db'[j] = db[j] /\ Settled(db[j])
    BY <2>1, <2>2, <2>3 DEF Settled
  <2> QED
    BY <1>1, <2>1, <2>4, OnPageKept
<1>3. ASSUME NEW i \in Ids, NEW by \in Uuids, NEW bit \in Bits, Lift(i, by, bit) PROVE OnPage'
  <2>1. /\ writes' = writes + 1 /\ UNCHANGED <<now, stamp, counted>> /\ UNCHANGED reqVars
        /\ i \in DOMAIN db
        /\ db' = [db EXCEPT ![i] = [db[i] EXCEPT !.removedBy = by, !.active = bit]]
    BY <1>3 DEF Lift, Write, reqVars
  <2>2. ExplicitlyRemoved(db'[i])
    <3>1. db[i] \in Row
      BY <2>1 DEF IInv, TypeOK
    <3>2. db'[i].removedBy = by
      BY <2>1, <3>1 DEF Row
    <3> QED
      BY <3>2, DataAssumption DEF ExplicitlyRemoved
  <2>3. counted' # writes'
    BY <1>1, <2>1
  <2>4. DOMAIN db' = DOMAIN db /\ \A j \in DOMAIN db \ {i} : db'[j] = db[j]
    BY <2>1
  <2>5. \A j \in DOMAIN db' :
            Settled(db[j])' => j \in DOMAIN db /\ db'[j] = db[j] /\ Settled(db[j])
    BY <2>1, <2>2, <2>3, <2>4 DEF Settled
  <2> QED
    BY <1>1, <2>1, <2>5, OnPageKept
<1>4. ASSUME NEW u \in Uuids, NEW n \in Names, Rename(u, n) PROVE OnPage'
  <2>1. writes' = writes + 1 /\ UNCHANGED <<now, db, stamp, counted>> /\ UNCHANGED reqVars
    BY <1>4 DEF Rename, Write, reqVars
  <2>2. counted' # writes'
    BY <1>1, <2>1
  <2> QED
    BY <1>1, <2>1, <2>2, OnPageKept DEF Settled
<1>5. CASE Tick \/ UNCHANGED vars
  <2>1. /\ now' \in {now, now + 1}
        /\ UNCHANGED <<db, writes, stamp, counted>> /\ UNCHANGED reqVars
    BY <1>5 DEF Tick, vars, dbVars, reqVars
  <2> QED
    BY <1>1, <2>1, OnPageKept DEF Settled
<1>6. ASSUME \/ \E r \in Requests : Refuse(r) \/ StartList(r) \/ StartDetail(r)
             \/ CountQuery \/ FetchRow \/ QueryFails \/ Deliver
      PROVE  OnPage'
  <2>1. /\ counted' \in {counted, writes, 0} /\ stamp' \in {stamp, now, 0}
        /\ UNCHANGED <<now, writes>>
    BY <1>6 DEF Refuse, StartList, StartDetail, CountQuery, FetchRow, QueryFails, Deliver, dbVars
  <2>2. /\ phase' \in {"idle", "count", "list", "fetch", "stamp", "done"}
        /\ phase' = "done" => status' # "200"
    BY <1>6 DEF Refuse, StartList, StartDetail, CountQuery, FetchRow, QueryFails, Deliver, Respond,
                Refusal
  <2> QED
    BY <1>1, <2>1, <2>2 DEF OnPage, FirstPageRead
<1>7. CASE Stamp
  <2>1. /\ UNCHANGED <<counted, now, writes, req>> /\ stamp' = now /\ req.endpoint = "detail"
    BY <1>7 DEF Stamp, dbVars, IInv, Accepted
  <2> QED
    BY <1>1, <2>1 DEF OnPage, FirstPageRead
<1>8. CASE ListQuery
  <2> DEFINE S == Chosen(req, stamp)
             size == ResolvedPageSize(req.pageSize)
  <2>1. /\ phase = "list" /\ UNCHANGED <<req, stamp, counted, now, db, writes>>
        /\ req \in Requests /\ req.endpoint = "list" /\ Refusal(req) = "none"
    BY <1>8 DEF ListQuery, dbVars, IInv, Accepted
  <2>2. IsFiniteSet(S) /\ S \subseteq DOMAIN db /\ TypeOK
    BY FS_Subset DEF Chosen, IInv, TypeOK
  <2>3. PICK s \in Orderings(S) : rows' = Window(s, Offset(ResolvedPage(req.page), size), size)
    BY <1>8 DEF ListQuery
  <2>4. size \in Nat
    BY <2>1, PageNat
  <2> SUFFICES ASSUME ResolvedPage(req.page) = 1, NEW i \in DOMAIN db, Wanted(req, db[i], stamp)
               PROVE  PlacedAmong(Len(rows), db[i])'
    BY <1>1, <2>1 DEF OnPage, FirstPageRead
  <2>5. i \in S
    BY <2>1, WantedSelected DEF Chosen, IInv, TypeOK
  <2>6. rows' = Window(s, 0, size)
    <3> HIDE DEF size
    <3>1. Offset(1, size) = 0
      BY <2>4 DEF Offset
    <3> QED
      BY <2>3, <3>1
  <2> HIDE DEF S, size
  <2>7. \/ \E j \in 1 .. Len(rows') : rows'[j] = db[i]
        \/ Len(rows') = size /\ \A j \in 1 .. Len(rows') : rows'[j].time >= db[i].time
    BY <2>2, <2>4, <2>5, <2>6, FirstWindow
  <2> QED
    BY <2>1, <2>7 DEF PlacedAmong, size
<1>9. ASSUME NamesQuery \/ MapRow \/ Finish PROVE OnPage'
  <2>1. /\ UNCHANGED <<req, stamp, counted, rows, now, db, writes>>
        /\ phase \in {"names", "map"}
    BY <1>9 DEF NamesQuery, MapRow, Finish, dbVars
  <2>2. \A n, row : /\ PlacedAmong(n, row)' <=> PlacedAmong(n, row)
                    /\ Settled(row)' <=> Settled(row)
    BY <2>1 DEF PlacedAmong, Settled
  <2> QED
    BY <2>1, <2>2 DEF OnPage, FirstPageRead
<1> QED
  BY <1>2, <1>3, <1>4, <1>5, <1>6, <1>7, <1>8, <1>9 DEF Next

(* No row a client asked for that was settled while the request ran is      *)
(* missing from the first page, whatever is NULL in it, for any table, page *)
(* size and order of writes and queries.                                    *)
THEOREM ListsComplete == Spec => []NothingWithheld
<1>1. Init => OnPage
  BY DEF Init, OnPage, FirstPageRead
<1>2. IInv /\ OnPage /\ [Next]_vars => OnPage'
  BY OnPageStep
<1>3. IInv /\ OnPage => NothingWithheld
  BY DEF IInv, AllOrNothing, OnPage, FirstPageRead, NothingWithheld, Listed
<1> QED
  BY <1>1, <1>2, <1>3, Invariance, PTL DEF Spec
=============================================================================
