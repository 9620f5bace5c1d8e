------------------------- MODULE PlayerLookupProofs -------------------------
(***************************************************************************)
(* PlayerLookup, for every history, request and number of joins: an answer *)
(* is the history of one moment of the request, and an absence is true.    *)
(***************************************************************************)
EXTENDS PlayerLookup, TLAPS

LEMMA InvInit == Init => IInv
<1> SUFFICES ASSUME Init PROVE IInv
  OBVIOUS
<1>1. TypeOK
  BY DEF Init, TypeOK, NameMap
<1> QED
  BY <1>1 DEF Init, IInv, InStep, OneMoment, NotFoundTruthful, Known, Answered

(* A join comes after the others: what the history was, it remains.         *)
LEMMA PastKept ==
  ASSUME TypeOK, NEW v \in Uuids, NEW m \in JoinNames, Join(v, m)
  PROVE  /\ Known \in Nat /\ Known' = Known + 1 /\ history' \in Seq(Joins)
         /\ \A k \in 0 .. Known :
               /\ \A u : JoinsOf(k, u)' = JoinsOf(k, u)
               /\ \A n : JoinsAs(k, n)' = JoinsAs(k, n)
               /\ \A rows : rows \subseteq 1 .. k => Newest(rows)' = Newest(rows)
               /\ \A i \in 1 .. k : history'[i] = history[i]
<1>1. [uuid |-> v, name |-> m, date |-> now] \in Joins
  BY LookupAssumption DEF TypeOK, Joins
<1>2. /\ Known \in Nat /\ Known' = Known + 1 /\ history' \in Seq(Joins)
      /\ \A i \in 1 .. Known : history'[i] = history[i]
  BY <1>1 DEF Join, TypeOK, Known
<1>3. \A k \in 0 .. Known : \A i \in 1 .. k : history'[i] = history[i]
  BY <1>2
<1>4. ASSUME NEW k \in 0 .. Known
      PROVE  /\ \A u : JoinsOf(k, u)' = JoinsOf(k, u)
             /\ \A n : JoinsAs(k, n)' = JoinsAs(k, n)
             /\ \A rows : rows \subseteq 1 .. k => Newest(rows)' = Newest(rows)
  <2>1. \A u : JoinsOf(k, u)' = JoinsOf(k, u)
    BY <1>3 DEF JoinsOf
  <2>2. \A n : JoinsAs(k, n)' = JoinsAs(k, n)
    BY <1>3 DEF JoinsAs, Same
  <2>3. ASSUME NEW rows, rows \subseteq 1 .. k PROVE Newest(rows)' = Newest(rows)
    BY <1>3, <2>3 DEF Newest
  <2> QED
    BY <2>1, <2>2, <2>3
<1> QED
  BY <1>2, <1>3, <1>4

(* Where the rows of a query lie. *)
LEMMA RowsBelow ==
  /\ \A k, u : JoinsOf(k, u) \subseteq 1 .. k
  /\ \A k, n : JoinsAs(k, n) \subseteq 1 .. k
  /\ \A rows : Newest(rows) \subseteq rows
BY DEF JoinsOf, JoinsAs, Newest

(* What was current as of the k-th join stays so.                           *)
LEMMA CurrentKept ==
  ASSUME TypeOK, NEW v \in Uuids, NEW m \in JoinNames, Join(v, m), UNCHANGED req,
         NEW k \in 0 .. Known, NEW u, NEW n, CurrentAt(k, u, n)
  PROVE  CurrentAt(k, u, n)'
<1>1. /\ JoinsOf(k, u)' = JoinsOf(k, u) /\ JoinsAs(k, n)' = JoinsAs(k, n)
      /\ Newest(JoinsOf(k, u))' = Newest(JoinsOf(k, u))
      /\ Newest(JoinsAs(k, n))' = Newest(JoinsAs(k, n))
      /\ \A i \in 1 .. k : history'[i] = history[i]
  <2>1. JoinsOf(k, u) \subseteq 1 .. k /\ JoinsAs(k, n) \subseteq 1 .. k
    BY RowsBelow
  <2>2. JoinsOf(k, u)' = JoinsOf(k, u) /\ JoinsAs(k, n)' = JoinsAs(k, n)
        /\ \A i \in 1 .. k : history'[i] = history[i]
    BY PastKept
  <2>3. \A i \in JoinsOf(k, u) \cup JoinsAs(k, n) : history'[i] = history[i]
    BY <2>1, <2>2
  <2> QED
    BY <2>2, <2>3 DEF Newest
<1>2. \A i \in Newest(JoinsOf(k, u)) \cup Newest(JoinsAs(k, n)) : history'[i] = history[i]
  BY <1>1, RowsBelow
<1>3. ByName(req)' = ByName(req)
  BY DEF ByName
<1> QED
  BY <1>1, <1>2, <1>3 DEF CurrentAt

(* The plugin writes while a request is in flight. *)
LEMMA JoinStep ==
  ASSUME IInv, NEW v \in Uuids, NEW m \in JoinNames, Join(v, m)
  PROVE  IInv'
<1>1. /\ Known \in Nat /\ Known' = Known + 1 /\ history' \in Seq(Joins)
      /\ \A k \in 0 .. Known :
            /\ \A u : JoinsOf(k, u)' = JoinsOf(k, u)
            /\ \A n : JoinsAs(k, n)' = JoinsAs(k, n)
  BY PastKept DEF IInv
<1>2. UNCHANGED lookupVars /\ UNCHANGED now
  BY DEF Join
<1>3. TypeOK'
  BY <1>1, <1>2 DEF IInv, TypeOK, NameMap, lookupVars
<1>4. InStep'
  BY <1>1, <1>2 DEF IInv, TypeOK, InStep, lookupVars, Answered
<1>5. OneMoment'
  <2> SUFFICES ASSUME phase = "scan" \/ Answered
               PROVE  (\E k \in began .. Known :
                         /\ \A u \in DOMAIN pending : CurrentAt(k, u, pending[u])
                         /\ \A u \in DOMAIN players : CurrentAt(k, u, players[u])
                         /\ req.op = "batch" =>
                               {u \in Asked(req) : JoinsOf(k, u) # {}}
                                  = DOMAIN pending \cup DOMAIN players)'
    BY <1>2 DEF OneMoment, Answered, lookupVars
  <2>1. PICK k \in began .. Known :
            /\ \A u \in DOMAIN pending : CurrentAt(k, u, pending[u])
            /\ \A u \in DOMAIN players : CurrentAt(k, u, players[u])
            /\ req.op = "batch" =>
                  {u \in Asked(req) : JoinsOf(k, u) # {}} = DOMAIN pending \cup DOMAIN players
    BY DEF IInv, OneMoment
  <2>2. k \in 0 .. Known /\ k \in began .. Known' /\ UNCHANGED <<req, pending, players, began>>
    BY <1>1, <1>2 DEF IInv, TypeOK, lookupVars
  <2>3. /\ \A u \in DOMAIN pending : CurrentAt(k, u, pending[u])'
        /\ \A u \in DOMAIN players : CurrentAt(k, u, players[u])'
    <3>1. TypeOK /\ UNCHANGED req
      BY <2>2 DEF IInv
    <3>2. ASSUME NEW u, NEW n, CurrentAt(k, u, n) PROVE (CurrentAt(k, u, n))'
      BY <2>2, <3>1, <3>2, CurrentKept
    <3> QED
      BY <2>1, <2>2, <3>2
  <2>4. \A u : JoinsOf(k, u)' = JoinsOf(k, u)
    BY <1>1, <2>2
  <2>5. req.op = "batch" =>
           {u \in Asked(req)' : JoinsOf(k, u)' # {}} = DOMAIN pending' \cup DOMAIN players'
    BY <2>1, <2>2, <2>4 DEF Asked
  <2> QED
    BY <2>2, <2>3, <2>5
<1>6. NotFoundTruthful'
  <2>1. began \in 0 .. Known /\ UNCHANGED <<req, status, began>>
    BY <1>1, <1>2 DEF IInv, TypeOK, InStep, lookupVars
  <2>2. /\ \A u : JoinsOf(began, u)' = JoinsOf(began, u)
        /\ \A n : JoinsAs(began, n)' = JoinsAs(began, n)
    BY <1>1, <2>1
  <2> QED
    BY <2>1, <2>2 DEF IInv, NotFoundTruthful, ByName, NameOf, UuidOf, NormalizeUUID
<1> QED
  BY <1>3, <1>4, <1>5, <1>6 DEF IInv

(* Time passes, and a request comes in.                                     *)
LEMMA BeginStep ==
  ASSUME IInv, Tick \/ \E r \in Requests : Refuse(r) \/ Start(r)
  PROVE  IInv'
<1> USE DEF IInv
<1>1. CASE Tick
  <2>1. UNCHANGED <<history, req, phase, pending, players, status, began>>
        /\ now' \in Nat
    BY <1>1 DEF Tick, lookupVars, TypeOK
  <2>2. TypeOK'
    BY <2>1 DEF TypeOK, NameMap
  <2>3. InStep'
    BY <2>1 DEF InStep, Answered, Known
  <2>4. /\ \A k, u, n : CurrentAt(k, u, n)' <=> CurrentAt(k, u, n)
        /\ \A k, u : JoinsOf(k, u)' = JoinsOf(k, u)
        /\ Known' = Known /\ (Answered' <=> Answered)
    BY <2>1 DEF CurrentAt, JoinsOf, JoinsAs, Newest, Known, Answered
  <2>5. OneMoment'
    BY <2>1, <2>4 DEF OneMoment
  <2>6. NotFoundTruthful'
    BY <2>1
    DEF NotFoundTruthful, Known, CurrentAt, JoinsOf, JoinsAs, Newest, ByName, NameOf, UuidOf, Asked
  <2> QED
    BY <2>2, <2>3, <2>5, <2>6
<1>2. ASSUME NEW r \in Requests, Refuse(r) \/ Start(r) PROVE IInv'
  <2>1. /\ phase = "idle" /\ req' = r /\ began' = Known /\ Known' = Known /\ Known \in Nat
        /\ pending' = pending /\ pending = << >> /\ players' = players /\ players = << >>
        /\ UNCHANGED <<now, history>> /\ status = "none"
        /\ \/ phase' = "done" /\ status' = "400"
           \/ phase' = "query" /\ status' = status /\ ~ Refused(r)
    BY <1>2 DEF Refuse, Start, Begin, Respond, InStep, Known, TypeOK
  <2>2. TypeOK'
    BY <2>1 DEF TypeOK, NameMap
  <2>3. InStep'
    BY <2>1 DEF InStep, Answered
  <2>4. OneMoment' /\ NotFoundTruthful'
    BY <2>1 DEF OneMoment, NotFoundTruthful, Answered
  <2> QED
    BY <2>2, <2>3, <2>4
<1> QED
  BY <1>1, <1>2

(* Nothing was asked of the history, or nothing came of it.                 *)
LEMMA EndStep ==
  ASSUME IInv, Alias \/ QueryFails \/ Deliver
  PROVE  IInv'
<1> USE DEF IInv
<1>1. CASE Alias
  <2>1. /\ phase = "query" /\ phase' = "done" /\ status' = "200" /\ ByName(req)
        /\ UNCHANGED <<now, history, req, pending, players, began>>
        /\ pending = << >> /\ players = << >> /\ Known' = Known
    BY <1>1 DEF Alias, Respond, InStep, Known
  <2>2. TypeOK' /\ InStep' /\ NotFoundTruthful'
    BY <2>1 DEF TypeOK, NameMap, InStep, NotFoundTruthful, Answered
  <2>3. OneMoment'
    <3>1. Known \in began .. Known /\ DOMAIN pending = {} /\ DOMAIN players = {}
      BY <2>1 DEF InStep, TypeOK, Known
    <3>2. req.op # "batch"
      BY <2>1 DEF ByName
    <3> QED
      BY <2>1, <3>1, <3>2 DEF OneMoment
  <2> QED
    BY <2>2, <2>3
<1>2. CASE QueryFails
  <2>1. /\ phase \in {"query", "scan"} /\ phase' = "done" /\ status' = "503"
        /\ pending' = << >> /\ players' = << >> /\ Known' = Known
        /\ UNCHANGED <<now, history, req, began>>
    BY <1>2 DEF QueryFails, Respond, Known
  <2> QED
    BY <2>1 DEF TypeOK, NameMap, InStep, OneMoment, NotFoundTruthful, Answered
<1>3. CASE Deliver
  <2>1. /\ phase = "done" /\ phase' = "idle" /\ status' = "none" /\ req' = None /\ began' = 0
        /\ players' = << >> /\ pending' = pending /\ pending = << >>
        /\ Known' = Known /\ Known \in Nat /\ UNCHANGED <<now, history>>
    BY <1>3 DEF Deliver, InStep, Known, TypeOK
  <2> QED
    BY <2>1 DEF TypeOK, NameMap, InStep, OneMoment, NotFoundTruthful, Answered
<1> QED
  BY <1>1, <1>2, <1>3

(* One lookup: the newest row there is now, or none at all.                 *)
LEMMA QueryOneStep ==
  ASSUME IInv, QueryOne
  PROVE  IInv'
<1> USE DEF IInv
<1> DEFINE rows == IF ByName(req) THEN JoinsAs(Known, NameOf(req)) ELSE JoinsOf(Known, UuidOf(req))
<1>1. /\ phase = "query" /\ req.op = "lookup" /\ Found(rows)
      /\ ByName(req) => NameOf(req) \notin ConsoleAliases
      /\ UNCHANGED <<now, history, req, pending, began>>
      /\ pending = << >> /\ players = << >> /\ Known' = Known
      /\ Known \in Nat /\ began \in Nat /\ began <= Known /\ ~ Refused(req)
      /\ req \in Requests
  BY DEF QueryOne, InStep, Known, TypeOK
<1>2. rows \subseteq 1 .. Known
  BY RowsBelow
<1>3. CASE rows = {} /\ Respond("404") /\ UNCHANGED players
  <2>1. phase' = "done" /\ status' = "404" /\ players' = players
    BY <1>3 DEF Respond
  <2>2. IF ByName(req) THEN JoinsAs(began, NameOf(req)) = {} ELSE JoinsOf(began, UuidOf(req)) = {}
    BY <1>1, <1>3 DEF JoinsAs, JoinsOf
  <2>3. NotFoundTruthful'
    BY <1>1, <2>1, <2>2 DEF NotFoundTruthful, JoinsAs, JoinsOf, ByName, NameOf, UuidOf
  <2>4. TypeOK' /\ InStep' /\ OneMoment'
    BY <1>1, <2>1 DEF TypeOK, NameMap, InStep, OneMoment, Answered
  <2> QED
    BY <2>3, <2>4
<1>4. ASSUME NEW i \in Newest(rows),
             players' = [u \in {history[i].uuid} |->
                            IF ByName(req) THEN NameOf(req) ELSE history[i].name],
             Respond("200")
      PROVE  IInv'
  <2>1. phase' = "done" /\ status' = "200"
    BY <1>4 DEF Respond
  <2>2. i \in 1 .. Known /\ history[i] \in Joins /\ i \in rows
    BY <1>2, RowsBelow DEF TypeOK, Known
  <2>3. ByName(req) => NameOf(req) \in Names
    <3>1. req \in Lookup
      BY <1>1, LookupAssumption DEF Batch
    <3> QED
      BY <3>1 DEF ByName, NameOf, Lookup
  <2>4. TypeOK'
    BY <1>1, <1>4, <2>1, <2>2, <2>3 DEF TypeOK, NameMap, Joins
  <2>5. InStep' /\ NotFoundTruthful'
    BY <1>1, <2>1 DEF InStep, NotFoundTruthful, Answered
  <2>6. CurrentAt(Known, history[i].uuid, IF ByName(req) THEN NameOf(req) ELSE history[i].name)
    <3>1. ~ ByName(req) => history[i].uuid = UuidOf(req)
      BY <2>2 DEF JoinsOf
    <3> QED
      BY <3>1 DEF CurrentAt
  <2>7. OneMoment'
    <3>1. \A u \in DOMAIN players' : CurrentAt(Known, u, players'[u])
      BY <1>4, <2>6
    <3>2. \A u \in DOMAIN players' : CurrentAt(Known, u, players[u])'
      BY <1>1, <3>1 DEF CurrentAt, JoinsOf, JoinsAs, Newest, ByName
    <3>3. Known \in (began .. Known)'
      BY <1>1
    <3> QED
      BY <1>1, <3>2, <3>3 DEF OneMoment
  <2> QED
    BY <2>4, <2>5, <2>7
<1> QED
  BY <1>1, <1>3, <1>4 DEF Found

(* The batch query: every name it returns is current now.                   *)
LEMMA QueryManyStep ==
  ASSUME IInv, QueryMany
  PROVE  IInv'
<1> USE DEF IInv
<1> DEFINE hits == {u \in Asked(req) : JoinsOf(Known, u) # {}}
<1>1. /\ phase = "query" /\ phase' = "scan" /\ req.op = "batch"
      /\ UNCHANGED <<now, history, req, players, status, began>>
      /\ players = << >> /\ Known' = Known /\ status = "none"
      /\ Known \in Nat /\ began \in Nat /\ began <= Known /\ ~ Refused(req)
  BY DEF QueryMany, InStep, Known, TypeOK
<1>2. /\ pending' \in [hits -> Names]
      /\ \A u \in hits : \E i \in Newest(JoinsOf(Known, u)) : pending'[u] = history[i].name
  BY DEF QueryMany
<1>3. hits \subseteq Uuids
  <2> SUFFICES ASSUME NEW u \in hits PROVE u \in Uuids
    OBVIOUS
  <2>1. PICK i : i \in 1 .. Known /\ history[i].uuid = u
    BY DEF JoinsOf
  <2>2. history[i] \in Joins
    BY <2>1 DEF TypeOK, Known
  <2> QED
    BY <2>1, <2>2 DEF Joins
<1> HIDE DEF hits
<1>4. TypeOK'
  BY <1>1, <1>2, <1>3 DEF TypeOK, NameMap
<1>5. InStep' /\ NotFoundTruthful'
  BY <1>1 DEF InStep, NotFoundTruthful, Answered
<1>6. OneMoment'
  <2>1. ~ ByName(req)
    BY <1>1 DEF ByName
  <2>2. \A u \in DOMAIN pending' : CurrentAt(Known, u, pending'[u])
    BY <1>2, <2>1 DEF CurrentAt
  <2>3. /\ \A u \in DOMAIN pending' : CurrentAt(Known, u, pending[u])'
        /\ {u \in Asked(req) : JoinsOf(Known, u) # {}}'
              = {u \in Asked(req) : JoinsOf(Known, u) # {}}
    BY <1>1, <2>2 DEF CurrentAt, JoinsOf, JoinsAs, Newest, ByName, Asked
  <2>4. {u \in Asked(req) : JoinsOf(Known, u) # {}} = DOMAIN pending'
    BY <1>2 DEF hits
  <2>5. Known \in (began .. Known)' /\ DOMAIN players' = {}
    BY <1>1
  <2> QED
    BY <1>1, <2>3, <2>4, <2>5 DEF OneMoment
<1> QED
  BY <1>4, <1>5, <1>6

(* A row moves from the result to the answer; the answer is complete when   *)
(* none is left.                                                            *)
LEMMA ScanStep ==
  ASSUME IInv, ScanRow \/ ScanEnds
  PROVE  IInv'
<1> USE DEF IInv
<1>1. /\ phase = "scan" /\ req.op = "batch" /\ ~ Refused(req) /\ Known' = Known
      /\ UNCHANGED <<now, history, req, began>> /\ status # "404"
  BY DEF ScanRow, ScanEnds, InStep, Known
<1>2. PICK k \in began .. Known :
          /\ \A u \in DOMAIN pending : CurrentAt(k, u, pending[u])
          /\ \A u \in DOMAIN players : CurrentAt(k, u, players[u])
          /\ {u \in Asked(req) : JoinsOf(k, u) # {}} = DOMAIN pending \cup DOMAIN players
  BY <1>1 DEF OneMoment
<1>3. /\ \A u, n : CurrentAt(k, u, n) => CurrentAt(k, u, n)'
      /\ {u \in Asked(req) : JoinsOf(k, u) # {}}' = {u \in Asked(req) : JoinsOf(k, u) # {}}
      /\ k \in (began .. Known)'
  BY <1>1 DEF CurrentAt, JoinsOf, JoinsAs, Newest, ByName, Asked
<1>4. CASE ScanRow
  <2>1. PICK u \in DOMAIN pending :
            /\ players' = With(players, u, pending[u]) /\ pending' = Without(pending, u)
            /\ UNCHANGED <<phase, status>>
    BY <1>4 DEF ScanRow
  <2>2. /\ DOMAIN players' = DOMAIN players \cup {u}
        /\ \A v \in DOMAIN players' : players'[v] = IF v = u THEN pending[u] ELSE players[v]
        /\ DOMAIN pending' = DOMAIN pending \ {u}
        /\ \A v \in DOMAIN pending' : pending'[v] = pending[v]
    BY <2>1 DEF With, Without
  <2>3. TypeOK'
    BY <1>1, <2>1, <2>2 DEF TypeOK, NameMap
  <2>4. InStep' /\ NotFoundTruthful'
    BY <1>1, <2>1 DEF InStep, NotFoundTruthful, Answered
  <2>5. /\ \A v \in DOMAIN pending' : CurrentAt(k, v, pending'[v])
        /\ \A v \in DOMAIN players' : CurrentAt(k, v, players'[v])
        /\ DOMAIN pending' \cup DOMAIN players' = DOMAIN pending \cup DOMAIN players
    BY <1>2, <2>2
  <2>6. OneMoment'
    BY <1>2, <1>3, <2>5 DEF OneMoment
  <2> QED
    BY <2>3, <2>4, <2>6
<1>5. CASE ScanEnds
  <2>1. /\ pending = << >> /\ phase' = "done" /\ status' = "200"
        /\ UNCHANGED <<pending, players>>
    BY <1>5 DEF ScanEnds, Respond
  <2>2. TypeOK' /\ InStep' /\ NotFoundTruthful'
    BY <1>1, <2>1 DEF TypeOK, NameMap, InStep, NotFoundTruthful, Answered
  <2>3. OneMoment'
    BY <1>2, <1>3, <2>1 DEF OneMoment
  <2> QED
    BY <2>2, <2>3
<1> QED
  BY <1>4, <1>5

(* What a lookup carries from its query to its answer is of one moment.     *)
THEOREM LookupInvariance == Spec => []IInv
<1>1. Init => IInv
  BY InvInit
<1>2. IInv /\ [Next]_vars => IInv'
  <2> SUFFICES ASSUME IInv, [Next]_vars PROVE IInv'
    OBVIOUS
  <2>1. CASE UNCHANGED vars
    <3>1. UNCHANGED <<now, history, req, phase, pending, players, status, began>>
      BY <2>1 DEF vars, lookupVars
    <3>2. TypeOK'
      BY <3>1 DEF IInv, TypeOK, NameMap
    <3> QED
      BY <3>1, <3>2
      DEF IInv, InStep, OneMoment, NotFoundTruthful, Known, Answered, CurrentAt, JoinsOf,
          JoinsAs, Newest, ByName, NameOf, UuidOf, Asked
  <2> QED
    BY <2>1, JoinStep, BeginStep, EndStep, QueryOneStep, QueryManyStep, ScanStep DEF Next
<1> QED
  BY <1>1, <1>2, PTL DEF Spec

(* Every answer is the history of one moment between request and response.  *)
THEOREM LookupsCurrent == Spec => []AnswersCurrent
<1>1. IInv => AnswersCurrent
  BY DEF IInv, OneMoment, AnswersCurrent
<1> QED
  BY <1>1, LookupInvariance, PTL

(* 404 never stands for a failure, an alias or a join known before.         *)
THEOREM AbsenceTrue == Spec => []NotFoundTruthful
<1>1. IInv => NotFoundTruthful
  BY DEF IInv
<1> QED
  BY <1>1, LookupInvariance, PTL

LEMMA InvImpliesComplete == IInv => BatchComplete
<1> SUFFICES ASSUME IInv, Answered, req.op = "batch"
             PROVE  /\ {u \in Asked(req) : JoinsOf(began, u) # {}} \subseteq DOMAIN players
                    /\ DOMAIN players \subseteq {req.uuids[i].uuid : i \in DOMAIN req.uuids}
  BY DEF BatchComplete
<1>1. /\ pending = << >> /\ ~ Refused(req) /\ began \in Nat /\ Known \in Nat
  BY DEF IInv, InStep, Answered, TypeOK, Known
<1>2. PICK k \in began .. Known :
          {u \in Asked(req) : JoinsOf(k, u) # {}} = DOMAIN pending \cup DOMAIN players
  BY DEF IInv, OneMoment
<1>3. DOMAIN players = {u \in Asked(req) : JoinsOf(k, u) # {}}
  BY <1>1, <1>2
<1>4. \A u : JoinsOf(began, u) \subseteq JoinsOf(k, u)
  BY <1>1 DEF JoinsOf
<1>5. Asked(req) \subseteq {req.uuids[i].uuid : i \in DOMAIN req.uuids}
  <2>1. None \notin Asked(req)
    BY <1>1 DEF Refused
  <2> QED
    BY <2>1 DEF Asked, NormalizeUUID
<1> QED
  BY <1>3, <1>4, <1>5

(* A batch omits nobody who had joined before it came in.                   *)
THEOREM BatchesComplete == Spec => []BatchComplete
BY InvImpliesComplete, LookupInvariance, PTL
=============================================================================
