----------------------- MODULE RequestPipelineProofs -----------------------
(***************************************************************************)
(* The permission client and the requests that use it: the client          *)
(* implements the oracle, the calls the pipeline makes of it are           *)
(* behaviours of AuthorityCache, so what is proved of it holds here, and   *)
(* who gets past the chain is who may.                                     *)
(***************************************************************************)
EXTENDS RequestPipeline, TLAPS

(***************************************************************************)
(* AuthorityCache, for every number of calls, players, permissions and     *)
(* every TTL and latency.  IInv is inductive; from it follow the two cache *)
(* properties and the refinement of PermissionOracle.                      *)
(***************************************************************************)
LEMMA TypeInit == Init => TypeOK
BY ConstantsAssumption DEF Init, TypeOK, Time, Entries, NoEntry, PermSets

(* One step per action. *)
(* The end of a call keeps the types of the four variables it writes. *)
LEMMA FinishType ==
  ASSUME TypeOK, NEW c \in Calls,
         NEW result \in {"granted", "denied", "error"}, Finish(c, result)
  PROVE  /\ pc' \in [Calls -> {"idle", "lookup", "fetch", "answered"}]
         /\ sentAt' \in [Calls -> Time]
         /\ answer' \in [Calls -> PermSets]
         /\ outcome' \in [Calls -> {"none", "pending", "granted", "denied", "error"}]
<1>1. 0 \in Time /\ {} \in PermSets
  BY ConstantsAssumption DEF Time, PermSets
<1> QED
  BY <1>1 DEF TypeOK, Finish

LEMMA VerdictType == \A S : Verdict(S) \in {"granted", "denied", "error"}
BY DEF Verdict

(* One step per action. *)
LEMMA TypeStep == TypeOK /\ [Next]_vars => TypeOK'
<1> SUFFICES ASSUME TypeOK, [Next]_vars PROVE TypeOK'
  OBVIOUS
<1> USE ConstantsAssumption DEF TypeOK
<1>1. ASSUME NEW c \in Calls, NEW u \in Uuids, Begin(c, u) PROVE TypeOK'
  BY <1>1 DEF Begin
<1>2. ASSUME NEW c \in Calls, Hit(c) PROVE TypeOK'
  BY <1>2, FinishType, VerdictType DEF Hit
<1>3. ASSUME NEW c \in Calls, Miss(c) PROVE TypeOK'
  BY <1>3 DEF Miss
<1>4. ASSUME NEW c \in Calls, Answer(c) PROVE TypeOK'
  BY <1>4 DEF Answer
<1>5. ASSUME NEW c \in Calls, Fail(c) PROVE TypeOK'
  BY <1>5, FinishType DEF Fail
<1>6. ASSUME NEW c \in Calls, StoreAndReturn(c) PROVE TypeOK'
  <2>1. Expiry(now) \in Int
    BY DEF Expiry, Time
  <2>2. [permissions |-> answer[c], expiresAt |-> Expiry(now)] \in Entries
    BY <2>1 DEF Entries
  <2>3. cache' \in [Uuids -> Entries]
    BY <1>6, <2>2 DEF StoreAndReturn, Store
  <2> QED
    BY <1>6, <2>3, FinishType, VerdictType DEF StoreAndReturn
<1>7. ASSUME NEW u \in Uuids, NEW S \in PermSets, ChangeRank(u, S) PROVE TypeOK'
  <2>1. now \in -1 .. MaxTime
    BY DEF Time
  <2> QED
    BY <1>7, <2>1 DEF ChangeRank
<1>8. CASE Tick
  <2>1. now' \in Time /\ now + 1 \in -1 .. MaxTime
    BY <1>8 DEF Tick, Time
  <2>2. lastHeld' \in [Uuids -> [PermSets -> -1 .. MaxTime]]
    BY <1>8, <2>1 DEF Tick
  <2> QED
    BY <1>8, <2>1, <2>2 DEF Tick
<1>9. CASE UNCHANGED vars
  BY <1>9 DEF vars
<1> QED
  BY <1>1, <1>2, <1>3, <1>4, <1>5, <1>6, <1>7, <1>8, <1>9 DEF Next

(* Every variable of the permission client keeps its type. *)
THEOREM TypeCorrect == Spec => []TypeOK
<1>1. Init => TypeOK
  BY TypeInit
<1>2. TypeOK /\ [Next]_vars => TypeOK'
  BY TypeStep
<1> QED
  BY <1>1, <1>2, PTL DEF Spec

-----------------------------------------------------------------------------
LEMMA InvInit == Init => IInv
<1> SUFFICES ASSUME Init PROVE IInv
  OBVIOUS
<1>1. TypeOK
  BY TypeInit
<1>2. CallsInTime /\ AnswersRecent /\ PendingMatchesPc
  BY DEF Init, CallsInTime, AnswersRecent, PendingMatchesPc, Outstanding
<1>3. EntriesRecent
  BY DEF Init, EntriesRecent
<1>4. HistoryUpToNow
  BY DEF Init, HistoryUpToNow, PermSets
<1> QED
  BY <1>1, <1>2, <1>3, <1>4 DEF IInv

(* lastHeld only grows, so what was recent enough when it was fetched or    *)
(* stored stays so.                                                         *)
LEMMA HistoryGrows ==
  ASSUME TypeOK, HistoryUpToNow, [Next]_vars
  PROVE  \A u \in Uuids, S \in PermSets : lastHeld'[u][S] >= lastHeld[u][S]
<1> SUFFICES ASSUME NEW u \in Uuids, NEW S \in PermSets
             PROVE  lastHeld'[u][S] >= lastHeld[u][S]
  OBVIOUS
<1>1. /\ lastHeld[u][S] \in Int /\ now \in Int
      /\ lastHeld[u][S] <= now
      /\ lastHeld \in [Uuids -> [PermSets -> -1 .. MaxTime]]
  BY ConstantsAssumption DEF TypeOK, Time, HistoryUpToNow
<1>2. CASE Tick
  BY <1>1, <1>2 DEF Tick, TypeOK
<1>3. ASSUME NEW v \in Uuids, NEW T \in PermSets, ChangeRank(v, T)
      PROVE  lastHeld'[u][S] >= lastHeld[u][S]
  BY <1>1, <1>3 DEF ChangeRank
<1>4. CASE UNCHANGED lastHeld
  BY <1>1, <1>4
<1> QED
  BY <1>2, <1>3, <1>4
  DEF Next, Begin, Hit, Miss, Answer, Fail, StoreAndReturn, vars

(* The inductive step, action by action: under each action one step for     *)
(* every conjunct it can disturb.                                           *)
LEMMA InvStep == IInv /\ [Next]_vars => IInv'
<1> SUFFICES ASSUME IInv, [Next]_vars PROVE IInv'
  OBVIOUS
<1> USE DEF IInv
<1>0. TypeOK' /\ \A u \in Uuids, S \in PermSets : lastHeld'[u][S] >= lastHeld[u][S]
  BY TypeStep, HistoryGrows
<1>a. /\ now \in Nat /\ TTL \in Nat /\ MaxLatency \in Nat
      /\ \A c \in Calls : sentAt[c] \in Nat /\ who[c] \in Uuids /\ answer[c] \in PermSets
      /\ \A u \in Uuids : /\ rank[u] \in PermSets
                          /\ cache[u].permissions \in PermSets
                          /\ cache[u].expiresAt \in Int
      /\ \A u \in Uuids, S \in PermSets : lastHeld[u][S] \in Int
  BY ConstantsAssumption DEF TypeOK, Time, Entries
(* Actions that leave the clock, the ranks, the cache and the answers alone. *)
<1>1. ASSUME NEW c \in Calls, NEW u \in Uuids, Begin(c, u) PROVE IInv'
  <2>1. CallsInTime' /\ AnswersRecent'
    BY <1>1 DEF Begin, TypeOK, CallsInTime, AnswersRecent, Outstanding
  <2>2. EntriesRecent' /\ HistoryUpToNow'
    BY <1>1 DEF Begin, EntriesRecent, HistoryUpToNow
  <2>3. PendingMatchesPc'
    BY <1>1 DEF Begin, TypeOK, PendingMatchesPc
  <2> QED
    BY <1>0, <2>1, <2>2, <2>3
<1>2. ASSUME NEW c \in Calls, NEW result, result # "pending", Finish(c, result),
             UNCHANGED <<now, rank, lastHeld, who>>
      PROVE  CallsInTime' /\ AnswersRecent' /\ HistoryUpToNow' /\ PendingMatchesPc'
  <2>1. CallsInTime' /\ AnswersRecent'
    BY <1>2 DEF Finish, TypeOK, CallsInTime, AnswersRecent, Outstanding
  <2>2. HistoryUpToNow' /\ PendingMatchesPc'
    BY <1>2 DEF Finish, TypeOK, HistoryUpToNow, PendingMatchesPc
  <2> QED
    BY <2>1, <2>2
<1>3. ASSUME NEW c \in Calls, Hit(c) \/ Fail(c) PROVE IInv'
  <2>1. EntriesRecent'
    BY <1>3 DEF Hit, Fail, EntriesRecent
  <2>2. CallsInTime' /\ AnswersRecent' /\ HistoryUpToNow' /\ PendingMatchesPc'
    BY <1>2, <1>3 DEF Hit, Fail, Verdict
  <2> QED
    BY <1>0, <2>1, <2>2
<1>4. ASSUME NEW c \in Calls, Miss(c) PROVE IInv'
  <2>1. CallsInTime' /\ AnswersRecent'
    BY <1>4, <1>a DEF Miss, TypeOK, CallsInTime, AnswersRecent, Outstanding
  <2>2. EntriesRecent' /\ HistoryUpToNow' /\ PendingMatchesPc'
    BY <1>4 DEF Miss, TypeOK, EntriesRecent, HistoryUpToNow, PendingMatchesPc
  <2> QED
    BY <1>0, <2>1, <2>2
<1>5. ASSUME NEW c \in Calls, Answer(c) PROVE IInv'
  <2>1. CallsInTime'
    BY <1>5 DEF Answer, TypeOK, CallsInTime, Outstanding
  <2>2. AnswersRecent'
    <3>1. lastHeld[who[c]][rank[who[c]]] = now /\ sentAt[c] <= now
      BY <1>5, <1>a DEF Answer, HistoryUpToNow, CallsInTime, Outstanding
    <3> QED
      BY <1>5, <1>a, <3>1 DEF Answer, TypeOK, AnswersRecent
  <2>3. EntriesRecent' /\ HistoryUpToNow' /\ PendingMatchesPc'
    BY <1>5 DEF Answer, TypeOK, EntriesRecent, HistoryUpToNow, PendingMatchesPc
  <2> QED
    BY <1>0, <2>1, <2>2, <2>3
<1>6. ASSUME NEW c \in Calls, StoreAndReturn(c) PROVE IInv'
  <2>1. CallsInTime' /\ AnswersRecent' /\ HistoryUpToNow' /\ PendingMatchesPc'
    BY <1>2, <1>6 DEF StoreAndReturn, Verdict
  <2>2. /\ lastHeld[who[c]][answer[c]] >= sentAt[c]
        /\ now <= sentAt[c] + MaxLatency
    BY <1>6, <1>a DEF StoreAndReturn, AnswersRecent, CallsInTime, Outstanding
  <2>3. EntriesRecent'
    <3> SUFFICES ASSUME NEW u \in Uuids, cache'[u] # NoEntry
                 PROVE  /\ cache'[u].expiresAt \in TTL .. now + TTL
                        /\ lastHeld[u][cache'[u].permissions] >= 0
                        /\ lastHeld[u][cache'[u].permissions]
                              >= cache'[u].expiresAt - TTL - MaxLatency
      BY <1>6 DEF StoreAndReturn, EntriesRecent
    <3>1. CASE u = who[c]
      <4>1. /\ cache'[u].permissions = answer[c]
            /\ cache'[u].expiresAt = now + TTL
        BY <1>6, <3>1 DEF StoreAndReturn, Store, Expiry, TypeOK
      <4> QED
        BY <1>a, <2>2, <3>1, <4>1
    <3>2. CASE u # who[c]
      BY <1>6, <3>2 DEF StoreAndReturn, Store, TypeOK, EntriesRecent
    <3> QED
      BY <3>1, <3>2
  <2> QED
    BY <1>0, <2>1, <2>3
<1>7. ASSUME NEW u \in Uuids, NEW S \in PermSets, ChangeRank(u, S) PROVE IInv'
  <2>1. CallsInTime' /\ PendingMatchesPc'
    BY <1>7 DEF ChangeRank, CallsInTime, PendingMatchesPc, Outstanding
  <2>2. AnswersRecent'
    BY <1>0, <1>a, <1>7 DEF ChangeRank, AnswersRecent, TypeOK
  <2>3. EntriesRecent'
    BY <1>0, <1>a, <1>7 DEF ChangeRank, EntriesRecent, TypeOK
  <2>4. HistoryUpToNow'
    BY <1>a, <1>7 DEF ChangeRank, HistoryUpToNow, TypeOK
  <2> QED
    BY <1>0, <2>1, <2>2, <2>3, <2>4
<1>8. CASE Tick
  <2>1. now' = now + 1 /\ UNCHANGED <<rank, cache, pc, who, sentAt, answer, outcome>>
    BY <1>8 DEF Tick
  <2>2. CallsInTime'
    BY <1>8, <1>a, <2>1 DEF Tick, CallsInTime, Outstanding
  <2>3. AnswersRecent' /\ PendingMatchesPc'
    BY <1>0, <1>a, <2>1 DEF AnswersRecent, PendingMatchesPc, TypeOK
  <2>4. EntriesRecent'
    BY <1>0, <1>a, <2>1 DEF EntriesRecent, TypeOK
  <2>5. HistoryUpToNow'
    BY <1>8, <1>a DEF Tick, HistoryUpToNow, TypeOK
  <2> QED
    BY <1>0, <2>2, <2>3, <2>4, <2>5
<1>9. CASE UNCHANGED vars
  BY <1>9 DEF vars, TypeOK, CallsInTime, AnswersRecent, EntriesRecent,
              HistoryUpToNow, PendingMatchesPc, Outstanding
<1> QED
  BY <1>1, <1>3, <1>4, <1>5, <1>6, <1>7, <1>8, <1>9 DEF Next

(* What the cache and the answers in flight hold was true of the player at  *)
(* most MaxLatency before it was stored.                                    *)
THEOREM Invariance == Spec => []IInv
<1>1. Init => IInv
  BY InvInit
<1>2. IInv /\ [Next]_vars => IInv'
  BY InvStep
<1> QED
  BY <1>1, <1>2, PTL DEF Spec

-----------------------------------------------------------------------------
LEMMA NoFetchStep ==
  ASSUME IInv, NoFetchWithinTTL, [Next]_vars
  PROVE  NoFetchWithinTTL'
<1> SUFFICES ASSUME NEW c \in Calls, Outstanding(c)'
             PROVE  (sentAt[c] \notin (cache[who[c]].expiresAt - TTL + 1)
                                       .. cache[who[c]].expiresAt)'
  BY DEF NoFetchWithinTTL
<1> USE DEF IInv
<1>a. /\ now \in Nat /\ TTL \in Nat
      /\ \A d \in Calls : sentAt[d] \in Nat /\ who[d] \in Uuids
      /\ \A u \in Uuids : cache[u].expiresAt \in Int
  BY ConstantsAssumption DEF TypeOK, Time, Entries
<1>1. ASSUME NEW d \in Calls, Miss(d)
      PROVE  sentAt'[c] \notin (cache'[who'[c]].expiresAt - TTL + 1)
                                 .. cache'[who'[c]].expiresAt
  <2>1. CASE c = d
    BY <1>a, <1>1, <2>1 DEF Miss, Fresh, TypeOK
  <2>2. CASE c # d
    BY <1>1, <2>2 DEF Miss, TypeOK, Outstanding, NoFetchWithinTTL
  <2> QED
    BY <2>1, <2>2
<1>2. ASSUME NEW d \in Calls, StoreAndReturn(d)
      PROVE  sentAt'[c] \notin (cache'[who'[c]].expiresAt - TTL + 1)
                                 .. cache'[who'[c]].expiresAt
  <2>1. c # d /\ Outstanding(c) /\ sentAt'[c] = sentAt[c] /\ who'[c] = who[c]
    BY <1>2 DEF StoreAndReturn, Finish, TypeOK, Outstanding
  <2>2. sentAt[c] <= now
    BY <2>1 DEF CallsInTime
  <2>3. CASE who[c] = who[d]
    <3>1. cache'[who[c]].expiresAt = now + TTL
      BY <1>2, <1>a, <2>3 DEF StoreAndReturn, Store, Expiry, TypeOK
    <3> QED
      BY <1>a, <2>1, <2>2, <3>1
  <2>4. CASE who[c] # who[d]
    BY <1>2, <1>a, <2>1, <2>4
    DEF StoreAndReturn, Store, TypeOK, NoFetchWithinTTL
  <2> QED
    BY <2>3, <2>4
<1>3. ASSUME NEW d \in Calls, Hit(d) \/ Fail(d) \/ Answer(d) \/ \E u \in Uuids : Begin(d, u)
      PROVE  sentAt'[c] \notin (cache'[who'[c]].expiresAt - TTL + 1)
                                 .. cache'[who'[c]].expiresAt
  BY <1>3 DEF Hit, Fail, Answer, Begin, Finish, TypeOK, Outstanding, NoFetchWithinTTL
<1>4. CASE \/ Tick
           \/ UNCHANGED vars
           \/ \E u \in Uuids, S \in PermSets : ChangeRank(u, S)
  BY <1>4 DEF Tick, ChangeRank, vars, Outstanding, NoFetchWithinTTL
<1> QED
  BY <1>1, <1>2, <1>3, <1>4 DEF Next

(* No call goes upstream after its player's entry was stored and before the *)
(* entry expires, however the calls interleave.                             *)
THEOREM NoFetchTheorem == Spec => []NoFetchWithinTTL
<1>1. Init => IInv /\ NoFetchWithinTTL
  BY InvInit DEF Init, NoFetchWithinTTL, Outstanding
<1>2. IInv /\ NoFetchWithinTTL /\ [Next]_vars => (IInv /\ NoFetchWithinTTL)'
  BY InvStep, NoFetchStep
<1> QED
  BY <1>1, <1>2, PTL DEF Spec

LEMMA ExpiryStep ==
  ASSUME IInv, Next
  PROVE  \A u \in Uuids : cache'[u].expiresAt >= cache[u].expiresAt
<1> SUFFICES ASSUME NEW u \in Uuids
             PROVE  cache'[u].expiresAt >= cache[u].expiresAt
  OBVIOUS
<1>1. /\ cache[u].expiresAt \in Int /\ now \in Nat /\ TTL \in Nat
      /\ cache[u].expiresAt <= now + TTL
  BY ConstantsAssumption DEF IInv, TypeOK, Time, Entries, EntriesRecent, NoEntry
<1>2. ASSUME NEW c \in Calls, StoreAndReturn(c)
      PROVE  cache'[u].expiresAt >= cache[u].expiresAt
  BY <1>1, <1>2 DEF StoreAndReturn, Store, Expiry, IInv, TypeOK
<1>3. CASE UNCHANGED cache
  BY <1>1, <1>3
<1> QED
  BY <1>2, <1>3 DEF Next, Begin, Hit, Miss, Answer, Fail, ChangeRank, Tick

(* Whichever of two concurrent calls stores last, it does not shorten the   *)
(* life of the entry it replaces.                                           *)
THEOREM ExpiryTheorem == Spec => ExpiryMonotone
<1>1. IInv /\ [Next]_vars
        => [\A u \in Uuids : cache'[u].expiresAt >= cache[u].expiresAt]_vars
  BY ExpiryStep
<1> QED
  BY <1>1, Invariance, PTL DEF Spec, ExpiryMonotone

-----------------------------------------------------------------------------
LEMMA RefinesInit == Init => Oracle!Init
BY DEF Init, Oracle!Init, PermSets, Oracle!PermSets

(* A hit rests on the entry, a store on the answer: both recent by IInv.    *)
LEMMA RefinesStep ==
  ASSUME IInv, Next
  PROVE  Oracle!Next \/ UNCHANGED Oracle!vars
<1> USE DEF IInv
<1>a. /\ now \in Nat /\ TTL \in Nat /\ MaxLatency \in Nat
      /\ \A c \in Calls : sentAt[c] \in Nat /\ who[c] \in Uuids /\ answer[c] \in PermSets
      /\ \A u \in Uuids : /\ cache[u].permissions \in PermSets
                          /\ cache[u].expiresAt \in Int
      /\ \A u \in Uuids, S \in PermSets : lastHeld[u][S] \in Int
  BY ConstantsAssumption DEF TypeOK, Time, Entries
<1>1. ASSUME NEW c \in Calls, NEW u \in Uuids, Begin(c, u) PROVE Oracle!Ask(c, u)
  BY <1>1 DEF Begin, Oracle!Ask, PendingMatchesPc
<1>2. ASSUME NEW c \in Calls, NEW S \in PermSets, pc[c] # "idle",
             lastHeld[who[c]][S] >= 0,
             lastHeld[who[c]][S] >= now - (TTL + MaxLatency),
             Finish(c, Verdict(S)), UNCHANGED <<now, rank, lastHeld, who>>
      PROVE  Oracle!Decide(c)
  BY <1>2 DEF Oracle!Decide, Oracle!Recent, Oracle!PermSets, PermSets, Finish,
              Verdict, PendingMatchesPc
<1>3. ASSUME NEW c \in Calls, Hit(c) PROVE Oracle!Decide(c)
  <2> DEFINE e == cache[who[c]]
  <2>1. e # NoEntry /\ now <= e.expiresAt
    BY <1>3, <1>a DEF Hit, Fresh, NoEntry
  <2>2. /\ lastHeld[who[c]][e.permissions] >= 0
        /\ lastHeld[who[c]][e.permissions] >= e.expiresAt - TTL - MaxLatency
    BY <1>a, <2>1 DEF EntriesRecent
  <2>3. lastHeld[who[c]][e.permissions] >= now - (TTL + MaxLatency)
    BY <1>a, <2>1, <2>2
  <2> QED
    BY <1>a, <1>2, <1>3, <2>2, <2>3 DEF Hit
<1>4. ASSUME NEW c \in Calls, StoreAndReturn(c) PROVE Oracle!Decide(c)
  <2>1. /\ lastHeld[who[c]][answer[c]] >= sentAt[c]
        /\ now <= sentAt[c] + MaxLatency
    BY <1>4 DEF StoreAndReturn, AnswersRecent, CallsInTime, Outstanding
  <2>2. /\ lastHeld[who[c]][answer[c]] >= 0
        /\ lastHeld[who[c]][answer[c]] >= now - (TTL + MaxLatency)
    BY <1>a, <2>1
  <2> QED
    BY <1>a, <1>2, <1>4, <2>2 DEF StoreAndReturn
<1>5. ASSUME NEW c \in Calls, Fail(c) PROVE Oracle!GiveUp(c)
  BY <1>5 DEF Fail, Finish, Outstanding, Oracle!GiveUp, PendingMatchesPc
<1>6. ASSUME NEW c \in Calls, Miss(c) \/ Answer(c) PROVE UNCHANGED Oracle!vars
  BY <1>6 DEF Miss, Answer, Oracle!vars
<1>7. ASSUME NEW u \in Uuids, NEW S \in PermSets, ChangeRank(u, S)
      PROVE  Oracle!ChangeRank(u, S)
  BY <1>7 DEF ChangeRank, Oracle!ChangeRank
<1>8. ASSUME Tick PROVE Oracle!Tick
  BY <1>8 DEF Tick, Oracle!Tick
<1>b. PermSets = Oracle!PermSets
  BY DEF PermSets, Oracle!PermSets
<1> QED
  BY <1>1, <1>3, <1>4, <1>5, <1>6, <1>7, <1>8, <1>b DEF Next, Oracle!Next

(* Every answer RequireModPermission acts on was true of the player at most *)
(* TTL + MaxLatency ago: the cache implements the oracle.                   *)
THEOREM Refinement == Spec => OracleSpec
<1>1. Init => Oracle!Init
  BY RefinesInit
<1>2. IInv /\ [Next]_vars => [Oracle!Next]_(Oracle!vars)
  BY RefinesStep DEF vars, Oracle!vars
<1> QED
  BY <1>1, <1>2, Invariance, PTL DEF Spec, OracleSpec, Oracle!Spec

-----------------------------------------------------------------------------
(***************************************************************************)
(* RequestPipeline, for any requests, players, headers and operations.     *)
(***************************************************************************)

(* The four chains there are, and who gets which. *)
LEMMA ChainShape ==
  ASSUME NEW p \in Policies, NEW o
  PROVE  /\ Chain(p, o) \in {<<"anonymous">>, <<"jwt">>, <<"jwt", "mod">>, <<"deny">>}
         /\ o \notin PublicOperations => Chain(p, o) # <<"anonymous">>
         /\ o \in ModOperations => Chain(p, o) = <<"jwt", "mod">>
         /\ o \in OwnLists => Chain(p, o) = <<"jwt">>
<1> DEFINE Listed == {PublicOperations, PlayerOperations, ModOperations}
<1>1. /\ PublicOperations \cap PlayerOperations = {}
      /\ PublicOperations \cap ModOperations = {}
      /\ PlayerOperations \cap ModOperations = {}
      /\ OwnLists \subseteq PlayerOperations
  BY DEF PublicOperations, PlayerOperations, ModOperations, OwnLists
<1>2. /\ p.rules = RouterRules
      /\ p.default \in {<<"jwt">>, << >>}
      /\ DOMAIN RouterRules = 1 .. 3
      /\ RouterRules[1].operations = PublicOperations /\ RouterRules[1].chain = <<"anonymous">>
      /\ RouterRules[2].operations = PlayerOperations /\ RouterRules[2].chain = <<"jwt">>
      /\ RouterRules[3].operations = ModOperations /\ RouterRules[3].chain = <<"jwt", "mod">>
  BY DEF Policies, RouterRules
<1> DEFINE Last == CHOOSE i \in RulesFor(p, o) : \A j \in RulesFor(p, o) : j <= i
<1>0. <<"anonymous">> # <<"jwt">> /\ <<"anonymous">> # <<"jwt", "mod">> /\ <<"anonymous">> # <<"deny">>
  OBVIOUS
<1>3. CASE o \in PublicOperations
  <2>1. RulesFor(p, o) = {1}
    BY <1>1, <1>2, <1>3 DEF RulesFor
  <2>2. Last = 1
    BY <2>1
  <2>3. Chain(p, o) = <<"anonymous">>
    BY <1>2, <2>1, <2>2 DEF Chain
  <2> QED
    BY <1>0, <1>1, <1>3, <2>3
<1>4. CASE o \in PlayerOperations
  <2>1. RulesFor(p, o) = {2}
    BY <1>1, <1>2, <1>4 DEF RulesFor
  <2>2. Last = 2
    BY <2>1
  <2>3. Chain(p, o) = <<"jwt">>
    BY <1>2, <2>1, <2>2 DEF Chain
  <2> QED
    BY <1>0, <1>1, <1>4, <2>3
<1>5. CASE o \in ModOperations
  <2>1. RulesFor(p, o) = {3}
    BY <1>1, <1>2, <1>5 DEF RulesFor
  <2>2. Last = 3
    BY <2>1
  <2>3. Chain(p, o) = <<"jwt", "mod">>
    BY <1>2, <2>1, <2>2 DEF Chain
  <2> QED
    BY <1>0, <1>1, <1>5, <2>3
<1>6. CASE o \notin PublicOperations \cup PlayerOperations \cup ModOperations
  <2>1. RulesFor(p, o) = {}
    BY <1>2, <1>6 DEF RulesFor
  <2>2. Chain(p, o) \in {<<"jwt">>, <<"deny">>}
    BY <1>2, <2>1 DEF Chain
  <2> QED
    BY <1>0, <1>1, <1>6, <2>2
<1> QED
  BY <1>3, <1>4, <1>5, <1>6

(* A chain's length and steps. *)
LEMMA ChainSteps ==
  ASSUME NEW p \in Policies, NEW o
  PROVE  /\ Len(Chain(p, o)) \in {1, 2}
         /\ Chain(p, o)[1] \in {"anonymous", "jwt", "deny"}
         /\ Len(Chain(p, o)) = 2 => Chain(p, o)[1] = "jwt" /\ Chain(p, o)[2] = "mod"
         /\ o \notin PublicOperations => Chain(p, o)[1] # "anonymous"
         /\ o \in ModOperations => Len(Chain(p, o)) = 2
         /\ o \in OwnLists => Chain(p, o)[1] = "jwt"
BY ChainShape

-----------------------------------------------------------------------------
LEMMA PipeInitInv == PipeInit => PipeIInv
<1> SUFFICES ASSUME PipeInit PROVE PipeIInv
  OBVIOUS
<1>1. IInv
  BY InvInit DEF PipeInit
<1>2. PipeTypeOK
  BY DEF PipeInit, PipeTypeOK
<1>3. CallerIsSubject /\ AsksForCaller /\ PlaceInChain /\ IdentifiedOnceChecked
  BY DEF PipeInit, Init, CallerIsSubject, AsksForCaller, PlaceInChain, IdentifiedOnceChecked
<1> QED
  BY <1>1, <1>2, <1>3 DEF PipeIInv

(* Whatever the pipeline does is, for the permission client, one of its own  *)
(* steps or none.                                                            *)
LEMMA ClientStep ==
  ASSUME PipeTypeOK, PipeNext
  PROVE  [Next]_vars
<1>1. ASSUME NEW c \in Calls, NEW o \in Operations, NEW t \in Tokens, NEW f \in Forms,
             Receive(c, o, t, f)
      PROVE  UNCHANGED vars
  BY <1>1 DEF Receive
<1>2. ASSUME NEW c \in Calls, Bind(c) \/ StepAnonymous(c) \/ StepDeny(c) \/ StepJWT(c) \/ Handle(c)
      PROVE  UNCHANGED vars
  BY <1>2 DEF Bind, StepAnonymous, StepDeny, StepJWT, Handle
<1>3. ASSUME NEW c \in Calls, StepMod(c)
      PROVE  [Next]_vars
  BY <1>3 DEF StepMod, PipeTypeOK, Next
<1>4. ASSUME NEW c \in Calls, AskReturns(c) \/ AskGoesOn(c)
      PROVE  Next
  BY <1>4 DEF AskReturns, AskGoesOn, Returns, GoesOn, Next
<1>5. ASSUME Environment
      PROVE  Next
  BY <1>5 DEF Environment, Next
<1> QED
  BY <1>1, <1>2, <1>3, <1>4, <1>5 DEF PipeNext, Serve

-----------------------------------------------------------------------------
(* A reply ends the request, and with it all that the invariant says of it.  *)
LEMMA RespondKeeps ==
  ASSUME PipeIInv, IInv', NEW c \in Calls, NEW code \in Codes \cup Untyped \cup {"OK"},
         Respond(c, code), pc'[c] = "idle",
         \A d \in Calls \ {c} : pc'[d] = pc[d] /\ who'[d] = who[d]
  PROVE  PipeIInv'
<1> USE DEF PipeIInv
<1>1. PipeTypeOK'
  BY DEF Respond, PipeTypeOK
<1>2. /\ stage'[c] = "done" /\ caller'[c] = Nobody /\ step'[c] = 0
      /\ policy' = policy
      /\ \A d \in Calls \ {c} : /\ stage'[d] = stage[d] /\ caller'[d] = caller[d]
                               /\ step'[d] = step[d] /\ op'[d] = op[d] /\ token'[d] = token[d]
  BY DEF Respond, PipeTypeOK
<1>3. CallerIsSubject'
  BY <1>2 DEF CallerIsSubject
<1>4. AsksForCaller'
  BY <1>2 DEF AsksForCaller, MyStep
<1>5. PlaceInChain'
  BY <1>2 DEF PlaceInChain
<1>6. IdentifiedOnceChecked'
  BY <1>2 DEF IdentifiedOnceChecked
<1> QED
  BY <1>1, <1>3, <1>4, <1>5, <1>6

(* Passing a step on, once it has done what it is there for. *)
LEMMA PassOnKeeps ==
  ASSUME PipeIInv, IInv', NEW c \in Calls, PassOn(c),
         stage[c] \in {"bind", "chain", "asking"}, op[c] \in Operations,
         NEW u \in Uuids \cup {Nobody}, caller' = [caller EXCEPT ![c] = u],
         u # Nobody => Genuine(token[c]) /\ u = token[c].sub,
         \/ stage[c] = "bind"
         \/ stage[c] # "bind" /\ Chain(policy, op[c])[1] = "anonymous"
         \/ stage[c] # "bind" /\ Chain(policy, op[c])[1] = "jwt" /\ u # Nobody,
         pc'[c] = "idle",
         \A d \in Calls \ {c} : pc'[d] = pc[d] /\ who'[d] = who[d]
  PROVE  PipeIInv'
<1> USE DEF PipeIInv
<1>a. policy \in Policies /\ Len(Chain(policy, op[c])) \in {1, 2}
  BY ChainSteps DEF PipeTypeOK
<1>0. /\ Len(Chain(policy, op[c])) \in {1, 2}
      /\ stage[c] = "bind" => step[c] = 0
      /\ stage[c] # "bind" => step[c] \in 1 .. Len(Chain(policy, op[c]))
  BY <1>a DEF PlaceInChain
<1>1. PipeTypeOK'
  <2> DEFINE n == Len(Chain(policy, op[c]))
  <2>0. n \in {1, 2} /\ (step[c] = 0 \/ step[c] \in 1 .. n)
    BY <1>0
  <2> HIDE DEF n
  <2>1. step[c] + 1 \in 0 .. 3
    BY <2>0
  <2> QED
    BY <2>1 DEF PassOn, PipeTypeOK, request
<1>2. /\ stage'[c] = IF step[c] < Len(Chain(policy, op[c])) THEN "chain" ELSE "handler"
      /\ caller'[c] = u /\ step'[c] = step[c] + 1
      /\ policy' = policy /\ op' = op /\ token' = token
      /\ \A d \in Calls \ {c} : stage'[d] = stage[d] /\ caller'[d] = caller[d]
                               /\ step'[d] = step[d]
  BY DEF PassOn, PipeTypeOK, request
<1>3. CallerIsSubject'
  BY <1>2 DEF CallerIsSubject, Genuine
<1>4. AsksForCaller'
  BY <1>2 DEF AsksForCaller, MyStep
<1>5. PlaceInChain'
  BY <1>0, <1>2 DEF PlaceInChain
<1>6. IdentifiedOnceChecked'
  BY <1>0, <1>2 DEF IdentifiedOnceChecked
<1> QED
  BY <1>1, <1>3, <1>4, <1>5, <1>6

-----------------------------------------------------------------------------
(* How HasPermission returns: it is over, and the answer is one of three. *)
LEMMA ReturnEnds ==
  ASSUME TypeOK, NEW c \in Calls, Returns(c)
  PROVE  /\ pc' = [pc EXCEPT ![c] = "idle"]
         /\ pc'[c] = "idle"
         /\ who' = who
         /\ outcome'[c] \in {"granted", "denied", "error"}
BY VerdictType DEF Returns, Hit, StoreAndReturn, Fail, Finish, TypeOK

(* One step per action. *)
LEMMA PipeStep == PipeIInv /\ [PipeNext]_allVars => PipeIInv'
<1> SUFFICES ASSUME PipeIInv, [PipeNext]_allVars PROVE PipeIInv'
  OBVIOUS
<1> USE DEF PipeIInv
<1>0. IInv'
  BY ClientStep, InvStep DEF allVars
<1>a. /\ policy \in Policies
      /\ pc \in [Calls -> {"idle", "lookup", "fetch", "answered"}]
      /\ who \in [Calls -> Uuids]
      /\ \A c \in Calls : stage[c] # "asking" => pc[c] = "idle"
      /\ \A c \in Calls : stage[c] \notin {"new", "done"} => op[c] \in Operations
  BY DEF PipeTypeOK, IInv, TypeOK, AsksForCaller, IdentifiedOnceChecked
<1>b. ASSUME NEW c \in Calls, UNCHANGED vars, stage[c] \in {"bind", "chain", "handler"}
      PROVE  pc'[c] = "idle" /\ \A d \in Calls \ {c} : pc'[d] = pc[d] /\ who'[d] = who[d]
  BY <1>a, <1>b DEF vars
<1>1. ASSUME NEW c \in Calls, NEW o \in Operations, NEW t \in Tokens, NEW f \in Forms,
             Receive(c, o, t, f)
      PROVE  PipeIInv'
  <2>1. PipeTypeOK'
    BY <1>1 DEF Receive, PipeTypeOK
  <2>2. /\ stage[c] = "new" /\ stage'[c] = "bind" /\ op'[c] \in Operations
        /\ caller' = caller /\ step' = step /\ policy' = policy /\ pc' = pc /\ who' = who
        /\ \A d \in Calls \ {c} : stage'[d] = stage[d] /\ op'[d] = op[d] /\ token'[d] = token[d]
    BY <1>1 DEF Receive, PipeTypeOK, vars
  <2>3. caller[c] = Nobody
    BY <2>2 DEF CallerIsSubject
  <2>4. CallerIsSubject' /\ AsksForCaller'
    BY <2>2, <2>3 DEF CallerIsSubject, AsksForCaller, MyStep
  <2>5. PlaceInChain' /\ IdentifiedOnceChecked'
    BY <2>2 DEF PlaceInChain, IdentifiedOnceChecked
  <2> QED
    BY <1>0, <2>1, <2>4, <2>5
<1>2. ASSUME NEW c \in Calls, Bind(c)
      PROVE  PipeIInv'
  <2>1. CASE PassOn(c) /\ UNCHANGED caller
    BY <1>0, <1>2, <1>a, <1>b, <2>1, PassOnKeeps DEF Bind, PipeTypeOK, CallerIsSubject
  <2>2. CASE Respond(c, "PLAIN_400") \/ Respond(c, "INTERNAL_ERROR")
    BY <1>0, <1>2, <1>b, <2>2, RespondKeeps DEF Bind, Codes, Untyped
  <2> QED
    BY <1>2, <2>1, <2>2 DEF Bind
<1>3. ASSUME NEW c \in Calls, StepAnonymous(c)
      PROVE  PipeIInv'
  <2>1. Chain(policy, op[c])[1] = "anonymous"
    BY <1>3, <1>a, ChainSteps DEF StepAnonymous, MyStep, PlaceInChain
  <2> QED
    BY <1>0, <1>3, <1>a, <1>b, <2>1, PassOnKeeps DEF StepAnonymous, PipeTypeOK, CallerIsSubject
<1>4. ASSUME NEW c \in Calls, StepDeny(c)
      PROVE  PipeIInv'
  BY <1>0, <1>4, <1>b, RespondKeeps DEF StepDeny, Untyped
<1>5. ASSUME NEW c \in Calls, StepJWT(c)
      PROVE  PipeIInv'
  <2> DEFINE u == Subject(token[c], now)
  <2>1. CASE u = Nobody
    BY <1>0, <1>5, <1>b, <2>1, RespondKeeps DEF StepJWT, Codes
  <2>2. CASE u # Nobody
    <3>1. Genuine(token[c]) /\ u = token[c].sub
      BY <2>2 DEF Subject, Genuine
    <3>2. u \in Uuids \cup {Nobody}
      BY <3>1, PipelineAssumption DEF PipeTypeOK, Genuine
    <3>3. Chain(policy, op[c])[1] = "jwt"
      BY <1>5, <1>a, ChainSteps DEF StepJWT, MyStep, PlaceInChain
    <3> QED
      BY <1>0, <1>5, <1>a, <1>b, <2>2, <3>1, <3>2, <3>3, PassOnKeeps DEF StepJWT
  <2> QED
    BY <2>1, <2>2
<1>6. ASSUME NEW c \in Calls, StepMod(c)
      PROVE  PipeIInv'
  <2>1. CASE caller[c] = Nobody
    BY <1>0, <1>6, <1>b, <2>1, RespondKeeps DEF StepMod, Codes
  <2>2. CASE caller[c] # Nobody
    <3>1. /\ stage[c] = "chain" /\ stage'[c] = "asking" /\ who'[c] = caller[c]
          /\ policy' = policy /\ op' = op /\ token' = token /\ form' = form /\ reply' = reply
          /\ step' = step /\ caller' = caller
          /\ stage' = [stage EXCEPT ![c] = "asking"]
          /\ \A d \in Calls \ {c} : /\ stage'[d] = stage[d]
                                   /\ pc'[d] = pc[d] /\ who'[d] = who[d]
      BY <1>6, <1>a, <2>2 DEF StepMod, Begin, PipeTypeOK, request
    <3>2. PipeTypeOK'
      BY <3>1 DEF PipeTypeOK
    <3>3. CallerIsSubject' /\ PlaceInChain' /\ IdentifiedOnceChecked'
      BY <3>1 DEF CallerIsSubject, PlaceInChain, IdentifiedOnceChecked
    <3>4. AsksForCaller'
      BY <1>6, <2>2, <3>1 DEF AsksForCaller, MyStep, StepMod
    <3> QED
      BY <1>0, <3>2, <3>3, <3>4
  <2> QED
    BY <2>1, <2>2
<1>7. ASSUME NEW c \in Calls, Handle(c)
      PROVE  PipeIInv'
  BY <1>0, <1>7, <1>b, RespondKeeps, PipelineAssumption DEF Handle, HandlerReplies, Codes
<1>8. ASSUME NEW c \in Calls, AskReturns(c)
      PROVE  PipeIInv'
  <2>1. /\ pc'[c] = "idle" /\ outcome'[c] \in {"granted", "denied", "error"}
        /\ \A d \in Calls \ {c} : pc'[d] = pc[d] /\ who'[d] = who[d]
    BY <1>8, <1>a, ReturnEnds DEF AskReturns, IInv
  <2>2. CASE outcome'[c] = "granted"
    <3>1. caller[c] # Nobody /\ Chain(policy, op[c])[1] = "jwt"
      BY <1>8, <1>a, ChainSteps DEF AskReturns, AsksForCaller, MyStep, PlaceInChain
    <3> QED
      BY <1>0, <1>8, <1>a, <2>1, <2>2, <3>1, PassOnKeeps
         DEF AskReturns, Decided, PipeTypeOK, CallerIsSubject
  <2>3. CASE outcome'[c] # "granted"
    BY <1>0, <1>8, <2>1, <2>3, RespondKeeps DEF AskReturns, Decided, Codes
  <2> QED
    BY <2>2, <2>3
<1>9. ASSUME UNCHANGED pipeVars, who' = who,
             \A c \in Calls : pc'[c] = pc[c] \/ pc[c] # "idle"
      PROVE  PipeIInv'
  <2>1. PipeTypeOK'
    BY <1>9 DEF PipeTypeOK, pipeVars, request
  <2>2. CallerIsSubject' /\ AsksForCaller' /\ PlaceInChain' /\ IdentifiedOnceChecked'
    BY <1>9 DEF CallerIsSubject, AsksForCaller, MyStep, PlaceInChain, IdentifiedOnceChecked,
                pipeVars, request
  <2> QED
    BY <1>0, <2>1, <2>2
<1>10. ASSUME NEW c \in Calls, AskGoesOn(c)
       PROVE  PipeIInv'
  BY <1>9, <1>10, <1>a DEF AskGoesOn, GoesOn, Miss, Answer
<1>11. CASE Environment
  BY <1>9, <1>11 DEF Environment, Tick, ChangeRank
<1>12. CASE UNCHANGED allVars
  BY <1>9, <1>12 DEF allVars, vars
<1> QED
  BY <1>1, <1>2, <1>3, <1>4, <1>5, <1>6, <1>7, <1>8, <1>10, <1>11, <1>12 DEF PipeNext, Serve

-----------------------------------------------------------------------------
(* The pipeline uses the permission client as AuthorityCache specifies it,   *)
(* so every theorem about AuthorityCache!Spec holds of it: in particular     *)
(* PermissionOracle is implemented for the requests of the API.              *)
THEOREM PipelineInvariance == PipeSpec => []PipeIInv
<1>1. PipeInit => PipeIInv
  BY PipeInitInv
<1>2. PipeIInv /\ [PipeNext]_allVars => PipeIInv'
  BY PipeStep
<1> QED
  BY <1>1, <1>2, PTL DEF PipeSpec

THEOREM PipelineUsesClient == PipeSpec => Spec
<1>1. PipeInit => Init
  BY DEF PipeInit
<1>2. PipeIInv /\ [PipeNext]_allVars => [Next]_vars
  BY ClientStep DEF PipeIInv, allVars, vars
<1> QED
  BY <1>1, <1>2, PipelineInvariance, PTL DEF PipeSpec, Spec

(* authpolicy.go:30-34: nobody unidentified enters a handler that is not     *)
(* public, whatever the default of the policy, listed operation or not.      *)
THEOREM FailsClosed == PipeSpec => []IdentifiedOrPublic
<1>1. PipeIInv => IdentifiedOrPublic
  <2> SUFFICES ASSUME PipeIInv, NEW c \in Calls, stage[c] = "handler", op[c] \notin PublicOperations
               PROVE  Genuine(token[c]) /\ caller[c] = token[c].sub
    BY DEF IdentifiedOrPublic
  <2>1. Chain(policy, op[c])[1] # "anonymous"
    BY ChainSteps DEF PipeIInv, PipeTypeOK
  <2>2. caller[c] # Nobody
    BY <2>1 DEF PipeIInv, IdentifiedOnceChecked
  <2> QED
    BY <2>2 DEF PipeIInv, CallerIsSubject
<1> QED
  BY <1>1, PipelineInvariance, PTL

(* What a granted or denied call of the client says of the player's rank. *)
LEMMA VerdictRecent ==
  ASSUME PipeIInv, NEW c \in Calls, Returns(c)
  PROVE  /\ outcome'[c] = "granted" => Held(who[c])
         /\ outcome'[c] = "denied" => Lacked(who[c])
<1> USE DEF PipeIInv, IInv
<1>1. /\ now \in Nat /\ TTL \in Nat /\ MaxLatency \in Nat
      /\ who[c] \in Uuids /\ answer[c] \in PermSets /\ sentAt[c] \in Nat
      /\ cache[who[c]].permissions \in PermSets /\ cache[who[c]].expiresAt \in Int
      /\ \A S \in PermSets : lastHeld[who[c]][S] \in Int
      /\ outcome \in [Calls -> {"none", "pending", "granted", "denied", "error"}]
  BY ConstantsAssumption DEF TypeOK, Time, Entries
<1>2. CASE Hit(c)
  <2>1. cache[who[c]] # NoEntry /\ now <= cache[who[c]].expiresAt
    BY <1>1, <1>2 DEF Hit, Fresh, NoEntry
  <2>2. RecentRank(who[c], cache[who[c]].permissions)
    BY <1>1, <2>1 DEF EntriesRecent, RecentRank
  <2>3. outcome'[c] = Verdict(cache[who[c]].permissions)
    BY <1>1, <1>2 DEF Hit, Finish
  <2> QED
    BY <1>1, <2>2, <2>3 DEF Verdict, Held, Lacked
<1>3. CASE StoreAndReturn(c)
  <2>1. /\ lastHeld[who[c]][answer[c]] >= sentAt[c]
        /\ now <= sentAt[c] + MaxLatency
    BY <1>3 DEF StoreAndReturn, AnswersRecent, CallsInTime, Outstanding
  <2>2. RecentRank(who[c], answer[c])
    BY <1>1, <2>1 DEF RecentRank
  <2>3. outcome'[c] = Verdict(answer[c])
    BY <1>1, <1>3 DEF StoreAndReturn, Finish
  <2> QED
    BY <1>1, <2>2, <2>3 DEF Verdict, Held, Lacked
<1>4. CASE Fail(c)
  BY <1>1, <1>4 DEF Fail, Finish
<1> QED
  BY <1>2, <1>3, <1>4 DEF Returns

(* Only the answer "granted" lets a request into a moderator handler. *)
LEMMA ModeratorEnters ==
  ASSUME PipeIInv, PipeNext, NEW c \in Calls, Entered(c), op[c] \in ModOperations
  PROVE  Genuine(token[c]) /\ Held(token[c].sub)
<1> USE DEF PipeIInv
<1>1. /\ Len(Chain(policy, op[c])) = 2
      /\ Chain(policy, op[c])[1] = "jwt" /\ Chain(policy, op[c])[2] = "mod"
      /\ stage \in [Calls -> {"new", "bind", "chain", "asking", "handler", "done"}]
  BY ChainSteps DEF PipeTypeOK
<1>2. stage[c] # "handler" /\ stage'[c] = "handler"
  BY DEF Entered
<1>a. step[c] \in 0 .. 3
  BY DEF PipeTypeOK
<1>3. ASSUME NEW d \in Calls, NEW code, Respond(d, code) PROVE FALSE
  <2>1. stage' = [stage EXCEPT ![d] = "done"]
    BY <1>3 DEF Respond
  <2> QED
    BY <1>1, <1>2, <2>1
<1>4. ASSUME NEW d \in Calls, PassOn(d) PROVE d = c /\ ~ step[c] < 2
  <2>1. stage' = [stage EXCEPT ![d] = IF step[d] < Len(Chain(policy, op[d]))
                                      THEN "chain" ELSE "handler"]
    BY <1>4 DEF PassOn
  <2>2. d = c
    BY <1>1, <1>2, <2>1
  <2> QED
    BY <1>1, <1>2, <2>1, <2>2
<1>b. ASSUME stage[c] = "chain"
      PROVE  (step[c] = 1 /\ MyStep(c) = "jwt") \/ (step[c] = 2 /\ MyStep(c) = "mod")
  <2>1. step[c] \in 1 .. 2
    BY <1>1, <1>b DEF PlaceInChain
  <2> QED
    BY <1>1, <2>1 DEF MyStep
<1>5. ASSUME NEW d \in Calls, Serve(d) PROVE FALSE
  <2>1. CASE Bind(d)
    BY <1>3, <1>4, <2>1 DEF Bind, PlaceInChain
  <2>2. CASE StepAnonymous(d)
    BY <1>4, <1>b, <2>2 DEF StepAnonymous
  <2>3. CASE StepJWT(d)
    BY <1>3, <1>4, <1>b, <2>3 DEF StepJWT
  <2>4. CASE StepMod(d)
    BY <1>1, <1>2, <1>3, <2>4 DEF StepMod
  <2>5. CASE StepDeny(d) \/ Handle(d)
    BY <1>3, <2>5 DEF StepDeny, Handle
  <2> QED
    BY <1>5, <2>1, <2>2, <2>3, <2>4, <2>5 DEF Serve
<1>c. ASSUME NEW d \in Calls, NEW o \in Operations, NEW t \in Tokens, NEW f \in Forms
      PROVE  ~ Receive(d, o, t, f)
  BY <1>1, <1>2 DEF Receive
<1>6. PICK d \in Calls : AskReturns(d)
  BY <1>2, <1>5, <1>c DEF PipeNext, AskGoesOn, Environment, pipeVars
<1>7. PassOn(d)
  BY <1>3, <1>6 DEF AskReturns, Decided
<1>8. d = c /\ outcome'[c] = "granted"
  BY <1>3, <1>4, <1>6, <1>7 DEF AskReturns, Decided
<1>9. Held(who[c]) /\ who[c] = caller[c] /\ caller[c] # Nobody
  BY <1>6, <1>8, VerdictRecent DEF AskReturns, AsksForCaller
<1> QED
  BY <1>9 DEF CallerIsSubject

(* router.go:43-46: moderator operations are for moderators of a moment ago. *)
THEOREM ModeratorsOnly == PipeSpec => OnlyModerators
<1>1. PipeIInv /\ [PipeNext]_allVars
        => [\A c \in Calls : Entered(c) /\ op[c] \in ModOperations =>
              Genuine(token[c]) /\ Held(token[c].sub)]_allVars
  BY ModeratorEnters
<1> QED
  BY <1>1, PipelineInvariance, PTL DEF PipeSpec, OnlyModerators

(* Each of the two refusals has its reason. *)
LEMMA RefusedForCause ==
  ASSUME PipeIInv, PipeNext, NEW c \in Calls, Answered(c)
  PROVE  /\ reply'[c] = "FORBIDDEN" => Genuine(token[c]) /\ Lacked(token[c].sub)
         /\ reply'[c] = "UNAUTHORIZED" => Subject(token[c], now) = Nobody
<1> USE DEF PipeIInv
<1>1. /\ stage \in [Calls -> {"new", "bind", "chain", "asking", "handler", "done"}]
      /\ reply \in [Calls -> Codes \cup Untyped \cup {"none", "OK"}]
      /\ policy \in Policies
      /\ stage[c] # "done" /\ stage'[c] = "done"
  BY DEF PipeTypeOK, Answered
<1>2. ASSUME NEW d \in Calls, NEW code, Respond(d, code)
      PROVE  d = c /\ reply'[c] = code
  <2>1. stage' = [stage EXCEPT ![d] = "done"] /\ reply' = [reply EXCEPT ![d] = code]
    BY <1>2 DEF Respond
  <2> QED
    BY <1>1, <2>1
<1>3. ASSUME NEW d \in Calls, PassOn(d) PROVE FALSE
  <2>1. stage' = [stage EXCEPT ![d] = IF step[d] < Len(Chain(policy, op[d]))
                                      THEN "chain" ELSE "handler"]
    BY <1>3 DEF PassOn
  <2> QED
    BY <1>1, <2>1
<1>4. ASSUME NEW d \in Calls, Bind(d) \/ StepAnonymous(d) \/ StepDeny(d)
      PROVE  reply'[c] \notin {"FORBIDDEN", "UNAUTHORIZED"}
  BY <1>2, <1>3, <1>4 DEF Bind, StepAnonymous, StepDeny
<1>5. ASSUME NEW d \in Calls, StepJWT(d)
      PROVE  reply'[c] = "UNAUTHORIZED" /\ Subject(token[c], now) = Nobody
  BY <1>2, <1>3, <1>5 DEF StepJWT
<1>6. ASSUME NEW d \in Calls, StepMod(d)
      PROVE  FALSE
  <2>1. CASE caller[d] = Nobody
    <3>1. d = c /\ stage[c] = "chain" /\ Chain(policy, op[c])[step[c]] = "mod"
      BY <1>2, <1>6, <2>1 DEF StepMod, MyStep
    <3>2. step[c] \in 1 .. Len(Chain(policy, op[c])) /\ Len(Chain(policy, op[c])) \in {1, 2}
      BY <1>1, <3>1, ChainSteps DEF PlaceInChain
    <3>3. Chain(policy, op[c])[1] \in {"anonymous", "jwt", "deny"}
      BY <1>1, ChainSteps
    <3>4. step[c] = 2 /\ Len(Chain(policy, op[c])) = 2
      BY <3>1, <3>2, <3>3
    <3>5. caller[c] # Nobody
      BY <1>1, <3>4, ChainSteps DEF IdentifiedOnceChecked
    <3> QED
      BY <2>1, <3>1, <3>5
  <2>2. CASE caller[d] # Nobody
    BY <1>1, <1>6, <2>2 DEF StepMod
  <2> QED
    BY <2>1, <2>2
<1>7. ASSUME NEW d \in Calls, Handle(d)
      PROVE  reply'[c] \notin {"FORBIDDEN", "UNAUTHORIZED"}
  <2>1. d = c /\ reply'[c] \in HandlerReplies(op[c], caller[c]) /\ stage[c] = "handler"
    BY <1>2, <1>7 DEF Handle
  <2>2. op[c] \in OwnLists => caller[c] # Nobody
    BY <1>1, <2>1, ChainSteps DEF IdentifiedOnceChecked
  <2> QED
    BY <2>1, <2>2, PipelineAssumption DEF HandlerReplies
<1>8. ASSUME NEW d \in Calls, AskReturns(d)
      PROVE  /\ reply'[c] # "UNAUTHORIZED"
             /\ reply'[c] = "FORBIDDEN" => Genuine(token[c]) /\ Lacked(token[c].sub)
  <2>1. outcome'[d] # "granted" /\ d = c
    BY <1>2, <1>3, <1>8 DEF AskReturns, Decided
  <2>2. CASE outcome'[c] = "denied"
    <3>1. reply'[c] = "FORBIDDEN"
      BY <1>2, <1>8, <2>1, <2>2 DEF AskReturns, Decided
    <3>2. Lacked(who[c]) /\ who[c] = caller[c] /\ caller[c] # Nobody
      BY <1>8, <2>1, <2>2, VerdictRecent DEF AskReturns, AsksForCaller
    <3> QED
      BY <3>1, <3>2 DEF CallerIsSubject
  <2>3. CASE outcome'[c] # "denied"
    BY <1>2, <1>8, <2>1, <2>3 DEF AskReturns, Decided
  <2> QED
    BY <2>2, <2>3
<1>9. ASSUME NEW d \in Calls, NEW o \in Operations, NEW t \in Tokens, NEW f \in Forms
      PROVE  ~ Receive(d, o, t, f)
  BY <1>1 DEF Receive
<1> QED
  BY <1>1, <1>4, <1>5, <1>6, <1>7, <1>8, <1>9
     DEF PipeNext, Serve, AskGoesOn, Environment, pipeVars

(* The API's error table: 403 and 401 say what was so. *)
THEOREM RefusalTheorem == PipeSpec => RefusalsTruthful
<1>1. PipeIInv /\ [PipeNext]_allVars
        => [\A c \in Calls : Answered(c) =>
              /\ reply'[c] = "FORBIDDEN" => Genuine(token[c]) /\ Lacked(token[c].sub)
              /\ reply'[c] = "UNAUTHORIZED" => Subject(token[c], now) = Nobody]_allVars
  BY RefusedForCause
<1> QED
  BY <1>1, PipelineInvariance, PTL DEF PipeSpec, RefusalsTruthful
=============================================================================
