--------------------------- MODULE AuthorityCache ---------------------------
(***************************************************************************)
(* internal/auth/authority.go: the moderator-permission client with its    *)
(* TTL cache, called by concurrent requests, over the remote Authority     *)
(* Service (external).  A permission slice is only searched by             *)
(* slices.Contains, so it is a set here.  The mutex makes fromCache and    *)
(* store atomic; nothing else is: a call that misses holds no lock while   *)
(* it waits, and other calls miss, answer and store meanwhile.             *)
(***************************************************************************)
EXTENDS Integers

CONSTANTS
    Calls,          \* concurrent calls of HasPermission
    Uuids,          \* JWT subjects
    Permissions,    \* permission nodes Authority may return
    ModPermission,  \* the node RequireModPermission asks for
    TTL,            \* AuthorityClient.ttl
    MaxLatency,     \* how long an upstream call takes at most: a promise of the
                    \* environment, the code sets no timeout
    MaxTime         \* bound on the clock

ASSUME ConstantsAssumption ==
    /\ TTL \in Nat
    /\ MaxLatency \in Nat
    /\ MaxTime \in Nat

VARIABLES
    now,        \* wall clock
    rank,       \* Authority's permissions of each player
    lastHeld,   \* history: last instant at which rank[u] was S, -1: never
    cache,      \* AuthorityClient.cache
    pc,         \* where each call is
    who,        \* its uuid argument
    sentAt,     \* history: instant of its cache miss
    answer,     \* resp.JSON200.Permissions, once Authority has read the rank
    outcome     \* what HasPermission returned

vars == <<now, rank, lastHeld, cache, pc, who, sentAt, answer, outcome>>

PermSets == SUBSET Permissions
Time     == 0 .. MaxTime
Entries  == [permissions : PermSets, expiresAt : Int]

(* A uuid absent from the Go map: never fresh, like an entry expired always. *)
NoEntry == [permissions |-> {}, expiresAt |-> -1]

Outstanding(c) == pc[c] \in {"fetch", "answered"}

TypeOK ==
    /\ now \in Time
    /\ rank \in [Uuids -> PermSets]
    /\ lastHeld \in [Uuids -> [PermSets -> -1 .. MaxTime]]
    /\ cache \in [Uuids -> Entries]
    /\ pc \in [Calls -> {"idle", "lookup", "fetch", "answered"}]
    /\ who \in [Calls -> Uuids]
    /\ sentAt \in [Calls -> Time]
    /\ answer \in [Calls -> PermSets]
    /\ outcome \in [Calls -> {"none", "pending", "granted", "denied", "error"}]

Init ==
    /\ now = 0
    /\ rank \in [Uuids -> PermSets]
    /\ lastHeld = [u \in Uuids |-> [S \in PermSets |-> IF S = rank[u] THEN 0 ELSE -1]]
    /\ cache = [u \in Uuids |-> NoEntry]
    /\ pc = [c \in Calls |-> "idle"]
    /\ \E u \in Uuids : who = [c \in Calls |-> u]      \* no call has an argument yet
    /\ sentAt = [c \in Calls |-> 0]
    /\ answer = [c \in Calls |-> {}]
    /\ outcome = [c \in Calls |-> "none"]

-----------------------------------------------------------------------------
(* slices.Contains, and what RequireModPermission makes of it. *)
Verdict(S) == IF ModPermission \in S THEN "granted" ELSE "denied"

(* The locals of a call end with it. *)
Finish(c, result) ==
    /\ pc' = [pc EXCEPT ![c] = "idle"]
    /\ sentAt' = [sentAt EXCEPT ![c] = 0]
    /\ answer' = [answer EXCEPT ![c] = {}]
    /\ outcome' = [outcome EXCEPT ![c] = result]

(* Mutant of Fresh: an entry dies one instant early. *)
FreshStrict(entry, t) == t < entry.expiresAt

(* fromCache: ok, and time.Now() is not After expiresAt. *)
Fresh(entry, t) == t <= entry.expiresAt

(* Mutant of Expiry: an entry outlives its TTL. *)
ExpiryLate(t) == t + TTL + 1

Expiry(t) == t + TTL

(* store: the clock is read while the lock is held. *)
Store(u, S) ==
    cache' = [cache EXCEPT ![u] = [permissions |-> S, expiresAt |-> Expiry(now)]]

Begin(c, u) ==
    /\ pc[c] = "idle"
    /\ pc' = [pc EXCEPT ![c] = "lookup"]
    /\ who' = [who EXCEPT ![c] = u]
    /\ outcome' = [outcome EXCEPT ![c] = "pending"]
    /\ UNCHANGED <<now, rank, lastHeld, cache, sentAt, answer>>

(* Mutant of Hit: a hit renews the entry (sliding expiry). *)
HitRenews(c) ==
    /\ pc[c] = "lookup"
    /\ Fresh(cache[who[c]], now)
    /\ Store(who[c], cache[who[c]].permissions)
    /\ Finish(c, Verdict(cache[who[c]].permissions))
    /\ UNCHANGED <<now, rank, lastHeld, who>>

Hit(c) ==
    /\ pc[c] = "lookup"
    /\ Fresh(cache[who[c]], now)
    /\ Finish(c, Verdict(cache[who[c]].permissions))
    /\ UNCHANGED <<now, rank, lastHeld, cache, who>>

Miss(c) ==
    /\ pc[c] = "lookup"
    /\ ~ Fresh(cache[who[c]], now)
    /\ pc' = [pc EXCEPT ![c] = "fetch"]
    /\ sentAt' = [sentAt EXCEPT ![c] = now]
    /\ UNCHANGED <<now, rank, lastHeld, cache, who, answer, outcome>>

(* Authority reads the rank; the response is still on its way. *)
Answer(c) ==
    /\ pc[c] = "fetch"
    /\ pc' = [pc EXCEPT ![c] = "answered"]
    /\ answer' = [answer EXCEPT ![c] = rank[who[c]]]
    /\ UNCHANGED <<now, rank, lastHeld, cache, who, sentAt, outcome>>

(* A transport error, a cancelled request or a response other than 200: *)
(* nothing is stored.                                                    *)
Fail(c) ==
    /\ Outstanding(c)
    /\ Finish(c, "error")
    /\ UNCHANGED <<now, rank, lastHeld, cache, who>>

(* Mutant of StoreAndReturn: the TTL runs from the sending of the request. *)
StoreFromSendTime(c) ==
    /\ pc[c] = "answered"
    /\ cache' = [cache EXCEPT ![who[c]] =
                    [permissions |-> answer[c], expiresAt |-> Expiry(sentAt[c])]]
    /\ Finish(c, Verdict(answer[c]))
    /\ UNCHANGED <<now, rank, lastHeld, who>>

StoreAndReturn(c) ==
    /\ pc[c] = "answered"
    /\ Store(who[c], answer[c])
    /\ Finish(c, Verdict(answer[c]))
    /\ UNCHANGED <<now, rank, lastHeld, who>>

(* The Authority Service and the clock. *)
ChangeRank(u, S) ==
    /\ rank' = [rank EXCEPT ![u] = S]
    /\ lastHeld' = [lastHeld EXCEPT ![u][S] = now]
    /\ UNCHANGED <<now, cache, pc, who, sentAt, answer, outcome>>

Tick ==
    /\ now < MaxTime
    /\ \A c \in Calls : Outstanding(c) => now < sentAt[c] + MaxLatency
    /\ now' = now + 1
    /\ lastHeld' = [u \in Uuids |-> [lastHeld[u] EXCEPT ![rank[u]] = now + 1]]
    /\ UNCHANGED <<rank, cache, pc, who, sentAt, answer, outcome>>

Next ==
    \/ \E c \in Calls, u \in Uuids : Begin(c, u)
    \/ \E c \in Calls : Hit(c) \/ Miss(c) \/ Answer(c) \/ Fail(c) \/ StoreAndReturn(c)
    \/ \E u \in Uuids, S \in PermSets : ChangeRank(u, S)
    \/ Tick

Spec == Init /\ [][Next]_vars

-----------------------------------------------------------------------------
(* The client implements the oracle: however calls interleave, an answer    *)
(* rests on a rank the player had at most TTL + MaxLatency ago, so a grant   *)
(* or a revocation is seen by every call after that time.                    *)
Oracle == INSTANCE PermissionOracle WITH Staleness <- TTL + MaxLatency

OracleSpec == Oracle!Spec

(* authority.go:76-80 under concurrent misses: a store never shortens the    *)
(* life of the entry it replaces, whichever of two calls stores last.        *)
ExpiryMonotone ==
    [][\A u \in Uuids : cache'[u].expiresAt >= cache[u].expiresAt]_vars

(* authority_test.go:37, "Second call within TTL should be served from       *)
(* cache, not hit the server again": no outstanding upstream call was sent   *)
(* after the player's entry was stored and before it expired.  (A call sent  *)
(* before the store is a concurrent miss, which the code does not prevent.)  *)
NoFetchWithinTTL ==
    \A c \in Calls : Outstanding(c) =>
        LET e == cache[who[c]].expiresAt
        IN  sentAt[c] \notin (e - TTL + 1) .. e

-----------------------------------------------------------------------------
(* The inductive invariant behind the refinement: what the cache and the     *)
(* responses in flight hold was true recently enough.                        *)
CallsInTime ==
    \A c \in Calls : Outstanding(c) => sentAt[c] <= now /\ now <= sentAt[c] + MaxLatency

AnswersRecent ==
    \A c \in Calls : pc[c] = "answered" => lastHeld[who[c]][answer[c]] >= sentAt[c]

EntriesRecent ==
    \A u \in Uuids : cache[u] # NoEntry =>
        /\ cache[u].expiresAt \in TTL .. now + TTL
        /\ lastHeld[u][cache[u].permissions] >= 0
        /\ lastHeld[u][cache[u].permissions] >= cache[u].expiresAt - TTL - MaxLatency

HistoryUpToNow ==
    \A u \in Uuids :
        /\ lastHeld[u][rank[u]] = now
        /\ \A S \in PermSets : lastHeld[u][S] <= now

PendingMatchesPc == \A c \in Calls : outcome[c] = "pending" <=> pc[c] # "idle"

IInv ==
    /\ TypeOK
    /\ CallsInTime
    /\ AnswersRecent
    /\ EntriesRecent
    /\ HistoryUpToNow
    /\ PendingMatchesPc
=============================================================================
