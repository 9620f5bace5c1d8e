-------------------------- MODULE PermissionOracle --------------------------
(***************************************************************************)
(* What RequireModPermission may rely on when it asks HasPermission: the   *)
(* answer "granted" or "denied" was true of the player's rank at some      *)
(* instant at most Staleness ago.  Nothing is said of how: no cache, no    *)
(* upstream call.  AuthorityCache is checked, and proved, to implement it. *)
(***************************************************************************)
EXTENDS Integers

CONSTANTS
    Calls,          \* concurrent HasPermission calls
    Uuids,          \* player uuids
    Permissions,    \* permission nodes
    ModPermission,  \* AUTHORITY_MOD_PERMISSION
    Staleness,      \* age of the oldest rank an answer may rest on
    MaxTime         \* bound on the clock

VARIABLES
    now,        \* wall clock
    rank,       \* permissions the Authority Service holds for each player
    lastHeld,   \* lastHeld[u][S]: last instant at which rank[u] was S, -1: never
    who,        \* player each call asks about
    outcome     \* what the call told its caller

vars == <<now, rank, lastHeld, who, outcome>>

PermSets == SUBSET Permissions
Outcomes == {"none", "pending", "granted", "denied", "error"}

Init ==
    /\ now = 0
    /\ rank \in [Uuids -> PermSets]
    /\ lastHeld = [u \in Uuids |-> [S \in PermSets |-> IF S = rank[u] THEN 0 ELSE -1]]
    /\ who \in [Calls -> Uuids]
    /\ outcome = [c \in Calls |-> "none"]

Tick ==
    /\ now < MaxTime
    /\ now' = now + 1
    /\ lastHeld' = [u \in Uuids |-> [lastHeld[u] EXCEPT ![rank[u]] = now + 1]]
    /\ UNCHANGED <<rank, who, outcome>>

ChangeRank(u, S) ==
    /\ rank' = [rank EXCEPT ![u] = S]
    /\ lastHeld' = [lastHeld EXCEPT ![u][S] = now]
    /\ UNCHANGED <<now, who, outcome>>

Ask(c, u) ==
    /\ outcome[c] # "pending"
    /\ who' = [who EXCEPT ![c] = u]
    /\ outcome' = [outcome EXCEPT ![c] = "pending"]
    /\ UNCHANGED <<now, rank, lastHeld>>

(* S is, or was at most Staleness ago, the rank of u. *)
Recent(u, S) == lastHeld[u][S] >= 0 /\ lastHeld[u][S] >= now - Staleness

Decide(c) ==
    /\ outcome[c] = "pending"
    /\ \E S \in PermSets :
          /\ Recent(who[c], S)
          /\ outcome' = [outcome EXCEPT ![c] =
                            IF ModPermission \in S THEN "granted" ELSE "denied"]
    /\ UNCHANGED <<now, rank, lastHeld, who>>

(* "Returns an error if Authority is unreachable": never an answer instead. *)
GiveUp(c) ==
    /\ outcome[c] = "pending"
    /\ outcome' = [outcome EXCEPT ![c] = "error"]
    /\ UNCHANGED <<now, rank, lastHeld, who>>

Next ==
    \/ Tick
    \/ \E u \in Uuids, S \in PermSets : ChangeRank(u, S)
    \/ \E c \in Calls, u \in Uuids : Ask(c, u)
    \/ \E c \in Calls : Decide(c) \/ GiveUp(c)

Spec == Init /\ [][Next]_vars
=============================================================================
