------------------------------ MODULE ConnPool ------------------------------
(***************************************************************************)
(* Requests and the database connections they share: sql.DB as db.Open     *)
(* configures it, and the queries of a handler, one after the other, each  *)
(* with a connection of its own that goes back when its rows are closed.   *)
(* A moderator request first waits for the Authority Service, which may    *)
(* never answer: the client has no timeout.                                *)
(***************************************************************************)
EXTENDS Integers

CONSTANTS
    Handlers,       \* client connections, at most one request in flight on each
    Conns,          \* SetMaxOpenConns(10): the connections that may be open
    Free,           \* holder of a connection nobody uses
    MaxQueries      \* bound on the queries of one request

ASSUME PoolAssumption == MaxQueries \in Nat /\ Free \notin Handlers

VARIABLES
    stage,          \* where the request of each client connection is
    left,           \* queries it has still to run
    holder,         \* who uses each database connection
    open            \* sql.DB is open

poolVars == <<stage, left, holder, open>>

(* "none": no connection; "new": accepted, no request read yet; "idle": kept *)
(* alive after a response.                                                   *)
Stages == {"none", "new", "idle", "checking", "waiting", "querying", "writing"}

Active(h) == stage[h] \in {"checking", "waiting", "querying", "writing"}

PoolTypeOK ==
    /\ stage \in [Handlers -> Stages]
    /\ left \in [Handlers -> 0 .. MaxQueries]
    /\ holder \in [Conns -> Handlers \cup {Free}]
    /\ open \in BOOLEAN

PoolInit ==
    /\ stage = [h \in Handlers |-> "none"]
    /\ left = [h \in Handlers |-> 0]
    /\ holder = [c \in Conns |-> Free]
    /\ open = TRUE

-----------------------------------------------------------------------------
(* net/http accepts a connection. *)
Connect(h) ==
    /\ stage[h] = "none"
    /\ stage' = [stage EXCEPT ![h] = "new"]
    /\ UNCHANGED <<left, holder, open>>

(* Authorize picks the chain: RequireModPermission may have to ask Authority *)
(* before the handler runs; a refused request, /health and /metrics run no   *)
(* query at all.                                                             *)
Request(h, queries, asksAuthority) ==
    /\ stage[h] \in {"new", "idle"}
    /\ stage' = [stage EXCEPT ![h] = IF asksAuthority THEN "checking"
                                     ELSE IF queries = 0 THEN "writing" ELSE "waiting"]
    /\ left' = [left EXCEPT ![h] = queries]
    /\ UNCHANGED <<holder, open>>

(* HasPermission returns: go on, or answer 403 or 503 at once. *)
Authorized(h, granted) ==
    /\ stage[h] = "checking"
    /\ LET goOn == granted /\ left[h] > 0
       IN  /\ stage' = [stage EXCEPT ![h] = IF goOn THEN "waiting" ELSE "writing"]
           /\ left' = [left EXCEPT ![h] = IF goOn THEN @ ELSE 0]
    /\ UNCHANGED <<holder, open>>

Acquire(h) ==
    /\ stage[h] = "waiting" /\ open
    /\ \E c \in Conns :
          /\ holder[c] = Free
          /\ holder' = [holder EXCEPT ![c] = h]
    /\ stage' = [stage EXCEPT ![h] = "querying"]
    /\ UNCHANGED <<left, open>>

Released(h) == [c \in Conns |-> IF holder[c] = h THEN Free ELSE holder[c]]

(* Mutant of QueryDone: the list's rows stay open while the next queries run. *)
QueryDoneKeepsRows(h) ==
    /\ stage[h] = "querying"
    /\ holder' = IF left[h] = 1 THEN Released(h) ELSE holder
    /\ left' = [left EXCEPT ![h] = @ - 1]
    /\ stage' = [stage EXCEPT ![h] = IF left[h] = 1 THEN "writing" ELSE "waiting"]
    /\ UNCHANGED open

(* Scan of the single row, or "defer rows.Close()" at the end of a list.     *)
QueryDone(h) ==
    /\ stage[h] = "querying"
    /\ holder' = Released(h)
    /\ left' = [left EXCEPT ![h] = @ - 1]
    /\ stage' = [stage EXCEPT ![h] = IF left[h] = 1 THEN "writing" ELSE "waiting"]
    /\ UNCHANGED open

(* Mutant of QueryFails: the early return of a scan error leaves rows open.  *)
QueryFailsLeaks(h) ==
    /\ stage[h] = "querying"
    /\ left' = [left EXCEPT ![h] = 0]
    /\ stage' = [stage EXCEPT ![h] = "writing"]
    /\ UNCHANGED <<holder, open>>

(* The query, the scan or rows.Err fails, or the client hangs up and its     *)
(* context is cancelled: the error goes up, no further query runs.           *)
QueryFails(h) ==
    /\ stage[h] = "querying"
    /\ holder' = Released(h)
    /\ left' = [left EXCEPT ![h] = 0]
    /\ stage' = [stage EXCEPT ![h] = "writing"]
    /\ UNCHANGED open

(* A query that finds no connection: its client hung up while it waited, or  *)
(* the pool is closed.                                                       *)
Unserved(h) ==
    /\ stage[h] = "waiting"
    /\ left' = [left EXCEPT ![h] = 0]
    /\ stage' = [stage EXCEPT ![h] = "writing"]
    /\ UNCHANGED <<holder, open>>

(* The response is written and the connection kept, or closed. *)
Answer(h, next) ==
    /\ stage[h] = "writing"
    /\ stage' = [stage EXCEPT ![h] = next]
    /\ UNCHANGED <<left, holder, open>>

(* sql.DB.Close: waiting queries fail, running ones keep their connection.   *)
ClosePool ==
    /\ open
    /\ open' = FALSE
    /\ UNCHANGED <<stage, left, holder>>

HandlerStep(h) ==
    \/ \E q \in 0 .. MaxQueries, asks \in BOOLEAN : Request(h, q, asks)
    \/ \E granted \in BOOLEAN : Authorized(h, granted)
    \/ Acquire(h)
    \/ QueryDone(h)
    \/ QueryFails(h)
    \/ Unserved(h)
    \/ \E next \in {"idle", "none"} : Answer(h, next)

PoolNext == (\E h \in Handlers : Connect(h) \/ HandlerStep(h)) \/ ClosePool

(* A connection that comes back goes to a waiting query picked at random     *)
(* (connRequests.TakeRandom), so none waits for ever while others are        *)
(* served: strong fairness.  A query that runs ends, one that meets a closed *)
(* pool fails, a response is written.  Nothing is assumed of Authority.      *)
PoolFairness ==
    \A h \in Handlers :
        /\ SF_poolVars(Acquire(h))
        /\ WF_poolVars(QueryDone(h) \/ QueryFails(h))
        /\ WF_poolVars(~ open /\ Unserved(h))
        /\ WF_poolVars(Answer(h, "idle") \/ Answer(h, "none"))

PoolSpec == PoolInit /\ [][PoolNext]_poolVars /\ PoolFairness

-----------------------------------------------------------------------------
(* punishment_repo.go:245-259, punishment_mapper.go:50: no handler keeps a   *)
(* connection between two queries or after a failed one, so the pool cannot  *)
(* run dry, nor requests wait for each other's connections.                  *)
NoConnectionLeaks ==
    \A c \in Conns : holder[c] # Free => stage[holder[c]] = "querying"

(* A request at a query has one to run. *)
QueriesLeft == \A h \in Handlers : stage[h] \in {"waiting", "querying"} => left[h] > 0

(* Every request that reaches the database is answered, however many others  *)
(* compete for the pool and however many hang on an Authority Service that   *)
(* does not answer.                                                          *)
QueriesAnswered ==
    \A h \in Handlers : stage[h] = "waiting" ~> ~ Active(h)
=============================================================================
