---------------------------- MODULE PlayerLookup ----------------------------
(***************************************************************************)
(* The two lookup endpoints, over the history of joins the plugin goes on  *)
(* writing: a player by name or by uuid, and the names of many uuids in    *)
(* one query.  Rows of the result are scanned one at a time; the plugin    *)
(* writes, and the connection may fail, between any two steps.             *)
(***************************************************************************)
EXTENDS Integers, Sequences, FiniteSets

CONSTANTS
    Uuids,          \* uuids in canonical form: lower case, with dashes
    Names,          \* names as they are spelled
    Words, Word,    \* a name up to case, which is how MySQL compares names
    JoinNames,      \* names players join under, bounds the model
    PlayerNames,    \* names of 1 to 16 letters, digits or underscores
    ConsoleAliases, \* CONSOLE_ALIASES
    Requests,       \* requests the clients send
    None,           \* an absent or empty parameter; also no request
    MaxBatch,       \* maxLookupBatchSize
    MaxJoins,       \* bound on the plugin's writes
    MaxTime         \* bound on the clock

(* What a client may write for a uuid: with or without dashes, in either     *)
(* case, or something else.                                                  *)
Spelling == [uuid : Uuids, form : {"dashed", "bare", "other"}, upper : BOOLEAN]

Lookup == [op : {"lookup"}, name : Names \cup {None}, uuid : Spelling \cup {None},
           moderatorName : Names \cup {None}, moderatorUuid : Spelling \cup {None}]

Batch == [op : {"batch"}, uuids : Seq(Spelling)]

ASSUME LookupAssumption ==
    /\ Word \in [Names -> Words]
    /\ JoinNames \subseteq Names /\ PlayerNames \subseteq Names /\ ConsoleAliases \subseteq Names
    /\ None \notin Uuids \cup Names \cup Spelling \cup Requests
    /\ Requests \subseteq Lookup \cup Batch
    /\ MaxBatch \in Nat /\ MaxJoins \in Nat /\ MaxTime \in Nat

VARIABLES
    now,        \* wall clock
    history,    \* the history table: joins, oldest first
    req,        \* the request in flight
    phase,      \* "idle", "query", "scan" or "done"
    pending,    \* rows of the result not scanned yet: uuid to name
    players,    \* the answer so far: uuid to name
    status,     \* HTTP status of the response
    began       \* history: joins recorded when the request came in

lookupVars == <<req, phase, pending, players, status, began>>
vars == <<now, history, lookupVars>>

Joins == [uuid : Uuids, name : Names, date : Nat]

NameMap(f) == DOMAIN f \subseteq Uuids /\ \A u \in DOMAIN f : f[u] \in Names

TypeOK ==
    /\ now \in Nat
    /\ history \in Seq(Joins)
    /\ req \in Requests \cup {None}
    /\ phase \in {"idle", "query", "scan", "done"}
    /\ NameMap(pending) /\ NameMap(players)
    /\ status \in {"none", "200", "400", "404", "503"}
    /\ began \in Nat

Init ==
    /\ now = 0 /\ history = << >>
    /\ req = None /\ phase = "idle" /\ pending = << >> /\ players = << >>
    /\ status = "none" /\ began = 0

-----------------------------------------------------------------------------
(* The plugin records every join, under the name the player has by then.     *)
Join(u, n) ==
    /\ Len(history) < MaxJoins
    /\ history' = Append(history, [uuid |-> u, name |-> n, date |-> now])
    /\ UNCHANGED now /\ UNCHANGED lookupVars

Tick ==
    /\ now < MaxTime
    /\ now' = now + 1
    /\ UNCHANGED history /\ UNCHANGED lookupVars

-----------------------------------------------------------------------------
(* The history as it was after k joins. *)
Same(n, m) == Word[n] = Word[m]

JoinsOf(k, u) == {i \in 1 .. k : history[i].uuid = u}
JoinsAs(k, n) == {i \in 1 .. k : Same(history[i].name, n)}

(* ORDER BY date DESC LIMIT 1: any of the rows of the newest instant. *)
Newest(rows) == {i \in rows : \A j \in rows : history[j].date <= history[i].date}

Known == Len(history)

-----------------------------------------------------------------------------
(* NormalizeUUID: both forms are the same canonical uuid in any case; None   *)
(* is the refusal.                                                           *)
NormalizeUUID(raw) == IF raw.form = "other" THEN None ELSE raw.uuid

Given(r) == {p \in {"name", "uuid", "moderatorName", "moderatorUuid"} : r[p] # None}

(* The one parameter given: a moderator is looked up as a player is. *)
ByName(r) == r.op = "lookup" /\ (r.name # None \/ r.moderatorName # None)
NameOf(r) == IF r.name # None THEN r.name ELSE r.moderatorName
UuidOf(r) == NormalizeUUID(IF r.uuid # None THEN r.uuid ELSE r.moderatorUuid)

Asked(r) == {NormalizeUUID(r.uuids[i]) : i \in DOMAIN r.uuids}

(* What is refused with 400 before any query; the limit counts duplicates.   *)
Refused(r) ==
    CASE r.op = "batch" -> r.uuids = << >> \/ Len(r.uuids) > MaxBatch \/ None \in Asked(r)
      [] r.op = "lookup" /\ Cardinality(Given(r)) # 1 -> TRUE
      [] OTHER -> IF ByName(r) THEN NameOf(r) \notin PlayerNames ELSE UuidOf(r) = None

Begin(r) ==
    /\ phase = "idle"
    /\ req' = r
    /\ began' = Known

Respond(code) ==
    /\ phase' = "done"
    /\ status' = code

Refuse(r) ==
    /\ Begin(r) /\ Refused(r)
    /\ Respond("400")
    /\ UNCHANGED <<pending, players>> /\ UNCHANGED <<now, history>>

Start(r) ==
    /\ Begin(r) /\ ~ Refused(r)
    /\ phase' = "query"
    /\ UNCHANGED <<pending, players, status>> /\ UNCHANGED <<now, history>>

(* The console has no uuid; its aliases are compared as they are spelled.    *)
Alias ==
    /\ phase = "query" /\ ByName(req) /\ NameOf(req) \in ConsoleAliases
    /\ Respond("200")
    /\ UNCHANGED <<req, pending, players, began>> /\ UNCHANGED <<now, history>>

(* The answer to one lookup: the row found, under the name asked for, or     *)
(* none.                                                                     *)
Found(rows) ==
    \/ rows = {} /\ Respond("404") /\ UNCHANGED players
    \/ \E i \in Newest(rows) :
          /\ players' = [u \in {history[i].uuid} |->
                            IF ByName(req) THEN NameOf(req) ELSE history[i].name]
          /\ Respond("200")

(* LatestUUIDByName, LatestNameByUUID. *)
QueryOne ==
    /\ phase = "query" /\ req.op = "lookup"
    /\ IF ByName(req)
       THEN NameOf(req) \notin ConsoleAliases /\ Found(JoinsAs(Known, NameOf(req)))
       ELSE Found(JoinsOf(Known, UuidOf(req)))
    /\ UNCHANGED <<req, pending, began>> /\ UNCHANGED <<now, history>>

(* LatestNamesByUUIDs: the newest row of each uuid, in one statement. *)
QueryMany ==
    /\ phase = "query" /\ req.op = "batch"
    /\ LET hits == {u \in Asked(req) : JoinsOf(Known, u) # {}}
       IN  \E m \in [hits -> Names] :
              /\ \A u \in hits :
                    \E i \in Newest(JoinsOf(Known, u)) : m[u] = history[i].name
              /\ pending' = m
    /\ phase' = "scan"
    /\ UNCHANGED <<req, players, status, began>> /\ UNCHANGED <<now, history>>

With(f, u, n) == [v \in DOMAIN f \cup {u} |-> IF v = u THEN n ELSE f[v]]
Without(f, u) == [v \in DOMAIN f \ {u} |-> f[v]]

(* Mutant of ScanRow: each name is read again when its row is scanned. *)
ScanRowReadsAgain ==
    /\ phase = "scan"
    /\ \E u \in DOMAIN pending, i \in DOMAIN history :
          /\ i \in Newest(JoinsOf(Known, u))
          /\ players' = With(players, u, history[i].name)
          /\ pending' = Without(pending, u)
    /\ UNCHANGED <<req, phase, status, began>> /\ UNCHANGED <<now, history>>

ScanRow ==
    /\ phase = "scan"
    /\ \E u \in DOMAIN pending :
          /\ players' = With(players, u, pending[u])
          /\ pending' = Without(pending, u)
    /\ UNCHANGED <<req, phase, status, began>> /\ UNCHANGED <<now, history>>

(* Mutant of ScanEnds: "if rows.Next()" for "for rows.Next()". *)
ScanEndsEarly ==
    /\ phase = "scan"
    /\ Respond("200") /\ pending' = << >>
    /\ UNCHANGED <<req, players, began>> /\ UNCHANGED <<now, history>>

ScanEnds ==
    /\ phase = "scan" /\ pending = << >>
    /\ Respond("200")
    /\ UNCHANGED <<req, pending, players, began>> /\ UNCHANGED <<now, history>>

(* Mutant of QueryFails: a scan cut short ends the loop, and rows.Err() is   *)
(* not looked at.                                                            *)
QueryFailsUnnoticed ==
    /\ phase = "scan"
    /\ Respond("200") /\ pending' = << >>
    /\ UNCHANGED <<req, players, began>> /\ UNCHANGED <<now, history>>

(* Mutant of QueryFails: any error is taken for "no rows". *)
QueryFailsAsAbsent ==
    /\ phase = "query" /\ req.op = "lookup" /\ ~ (ByName(req) /\ NameOf(req) \in ConsoleAliases)
    /\ Respond("404")
    /\ UNCHANGED <<req, pending, players, began>> /\ UNCHANGED <<now, history>>

(* The query fails, or a row of its result, or the loop over them. *)
QueryFails ==
    /\ \/ phase = "scan"
       \/ phase = "query" /\ ~ (ByName(req) /\ NameOf(req) \in ConsoleAliases)
    /\ Respond("503") /\ pending' = << >> /\ players' = << >>
    /\ UNCHANGED <<req, began>> /\ UNCHANGED <<now, history>>

(* The client gets the answer. *)
Deliver ==
    /\ phase = "done" /\ phase' = "idle"
    /\ req' = None /\ players' = << >> /\ status' = "none" /\ began' = 0
    /\ UNCHANGED pending /\ UNCHANGED <<now, history>>

Next ==
    \/ \E u \in Uuids, n \in JoinNames : Join(u, n)
    \/ Tick
    \/ \E r \in Requests : Refuse(r) \/ Start(r)
    \/ Alias \/ QueryOne \/ QueryMany \/ ScanRow \/ ScanEnds \/ QueryFails \/ Deliver

Spec == Init /\ [][Next]_vars

-----------------------------------------------------------------------------
Answered == phase = "done" /\ status = "200"

(* A name a client was given for a uuid, as of the k-th join: by name, the   *)
(* last to join under it; by uuid, the name of its last join.                *)
CurrentAt(k, u, n) ==
    IF ByName(req) THEN \E i \in Newest(JoinsAs(k, n)) : history[i].uuid = u
                   ELSE \E i \in Newest(JoinsOf(k, u)) : history[i].name = n

(* history_repo.go:34: an answer, of many uuids too, is the history of one   *)
(* moment between request and response, however the plugin writes meanwhile. *)
AnswersCurrent ==
    Answered => \E k \in began .. Known : \A u \in DOMAIN players : CurrentAt(k, u, players[u])

(* server.go:148, "Unresolvable uuids are simply omitted": a batch leaves    *)
(* out no uuid that had joined before the request, in whichever form the     *)
(* client spelled it, and adds none it was not asked for.                    *)
BatchComplete ==
    Answered /\ req.op = "batch" =>
        /\ {u \in Asked(req) : JoinsOf(began, u) # {}} \subseteq DOMAIN players
        /\ DOMAIN players \subseteq {req.uuids[i].uuid : i \in DOMAIN req.uuids}

(* server.go:134: a failure is no absence.  404 means the name was no alias  *)
(* of the console and nobody had joined under the name or uuid asked for.    *)
NotFoundTruthful ==
    status = "404" =>
        IF ByName(req)
        THEN NameOf(req) \notin ConsoleAliases /\ JoinsAs(began, NameOf(req)) = {}
        ELSE JoinsOf(began, UuidOf(req)) = {}

-----------------------------------------------------------------------------
(* The inductive invariant behind these.                                     *)
InStep ==
    /\ began <= Known
    /\ phase # "idle" => req \in Requests
    /\ phase \in {"query", "scan"} \/ Answered => ~ Refused(req)
    /\ phase = "scan" => req.op = "batch"
    /\ phase # "scan" => pending = << >>
    /\ phase \in {"idle", "query"} => players = << >>
    /\ status # "none" => phase = "done"

(* The rows of one result are those of one moment of the request. *)
OneMoment ==
    phase = "scan" \/ Answered =>
        \E k \in began .. Known :
            /\ \A u \in DOMAIN pending : CurrentAt(k, u, pending[u])
            /\ \A u \in DOMAIN players : CurrentAt(k, u, players[u])
            /\ req.op = "batch" =>
                  {u \in Asked(req) : JoinsOf(k, u) # {}} = DOMAIN pending \cup DOMAIN players

IInv == TypeOK /\ InStep /\ OneMoment /\ NotFoundTruthful
=============================================================================
