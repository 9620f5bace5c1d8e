-------------------------- MODULE PunishmentReads --------------------------
(***************************************************************************)
(* One request to a list or by-id endpoint of any tier, against the        *)
(* database the LiteBans plugin goes on writing.  The handler, the service *)
(* and the repository run as the separate queries they are, in no          *)
(* transaction: count, list, batch of names, then one moderator lookup per *)
(* row.  Handlers only read and share nothing but the database, so one     *)
(* request in flight meets every interleaving there is with the writers.   *)
(***************************************************************************)
EXTENDS Punishments, SequencesExt

CONSTANTS
    Ids,            \* rows the database may hold
    Templates,      \* rows the plugin writes, time and until counted from now
    Requests,       \* requests the clients send
    NoRequest,
    MaxTime,        \* bound on the clock
    MaxWrites       \* bound on the plugin's writes

ASSUME BoundsAssumption == MaxTime \in Nat /\ MaxWrites \in Nat

Request ==
    [endpoint : {"list", "detail"}, tier : {"public", "player", "mod"},
     kind : Kinds \cup {"all"}, caller : Uuids \cup {Null}, badUuid : BOOLEAN,
     player : Uuids \cup {Null}, moderator : Uuids \cup {Null},
     active : Choice, silent : Choice,
     before : Int \cup {Null}, after : Int \cup {Null},
     page : Int \cup {Null}, pageSize : Int \cup {Null}, id : Ids \cup {Null}]

ASSUME RequestsAssumption ==
    /\ Requests \subseteq Request
    /\ NoRequest \notin Requests
    /\ Templates \subseteq Row

VARIABLES
    now,        \* wall clock, in milliseconds
    db,         \* the four punishment tables: partial function from Ids to Row
    names,      \* latest name of each player in the history table
    writes,     \* history: number of writes of the plugin so far
    req,        \* the request in flight
    phase,      \* the query it does next, or "done"
    stamp,      \* "now := time.Now()" of the service call
    total,      \* result of the count query
    counted,    \* history: writes when the count query ran
    rows,       \* result of the list query, or the row fetched
    nameMap,    \* result of ResolveNames
    items,      \* items mapped so far
    status      \* HTTP status of the response

dbVars   == <<now, db, names, writes>>
reqVars  == <<req, phase, stamp, total, counted, rows, nameMap, items, status>>
vars     == <<dbVars, reqVars>>

Phases == {"idle", "count", "list", "fetch", "stamp", "names", "map", "done"}

Statuses == {"yes", "no", "absent"}

Items == [type : Kinds, player : Uuids \cup {Empty, OfflineUUIDMarker},
          name : Names \cup {Null},
          moderator : [uuid : Uuids \cup {Null}, name : Names \cup {Null},
                       isConsole : BOOLEAN],
          permanent : Statuses, active : Statuses, silent : Statuses,
          expired : Statuses, removed : Statuses]

TypeOK ==
    /\ now \in Nat /\ stamp \in Nat /\ total \in Nat
    /\ writes \in Nat /\ counted \in Nat
    /\ IsFiniteSet(DOMAIN db) /\ DOMAIN db \subseteq Ids
    /\ \A i \in DOMAIN db : db[i] \in Row
    /\ names \in [Uuids -> Names \cup {Null}]
    /\ req \in Requests \cup {NoRequest}
    /\ phase \in Phases
    /\ rows \in Seq(Row)
    /\ DOMAIN nameMap \subseteq Uuids
    /\ \A u \in DOMAIN nameMap : nameMap[u] \in Names \cup {Null}
    /\ items \in Seq(Items)
    /\ status \in {"none", "200", "400", "401", "404", "503"}

Init ==
    /\ now = 0
    /\ db = << >>
    /\ names \in [Uuids -> Names \cup {Null}]
    /\ writes = 0
    /\ phase = "idle" /\ req = NoRequest /\ stamp = 0 /\ total = 0 /\ counted = 0
    /\ rows = << >> /\ nameMap = << >> /\ items = << >> /\ status = "none"

-----------------------------------------------------------------------------
(* The LiteBans plugin and the clock.                                        *)
Write == writes < MaxWrites /\ writes' = writes + 1

Insert(i, t) ==
    /\ i \notin DOMAIN db
    /\ Write
    /\ db' = [j \in DOMAIN db \cup {i} |->
                IF j = i
                THEN [t EXCEPT !.time = now,
                               !.until = IF t.until <= 0 THEN t.until ELSE now + t.until]
                ELSE db[j]]
    /\ UNCHANGED <<now, names>> /\ UNCHANGED reqVars

(* "LiteBans doesn't reliably flip the active bit back to 0 on manual        *)
(* removal": it may, or may not.                                             *)
Lift(i, by, bit) ==
    /\ i \in DOMAIN db /\ db[i].type # "kick" /\ ~ ExplicitlyRemoved(db[i])
    /\ bit \in {db[i].active, "no"}
    /\ Write
    /\ db' = [db EXCEPT ![i].removedBy = by, ![i].active = bit]
    /\ UNCHANGED <<now, names>> /\ UNCHANGED reqVars

Rename(u, n) ==
    /\ Write
    /\ names' = [names EXCEPT ![u] = n]
    /\ UNCHANGED <<now, db>> /\ UNCHANGED reqVars

Tick ==
    /\ now < MaxTime
    /\ now' = now + 1
    /\ UNCHANGED <<db, names, writes>> /\ UNCHANGED reqVars

-----------------------------------------------------------------------------
(* The request.                                                              *)
ListFilter(r) == ResolveFilter(TierParams(r))

(* The rows a list would select at instant t. *)
ListKind(r) == IF r.tier = "public" THEN "ban" ELSE r.kind

Matches(r, row, t) ==
    /\ Reads(ListKind(r), row)
    /\ Selected(row, ListFilter(r), t, HasRemoved(ListKind(r)))

Chosen(r, t) == {i \in DOMAIN db : Matches(r, db[i], t)}

Respond(code) ==
    /\ phase' = "done"
    /\ status' = code

(* What the handler, the id parser and ResolveOffsetPage refuse before any   *)
(* query: no caller, a bad uuid, page or id.                                 *)
Refusal(r) ==
    IF r.endpoint = "detail" THEN (IF r.id = Null THEN "400" ELSE "none")
    ELSE IF r.tier = "player" /\ r.caller = Null THEN "401"
    ELSE IF r.badUuid \/ PageRefused(r.page, r.pageSize) THEN "400"
    ELSE "none"

Refuse(r) ==
    /\ phase = "idle" /\ Refusal(r) # "none"
    /\ req' = r
    /\ Respond(Refusal(r))
    /\ UNCHANGED <<stamp, total, counted, rows, nameMap, items>> /\ UNCHANGED dbVars

(* A list reads the clock first, then queries with that instant.             *)
StartList(r) ==
    /\ phase = "idle" /\ r.endpoint = "list" /\ Refusal(r) = "none"
    /\ req' = r
    /\ stamp' = now
    /\ phase' = "count"
    /\ UNCHANGED <<total, counted, rows, nameMap, items, status>> /\ UNCHANGED dbVars

(* Mutant of CountQuery: counts the table, not the filter. *)
CountTable ==
    /\ phase = "count"
    /\ total' = Cardinality({i \in DOMAIN db : Reads(ListKind(req), db[i])})
    /\ counted' = writes
    /\ phase' = "list"
    /\ UNCHANGED <<req, stamp, rows, nameMap, items, status>> /\ UNCHANGED dbVars

CountQuery ==
    /\ phase = "count"
    /\ total' = Cardinality(Chosen(req, stamp))
    /\ counted' = writes
    /\ phase' = "list"
    /\ UNCHANGED <<req, stamp, rows, nameMap, items, status>> /\ UNCHANGED dbVars

(* ORDER BY time DESC: rows of one instant come in any order. *)
Orderings(S) ==
    {s \in SetToSeqs(S) :
        \A i, j \in DOMAIN s : i < j => db[s[i]].time >= db[s[j]].time}

(* LIMIT ? OFFSET ? *)
Window(s, offset, size) ==
    LET length == IF Len(s) <= offset THEN 0
                  ELSE IF Len(s) - offset < size THEN Len(s) - offset ELSE size
    IN  [i \in 1 .. length |-> db[s[offset + i]]]

ListQuery ==
    /\ phase = "list"
    /\ \E s \in Orderings(Chosen(req, stamp)) :
          LET size == ResolvedPageSize(req.pageSize)
          IN  rows' = Window(s, Offset(ResolvedPage(req.page), size), size)
    /\ phase' = "names"
    /\ UNCHANGED <<req, stamp, total, counted, nameMap, items, status>> /\ UNCHANGED dbVars

(* By id: fetch, and only then read the clock.                               *)
StartDetail(r) ==
    /\ phase = "idle" /\ r.endpoint = "detail" /\ Refusal(r) = "none"
    /\ req' = r
    /\ phase' = "fetch"
    /\ UNCHANGED <<stamp, total, counted, rows, nameMap, items, status>>
    /\ UNCHANGED dbVars

(* GetBanByID, GetMuteByID, GetWarningByID, GetKickByID.                     *)
HasRow(kind, id) == id \in DOMAIN db /\ db[id].type = kind

FetchRow ==
    /\ phase = "fetch"
    /\ IF HasRow(req.kind, req.id)
       THEN rows' = <<db[req.id]>> /\ phase' = "stamp" /\ UNCHANGED status
       ELSE Respond("404") /\ UNCHANGED rows
    /\ UNCHANGED <<req, stamp, total, counted, nameMap, items>> /\ UNCHANGED dbVars

Stamp ==
    /\ phase = "stamp"
    /\ stamp' = now
    /\ phase' = "names"
    /\ UNCHANGED <<req, total, counted, rows, nameMap, items, status>> /\ UNCHANGED dbVars

-----------------------------------------------------------------------------
(* distinctPlayerUUIDs, and one query for all of them: uuids without history *)
(* are not in the map.                                                       *)
PlayersOf(rs) == {rs[i].uuid : i \in DOMAIN rs} \ {Null}

NamesQuery ==
    /\ phase = "names"
    /\ nameMap' = [u \in {u \in PlayersOf(rows) \cap Uuids : names[u] # Null} |-> names[u]]
    /\ phase' = "map"
    /\ UNCHANGED <<req, stamp, total, counted, rows, items, status>> /\ UNCHANGED dbVars

NamePtr(map, u) == IF u \in DOMAIN map THEN map[u] ELSE Null

(* Mutant of MapRow: the clock is read again for every row. *)
MapRowRereadsClock ==
    /\ phase = "map" /\ Len(items) < Len(rows)
    /\ LET row == rows[Len(items) + 1]
       IN  items' = Append(items, Item(row, now, NamePtr(nameMap, row.uuid),
                              ResolveModerator(names, row.bannedBy, row.bannedByName)))
    /\ UNCHANGED <<req, phase, stamp, total, counted, rows, nameMap, status>>
    /\ UNCHANGED dbVars

(* Mutant of MapRow: the player's name is looked up row by row. *)
MapRowLooksUpName ==
    /\ phase = "map" /\ Len(items) < Len(rows)
    /\ LET row == rows[Len(items) + 1]
       IN  items' = Append(items, Item(row, stamp, NamePtr(names, row.uuid),
                              ResolveModerator(names, row.bannedBy, row.bannedByName)))
    /\ UNCHANGED <<req, phase, stamp, total, counted, rows, nameMap, status>>
    /\ UNCHANGED dbVars

(* toDomain of the next row, with its own query for the moderator's name.    *)
MapRow ==
    /\ phase = "map" /\ Len(items) < Len(rows)
    /\ LET row == rows[Len(items) + 1]
       IN  items' = Append(items, Item(row, stamp, NamePtr(nameMap, row.uuid),
                              ResolveModerator(names, row.bannedBy, row.bannedByName)))
    /\ UNCHANGED <<req, phase, stamp, total, counted, rows, nameMap, status>>
    /\ UNCHANGED dbVars

(* A by-id handler shows the item or answers as if it were missing.          *)
Finish ==
    /\ phase = "map" /\ Len(items) = Len(rows)
    /\ IF req.endpoint = "detail" /\ ~ DetailVisible(req, items[1])
       THEN Respond("404")
       ELSE Respond("200")
    /\ UNCHANGED <<req, stamp, total, counted, rows, nameMap, items>> /\ UNCHANGED dbVars

(* No query for the names of nobody, nor for a console moderator unless the  *)
(* remover has to be looked up.                                              *)
AsksHistory(row) ==
    \/ ~ ResolveModerator(names, row.bannedBy, row.bannedByName).isConsole
    \/ ExplicitlyRemoved(row)

(* Mutant of QueryFails: a failed lookup ends the loop, and the items mapped *)
(* by then are the answer.                                                   *)
QueryFailsPartly ==
    /\ phase = "map" /\ Len(items) < Len(rows) /\ AsksHistory(rows[Len(items) + 1])
    /\ Respond("200")
    /\ UNCHANGED <<req, stamp, total, counted, rows, nameMap, items>> /\ UNCHANGED dbVars

(* Any query may fail: nothing is returned of what was read so far.          *)
QueryFails ==
    /\ \/ phase \in {"count", "list", "fetch"}
       \/ phase = "names" /\ PlayersOf(rows) # {}
       \/ phase = "map" /\ Len(items) < Len(rows) /\ AsksHistory(rows[Len(items) + 1])
    /\ Respond("503")
    /\ total' = 0 /\ counted' = 0 /\ rows' = << >> /\ nameMap' = << >> /\ items' = << >>
    /\ UNCHANGED <<req, stamp>> /\ UNCHANGED dbVars

(* The response is sent, the request's state is gone. *)
Deliver ==
    /\ phase = "done" /\ phase' = "idle"
    /\ req' = NoRequest /\ stamp' = 0 /\ total' = 0 /\ counted' = 0
    /\ rows' = << >> /\ nameMap' = << >> /\ items' = << >> /\ status' = "none"
    /\ UNCHANGED dbVars

Next ==
    \/ \E i \in Ids, t \in Templates : Insert(i, t)
    \/ \E i \in Ids, by \in Uuids, bit \in Bits : Lift(i, by, bit)
    \/ \E u \in Uuids, n \in Names : Rename(u, n)
    \/ Tick
    \/ \E r \in Requests : Refuse(r) \/ StartList(r) \/ StartDetail(r)
    \/ CountQuery \/ ListQuery \/ FetchRow \/ Stamp \/ NamesQuery
    \/ MapRow \/ Finish \/ QueryFails \/ Deliver

Spec == Init /\ [][Next]_vars

-----------------------------------------------------------------------------
Listed   == phase = "done" /\ status = "200" /\ req.endpoint = "list"
Detailed == phase = "done" /\ status = "200" /\ req.endpoint = "detail"

(* server.go:34, "always active, non-silent bans": whatever the plugin and   *)
(* the clock do between the queries, each item of a public list is a ban     *)
(* that shows itself active, unexpired, not removed and not silent; and a    *)
(* list asked for active=false never shows an item that looks in force.      *)
ListShowsWhatWasAsked ==
    Listed => \A i \in DOMAIN items :
        /\ req.tier = "public" =>
              items[i].type = "ban" /\ InForce(items[i]) /\ items[i].silent = "no"
        /\ req.tier = "mod" /\ req.active = "no" => ~ InForce(items[i])
        /\ req.tier = "player" => items[i].player = req.caller

(* punishment_mapper.go:44: one batch of names for the page, so a player     *)
(* renamed while the page is mapped has one name on all of it.               *)
OneNamePerPlayer ==
    \A i, j \in DOMAIN items :
        items[i].player = items[j].player => items[i].name = items[j].name

(* Count and page are two queries; when no write came between them, page and *)
(* total agree: the page is full, or the last, or beyond the last.           *)
PageAgreesWithTotal ==
    phase = "names" /\ req.endpoint = "list" /\ counted = writes =>
        LET size == ResolvedPageSize(req.pageSize)
            page == ResolvedPage(req.page)
            last == TotalPages(total, size)
        IN  /\ page < last => Len(rows) = size
            /\ page = last => Len(rows) = total - (last - 1) * size
            /\ page > last => Len(rows) = 0

(* What the item made of a row says to a filter on active; a kick, and a row *)
(* whose bit is NULL, satisfies neither value of it.                         *)
Shows(choice, row, t) ==
    LET item == Item(row, t, Null, Null)
    IN  CASE choice = "any" -> TRUE
          [] choice = "yes" -> InForce(item)
          [] choice = "no"  -> row.type # "kick" /\ row.active # "null" /\ ~ InForce(item)

(* The rows a client asks a list for, by what their items would show.        *)
Wanted(r, row, t) ==
    /\ Reads(ListKind(r), row)
    /\ Selected(row, [ListFilter(r) EXCEPT !.active = "any"], t, TRUE)
    /\ Shows(ListFilter(r).active, row, t)

(* A row that is now as it was for both queries of the request: nothing was  *)
(* written since the count, or it is older than the request and not lifted.  *)
Settled(row) ==
    \/ counted = writes
    \/ row.time < stamp /\ row.active = "yes" /\ ~ ExplicitlyRemoved(row)

(* On the page, or pushed off a full one by rows no older. *)
PlacedAmong(n, row) ==
    \/ \E j \in 1 .. n : rows[j] = row
    \/ n = ResolvedPageSize(req.pageSize) /\ \A j \in 1 .. n : rows[j].time >= row.time

(* punishment_repo.go:195-215: the filter is SQL, where a comparison with    *)
(* NULL is unknown and drops the row in silence.  No settled row a client    *)
(* asked for is missing from the first page, whichever columns are NULL and  *)
(* whatever is written, lifted or expires while the request runs.            *)
NothingWithheld ==
    Listed /\ ResolvedPage(req.page) = 1 =>
        \A i \in DOMAIN db :
            Settled(db[i]) /\ Wanted(req, db[i], stamp) => PlacedAmong(Len(items), db[i])

(* server.go:179-306: a tier's by-id endpoint never answers 404 for a row    *)
(* that the tier's list would have shown at that instant.                    *)
DetailCoversList ==
    phase = "done" /\ status = "404" /\ rows # << >>
      /\ (req.tier = "player" => req.caller # Null) =>
        ~ Matches(req, rows[1], stamp)

(* server.go:179: "only active bans are visible; anything else (wrong type,  *)
(* inactive/removed ban) 404s".                                              *)
PublicDetailInForce ==
    Detailed /\ req.tier = "public" => InForce(items[1])

-----------------------------------------------------------------------------
(* The inductive invariant behind these: what the request carries from one   *)
(* query to the next.                                                        *)
Accepted ==
    /\ phase # "idle" => req \in Requests
    /\ phase \in {"count", "list"} => req.endpoint = "list"
    /\ phase \in {"fetch", "stamp"} => req.endpoint = "detail"
    /\ phase \notin {"idle", "done"} \/ status = "200" => Refusal(req) = "none"

NothingYet ==
    /\ phase \in {"idle", "count", "list", "fetch"} => rows = << >>
    /\ phase \in {"idle", "count", "list", "fetch", "stamp", "names"} => items = << >>

RowsAsked ==
    /\ phase # "idle" /\ req.endpoint = "list" =>
          \A i \in DOMAIN rows : Matches(req, rows[i], stamp)
    /\ phase \in {"stamp", "names", "map"} /\ req.endpoint = "detail" => Len(rows) = 1

ItemsMapped ==
    /\ Len(items) <= Len(rows)
    /\ \A i \in DOMAIN items :
          items[i] = Item(rows[i], stamp, NamePtr(nameMap, rows[i].uuid), items[i].moderator)

HiddenOnly ==
    phase = "done" /\ status = "404" /\ rows # << >> =>
        items # << >> /\ ~ DetailVisible(req, items[1])

(* An answer holds an item for every row read, a failure nothing of them. *)
AllOrNothing ==
    phase = "done" =>
        /\ status = "200" => Len(items) = Len(rows)
        /\ status = "503" => items = << >> /\ rows = << >>

IInv == TypeOK /\ Accepted /\ NothingYet /\ RowsAsked /\ ItemsMapped /\ HiddenOnly
          /\ AllOrNothing
=============================================================================
