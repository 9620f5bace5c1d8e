---------------------------- MODULE Punishments ----------------------------
(***************************************************************************)
(* The data of the API and its pure rules: the visibility filter the       *)
(* repository writes in SQL (three-valued logic), the mapper from a row to *)
(* the JSON item, the paging arithmetic and the parameters each access     *)
(* tier passes on.  A nullable BIT column is "yes", "no" or "null"; Null   *)
(* is SQL NULL in any other column and a nil pointer in Go.                *)
(***************************************************************************)
EXTENDS Integers

CONSTANTS
    Uuids,              \* player uuids
    Names,              \* display names
    Null, Empty,        \* SQL NULL / nil, and the empty string
    OfflineUUIDMarker,  \* "#offline#": no linked account
    ConsoleAliases,     \* CONSOLE_ALIASES
    IncludeInactive, IncludeSilent,     \* deployment-wide visibility defaults
    DefaultPageSize, MaxPageSize

ASSUME DataAssumption ==
    /\ Null \notin Uuids \cup Names \cup {Empty, OfflineUUIDMarker}
    /\ Empty \notin Uuids \cup Names \cup {OfflineUUIDMarker}
    /\ OfflineUUIDMarker \notin Uuids
    /\ ConsoleAliases \subseteq Names
    /\ IncludeInactive \in BOOLEAN /\ IncludeSilent \in BOOLEAN
    /\ DefaultPageSize \in Nat \ {0} /\ MaxPageSize \in Nat \ {0}
    /\ MaxPageSize >= DefaultPageSize

Kinds  == {"ban", "mute", "warning", "kick"}
Bits   == {"yes", "no", "null"}
Choice == {"any", "yes", "no"}      \* a *bool: nil, true, false

Row == [type : Kinds, uuid : Uuids \cup {Null, OfflineUUIDMarker},
        bannedBy : Uuids \cup {Empty}, bannedByName : Names \cup {Null},
        time : Int, until : Int, active : Bits, silent : Bits,
        removedBy : Uuids \cup {Null, Empty}]

Filter == [active : Choice, silent : Choice, player : Uuids \cup {Null},
           moderator : Uuids \cup {Null}, before : Int \cup {Null}, after : Int \cup {Null}]

-----------------------------------------------------------------------------
(* SQL conditions: "T", "F", or "U" when a NULL leaves them unknown.  WHERE  *)
(* keeps a row only on "T".                                                  *)
Sql(b)       == IF b THEN "T" ELSE "F"
SqlEq(x, y)  == IF Null \in {x, y} THEN "U" ELSE Sql(x = y)
SqlBitSet(b) == IF b = "null" THEN "U" ELSE Sql(b = "yes")
SqlNot(p)    == IF p = "U" THEN "U" ELSE Sql(p = "F")
SqlAnd(p, q) == IF "F" \in {p, q} THEN "F" ELSE IF "U" \in {p, q} THEN "U" ELSE "T"
SqlOr(p, q)  == IF "T" \in {p, q} THEN "T" ELSE IF "U" \in {p, q} THEN "U" ELSE "F"

(* Mutant of NotLifted: "removed_by_uuid IS NULL OR" left out. *)
NotLiftedNoNull(row, hasRemoved) ==
    IF hasRemoved THEN SqlEq(row.removedBy, Empty) ELSE "T"

(* Kicks have no removal columns; their own list does not mention them, the  *)
(* unified one pads them with NULL.                                          *)
NotLifted(row, hasRemoved) ==
    IF hasRemoved
    THEN SqlOr(Sql(row.removedBy = Null), SqlEq(row.removedBy, Empty))
    ELSE "T"

InWindow(until, now) == until <= 0 \/ until > now

ActiveExpr(row, now, hasRemoved) ==
    SqlAnd(SqlAnd(SqlBitSet(row.active), Sql(InWindow(row.until, now))),
           NotLifted(row, hasRemoved))

ActiveClause(row, choice, now, hasRemoved) ==
    IF choice = "yes" THEN ActiveExpr(row, now, hasRemoved)
                      ELSE SqlNot(ActiveExpr(row, now, hasRemoved))

(* buildVisibilityWhere: the conjunction holds iff every clause is "T".      *)
Selected(row, f, now, hasRemoved) ==
    /\ row.uuid \notin {Null, OfflineUUIDMarker}
    /\ f.active # "any" => ActiveClause(row, f.active, now, hasRemoved) = "T"
    /\ f.silent # "any" => row.silent = f.silent
    /\ f.player # Null => row.uuid = f.player
    /\ f.moderator # Null => row.bannedBy = f.moderator
    /\ f.before # Null => row.time < f.before
    /\ f.after # Null => row.time > f.after

(* Which table, or the union of the four, a list reads. *)
Reads(kind, row) == kind = "all" \/ row.type = kind
HasRemoved(kind) == kind # "kick"

(* resolveFilter: an unset active or silent takes the deployment's default.  *)
ResolveFilter(p) ==
    [p EXCEPT !.active = IF @ = "any" /\ ~ IncludeInactive THEN "yes" ELSE @,
              !.silent = IF @ = "any" /\ ~ IncludeSilent THEN "no" ELSE @]

-----------------------------------------------------------------------------
(* ResolveOffsetPage; page and pageSize may be Null (unset). *)
PageRefused(page, pageSize) ==
    (page # Null /\ page < 1) \/ (pageSize # Null /\ pageSize < 1)

ResolvedPage(page) == IF page = Null THEN 1 ELSE page

ResolvedPageSize(pageSize) ==
    LET size == IF pageSize = Null THEN DefaultPageSize ELSE pageSize
    IN  IF size > MaxPageSize THEN MaxPageSize ELSE size

Offset(page, size) == (page - 1) * size

TotalPages(total, size) ==
    total \div size + IF total % size # 0 THEN 1 ELSE 0

-----------------------------------------------------------------------------
(* ResolveModerator, given the latest names: a console alias or an empty     *)
(* uuid is the console; otherwise the recorded name stands in for a missing  *)
(* history.                                                                  *)
ResolveModerator(latest, uuid, snapshot) ==
    IF uuid = Empty \/ snapshot \in ConsoleAliases
    THEN [uuid |-> Null, name |-> snapshot, isConsole |-> TRUE]
    ELSE [uuid |-> uuid,
          name |-> IF latest[uuid] # Null THEN latest[uuid] ELSE snapshot,
          isConsole |-> FALSE]

Flag(b) == IF b THEN "yes" ELSE "no"

ExplicitlyRemoved(row) == row.removedBy \notin {Null, Empty}

Expired(row, now) == ~ ExplicitlyRemoved(row) /\ row.until > 0 /\ row.until <= now

(* toDomain: a kick carries none of the status fields.  What is only copied  *)
(* or worded (id, reason, server, remover's name, dates) is left out.        *)
Item(row, now, name, moderator) ==
    LET status(b) == IF row.type = "kick" THEN "absent" ELSE Flag(b)
    IN  [type      |-> row.type,
         player    |-> IF row.uuid = Null THEN Empty ELSE row.uuid,
         name      |-> name,
         moderator |-> moderator,
         permanent |-> status(row.until <= 0),
         active    |-> status(row.active = "yes"),
         silent    |-> status(row.silent = "yes"),
         expired   |-> status(Expired(row, now)),
         removed   |-> status(ExplicitlyRemoved(row))]

(* What every reader of an item takes for "in force". *)
InForce(item) == item.active = "yes" /\ item.expired = "no" /\ item.removed = "no"

-----------------------------------------------------------------------------
(* The parameters each tier's list passes on: the public one pins active and *)
(* silent, the player's one pins the owner, the moderator's passes all.      *)
Params(r, active, silent, player) ==
    [active |-> active, silent |-> silent, player |-> player,
     moderator |-> r.moderator, before |-> r.before, after |-> r.after]

PublicParams(r) == Params(r, "yes", "no", r.player)
PlayerParams(r) == Params(r, "any", "any", r.caller)
ModParams(r)    == Params(r, r.active, r.silent, r.player)

TierParams(r) ==
    CASE r.tier = "public" -> PublicParams(r)
      [] r.tier = "player" -> PlayerParams(r)
      [] OTHER             -> ModParams(r)

(* The by-id handlers' own rules, on the mapped item: a ban with its active  *)
(* bit set; also what is the caller's own; anything.                         *)
ActiveBan(item) == item.type = "ban" /\ item.active = "yes"

(* Mutant of PublicDetail: asks for an expiry a permanent ban does not have. *)
PublicDetailTimed(item) == ActiveBan(item) /\ item.permanent = "no"

PublicDetail(item)    == ActiveBan(item)
PlayerDetail(r, item) == (r.caller # Null /\ item.player = r.caller) \/ ActiveBan(item)

DetailVisible(r, item) ==
    CASE r.tier = "public" -> PublicDetail(item)
      [] r.tier = "player" -> PlayerDetail(r, item)
      [] OTHER             -> TRUE
=============================================================================
