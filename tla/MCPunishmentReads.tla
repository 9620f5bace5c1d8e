------------------------- MODULE MCPunishmentReads -------------------------
(* Small instances of PunishmentReads: what the plugin writes and what the *)
(* clients ask.                                                            *)
EXTENDS PunishmentReads

CONSTANTS u1, u2, n1, i1, i2

RowOf(type, uuid, until, silent) ==
    [type |-> type, uuid |-> uuid, bannedBy |-> u2,
     bannedByName |-> IF uuid = u2 THEN n1 ELSE Null,
     time |-> 0, until |-> until, active |-> "yes", silent |-> silent,
     removedBy |-> IF uuid = u1 THEN Empty ELSE Null]

(* A permanent ban (until -1), a ban for an instant, a kick, and another     *)
(* player's silent mute for two.                                             *)
ListRows ==
    {RowOf("ban", u1, -1, "no"), [RowOf("ban", u1, 1, "no") EXCEPT !.removedBy = Null],
     RowOf("mute", u2, 2, "yes"),
     [RowOf("kick", u1, 0, "null") EXCEPT !.removedBy = Null]}

(* For the by-id endpoints also rows no list selects. *)
DetailRows ==
    {RowOf("ban", u1, 0, "no"), RowOf("ban", u2, 1, "yes"), RowOf("mute", u1, 1, "no"),
     RowOf("ban", OfflineUUIDMarker, 1, "no"),
     [RowOf("ban", Null, 0, "no") EXCEPT !.bannedBy = Empty],
     [RowOf("ban", u1, 0, "no") EXCEPT !.active = "null"],
     [RowOf("kick", u1, 0, "null") EXCEPT !.removedBy = Null]}

ListOf(tier, kind) ==
    [endpoint |-> "list", tier |-> tier, kind |-> kind, caller |-> u1,
     badUuid |-> FALSE, player |-> Null, moderator |-> Null, active |-> "any",
     silent |-> "any", before |-> Null, after |-> Null, page |-> Null,
     pageSize |-> Null, id |-> Null]

DetailOf(tier, kind, id) == [ListOf(tier, kind) EXCEPT !.endpoint = "detail", !.id = id]

ListRequests ==
    {ListOf("public", "ban"), [ListOf("public", "ban") EXCEPT !.page = 2, !.pageSize = 1],
     [ListOf("public", "ban") EXCEPT !.page = 2, !.pageSize = 3, !.before = 2],
     ListOf("player", "all"), [ListOf("player", "all") EXCEPT !.caller = Null],
     [ListOf("mod", "all") EXCEPT !.active = "no", !.after = -1, !.pageSize = 1],
     [ListOf("mod", "kick") EXCEPT !.page = 0]}

DetailRequests ==
    {DetailOf("public", "ban", i1), DetailOf("public", "mute", i1),
     DetailOf("player", "ban", i1), DetailOf("player", "mute", i1),
     [DetailOf("player", "mute", i1) EXCEPT !.caller = u2],
     [DetailOf("player", "ban", i1) EXCEPT !.caller = u2],
     DetailOf("mod", "kick", i1), DetailOf("public", "ban", Null)}
=============================================================================
