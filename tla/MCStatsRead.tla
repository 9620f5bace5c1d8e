---------------------------- MODULE MCStatsRead ----------------------------
(* A small instance of StatsRead: rows of every table, in force for an      *)
(* instant, for ever, or hidden by the deployment's defaults.               *)
EXTENDS StatsRead

CONSTANTS u1, u2, i1, i2

RowOf(type, uuid, until, silent) ==
    [type |-> type, uuid |-> uuid, bannedBy |-> u2, bannedByName |-> Null, time |-> 0,
     until |-> until, active |-> "yes", silent |-> silent, removedBy |-> Null]

StatsRows ==
    {RowOf("ban", u1, -1, "no"), RowOf("ban", u2, 1, "no"),
     [RowOf("mute", u1, 2, "no") EXCEPT !.removedBy = Empty], RowOf("mute", u1, 1, "yes"),
     RowOf("warning", OfflineUUIDMarker, 0, "no"), RowOf("warning", u2, 0, "no"),
     RowOf("kick", u1, 0, "no")}
=============================================================================
