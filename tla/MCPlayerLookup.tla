--------------------------- MODULE MCPlayerLookup ---------------------------
(* A small instance of PlayerLookup: two players, a name in two spellings,  *)
(* another, an alias of the console, and one the pattern refuses.           *)
EXTENDS PlayerLookup

CONSTANTS u1, u2

WordOf == [n \in Names |-> IF n = "ALEX" THEN "alex" ELSE n]

Spelled(u, form, upper) == [form |-> form, upper |-> upper, uuid |-> u]

Nothing == [uuid |-> None, op |-> "lookup", name |-> None,
            moderatorName |-> None, moderatorUuid |-> None]

BatchOf(uuids) == [op |-> "batch", uuids |-> uuids]

ClientRequests ==
    {[Nothing EXCEPT !.name = "alex"], [Nothing EXCEPT !.name = ".sam"],
     [Nothing EXCEPT !.moderatorName = "console"], Nothing,
     [Nothing EXCEPT !.uuid = Spelled(u1, "bare", TRUE)],
     [Nothing EXCEPT !.moderatorUuid = Spelled(u1, "other", FALSE)],
     [Nothing EXCEPT !.name = "alex", !.uuid = Spelled(u2, "dashed", FALSE)],
     BatchOf(<<Spelled(u1, "dashed", FALSE), Spelled(u2, "bare", TRUE),
               Spelled(u1, "bare", FALSE)>>),
     BatchOf(<<Spelled(u1, "dashed", FALSE), Spelled(u1, "dashed", FALSE),
               Spelled(u1, "dashed", FALSE), Spelled(u1, "dashed", FALSE)>>),
     BatchOf(<<Spelled(u1, "dashed", FALSE), Spelled(u2, "other", FALSE)>>)}
=============================================================================
