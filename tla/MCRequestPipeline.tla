------------------------- MODULE MCRequestPipeline -------------------------
(* Small instances of RequestPipeline: a header of each kind, a public, a  *)
(* player's, a moderator's operation and one no rule lists.                *)
EXTENDS RequestPipeline, TLC

CONSTANTS u1, u2

Header(genuine, sub, nbf, exp) ==
    [genuine |-> genuine, sub |-> sub, nbf |-> nbf, exp |-> exp]

Never == MaxTime + 1

Headers == {Header(FALSE, u1, 0, Never), Header(TRUE, u1, 0, Never), Header(TRUE, u2, 1, MaxTime)}

Sample == {"PostPublicLookupBatch", "GetPlayerPunishmentsMe", "GetModPunishmentByID", "Unlisted"}

Symmetry == Permutations(Calls)
=============================================================================
