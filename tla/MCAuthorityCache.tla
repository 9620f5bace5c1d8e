-------------------------- MODULE MCAuthorityCache --------------------------
(* Small instance of AuthorityCache: interchangeable calls and players. *)
EXTENDS AuthorityCache, TLC

Symmetry == Permutations(Calls) \cup Permutations(Uuids)
=============================================================================
