-------------------------- MODULE MCObservability --------------------------
(* A small instance of Observability: two paths of one route, under the one *)
(* method that has it.                                                      *)
EXTENDS Observability

CONSTANTS get, post, p1, p2, r1

RouteOf == [t \in Targets |-> IF t[1] = get THEN r1 ELSE NoPattern]
=============================================================================
