---------------------------- MODULE MCFieldCache ----------------------------
(* Two processes: two calls in one, the third in the other. *)
EXTENDS FieldCache, TLC

CONSTANTS c1, c2, c3, p1, p2

TwoInOne == c1 :> p1 @@ c2 :> p1 @@ c3 :> p2
=============================================================================
