----------------------------- MODULE MCDelivery -----------------------------
EXTENDS Delivery

(* Two rules, one of which matches two files. *)
Found == {<<"r1", "p1">>, <<"r1", "p2">>, <<"r2", "p1">>}
Malformed == {<<"r2", "p1">>}
=============================================================================
