----------------------------- MODULE MCSummary -----------------------------
EXTENDS Summary

(* Host a scans twice, host b once. *)
FleetScans == {<<"a", 1>>, <<"a", 2>>, <<"b", 1>>}
FleetRows == [s \in FleetScans |-> IF s = <<"a", 1>> THEN 2 ELSE 1]
OneRuleset == [s \in FleetScans |-> 1]
=============================================================================
