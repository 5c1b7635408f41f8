------------------------ MODULE MCFullConsolidation ------------------------
EXTENDS FullConsolidation

(* Host a scans twice with one ruleset and finds nothing the second time;    *)
(* host b scans once.                                                        *)
FleetScans == {<<"a", 1>>, <<"a", 2>>, <<"b", 1>>}
FleetRows ==
    [s \in FleetScans |-> CASE s = <<"a", 1>> -> 2 [] s = <<"a", 2>> -> 0 [] s = <<"b", 1>> -> 1]
OneRuleset == [s \in FleetScans |-> 1]

(* Host a scans twice, with one row each time. *)
HostScans == {<<"a", 1>>, <<"a", 2>>}
HostRows == [s \in HostScans |-> 1]
HostRuleset == [s \in HostScans |-> 1]
=============================================================================
