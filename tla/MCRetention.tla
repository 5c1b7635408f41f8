---------------------------- MODULE MCRetention ----------------------------
EXTENDS Retention

(* The lifecycle rows of one host, of schema version 3, rotated in month 1   *)
(* (the merge leaves them where they are), and a dataset from before there   *)
(* were versions, which nothing writes to.                                   *)
OneShard == {NameOf("yara_scanner", "scans", 3, "a", 1, NoScan)}
OldNames == {NameOf("yara", "matches", 0, "a", 0, NoScan)}
OneScan == {1}
ToShards == [s \in OneScan |-> OneShard]
Negative == {0 - 1}
=============================================================================
