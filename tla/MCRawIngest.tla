---------------------------- MODULE MCRawIngest ----------------------------
(* Two processes that may receive the same identity with two contents.       *)
EXTENDS RawIngest
CONSTANTS p1, p2, a, x, y, postgres, clickhouse

ProcSet    == {p1, p2}
IdSet      == {a}
ContentSet == {x, y}
BucketSet  == {postgres, clickhouse}
=============================================================================
