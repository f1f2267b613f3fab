-------------------------- MODULE MCExternalRecords --------------------------
(* Two records of one event: an old version and a new one.  A changed mapping   *)
(* may make a recovery of the same order as the new one of them, or a newer    *)
(* version that is malformed.                                               *)
EXTENDS ExternalRecords, TLC
CONSTANTS w1, w2, r1, r2, old, new, other, bad, d1, d2

WorkerSet  == {w1, w2}
OneWorker  == {w1}
RecordSet  == {r1, r2}
ContentSet == {old, new, other, bad}
DeviceSet  == {d1, d2}
VariantSets == r1 :> {old, other} @@ r2 :> {new, bad}
ReceivedAs == r1 :> old @@ r2 :> new
OrderOf    == old :> 1 @@ new :> 2 @@ other :> 2 @@ bad :> 3
OnlyOther  == {other}
OnlyBad    == {bad}
=============================================================================
