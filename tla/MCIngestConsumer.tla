------------------------- MODULE MCIngestConsumer -------------------------
(* Finite instances of IngestConsumer.  A log is written as one sequence   *)
(* per partition; the runs differ in the log, the size of the group and    *)
(* the number of failures.                                                 *)
EXTENDS IngestConsumer, TLC

CONSTANTS c1, c2, p1, p2, t1, t2

Rec(k, t) == [kind |-> k, txn |-> t]
TwoVersions == {[version |-> "v1", high |-> TRUE], [version |-> "v2", high |-> FALSE]}
OneVersion == {[version |-> "v1", high |-> TRUE]}

\* Two partitions, so that one batch mixes them: a transaction that comes
\* twice, another one, and every kind of bad record.
RawMixed == p1 :> <<Rec("valid", t1), Rec("malformed", t2), Rec("valid", t1), Rec("tombstone", t1)>>
              @@ p2 :> <<Rec("valid", t2), Rec("unstorable", t2), Rec("poisoned", t2)>>
\* Two partitions that carry the same transaction.
RawShared == p1 :> <<Rec("valid", t1)>> @@ p2 :> <<Rec("valid", t1)>>
\* A record without a value between two valid ones.
RawTombstone == p1 :> <<Rec("valid", t1), Rec("tombstone", t1), Rec("valid", t2)>>
=============================================================================
