------------------------------ MODULE MCPipeline ------------------------------
(* A finite instance of Pipeline: a valid event, a bad record, and the same   *)
(* event once more, as a second replay of the dataset produces it.            *)
EXTENDS Pipeline, TLC

CONSTANTS c1, q1, p1, t1

OneVersion == {[version |-> "v1", high |-> FALSE]}
RawReplayed == p1 :> <<[kind |-> "valid", txn |-> t1], [kind |-> "malformed", txn |-> t1],
                       [kind |-> "valid", txn |-> t1]>>
=============================================================================
