----------------------------- MODULE AtLeastOnce -----------------------------
(***************************************************************************)
(* What ingestion promises its operators (docs/scope.md, success criteria  *)
(* 2 and 3), with no process, batch or failure in sight: outcomes are      *)
(* recorded in any order and for ever, and the acknowledged prefix of a    *)
(* partition only ever covers recorded messages.  Acknowledgements may     *)
(* move back, which is what at-least-once delivery means.                  *)
(***************************************************************************)
EXTENDS Integers

CONSTANTS Partitions, Msgs
VARIABLES recorded, acked

Init == recorded = {} /\ acked = [p \in Partitions |-> 0]

Record == /\ recorded \subseteq recorded' /\ recorded' \subseteq Msgs
          /\ UNCHANGED acked

Covered(ack) == {m \in Msgs : m[2] <= ack[m[1]]}

Acknowledge == /\ acked' \in [Partitions -> Nat]
               /\ Covered(acked') \subseteq recorded
               /\ UNCHANGED recorded

Next == Record \/ Acknowledge
Spec == Init /\ [][Next]_<<recorded, acked>>
=============================================================================
