------------------------------- MODULE EndToEnd -------------------------------
(***************************************************************************)
(* What the streaming path promises its downstream topics, with no process, *)
(* batch, lease or failure in sight: an outcome is announced only when the  *)
(* database holds it, the database holds outcomes of produced records only, *)
(* and records are acknowledged as AtLeastOnce says.                        *)
(***************************************************************************)
EXTENDS Integers

CONSTANTS
    Partitions, Msgs,
    Subject(_)   \* what an outcome is about: a transaction, or the bad record

VARIABLES
    produced,    \* records that the raw topic holds
    recorded,    \* records whose outcome the database holds
    acked,       \* committed offset of each partition
    announced    \* subjects with a message on the scored or rejected topic

Ingestion == INSTANCE AtLeastOnce

Init == Ingestion!Init /\ produced = {} /\ announced = {}

Produce == /\ produced \subseteq produced' /\ produced' \subseteq Msgs
           /\ UNCHANGED <<recorded, acked, announced>>

Ingest == /\ Ingestion!Next
          /\ recorded' \subseteq produced
          /\ UNCHANGED <<produced, announced>>

Announce == /\ announced \subseteq announced'
            /\ announced' \subseteq {Subject(m) : m \in recorded}
            /\ UNCHANGED <<produced, recorded, acked>>

Next == Produce \/ Ingest \/ Announce
Spec == Init /\ [][Next]_<<produced, recorded, acked, announced>>
=============================================================================
