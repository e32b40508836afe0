------------------------------ MODULE MCStartUp ------------------------------
(* Finite instances of what compose runs once: schema-init (Migrations) and *)
(* the replay producer (ReplayProducer).  They do not touch each other, so  *)
(* a behaviour moves one of them, its `part`.                               *)
EXTENDS Migrations, Sequences

CONSTANTS n1, n2
CONSTANTS Dataset, Modes, Limits, GapCap, MaxRuns

VARIABLES part, ppc, mode, limit, row, published, previous, slept, running, topic

Replay == INSTANCE ReplayProducer WITH rpc <- ppc

ASSUME ReplayAssumed == Replay!ReplayAssumption

producer == <<ppc, mode, limit, row, published, previous, slept, running, topic>>
all == <<part, vars, producer>>

\* Two rows that are no event, and event times that go back.
MCDataset == <<[ok |-> TRUE, time |-> 2], [ok |-> FALSE, time |-> 0], [ok |-> TRUE, time |-> 1],
               [ok |-> TRUE, time |-> 9], [ok |-> FALSE, time |-> 0]>>

OfSchema(A) == part = "schema" /\ A /\ UNCHANGED <<part, producer>>
OfReplay(A) == part = "replay" /\ A /\ UNCHANGED <<part, vars>>

InitAll ==
    /\ part \in {"schema", "replay"}
    /\ Init
    /\ part = "replay" => \A o \in Objects : made[o] = Absent
    /\ mode \in IF part = "replay" THEN Modes ELSE {"max"}
    /\ limit \in IF part = "replay" THEN Limits ELSE {0}
    /\ Replay!Init
NextAll == OfSchema(Next) \/ OfReplay(Replay!Next)

\* Fairness of Migrations.
SpecAll ==
    /\ InitAll /\ [][NextAll]_all
    /\ \A n \in Runners : WF_all(OfSchema(Work(n))) /\ WF_all(OfSchema(~ up /\ Begin(n)))
    /\ WF_all(OfSchema(StartServices))

-----------------------------------------------------------------------------
\* The properties of ReplayProducer, and one of Migrations, of their parts.
RunsReplayInOrder == Replay!RunsReplayInOrder
NeverAheadOfSource == Replay!NeverAheadOfSource
SchemaComesUp == part = "schema" => EventuallyUp
=============================================================================
