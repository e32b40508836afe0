------------------------- MODULE MCOutboxPublisher -------------------------
(* Finite instances of OutboxPublisher: publishers are interchangeable.    *)
EXTENDS OutboxPublisher, TLC

CONSTANTS q1, q2

AnyPublisher == Permutations(Publishers)
=============================================================================
