------------------------ MODULE MCMessageConnection ------------------------
\* TLC instances of MessageConnection.
EXTENDS MessageConnection

\* The peer's requests are interchangeable, and so are this end's.
Symmetry == Permutations(InRequests) \cup Permutations(OutRequests)
=============================================================================
