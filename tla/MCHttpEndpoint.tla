--------------------------- MODULE MCHttpEndpoint ---------------------------
\* Small instances of HttpEndpoint.
EXTENDS HttpEndpoint, TLC

CONSTANTS password

\* Every client knows the password.
AllKnow == [c \in Client |-> password]

ClientSymmetry == Permutations(Client) \cup Permutations(Service) \cup Permutations(Req)
=============================================================================
