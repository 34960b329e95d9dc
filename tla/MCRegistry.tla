----------------------------- MODULE MCRegistry -----------------------------
\* A small cluster with one endpoint.
EXTENDS Registry, TLC

CONSTANTS n1, n2, n3, c1, c2, s1, password

\* n1 mirrors n2, and so would n3, which is given another secret.
OutsiderPeers == (n1 :> {n2}) @@ (n2 :> {}) @@ (n3 :> {n2})

OneName == [n \in Node |-> n1]

OtherSecret == [n \in Node |-> IF n = n3 THEN n3 ELSE n1]

Items == Service \X Client

AllKnow == [c \in Client |-> password]
=============================================================================
