--------------------------- MODULE MCKVStorageAdv ---------------------------
(* Small instances of KVStorageAdv for TLC. *)
EXTENDS KVStorageAdv, TLC

CONSTANTS e1, e2, e3, e4, k1, bad, vk

\* Entries of one page, but for one of three.
ShortAndLong == [e \in Entry |-> IF e = e3 THEN 3 ELSE 1]

\* Two entries for one key, a long one with a key of a wrong format, and one
\* for VersionKey.
AllKinds == [e \in Entry |-> CASE e = e3 -> bad [] e = e4 -> vk [] OTHER -> k1]

\* Every entry is written to one key.
OneKey == [e \in Entry |-> k1]

\* The value that is written to VersionKey is a position beyond the log's end.
Beyond == [e \in Entry |-> IF e = e4 THEN [Collection |-> 9, Seq |-> 1] ELSE Torn]

PutterSymmetry == Permutations(Putter)
=============================================================================
