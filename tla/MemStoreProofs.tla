--------------------------- MODULE MemStoreProofs ---------------------------
(***************************************************************************)
(* The store keeps its types and its lists apart, and implements the flat  *)
(* registry, for every set of services, nodes and peers.                   *)
(***************************************************************************)
EXTENDS MemStore, FiniteSetTheorems, WellFoundedInduction, TLAPS

-----------------------------------------------------------------------------
(***************************************************************************)
(* Folds                                                                   *)
(***************************************************************************)

\* Induction over the natural numbers, for sets.
LEMMA SetInduction ==
    ASSUME NEW S, 0 \in S, \A k \in Nat : k \in S => k + 1 \in S
    PROVE  \A k \in Nat : k \in S
<1> DEFINE R == {ss \in Nat \X Nat : ss[1] < ss[2]}
           Bad == {k \in Nat : k \notin S}
<1>1. IsWellFoundedOn(R, Nat)
  BY NatLessThanWellFounded, Zenon DEF OpToRel
<1> SUFFICES ASSUME Bad # {} PROVE FALSE
  OBVIOUS
<1>2. Bad \subseteq Nat
  OBVIOUS
<1> HIDE DEF R, Bad
<1>3. PICK t \in Bad : \A u \in Bad : <<u, t>> \notin R
  BY <1>1, <1>2, WFMin
<1>4. t \in Nat /\ t # 0 /\ t - 1 \in Nat /\ t \notin S
  BY <1>3 DEF Bad
<1>5. <<t - 1, t>> \in R
  BY <1>4 DEF R
<1>6. t - 1 \notin Bad
  BY <1>3, <1>5
<1> QED
  BY <1>4, <1>6 DEF Bad

\* The same for the numbers up to n.
LEMMA PrefixInduction ==
    ASSUME NEW n \in Nat, NEW S, 0 \in S, \A k \in 1..n : k - 1 \in S => k \in S
    PROVE  \A k \in 0..n : k \in S
<1> DEFINE T == {k \in Nat : k <= n => k \in S}
<1>1. 0 \in T
  OBVIOUS
<1>2. ASSUME NEW k \in Nat, k \in T PROVE k + 1 \in T
  <2>1. k + 1 <= n => k + 1 \in 1..n /\ (k + 1) - 1 = k /\ k \in S
    BY <1>2
  <2> QED
    BY <2>1
<1>3. \A k \in Nat : k \in T
  <2> HIDE DEF T
  <2> QED BY <1>1, <1>2, SetInduction
<1> QED
  BY <1>3

\* The greatest of the numbers up to n.
LEMMA MaxOfPrefix ==
    ASSUME NEW n \in Nat, NEW s \in SUBSET (1..(n + 1)), n + 1 \in s
    PROVE  Max(s) = n + 1
<1>1. \A x \in s : (\A y \in s : x >= y) <=> x = n + 1
  OBVIOUS
<1> QED
  BY <1>1 DEF Max

LEMMA Prefix ==
    ASSUME NEW k \in Nat, k >= 1
    PROVE  Max(1..k) = k /\ (1..k) \ {k} = 1..(k - 1) /\ 1..k # {}
<1>1. k - 1 \in Nat /\ (k - 1) + 1 = k /\ k \in 1..k /\ 1..k \in SUBSET (1..((k - 1) + 1))
  OBVIOUS
<1>2. Max(1..k) = k
  BY <1>1, MaxOfPrefix
<1> QED
  BY <1>1, <1>2

\* f has the values of a fold over n elements, on every set of indices.
IsFold(f, n, base, step) ==
    \A s \in SUBSET (1..n) :
        /\ s # {} => Max(s) \in s
        /\ f[s] = IF s = {} THEN base ELSE step[<<f[s \ {Max(s)}], Max(s)>>]

\* A fold over n elements has the values it needs on every set of indices.
LEMMA FoldExists ==
    ASSUME NEW n \in Nat, NEW X, NEW base \in X, NEW step \in [X \X (1..n) -> X]
    PROVE  \E f \in [SUBSET (1..n) -> X] : IsFold(f, n, base, step)
<1> DEFINE P(k) == \E f \in [SUBSET (1..k) -> X] : \A s \in SUBSET (1..k) :
                      /\ s # {} => Max(s) \in s
                      /\ f[s] = IF s = {} THEN base ELSE step[<<f[s \ {Max(s)}], Max(s)>>]
           S == {k \in Nat : k <= n => P(k)}
<1>1. 0 \in S
  <2>1. 1..0 = {} /\ \A s \in SUBSET (1..0) : s = {}
    OBVIOUS
  <2>2. P(0)
    <3> DEFINE f == [s \in SUBSET (1..0) |-> base]
    <3>1. f \in [SUBSET (1..0) -> X]
      OBVIOUS
    <3>2. \A s \in SUBSET (1..0) : f[s] = base /\ s = {}
      BY <2>1
    <3> QED
      BY <3>1, <3>2
  <2> QED
    BY <2>2
<1>2. ASSUME NEW k \in Nat, P(k), k + 1 <= n PROVE P(k + 1)
  <2>1. PICK g \in [SUBSET (1..k) -> X] : \A s \in SUBSET (1..k) :
                      /\ s # {} => Max(s) \in s
                      /\ g[s] = IF s = {} THEN base ELSE step[<<g[s \ {Max(s)}], Max(s)>>]
    BY <1>2
  <2> DEFINE f == [s \in SUBSET (1..(k + 1)) |->
                      IF k + 1 \in s THEN step[<<g[s \ {k + 1}], k + 1>>] ELSE g[s]]
  <2>2. \A s \in SUBSET (1..(k + 1)) :
            /\ s \ {k + 1} \in SUBSET (1..k)
            /\ k + 1 \notin s => s \in SUBSET (1..k)
    OBVIOUS
  <2>3. k + 1 \in 1..n
    BY <1>2
  <2>4. f \in [SUBSET (1..(k + 1)) -> X]
    <3> SUFFICES ASSUME NEW s \in SUBSET (1..(k + 1))
                 PROVE  (IF k + 1 \in s THEN step[<<g[s \ {k + 1}], k + 1>>] ELSE g[s]) \in X
      OBVIOUS
    <3> QED
      BY <2>2, <2>3
  <2>5. ASSUME NEW s \in SUBSET (1..(k + 1))
        PROVE  /\ s # {} => Max(s) \in s
               /\ f[s] = IF s = {} THEN base ELSE step[<<f[s \ {Max(s)}], Max(s)>>]
    <3>1. CASE k + 1 \in s
      <4>1. Max(s) = k + 1
        BY <3>1, MaxOfPrefix
      <4>2. s \ {k + 1} \in SUBSET (1..(k + 1)) /\ k + 1 \notin s \ {k + 1}
        OBVIOUS
      <4>3. f[s \ {k + 1}] = g[s \ {k + 1}]
        BY <4>2
      <4> QED
        BY <3>1, <4>1, <4>3
    <3>2. CASE k + 1 \notin s
      <4>1. s \in SUBSET (1..k) /\ f[s] = g[s]
        BY <2>2, <3>2
      <4>2. \A m : s \ {m} \in SUBSET (1..(k + 1)) /\ k + 1 \notin s \ {m}
        BY <3>2
      <4>3. \A m : f[s \ {m}] = g[s \ {m}]
        BY <4>2
      <4> HIDE DEF f
      <4> QED
        BY <2>1, <4>1, <4>3
    <3> QED
      BY <3>1, <3>2
  <2> HIDE DEF f
  <2> QED
    BY <2>4, <2>5
<1> HIDE DEF P
<1>3. ASSUME NEW k \in Nat, k \in S PROVE k + 1 \in S
  <2>1. k + 1 <= n => k <= n /\ P(k)
    BY <1>3
  <2>2. k + 1 <= n => P(k + 1)
    BY <1>2, <2>1
  <2> QED
    BY <2>2
<1>4. n \in S
  <2> HIDE DEF S
  <2> QED BY <1>1, <1>3, SetInduction
<1>5. P(n)
  BY <1>4
<1> QED
  BY <1>5 DEF P, IsFold
\* G lists the values of the fold after each element.
IsRun(G, n, X, base, step, last) ==
    /\ G \in [0..n -> X] /\ G[0] = base /\ G[n] = last
    /\ \A k \in 1..n : G[k] = step[<<G[k - 1], k>>]

\* iter makes a step of the fold wherever it has a value of X to make it from.
FoldsIn(iter, n, X, base, step) ==
    /\ iter[{}] = base
    /\ \A s \in SUBSET (1..n) :
          s # {} /\ iter[s \ {Max(s)}] \in X =>
              iter[s] = step[<<iter[s \ {Max(s)}], Max(s)>>]

\* The values of a fold are those of its elements one after the other.
LEMMA FoldRun ==
    ASSUME NEW n \in Nat, NEW X, NEW base \in X, NEW step \in [X \X (1..n) -> X],
           NEW iter, FoldsIn(iter, n, X, base, step)
    PROVE  \E G : IsRun(G, n, X, base, step, iter[1..n])
<1> DEFINE G == [k \in 0..n |-> iter[1..k]]
           S == {k \in 0..n : G[k] \in X}
<1>1. G[0] = base
  BY DEF FoldsIn
<1>2. ASSUME NEW k \in 1..n, G[k - 1] \in X
      PROVE  G[k] = step[<<G[k - 1], k>>] /\ G[k] \in X
  <2>1. 1..k \in SUBSET (1..n) /\ k \in Nat /\ k >= 1 /\ k - 1 \in 0..n /\ k \in 0..n
    OBVIOUS
  <2>2. Max(1..k) = k /\ (1..k) \ {k} = 1..(k - 1) /\ 1..k # {}
    BY <2>1, Prefix
  <2>3. G[k - 1] = iter[1..(k - 1)] /\ G[k] = iter[1..k]
    BY <2>1
  <2>4. iter[1..k] = step[<<iter[1..(k - 1)], k>>]
    <3>1. iter[(1..k) \ {Max(1..k)}] \in X
      BY <1>2, <2>2, <2>3
    <3> QED
      BY <2>1, <2>2, <3>1 DEF FoldsIn
  <2> QED
    BY <1>2, <2>3, <2>4
<1>3. 0 \in S
  BY <1>1
<1>4. ASSUME NEW k \in 1..n, k - 1 \in S PROVE k \in S
  <2>1. G[k - 1] \in X /\ k \in 0..n
    BY <1>4
  <2> QED
    BY <1>2, <2>1
<1>5. \A k \in 0..n : k \in S
  <2> HIDE DEF S
  <2> QED BY <1>3, <1>4, PrefixInduction
<1>6. \A k \in 0..n : G[k] \in X
  BY <1>5
<1>7. G \in [0..n -> X] /\ G[n] = iter[1..n]
  BY <1>6
<1>8. IsRun(G, n, X, base, step, iter[1..n])
  <2>1. \A k \in 1..n : k - 1 \in 0..n
    OBVIOUS
  <2> HIDE DEF G
  <2> QED BY <1>1, <1>2, <1>6, <1>7, <2>1 DEF IsRun
<1> HIDE DEF G
<1> QED
  BY <1>8

-----------------------------------------------------------------------------
(***************************************************************************)
(* Maps of maps                                                            *)
(***************************************************************************)
LEMMA InnerType ==
    ASSUME NEW N, NEW m
    PROVE  m \in Inner(N) <=> /\ m \in [DOMAIN m -> Addr]
                              /\ DOMAIN m \subseteq N /\ DOMAIN m # {}
<1>1. ASSUME m \in Inner(N)
      PROVE  m \in [DOMAIN m -> Addr] /\ DOMAIN m \subseteq N /\ DOMAIN m # {}
  <2>1. PICK ids \in (SUBSET N) \ {{}} : m \in [ids -> Addr]
    BY <1>1 DEF Inner
  <2> QED
    BY <2>1
<1>2. ASSUME m \in [DOMAIN m -> Addr], DOMAIN m \subseteq N, DOMAIN m # {}
      PROVE  m \in Inner(N)
  <2>1. DOMAIN m \in (SUBSET N) \ {{}}
    BY <1>2
  <2> QED
    BY <1>2, <2>1 DEF Inner
<1> QED
  BY <1>1, <1>2

LEMMA NestedType ==
    ASSUME NEW N, NEW m
    PROVE  m \in Nested(N) <=> m \in [DOMAIN m -> Inner(N)] /\ DOMAIN m \subseteq Service
BY DEF Nested

\* A registration keeps the form of the map.
LEMMA PutItemType ==
    ASSUME NEW m \in Nested(NodeId), NEW s \in Service, NEW n \in NodeId, NEW a \in Addr
    PROVE  PutItem(m, s, n, a) \in Nested(NodeId)
<1> DEFINE old == IF s \in DOMAIN m THEN m[s] ELSE EmptyMap
           new == With(old, n, a)
<1>1. m \in [DOMAIN m -> Inner(NodeId)] /\ DOMAIN m \subseteq Service
  BY NestedType
<1>2. DOMAIN old \subseteq NodeId /\ \A x \in DOMAIN old : old[x] \in Addr
  BY <1>1, InnerType DEF EmptyMap
<1>3. new \in Inner(NodeId)
  <2>1. DOMAIN new = DOMAIN old \cup {n} /\ new \in [DOMAIN new -> Addr]
    BY <1>2 DEF With
  <2> QED
    BY <1>2, <2>1, InnerType
<1> DEFINE res == With(m, s, new)
<1>4. DOMAIN res = DOMAIN m \cup {s} /\ res \in [DOMAIN res -> Inner(NodeId)]
  <2> HIDE DEF new
  <2> QED BY <1>1, <1>3 DEF With
<1>5. res \in Nested(NodeId)
  <2> HIDE DEF res
  <2> QED BY <1>1, <1>4, NestedType
<1> QED
  BY <1>5 DEF PutItem

\* A removal keeps the form of the map: no inner map without entries stays.
LEMMA RemoveItemType ==
    ASSUME NEW m \in Nested(NodeId), NEW s, NEW n
    PROVE  RemoveItem(m, s, n) \in Nested(NodeId)
<1>1. m \in [DOMAIN m -> Inner(NodeId)] /\ DOMAIN m \subseteq Service
  BY NestedType
<1>2. CASE s \notin DOMAIN m
  BY <1>2 DEF RemoveItem
<1>3. CASE s \in DOMAIN m /\ DOMAIN m[s] \subseteq {n}
  <2> DEFINE res == Without(m, s)
  <2>1. DOMAIN res = DOMAIN m \ {s} /\ res \in [DOMAIN res -> Inner(NodeId)]
    BY <1>1 DEF Without
  <2>2. res \in Nested(NodeId)
    <3> HIDE DEF res
    <3> QED BY <1>1, <2>1, NestedType
  <2> QED
    BY <1>3, <2>2 DEF RemoveItem
<1>4. CASE s \in DOMAIN m /\ ~(DOMAIN m[s] \subseteq {n})
  <2> DEFINE new == Without(m[s], n)
             res == With(m, s, new)
  <2>1. m[s] \in [DOMAIN m[s] -> Addr] /\ DOMAIN m[s] \subseteq NodeId
    BY <1>1, <1>4, InnerType
  <2>2. DOMAIN new = DOMAIN m[s] \ {n} /\ new \in [DOMAIN new -> Addr] /\ DOMAIN new # {}
    BY <1>4, <2>1 DEF Without
  <2>3. new \in Inner(NodeId)
    <3> HIDE DEF new
    <3> QED BY <2>1, <2>2, InnerType
  <2>4. DOMAIN res = DOMAIN m \cup {s} /\ res \in [DOMAIN res -> Inner(NodeId)]
    <3> HIDE DEF new
    <3> QED BY <1>1, <2>3 DEF With
  <2>5. res \in Nested(NodeId)
    <3> HIDE DEF res
    <3> QED BY <1>1, <1>4, <2>4, NestedType
  <2> QED
    BY <1>4, <2>5 DEF RemoveItem
<1> QED
  BY <1>2, <1>3, <1>4

\* copyMap keeps the form of the map.
LEMMA CopyMapType ==
    ASSUME NEW src \in Nested(NodeId), NEW dst \in Nested(NodeId)
    PROVE  CopyMap(src, dst) \in Nested(NodeId)
<1> DEFINE res == CopyMap(src, dst)
<1>1. /\ src \in [DOMAIN src -> Inner(NodeId)] /\ DOMAIN src \subseteq Service
      /\ dst \in [DOMAIN dst -> Inner(NodeId)] /\ DOMAIN dst \subseteq Service
  BY NestedType
<1>2. DOMAIN res = DOMAIN src \cup DOMAIN dst
  BY DEF CopyMap
<1>3. ASSUME NEW s \in DOMAIN src \cup DOMAIN dst PROVE res[s] \in Inner(NodeId)
  <2>1. CASE s \in DOMAIN src /\ s \in DOMAIN dst
    <3> DEFINE in == [n \in DOMAIN src[s] \cup DOMAIN dst[s] |->
                         IF n \in DOMAIN src[s] THEN src[s][n] ELSE dst[s][n]]
    <3>1. res[s] = in
      BY <2>1 DEF CopyMap
    <3>2. /\ src[s] \in [DOMAIN src[s] -> Addr]
          /\ DOMAIN src[s] \subseteq NodeId /\ DOMAIN src[s] # {}
          /\ dst[s] \in [DOMAIN dst[s] -> Addr] /\ DOMAIN dst[s] \subseteq NodeId
      BY <1>1, <2>1, InnerType
    <3>3. DOMAIN in = DOMAIN src[s] \cup DOMAIN dst[s] /\ in \in [DOMAIN in -> Addr]
      BY <3>2
    <3>4. in \in Inner(NodeId)
      <4> HIDE DEF in
      <4> QED BY <3>2, <3>3, InnerType
    <3> QED
      BY <3>1, <3>4
  <2>2. CASE s \notin DOMAIN src \/ s \notin DOMAIN dst
    BY <1>1, <2>2 DEF CopyMap
  <2> QED
    BY <2>1, <2>2
<1>4. res \in [DOMAIN res -> Inner(NodeId)]
  <2>1. res = [s \in DOMAIN src \cup DOMAIN dst |-> res[s]]
    BY DEF CopyMap
  <2> HIDE DEF res
  <2> QED BY <1>2, <1>3, <2>1
<1> HIDE DEF res
<1>5. res \in Nested(NodeId)
  BY <1>1, <1>2, <1>4, NestedType
<1> QED
  BY <1>5 DEF res

-----------------------------------------------------------------------------
(***************************************************************************)
(* The loops                                                               *)
(***************************************************************************)

\* The additions of SyncFrom, one after the other.
PutAll(m, add) ==
    FoldLeft(LAMBDA x, e : PutItem(x, e.ServiceName, e.NodeName, e.Addr), m, add)

LEMMA PutAllSteps ==
    ASSUME NEW m \in Nested(NodeId), NEW add \in Seq(Entry(NodeId))
    PROVE  \E G \in [0..Len(add) -> Nested(NodeId)] :
              /\ G[0] = m /\ G[Len(add)] = PutAll(m, add)
              /\ \A k \in 1..Len(add) : G[k] = PutItem(G[k - 1], add[k].ServiceName, add[k].NodeName, add[k].Addr)
<1> DEFINE n == Len(add)
           X == Nested(NodeId)
           step == [q \in X \X (1..n) |-> PutItem(q[1], add[q[2]].ServiceName, add[q[2]].NodeName, add[q[2]].Addr)]
           Rec(it) == it = [s \in SUBSET DOMAIN add |->
               IF s = {} THEN m ELSE PutItem(it[s \ {Max(s)}], add[Max(s)].ServiceName, add[Max(s)].NodeName, add[Max(s)].Addr)]
           iter == CHOOSE it : Rec(it)
<1>1. n \in Nat /\ DOMAIN add = 1..n /\ m \in X /\ \A i \in 1..n : add[i] \in Entry(NodeId)
  OBVIOUS
<1>2. step \in [X \X (1..n) -> X]
  <2> SUFFICES ASSUME NEW x \in X, NEW i \in 1..n
               PROVE  PutItem(x, add[i].ServiceName, add[i].NodeName, add[i].Addr) \in X
    OBVIOUS
  <2> QED
    BY <1>1, PutItemType DEF Entry
<1> HIDE DEF n, X, step
<1>3. PICK f \in [SUBSET (1..n) -> X] : IsFold(f, n, m, step)
  BY <1>1, <1>2, FoldExists
<1>4. Rec(f)
  <2> SUFFICES ASSUME NEW s \in SUBSET (1..n)
               PROVE  f[s] = IF s = {} THEN m ELSE PutItem(f[s \ {Max(s)}], add[Max(s)].ServiceName, add[Max(s)].NodeName, add[Max(s)].Addr)
    BY <1>1, <1>3
  <2> QED
    BY <1>3 DEF step, IsFold
<1>5. Rec(iter)
  BY <1>4
<1>6. PutAll(m, add) = iter[DOMAIN add]
  BY DEF PutAll, FoldLeft, MapThenFoldSet
<1> HIDE DEF iter
<1>7. FoldsIn(iter, n, X, m, step)
  <2>1. iter[{}] = m
    BY <1>1, <1>5
  <2>2. ASSUME NEW s \in SUBSET (1..n), s # {}, iter[s \ {Max(s)}] \in X
        PROVE  iter[s] = step[<<iter[s \ {Max(s)}], Max(s)>>]
    <3>1. Max(s) \in 1..n
      BY <1>3, <2>2 DEF IsFold
    <3> QED
      BY <1>1, <1>5, <2>2, <3>1 DEF step
  <2> QED
    BY <2>1, <2>2 DEF FoldsIn
<1>8. PICK G : IsRun(G, n, X, m, step, iter[1..n])
  BY <1>1, <1>2, <1>7, FoldRun
<1>9. ASSUME NEW k \in 1..n
      PROVE  G[k] = PutItem(G[k - 1], add[k].ServiceName, add[k].NodeName, add[k].Addr)
  <2>1. k - 1 \in 0..n
    BY <1>1
  <2> QED
    BY <1>8, <2>1 DEF IsRun, step
<1>10. G \in [0..n -> X] /\ G[0] = m /\ G[n] = PutAll(m, add)
  BY <1>1, <1>6, <1>8 DEF IsRun
<1> QED
  BY <1>9, <1>10 DEF n, X

\* The deletions of SyncFrom, one after the other.
RemoveAll(m, del) ==
    FoldLeft(LAMBDA x, e : RemoveItem(x, e.ServiceName, e.NodeName), m, del)

LEMMA RemoveAllSteps ==
    ASSUME NEW m \in Nested(NodeId), NEW del \in Seq(Entry(NodeId))
    PROVE  \E G \in [0..Len(del) -> Nested(NodeId)] :
              /\ G[0] = m /\ G[Len(del)] = RemoveAll(m, del)
              /\ \A k \in 1..Len(del) : G[k] = RemoveItem(G[k - 1], del[k].ServiceName, del[k].NodeName)
<1> DEFINE n == Len(del)
           X == Nested(NodeId)
           step == [q \in X \X (1..n) |-> RemoveItem(q[1], del[q[2]].ServiceName, del[q[2]].NodeName)]
           Rec(it) == it = [s \in SUBSET DOMAIN del |->
               IF s = {} THEN m ELSE RemoveItem(it[s \ {Max(s)}], del[Max(s)].ServiceName, del[Max(s)].NodeName)]
           iter == CHOOSE it : Rec(it)
<1>1. n \in Nat /\ DOMAIN del = 1..n /\ m \in X /\ \A i \in 1..n : del[i] \in Entry(NodeId)
  OBVIOUS
<1>2. step \in [X \X (1..n) -> X]
  <2> SUFFICES ASSUME NEW x \in X, NEW i \in 1..n
               PROVE  RemoveItem(x, del[i].ServiceName, del[i].NodeName) \in X
    OBVIOUS
  <2> QED
    BY <1>1, RemoveItemType
<1> HIDE DEF n, X, step
<1>3. PICK f \in [SUBSET (1..n) -> X] : IsFold(f, n, m, step)
  BY <1>1, <1>2, FoldExists
<1>4. Rec(f)
  <2> SUFFICES ASSUME NEW s \in SUBSET (1..n)
               PROVE  f[s] = IF s = {} THEN m ELSE RemoveItem(f[s \ {Max(s)}], del[Max(s)].ServiceName, del[Max(s)].NodeName)
    BY <1>1, <1>3
  <2> QED
    BY <1>3 DEF step, IsFold
<1>5. Rec(iter)
  BY <1>4
<1>6. RemoveAll(m, del) = iter[DOMAIN del]
  BY DEF RemoveAll, FoldLeft, MapThenFoldSet
<1> HIDE DEF iter
<1>7. FoldsIn(iter, n, X, m, step)
  <2>1. iter[{}] = m
    BY <1>1, <1>5
  <2>2. ASSUME NEW s \in SUBSET (1..n), s # {}, iter[s \ {Max(s)}] \in X
        PROVE  iter[s] = step[<<iter[s \ {Max(s)}], Max(s)>>]
    <3>1. Max(s) \in 1..n
      BY <1>3, <2>2 DEF IsFold
    <3> QED
      BY <1>1, <1>5, <2>2, <3>1 DEF step
  <2> QED
    BY <2>1, <2>2 DEF FoldsIn
<1>8. PICK G : IsRun(G, n, X, m, step, iter[1..n])
  BY <1>1, <1>2, <1>7, FoldRun
<1>9. ASSUME NEW k \in 1..n
      PROVE  G[k] = RemoveItem(G[k - 1], del[k].ServiceName, del[k].NodeName)
  <2>1. k - 1 \in 0..n
    BY <1>1
  <2> QED
    BY <1>8, <2>1 DEF IsRun, step
<1>10. G \in [0..n -> X] /\ G[0] = m /\ G[n] = RemoveAll(m, del)
  BY <1>1, <1>6, <1>8 DEF IsRun
<1> QED
  BY <1>9, <1>10 DEF n, X

\* The mirrors that buildMemData copies, one after the other.
CopyAll(from, cur, order) ==
    FoldLeft(LAMBDA dst, p : CopyMap(from[p], dst), cur, order)

LEMMA CopyAllSteps ==
    ASSUME NEW from, \A p \in DOMAIN from : from[p] \in Nested(NodeId),
           NEW cur \in Nested(NodeId), NEW order \in Seq(DOMAIN from)
    PROVE  \E G \in [0..Len(order) -> Nested(NodeId)] :
              /\ G[0] = cur /\ G[Len(order)] = CopyAll(from, cur, order)
              /\ \A k \in 1..Len(order) : G[k] = CopyMap(from[order[k]], G[k - 1])
<1> DEFINE n == Len(order)
           X == Nested(NodeId)
           step == [q \in X \X (1..n) |-> CopyMap(from[order[q[2]]], q[1])]
           Rec(it) == it = [s \in SUBSET DOMAIN order |->
               IF s = {} THEN cur ELSE CopyMap(from[order[Max(s)]], it[s \ {Max(s)}])]
           iter == CHOOSE it : Rec(it)
<1>1. n \in Nat /\ DOMAIN order = 1..n /\ cur \in X /\ \A i \in 1..n : order[i] \in DOMAIN from
  OBVIOUS
<1>2. step \in [X \X (1..n) -> X]
  <2> SUFFICES ASSUME NEW x \in X, NEW i \in 1..n
               PROVE  CopyMap(from[order[i]], x) \in X
    OBVIOUS
  <2> QED
    BY <1>1, CopyMapType
<1> HIDE DEF n, X, step
<1>3. PICK f \in [SUBSET (1..n) -> X] : IsFold(f, n, cur, step)
  BY <1>1, <1>2, FoldExists
<1>4. Rec(f)
  <2> SUFFICES ASSUME NEW s \in SUBSET (1..n)
               PROVE  f[s] = IF s = {} THEN cur ELSE CopyMap(from[order[Max(s)]], f[s \ {Max(s)}])
    BY <1>1, <1>3
  <2> QED
    BY <1>3 DEF step, IsFold
<1>5. Rec(iter)
  BY <1>4
<1>6. CopyAll(from, cur, order) = iter[DOMAIN order]
  BY DEF CopyAll, FoldLeft, MapThenFoldSet
<1> HIDE DEF iter
<1>7. FoldsIn(iter, n, X, cur, step)
  <2>1. iter[{}] = cur
    BY <1>1, <1>5
  <2>2. ASSUME NEW s \in SUBSET (1..n), s # {}, iter[s \ {Max(s)}] \in X
        PROVE  iter[s] = step[<<iter[s \ {Max(s)}], Max(s)>>]
    <3>1. Max(s) \in 1..n
      BY <1>3, <2>2 DEF IsFold
    <3> QED
      BY <1>1, <1>5, <2>2, <3>1 DEF step
  <2> QED
    BY <2>1, <2>2 DEF FoldsIn
<1>8. PICK G : IsRun(G, n, X, cur, step, iter[1..n])
  BY <1>1, <1>2, <1>7, FoldRun
<1>9. ASSUME NEW k \in 1..n
      PROVE  G[k] = CopyMap(from[order[k]], G[k - 1])
  <2>1. k - 1 \in 0..n
    BY <1>1
  <2> QED
    BY <1>8, <2>1 DEF IsRun, step
<1>10. G \in [0..n -> X] /\ G[0] = cur /\ G[n] = CopyAll(from, cur, order)
  BY <1>1, <1>6, <1>8 DEF IsRun
<1> QED
  BY <1>9, <1>10 DEF n, X

KeepOther(newList, v, s, n) ==
    IF v.ServiceName = s /\ v.NodeName = n THEN newList ELSE Append(newList, v)

\* rebuildServiceItemList, element by element.
Rebuilt(list, s0, n0) ==
    FoldLeft(LAMBDA newList, v : KeepOther(newList, v, s0, n0), << >>, list)

IsRebuildRun(G, list, s, n) ==
    /\ G \in [0..Len(list) -> Seq(Entry(NodeId))]
    /\ G[0] = << >> /\ G[Len(list)] = Rebuilt(list, s, n)
    /\ \A k \in 1..Len(list) : G[k] = KeepOther(G[k - 1], list[k], s, n)

LEMMA RebuiltSteps ==
    ASSUME NEW list \in Seq(Entry(NodeId)), NEW s0, NEW n0
    PROVE  \E G : IsRebuildRun(G, list, s0, n0)
<1> DEFINE n == Len(list)
           X == Seq(Entry(NodeId))
           step == [q \in X \X (1..n) |-> KeepOther(q[1], list[q[2]], s0, n0)]
           Rec(it) == it = [s \in SUBSET DOMAIN list |->
               IF s = {} THEN << >> ELSE KeepOther(it[s \ {Max(s)}], list[Max(s)], s0, n0)]
           iter == CHOOSE it : Rec(it)
<1>1. n \in Nat /\ DOMAIN list = 1..n /\ << >> \in X /\ \A i \in 1..n : list[i] \in Entry(NodeId)
  OBVIOUS
<1>2. step \in [X \X (1..n) -> X]
  <2> SUFFICES ASSUME NEW x \in X, NEW i \in 1..n
               PROVE  KeepOther(x, list[i], s0, n0) \in X
    OBVIOUS
  <2> QED
    BY <1>1 DEF KeepOther
<1> HIDE DEF n, X, step
<1>3. PICK f \in [SUBSET (1..n) -> X] : IsFold(f, n, << >>, step)
  BY <1>1, <1>2, FoldExists
<1>4. Rec(f)
  <2> SUFFICES ASSUME NEW s \in SUBSET (1..n)
               PROVE  f[s] = IF s = {} THEN << >> ELSE KeepOther(f[s \ {Max(s)}], list[Max(s)], s0, n0)
    BY <1>1, <1>3
  <2> QED
    BY <1>3 DEF step, IsFold
<1>5. Rec(iter)
  BY <1>4
<1>6. Rebuilt(list, s0, n0) = iter[DOMAIN list]
  BY DEF Rebuilt, FoldLeft, MapThenFoldSet
<1> HIDE DEF iter
<1>7. FoldsIn(iter, n, X, << >>, step)
  <2>1. iter[{}] = << >>
    BY <1>1, <1>5
  <2>2. ASSUME NEW s \in SUBSET (1..n), s # {}, iter[s \ {Max(s)}] \in X
        PROVE  iter[s] = step[<<iter[s \ {Max(s)}], Max(s)>>]
    <3>1. Max(s) \in 1..n
      BY <1>3, <2>2 DEF IsFold
    <3> QED
      BY <1>1, <1>5, <2>2, <3>1 DEF step
  <2> QED
    BY <2>1, <2>2 DEF FoldsIn
<1>8. PICK G : IsRun(G, n, X, << >>, step, iter[1..n])
  BY <1>1, <1>2, <1>7, FoldRun
<1>9. ASSUME NEW k \in 1..n
      PROVE  G[k] = KeepOther(G[k - 1], list[k], s0, n0)
  <2>1. k - 1 \in 0..n
    BY <1>1
  <2> QED
    BY <1>8, <2>1 DEF IsRun, step
<1>10. G \in [0..n -> X] /\ G[0] = << >> /\ G[n] = Rebuilt(list, s0, n0)
  BY <1>1, <1>6, <1>8 DEF IsRun
<1> QED
  BY <1>9, <1>10 DEF n, X, IsRebuildRun

-----------------------------------------------------------------------------
(***************************************************************************)
(* What the flat maps show of the operations                               *)
(***************************************************************************)
FlatMap == [Item -> Addr \cup {NoAddr}]

LEMMA FlatAt ==
    ASSUME NEW m, NEW s \in Service, NEW n \in NodeId
    PROVE  Flat(m)[<<s, n>>] = IF s \in DOMAIN m /\ n \in DOMAIN m[s] THEN m[s][n] ELSE NoAddr
<1>1. <<s, n>> \in Item /\ <<s, n>>[1] = s /\ <<s, n>>[2] = n
  BY DEF Item
<1> QED
  BY <1>1 DEF Flat

\* The entries of a map of maps are addresses, so none of them is NoAddr.
LEMMA NestedAt ==
    ASSUME NEW m \in Nested(NodeId), NEW s \in DOMAIN m, NEW n \in DOMAIN m[s]
    PROVE  m[s][n] \in Addr /\ s \in Service /\ n \in NodeId /\ m[s][n] # NoAddr
<1>1. m[s] \in Inner(NodeId) /\ s \in Service
  BY NestedType
<1> QED
  BY <1>1, InnerType, StoreAssumption

LEMMA FlatType ==
    ASSUME NEW m \in Nested(NodeId)
    PROVE  Flat(m) \in FlatMap
<1> SUFFICES ASSUME NEW k \in Item
             PROVE  (IF k[1] \in DOMAIN m /\ k[2] \in DOMAIN m[k[1]]
                     THEN m[k[1]][k[2]] ELSE NoAddr) \in Addr \cup {NoAddr}
  BY DEF Flat, FlatMap
<1> QED
  BY NestedAt

\* Flat maps are equal when they agree on every service and node.
LEMMA FlatEqual ==
    ASSUME NEW f, NEW g, f = [k \in Item |-> f[k]], g = [k \in Item |-> g[k]],
           \A s \in Service, n \in NodeId : f[<<s, n>>] = g[<<s, n>>]
    PROVE  f = g
<1>1. \A k \in Item : \E s \in Service, n \in NodeId : k = <<s, n>>
  BY DEF Item
<1>2. \A k \in Item : f[k] = g[k]
  BY <1>1
<1> QED
  BY <1>2

\* A flat map that differs from another in one item only.
LEMMA FlatSet ==
    ASSUME NEW f, NEW g, f = [k \in Item |-> f[k]], g = [k \in Item |-> g[k]],
           NEW s \in Service, NEW n \in NodeId, NEW v, g[<<s, n>>] = v,
           \A t \in Service, x \in NodeId : t # s \/ x # n => g[<<t, x>>] = f[<<t, x>>]
    PROVE  g = [f EXCEPT ![<<s, n>>] = v]
<1> DEFINE new == [f EXCEPT ![<<s, n>>] = v]
<1>1. new = [k \in Item |-> new[k]]
  OBVIOUS
<1>2. ASSUME NEW t \in Service, NEW x \in NodeId PROVE g[<<t, x>>] = new[<<t, x>>]
  <2>1. <<t, x>> \in Item /\ (<<t, x>> = <<s, n>> <=> t = s /\ x = n)
    BY DEF Item
  <2>2. CASE t = s /\ x = n
    BY <2>1, <2>2
  <2>3. CASE t # s \/ x # n
    BY <2>1, <2>3
  <2> QED
    BY <2>2, <2>3
<1> HIDE DEF new
<1>3. g = new
  BY <1>1, <1>2, FlatEqual
<1> QED
  BY <1>3 DEF new

LEMMA FlatIsMap ==
    ASSUME NEW m
    PROVE  Flat(m) = [k \in Item |-> Flat(m)[k]]
BY DEF Flat

\* A registration shows in its item.
LEMMA FlatPut ==
    ASSUME NEW m \in Nested(NodeId), NEW s \in Service, NEW n \in NodeId, NEW a \in Addr
    PROVE  Flat(PutItem(m, s, n, a)) = [Flat(m) EXCEPT ![<<s, n>>] = a]
<1> DEFINE res == PutItem(m, s, n, a)
           in == With(IF s \in DOMAIN m THEN m[s] ELSE EmptyMap, n, a)
<1>1. DOMAIN res = DOMAIN m \cup {s} /\ res[s] = in /\ \A t \in DOMAIN m : t # s => res[t] = m[t]
  BY DEF PutItem, With
<1>2. DOMAIN in = (IF s \in DOMAIN m THEN DOMAIN m[s] ELSE {}) \cup {n} /\ in[n] = a
  BY DEF With, EmptyMap
<1>3. s \in DOMAIN m => \A x \in DOMAIN m[s] : x # n => in[x] = m[s][x]
  BY DEF With
<1> HIDE DEF res, in
<1>4. Flat(res)[<<s, n>>] = a
  BY <1>1, <1>2, FlatAt
<1>5. ASSUME NEW t \in Service, NEW x \in NodeId, t # s \/ x # n
      PROVE  Flat(res)[<<t, x>>] = Flat(m)[<<t, x>>]
  <2>1. /\ Flat(res)[<<t, x>>] = IF t \in DOMAIN res /\ x \in DOMAIN res[t] THEN res[t][x] ELSE NoAddr
        /\ Flat(m)[<<t, x>>] = IF t \in DOMAIN m /\ x \in DOMAIN m[t] THEN m[t][x] ELSE NoAddr
    BY FlatAt
  <2> QED
    BY <1>1, <1>2, <1>3, <1>5, <2>1
<1>6. Flat(res) = [Flat(m) EXCEPT ![<<s, n>>] = a]
  BY <1>4, <1>5, FlatIsMap, FlatSet
<1> QED
  BY <1>6 DEF res

\* A removal shows in its item.
LEMMA FlatRemove ==
    ASSUME NEW m \in Nested(NodeId), NEW s \in Service, NEW n \in NodeId
    PROVE  Flat(RemoveItem(m, s, n)) = [Flat(m) EXCEPT ![<<s, n>>] = NoAddr]
<1> DEFINE res == RemoveItem(m, s, n)
<1>1. ~(s \in DOMAIN res /\ n \in DOMAIN res[s])
  BY DEF RemoveItem, With, Without
<1>2. ASSUME NEW t, NEW x, t # s \/ x # n
      PROVE  /\ t \in DOMAIN res /\ x \in DOMAIN res[t] <=> t \in DOMAIN m /\ x \in DOMAIN m[t]
             /\ t \in DOMAIN m /\ x \in DOMAIN m[t] => res[t][x] = m[t][x]
  <2>1. CASE s \notin DOMAIN m
    BY <2>1 DEF RemoveItem
  <2>2. CASE s \in DOMAIN m /\ DOMAIN m[s] \subseteq {n}
    <3>1. res = Without(m, s)
      BY <2>2 DEF RemoveItem
    <3>2. DOMAIN res = DOMAIN m \ {s} /\ \A y \in DOMAIN res : res[y] = m[y]
      BY <3>1 DEF Without
    <3> HIDE DEF res
    <3> QED
      BY <1>2, <2>2, <3>2
  <2>3. CASE s \in DOMAIN m /\ ~(DOMAIN m[s] \subseteq {n})
    <3>1. res = With(m, s, Without(m[s], n))
      BY <2>3 DEF RemoveItem
    <3>2. /\ DOMAIN res = DOMAIN m /\ \A y \in DOMAIN m : y # s => res[y] = m[y]
          /\ DOMAIN res[s] = DOMAIN m[s] \ {n}
          /\ \A y \in DOMAIN m[s] : y # n => res[s][y] = m[s][y]
      BY <2>3, <3>1 DEF With, Without
    <3> HIDE DEF res
    <3> QED
      BY <1>2, <2>3, <3>2
  <2> QED
    BY <2>1, <2>2, <2>3
<1> HIDE DEF res
<1>3. Flat(res)[<<s, n>>] = NoAddr
  BY <1>1, FlatAt
<1>4. ASSUME NEW t \in Service, NEW x \in NodeId, t # s \/ x # n
      PROVE  Flat(res)[<<t, x>>] = Flat(m)[<<t, x>>]
  <2>1. /\ Flat(res)[<<t, x>>] = IF t \in DOMAIN res /\ x \in DOMAIN res[t] THEN res[t][x] ELSE NoAddr
        /\ Flat(m)[<<t, x>>] = IF t \in DOMAIN m /\ x \in DOMAIN m[t] THEN m[t][x] ELSE NoAddr
    BY FlatAt
  <2> QED
    BY <1>2, <1>4, <2>1
<1>5. Flat(res) = [Flat(m) EXCEPT ![<<s, n>>] = NoAddr]
  BY <1>3, <1>4, FlatIsMap, FlatSet
<1> QED
  BY <1>5 DEF res

\* copyMap lets the source decide wherever it has an entry.
LEMMA FlatCopy ==
    ASSUME NEW src \in Nested(NodeId), NEW dst \in Nested(NodeId), NEW k \in Item
    PROVE  Flat(CopyMap(src, dst))[k] = IF Flat(src)[k] # NoAddr THEN Flat(src)[k] ELSE Flat(dst)[k]
<1>1. PICK s \in Service, n \in NodeId : k = <<s, n>>
  BY DEF Item
<1> DEFINE res == CopyMap(src, dst)
<1>2. DOMAIN res = DOMAIN src \cup DOMAIN dst
  BY DEF CopyMap
<1>3. /\ s \in DOMAIN src /\ s \notin DOMAIN dst => res[s] = src[s]
      /\ s \in DOMAIN dst /\ s \notin DOMAIN src => res[s] = dst[s]
      /\ s \in DOMAIN src /\ s \in DOMAIN dst =>
            res[s] = [x \in DOMAIN src[s] \cup DOMAIN dst[s] |->
                         IF x \in DOMAIN src[s] THEN src[s][x] ELSE dst[s][x]]
  BY DEF CopyMap
<1> HIDE DEF res
<1>4. /\ Flat(res)[<<s, n>>] = IF s \in DOMAIN res /\ n \in DOMAIN res[s] THEN res[s][n] ELSE NoAddr
      /\ Flat(src)[<<s, n>>] = IF s \in DOMAIN src /\ n \in DOMAIN src[s] THEN src[s][n] ELSE NoAddr
      /\ Flat(dst)[<<s, n>>] = IF s \in DOMAIN dst /\ n \in DOMAIN dst[s] THEN dst[s][n] ELSE NoAddr
  BY FlatAt
<1>5. s \in DOMAIN src /\ n \in DOMAIN src[s] => src[s][n] # NoAddr
  BY NestedAt
<1> QED
  BY <1>1, <1>2, <1>3, <1>4, <1>5 DEF res
-----------------------------------------------------------------------------
(***************************************************************************)
(* What the flat lists show                                                *)
(***************************************************************************)
\* Entry i of a list is for item k,
Named(list, i, k) == list[i].ServiceName = k[1] /\ list[i].NodeName = k[2]

\* and the last one that is: the entry that counts when the list is applied.
LastAt(list, i, k) ==
    i \in DOMAIN list /\ Named(list, i, k) /\ \A j \in DOMAIN list : Named(list, j, k) => j <= i

\* An item that is on a list has a last entry.
LEMMA LastExists ==
    ASSUME NEW list \in Seq(Entry(NodeId)), NEW k, NEW i \in DOMAIN list, Named(list, i, k)
    PROVE  \E j \in DOMAIN list : LastAt(list, j, k)
<1> DEFINE n == Len(list)
           Upto(m, j) == j \in 1..m /\ Named(list, j, k) /\ \A l \in 1..m : Named(list, l, k) => l <= j
           S == {m \in 0..n : (\E l \in 1..m : Named(list, l, k)) => \E j \in 1..m : Upto(m, j)}
<1>1. n \in Nat /\ DOMAIN list = 1..n
  OBVIOUS
<1> HIDE DEF n
<1>2. 0 \in S
  BY <1>1
<1>3. ASSUME NEW m \in 1..n, m - 1 \in S PROVE m \in S
  <2>1. m \in 0..n /\ m \in Nat /\ m - 1 \in Nat /\ 1..m = 1..(m - 1) \cup {m}
    BY <1>1
  <2>2. CASE Named(list, m, k)
    <3>1. Upto(m, m)
      BY <2>1, <2>2
    <3> QED
      BY <2>1, <3>1
  <2>3. CASE ~Named(list, m, k)
    <3>1. \A j \in 1..(m - 1) : Upto(m - 1, j) => Upto(m, j)
      BY <2>1, <2>3
    <3>2. (\E l \in 1..m : Named(list, l, k)) => \E l \in 1..(m - 1) : Named(list, l, k)
      BY <2>1, <2>3
    <3> QED
      BY <1>3, <2>1, <3>1, <3>2
  <2> QED
    BY <2>2, <2>3
<1>4. \A m \in 0..n : m \in S
  <2> HIDE DEF S
  <2> QED BY <1>1, <1>2, <1>3, PrefixInduction
<1>5. n \in 0..n /\ i \in 1..n
  BY <1>1
<1>6. \E j \in 1..n : Upto(n, j)
  BY <1>4, <1>5
<1> QED
  BY <1>1, <1>6 DEF LastAt

LEMMA FlatListNone ==
    ASSUME NEW list, NEW k \in Item, \A i \in DOMAIN list : ~Named(list, i, k)
    PROVE  FlatList(list)[k] = NoAddr
<1>1. {i \in DOMAIN list : list[i].ServiceName = k[1] /\ list[i].NodeName = k[2]} = {}
  BY DEF Named
<1> QED
  BY <1>1 DEF FlatList

LEMMA FlatListLast ==
    ASSUME NEW list \in Seq(Entry(NodeId)), NEW k \in Item, NEW i, LastAt(list, i, k)
    PROVE  FlatList(list)[k] = list[i].Addr
<1> DEFINE at == {j \in DOMAIN list : list[j].ServiceName = k[1] /\ list[j].NodeName = k[2]}
<1>1. at # {} /\ i \in at /\ (\A j \in at : j <= i) /\ DOMAIN list \subseteq Nat
  BY DEF LastAt, Named
<1>2. \A x \in at : (\A j \in at : j <= x) => x = i
  BY <1>1
<1>3. FlatList(list)[k] = list[CHOOSE x \in at : \A j \in at : j <= x].Addr
  BY <1>1 DEF FlatList
<1>4. (CHOOSE x \in at : \A j \in at : j <= x) = i
  <2> HIDE DEF at
  <2> QED BY <1>1, <1>2
<1> QED
  BY <1>3, <1>4

LEMMA FlatListIsMap ==
    ASSUME NEW list
    PROVE  FlatList(list) = [k \in Item |-> FlatList(list)[k]]
BY DEF FlatList

LEMMA FlatListType ==
    ASSUME NEW list \in Seq(Entry(NodeId))
    PROVE  FlatList(list) \in FlatMap
<1>1. ASSUME NEW k \in Item PROVE FlatList(list)[k] \in Addr \cup {NoAddr}
  <2>1. CASE \A i \in DOMAIN list : ~Named(list, i, k)
    BY <2>1, FlatListNone
  <2>2. CASE \E i \in DOMAIN list : Named(list, i, k)
    <3>1. PICK i \in DOMAIN list : LastAt(list, i, k)
      BY <2>2, LastExists
    <3>2. list[i] \in Entry(NodeId)
      OBVIOUS
    <3> QED
      BY <3>1, <3>2, FlatListLast DEF Entry
  <2> QED
    BY <2>1, <2>2
<1> QED
  BY <1>1, FlatListIsMap DEF FlatMap

\* An entry that is appended is the last one of its item.
LEMMA FlatListAppend ==
    ASSUME NEW list \in Seq(Entry(NodeId)), NEW e \in Entry(NodeId)
    PROVE  FlatList(Append(list, e)) =
               [FlatList(list) EXCEPT ![<<e.ServiceName, e.NodeName>>] = e.Addr]
<1> DEFINE new == Append(list, e)
           n == Len(list)
           s == e.ServiceName
           x == e.NodeName
<1>1. /\ new \in Seq(Entry(NodeId)) /\ DOMAIN list = 1..n /\ DOMAIN new = 1..(n + 1) /\ n \in Nat
      /\ new[n + 1] = e /\ \A i \in 1..n : new[i] = list[i]
  OBVIOUS
<1>2. s \in Service /\ x \in NodeId /\ e.Addr \in Addr
  BY DEF Entry
<1> HIDE DEF new, n
<1>3. FlatList(new)[<<s, x>>] = e.Addr
  <2>1. LastAt(new, n + 1, <<s, x>>)
    BY <1>1 DEF LastAt, Named
  <2> QED
    BY <1>1, <1>2, <2>1, FlatListLast DEF Item
<1>4. ASSUME NEW t \in Service, NEW y \in NodeId, t # s \/ y # x
      PROVE  FlatList(new)[<<t, y>>] = FlatList(list)[<<t, y>>]
  <2> DEFINE k == <<t, y>>
  <2>1. k \in Item /\ ~Named(new, n + 1, k) /\ \A i \in 1..n : Named(new, i, k) <=> Named(list, i, k)
    BY <1>1, <1>4 DEF Item, Named
  <2> HIDE DEF k
  <2>2. \A i \in 1..(n + 1) : i = n + 1 \/ i \in 1..n
    BY <1>1
  <2>3. CASE \A i \in 1..n : ~Named(list, i, k)
    <3>1. FlatList(list)[k] = NoAddr
      BY <1>1, <2>1, <2>3, FlatListNone
    <3>2. FlatList(new)[k] = NoAddr
      BY <1>1, <2>1, <2>2, <2>3, FlatListNone
    <3> QED
      BY <3>1, <3>2 DEF k
  <2>4. CASE \E i \in 1..n : Named(list, i, k)
    <3>1. PICK i \in 1..n : LastAt(list, i, k)
      BY <1>1, <2>4, LastExists
    <3>2. i \in 1..(n + 1)
      BY <1>1
    <3>3. LastAt(new, i, k)
      BY <1>1, <2>1, <2>2, <3>1, <3>2 DEF LastAt
    <3>4. FlatList(list)[k] = list[i].Addr /\ FlatList(new)[k] = new[i].Addr
      BY <1>1, <2>1, <3>1, <3>3, FlatListLast
    <3> QED
      BY <1>1, <3>4 DEF k
  <2> QED
    BY <2>3, <2>4
<1>5. FlatList(new) = [FlatList(list) EXCEPT ![<<s, x>>] = e.Addr]
  BY <1>2, <1>3, <1>4, FlatListIsMap, FlatSet
<1> QED
  BY <1>5 DEF new

\* The items a list names.
Names(list) == {<<list[i].ServiceName, list[i].NodeName>> : i \in DOMAIN list}

LEMMA NamesAppend ==
    ASSUME NEW list \in Seq(Entry(NodeId)), NEW e \in Entry(NodeId)
    PROVE  Names(Append(list, e)) = Names(list) \cup {<<e.ServiceName, e.NodeName>>}
<1> DEFINE new == Append(list, e)
           n == Len(list)
<1>1. /\ DOMAIN list = 1..n /\ DOMAIN new = 1..(n + 1) /\ n \in Nat
      /\ new[n + 1] = e /\ \A i \in 1..n : new[i] = list[i]
  OBVIOUS
<1> HIDE DEF new, n
<1>2. 1..(n + 1) = 1..n \cup {n + 1}
  BY <1>1
<1>3. Names(new) = Names(list) \cup {<<e.ServiceName, e.NodeName>>}
  BY <1>1, <1>2 DEF Names
<1> QED
  BY <1>3 DEF new

LEMMA NamesType ==
    ASSUME NEW list \in Seq(Entry(NodeId))
    PROVE  Names(list) \subseteq Item
<1>1. \A i \in DOMAIN list : list[i] \in Entry(NodeId)
  OBVIOUS
<1> QED
  BY <1>1 DEF Names, Item, Entry

\* The first i entries of a list.
LEMMA PrefixOf ==
    ASSUME NEW list \in Seq(Entry(NodeId)), NEW i \in 1..Len(list)
    PROVE  /\ SubSeq(list, 1, i) = Append(SubSeq(list, 1, i - 1), list[i])
           /\ SubSeq(list, 1, i - 1) \in Seq(Entry(NodeId)) /\ list[i] \in Entry(NodeId)
<1>1. list[i] \in Entry(NodeId) /\ i \in Nat /\ Len(list) \in Nat /\ i - 1 \in Nat
  OBVIOUS
<1>2. SubSeq(list, 1, i - 1) \in Seq(Entry(NodeId))
  BY <1>1
<1>3. SubSeq(list, 1, i) = Append(SubSeq(list, 1, i - 1), list[i])
  BY <1>1
<1> QED
  BY <1>1, <1>2, <1>3

LEMMA PrefixEnds ==
    ASSUME NEW list \in Seq(Entry(NodeId))
    PROVE  SubSeq(list, 1, 0) = << >> /\ SubSeq(list, 1, Len(list)) = list
OBVIOUS

LEMMA FlatListEmpty == \A k \in Item : FlatList(<< >>)[k] = NoAddr /\ Names(<< >>) = {}
BY FlatListNone DEF Names

-----------------------------------------------------------------------------
(***************************************************************************)
(* What the loops compute                                                  *)
(***************************************************************************)

\* rebuildServiceItemList removes every entry of the item, and no other.
LEMMA RebuildProperty ==
    ASSUME NEW list \in Seq(Entry(NodeId)), NEW s \in Service, NEW n \in NodeId
    PROVE  LET new == RebuildServiceItemList(list, s, n)
           IN  /\ new \in Seq(Entry(NodeId)) /\ Len(new) <= Len(list)
               /\ FlatList(new) = [FlatList(list) EXCEPT ![<<s, n>>] = NoAddr]
               /\ Names(new) = Names(list) \ {<<s, n>>}
<1> DEFINE k0 == <<s, n>>
           new == RebuildServiceItemList(list, s, n)
<1>1. new = Rebuilt(list, s, n)
  BY DEF RebuildServiceItemList, Rebuilt, KeepOther
<1>0. PICK G : IsRebuildRun(G, list, s, n)
  BY RebuiltSteps
<1>2. /\ G \in [0..Len(list) -> Seq(Entry(NodeId))]
      /\ G[0] = << >> /\ G[Len(list)] = Rebuilt(list, s, n)
      /\ \A i \in 1..Len(list) : G[i] = KeepOther(G[i - 1], list[i], s, n)
  BY <1>0 DEF IsRebuildRun
<1> HIDE DEF new
<1> DEFINE Pre(i) == SubSeq(list, 1, i)
           Done(i) == /\ Len(G[i]) <= i
                      /\ Names(G[i]) = Names(Pre(i)) \ {k0}
                      /\ \A k \in Item : FlatList(G[i])[k] = IF k = k0 THEN NoAddr
                                                             ELSE FlatList(Pre(i))[k]
           S == {i \in 0..Len(list) : Done(i)}
<1>3. 0 \in S
  <2>1. Pre(0) = << >> /\ 0 \in 0..Len(list)
    BY PrefixEnds
  <2>2. Names(<< >>) = {} /\ Len(<< >>) <= 0 /\ \A k \in Item : FlatList(<< >>)[k] = NoAddr
    BY FlatListEmpty DEF Names
  <2>3. Done(0)
    BY <1>2, <2>1, <2>2
  <2> QED
    BY <2>1, <2>3
<1>4. ASSUME NEW i \in 1..Len(list), Done(i - 1) PROVE Done(i)
  <2> DEFINE e == list[i]
             k1 == <<e.ServiceName, e.NodeName>>
  <2>1. i - 1 \in 0..Len(list) /\ i \in Nat
    OBVIOUS
  <2>0. G[i - 1] \in Seq(Entry(NodeId)) /\ Len(G[i - 1]) \in Nat
    BY <1>2, <2>1
  <2>2. Pre(i) = Append(Pre(i - 1), e) /\ Pre(i - 1) \in Seq(Entry(NodeId)) /\ e \in Entry(NodeId)
    BY PrefixOf
  <2>3. k1 \in Item /\ (k1 = k0 <=> e.ServiceName = s /\ e.NodeName = n)
    BY <2>2 DEF Item, Entry
  <2> HIDE DEF Pre
  <2>4. /\ FlatList(Pre(i)) = [FlatList(Pre(i - 1)) EXCEPT ![k1] = e.Addr]
        /\ Names(Pre(i)) = Names(Pre(i - 1)) \cup {k1}
    BY <2>2, FlatListAppend, NamesAppend
  <2>5. FlatList(Pre(i - 1)) = [k \in Item |-> FlatList(Pre(i - 1))[k]]
    BY FlatListIsMap
  <2>6. CASE e.ServiceName = s /\ e.NodeName = n
    <3>1. G[i] = G[i - 1]
      BY <1>2, <2>6 DEF KeepOther
    <3> HIDE DEF e, k1, k0
    <3>2. \A k \in Item : k # k0 => FlatList(Pre(i))[k] = FlatList(Pre(i - 1))[k]
      BY <2>3, <2>4, <2>5, <2>6 DEF e
    <3>3. Len(G[i]) <= i
      BY <1>4, <2>0, <2>1, <3>1
    <3>4. Names(G[i]) = Names(Pre(i)) \ {k0}
      BY <1>4, <2>3, <2>4, <2>6, <3>1 DEF e
    <3> QED
      BY <1>4, <3>1, <3>2, <3>3, <3>4
  <2>7. CASE ~(e.ServiceName = s /\ e.NodeName = n)
    <3>1. G[i] = Append(G[i - 1], e)
      BY <1>2, <2>7 DEF KeepOther
    <3>2. Len(G[i]) <= i
      BY <1>4, <2>0, <2>1, <2>2, <3>1
    <3>3. /\ FlatList(G[i]) = [FlatList(G[i - 1]) EXCEPT ![k1] = e.Addr]
          /\ Names(G[i]) = Names(G[i - 1]) \cup {k1}
      BY <2>0, <2>2, <3>1, FlatListAppend, NamesAppend
    <3>4. FlatList(G[i - 1]) = [k \in Item |-> FlatList(G[i - 1])[k]]
      BY FlatListIsMap
    <3>5. k1 # k0
      BY <2>3, <2>7
    <3> HIDE DEF e, k1, k0
    <3>6. Names(G[i]) = Names(Pre(i)) \ {k0}
      BY <1>4, <2>4, <3>3, <3>5
    <3>7. \A k \in Item : FlatList(G[i])[k] = IF k = k0 THEN NoAddr ELSE FlatList(Pre(i))[k]
      BY <1>4, <2>4, <2>5, <3>3, <3>4, <3>5
    <3> QED
      BY <3>2, <3>6, <3>7
  <2> QED
    BY <2>6, <2>7
<1>5. Done(Len(list))
  <2>1. \A i \in 1..Len(list) : i - 1 \in S => i \in S
    <3> HIDE DEF Done
    <3> QED BY <1>4
  <2>2. \A i \in 0..Len(list) : i \in S
    <3>1. Len(list) \in Nat
      OBVIOUS
    <3> HIDE DEF S
    <3> QED BY <3>1, <1>3, <2>1, PrefixInduction
  <2> QED
    BY <2>2
<1>6. new = G[Len(list)] /\ new \in Seq(Entry(NodeId)) /\ Pre(Len(list)) = list
  BY <1>1, <1>2, PrefixEnds
<1>7. FlatList(new) = [FlatList(list) EXCEPT ![k0] = NoAddr]
  <2>1. k0 \in Item /\ \A t \in Service, x \in NodeId :
            <<t, x>> \in Item /\ (<<t, x>> = k0 <=> t = s /\ x = n)
    BY DEF Item
  <2>2. \A k \in Item : FlatList(new)[k] = IF k = k0 THEN NoAddr ELSE FlatList(list)[k]
    BY <1>5, <1>6
  <2>3. FlatList(new)[<<s, n>>] = NoAddr /\ \A t \in Service, x \in NodeId :
            t # s \/ x # n => FlatList(new)[<<t, x>>] = FlatList(list)[<<t, x>>]
    BY <2>1, <2>2
  <2> QED
    BY <2>3, FlatListIsMap, FlatSet
<1> QED
  BY <1>5, <1>6, <1>7 DEF new

\* The deletions of SyncFrom remove the items they name.
LEMMA RemoveAllProperty ==
    ASSUME NEW m \in Nested(NodeId), NEW del \in Seq(Entry(NodeId))
    PROVE  /\ RemoveAll(m, del) \in Nested(NodeId)
           /\ \A k \in Item : Flat(RemoveAll(m, del))[k] =
                 IF k \in Names(del) THEN NoAddr ELSE Flat(m)[k]
<1>1. PICK G \in [0..Len(del) -> Nested(NodeId)] :
          /\ G[0] = m /\ G[Len(del)] = RemoveAll(m, del)
          /\ \A i \in 1..Len(del) : G[i] = RemoveItem(G[i - 1], del[i].ServiceName, del[i].NodeName)
  BY RemoveAllSteps
<1> DEFINE Pre(i) == SubSeq(del, 1, i)
           Done(i) == \A k \in Item : Flat(G[i])[k] = IF k \in Names(Pre(i)) THEN NoAddr ELSE Flat(m)[k]
           S == {i \in 0..Len(del) : Done(i)}
<1>2. 0 \in S
  <2>1. Pre(0) = << >> /\ 0 \in 0..Len(del)
    BY PrefixEnds
  <2> QED
    BY <1>1, <2>1, FlatListEmpty
<1>3. ASSUME NEW i \in 1..Len(del), Done(i - 1) PROVE Done(i)
  <2> DEFINE e == del[i]
             k1 == <<e.ServiceName, e.NodeName>>
  <2>1. i - 1 \in 0..Len(del) /\ G[i - 1] \in Nested(NodeId)
    BY <1>1
  <2>2. Pre(i) = Append(Pre(i - 1), e) /\ Pre(i - 1) \in Seq(Entry(NodeId)) /\ e \in Entry(NodeId)
    BY PrefixOf
  <2> HIDE DEF Pre
  <2>3. Names(Pre(i)) = Names(Pre(i - 1)) \cup {k1}
    BY <2>2, NamesAppend
  <2>4. e.ServiceName \in Service /\ e.NodeName \in NodeId /\ k1 \in Item
    BY <2>2 DEF Item, Entry
  <2>5. Flat(G[i]) = [Flat(G[i - 1]) EXCEPT ![k1] = NoAddr]
    <3>1. G[i] = RemoveItem(G[i - 1], e.ServiceName, e.NodeName)
      BY <1>1
    <3>2. Flat(RemoveItem(G[i - 1], e.ServiceName, e.NodeName)) =
              [Flat(G[i - 1]) EXCEPT ![<<e.ServiceName, e.NodeName>>] = NoAddr]
      BY <2>1, <2>4, FlatRemove, Zenon
    <3> QED
      BY <3>1, <3>2
  <2>6. Flat(G[i - 1]) = [k \in Item |-> Flat(G[i - 1])[k]]
    BY FlatIsMap
  <2> HIDE DEF k1
  <2> QED
    BY <1>3, <2>3, <2>4, <2>5, <2>6
<1>4. Done(Len(del))
  <2>1. \A i \in 1..Len(del) : i - 1 \in S => i \in S
    <3> HIDE DEF Done
    <3> QED BY <1>3
  <2>2. \A i \in 0..Len(del) : i \in S
    <3>1. Len(del) \in Nat
      OBVIOUS
    <3> HIDE DEF S
    <3> QED BY <3>1, <1>2, <2>1, PrefixInduction
  <2> QED
    BY <2>2
<1>5. Pre(Len(del)) = del /\ RemoveAll(m, del) \in Nested(NodeId)
  BY <1>1, PrefixEnds
<1> QED
  BY <1>1, <1>4, <1>5

\* The additions of SyncFrom leave the last entry of each item in force.
LEMMA PutAllProperty ==
    ASSUME NEW m \in Nested(NodeId), NEW add \in Seq(Entry(NodeId))
    PROVE  /\ PutAll(m, add) \in Nested(NodeId)
           /\ \A k \in Item : Flat(PutAll(m, add))[k] =
                 IF FlatList(add)[k] # NoAddr THEN FlatList(add)[k] ELSE Flat(m)[k]
<1>1. PICK G \in [0..Len(add) -> Nested(NodeId)] :
          /\ G[0] = m /\ G[Len(add)] = PutAll(m, add)
          /\ \A i \in 1..Len(add) :
                G[i] = PutItem(G[i - 1], add[i].ServiceName, add[i].NodeName, add[i].Addr)
  BY PutAllSteps
<1> DEFINE Pre(i) == SubSeq(add, 1, i)
           Done(i) == \A k \in Item : Flat(G[i])[k] =
                         IF FlatList(Pre(i))[k] # NoAddr THEN FlatList(Pre(i))[k] ELSE Flat(m)[k]
           S == {i \in 0..Len(add) : Done(i)}
<1>2. 0 \in S
  <2>1. Pre(0) = << >> /\ 0 \in 0..Len(add)
    BY PrefixEnds
  <2> QED
    BY <1>1, <2>1, FlatListEmpty
<1>3. ASSUME NEW i \in 1..Len(add), Done(i - 1) PROVE Done(i)
  <2> DEFINE e == add[i]
             k1 == <<e.ServiceName, e.NodeName>>
  <2>1. i - 1 \in 0..Len(add) /\ G[i - 1] \in Nested(NodeId)
    BY <1>1
  <2>2. Pre(i) = Append(Pre(i - 1), e) /\ Pre(i - 1) \in Seq(Entry(NodeId)) /\ e \in Entry(NodeId)
    BY PrefixOf
  <2> HIDE DEF Pre
  <2>3. FlatList(Pre(i)) = [FlatList(Pre(i - 1)) EXCEPT ![k1] = e.Addr]
    BY <2>2, FlatListAppend
  <2>4. /\ e.ServiceName \in Service /\ e.NodeName \in NodeId /\ k1 \in Item
        /\ e.Addr \in Addr /\ e.Addr # NoAddr
    BY <2>2, StoreAssumption DEF Item, Entry
  <2>5. Flat(G[i]) = [Flat(G[i - 1]) EXCEPT ![k1] = e.Addr]
    <3>1. G[i] = PutItem(G[i - 1], e.ServiceName, e.NodeName, e.Addr)
      BY <1>1
    <3>2. Flat(PutItem(G[i - 1], e.ServiceName, e.NodeName, e.Addr)) =
              [Flat(G[i - 1]) EXCEPT ![<<e.ServiceName, e.NodeName>>] = e.Addr]
      <4> DEFINE t == e.ServiceName
                 x == e.NodeName
                 a == e.Addr
                 y == G[i - 1]
      <4>1. t \in Service /\ x \in NodeId /\ a \in Addr /\ y \in Nested(NodeId)
        BY <2>1, <2>4
      <4> HIDE DEF t, x, a, y
      <4>2. Flat(PutItem(y, t, x, a)) = [Flat(y) EXCEPT ![<<t, x>>] = a]
        BY <4>1, FlatPut
      <4> QED
        BY <4>2 DEF t, x, a, y
    <3> QED
      BY <3>1, <3>2
  <2>6. /\ Flat(G[i - 1]) = [k \in Item |-> Flat(G[i - 1])[k]]
        /\ FlatList(Pre(i - 1)) = [k \in Item |-> FlatList(Pre(i - 1))[k]]
    BY FlatIsMap, FlatListIsMap
  <2> HIDE DEF k1, e
  <2> QED
    BY <1>3, <2>3, <2>4, <2>5, <2>6
<1>4. Done(Len(add))
  <2>1. \A i \in 1..Len(add) : i - 1 \in S => i \in S
    <3> HIDE DEF Done
    <3> QED BY <1>3
  <2>2. \A i \in 0..Len(add) : i \in S
    <3>1. Len(add) \in Nat
      OBVIOUS
    <3> HIDE DEF S
    <3> QED BY <3>1, <1>2, <2>1, PrefixInduction
  <2> QED
    BY <2>2
<1>5. Pre(Len(add)) = add /\ PutAll(m, add) \in Nested(NodeId)
  BY <1>1, PrefixEnds
<1> QED
  BY <1>1, <1>4, <1>5

\* SyncFrom on the flat map: the additions decide, then the deletions.
LEMMA MergedProperty ==
    ASSUME NEW m \in Nested(NodeId), NEW add \in Seq(Entry(NodeId)), NEW del \in Seq(Entry(NodeId))
    PROVE  /\ Merged(m, add, del) \in Nested(NodeId)
           /\ Flat(Merged(m, add, del)) =
                 Registry!ApplyChanges(FlatChanges([Add |-> add, Del |-> del]), Flat(m))
<1> DEFINE r == RemoveAll(m, del)
           res == PutAll(r, add)
           ch == FlatChanges([Add |-> add, Del |-> del])
<1>1. Merged(m, add, del) = res
  BY DEF Merged, PutAll, RemoveAll
<1>2. r \in Nested(NodeId) /\ \A k \in Item : Flat(r)[k] = IF k \in Names(del) THEN NoAddr ELSE Flat(m)[k]
  BY RemoveAllProperty
<1> HIDE DEF r
<1>3. res \in Nested(NodeId) /\ \A k \in Item : Flat(res)[k] =
          IF FlatList(add)[k] # NoAddr THEN FlatList(add)[k] ELSE Flat(r)[k]
  BY <1>2, PutAllProperty
<1> HIDE DEF res
<1>4. ch.Add = FlatList(add) /\ ch.Del = Names(del)
  BY DEF FlatChanges, Names
<1> HIDE DEF ch
<1>5. Flat(res) = [k \in Item |-> Flat(res)[k]]
  BY FlatIsMap
<1>6. Flat(res) = Registry!ApplyChanges(ch, Flat(m))
  BY <1>2, <1>3, <1>4, <1>5 DEF Registry!ApplyChanges
<1> QED
  BY <1>1, <1>3, <1>6 DEF ch

\* j is the last of the mirrors order[1], ..., order[i] that holds item k.
LastHolder(from, order, k, i, j) ==
    /\ j \in 1..i /\ Flat(from[order[j]])[k] # NoAddr
    /\ \A l \in 1..i : Flat(from[order[l]])[k] # NoAddr => l <= j

\* buildMemData: the last mirror that holds an item decides, and the node's own
\* registrations where there is none.
Decided(v, from, cur, order, k, i) ==
    \/ (\A l \in 1..i : Flat(from[order[l]])[k] = NoAddr) /\ v = Flat(cur)[k]
    \/ \E j \in 1..i : LastHolder(from, order, k, i, j) /\ v = Flat(from[order[j]])[k]

LEMMA CopyAllProperty ==
    ASSUME NEW from, \A p \in DOMAIN from : from[p] \in Nested(NodeId),
           NEW cur \in Nested(NodeId), NEW order \in Seq(DOMAIN from)
    PROVE  /\ CopyAll(from, cur, order) \in Nested(NodeId)
           /\ \A k \in Item : Decided(Flat(CopyAll(from, cur, order))[k], from, cur, order, k, Len(order))
<1> DEFINE n == Len(order)
<1>1. PICK G \in [0..n -> Nested(NodeId)] :
          /\ G[0] = cur /\ G[n] = CopyAll(from, cur, order)
          /\ \A i \in 1..n : G[i] = CopyMap(from[order[i]], G[i - 1])
  BY CopyAllSteps
<1>2. n \in Nat /\ \A i \in 1..n : from[order[i]] \in Nested(NodeId)
  OBVIOUS
<1> HIDE DEF n
<1> DEFINE Done(i) == \A k \in Item : Decided(Flat(G[i])[k], from, cur, order, k, i)
           S == {i \in 0..n : Done(i)}
<1>3. 0 \in S
  BY <1>1, <1>2 DEF Decided
<1>4. ASSUME NEW i \in 1..n, Done(i - 1) PROVE Done(i)
  <2>1. i - 1 \in 0..n /\ i \in Nat /\ i - 1 \in Nat /\ i \in 1..i /\ 1..i = 1..(i - 1) \cup {i}
    BY <1>2
  <2> SUFFICES ASSUME NEW k \in Item
               PROVE  Decided(Flat(G[i])[k], from, cur, order, k, i)
    OBVIOUS
  <2> DEFINE v == Flat(from[order[i]])[k]
             H(l) == Flat(from[order[l]])[k]
  <2>2. Flat(G[i])[k] = IF v # NoAddr THEN v ELSE Flat(G[i - 1])[k]
    BY <1>1, <1>2, <2>1, FlatCopy
  <2>3. CASE v # NoAddr
    <3>1. LastHolder(from, order, k, i, i)
      BY <2>1, <2>3 DEF LastHolder
    <3> QED
      BY <2>1, <2>2, <2>3, <3>1 DEF Decided
  <2>4. CASE v = NoAddr
    <3>1. Flat(G[i])[k] = Flat(G[i - 1])[k]
      BY <2>2, <2>4
    <3>2. CASE (\A l \in 1..(i - 1) : H(l) = NoAddr) /\ Flat(G[i - 1])[k] = Flat(cur)[k]
      <4>1. \A l \in 1..i : H(l) = NoAddr
        BY <2>1, <2>4, <3>2
      <4> QED
        BY <3>1, <3>2, <4>1 DEF Decided
    <3>3. ASSUME NEW j \in 1..(i - 1), LastHolder(from, order, k, i - 1, j), Flat(G[i - 1])[k] = H(j)
          PROVE  Decided(Flat(G[i])[k], from, cur, order, k, i)
      <4>1. j \in 1..i
        BY <2>1
      <4>2. LastHolder(from, order, k, i, j)
        BY <2>1, <2>4, <3>3, <4>1 DEF LastHolder
      <4> QED
        BY <3>1, <3>3, <4>1, <4>2 DEF Decided
    <3> QED
      BY <1>4, <3>2, <3>3 DEF Decided
  <2> QED
    BY <2>3, <2>4
<1>5. Done(n)
  <2>1. \A i \in 1..n : i - 1 \in S => i \in S
    <3> HIDE DEF Done
    <3> QED BY <1>2, <1>4
  <2>2. \A i \in 0..n : i \in S
    <3> HIDE DEF S
    <3> QED BY <1>2, <1>3, <2>1, PrefixInduction
  <2> QED
    BY <1>2, <2>2
<1> QED
  BY <1>1, <1>2, <1>5 DEF n

\* The mirrors as the flat registry has them.
FlatFrom(from) == [p \in Source |-> IF p \in DOMAIN from THEN Flat(from[p]) ELSE Absent]

\* An order in which Go may range over the mirrors names each of them once.
LEMMA OrderProperty ==
    ASSUME NEW D, IsFiniteSet(D), NEW order \in SetToSeqs(D)
    PROVE  /\ order \in Seq(D) /\ Len(order) = Cardinality(D) /\ Cardinality(D) \in Nat
           /\ \A i, j \in 1..Len(order) : order[i] = order[j] => i = j
           /\ \A p \in D : \E i \in 1..Len(order) : order[i] = p
<1> DEFINE n == Cardinality(D)
<1>1. n \in Nat
  BY FS_CardinalityType
<1>2. order \in [1..n -> D] /\ \A i, j \in 1..n : order[i] = order[j] => i = j
  BY DEF SetToSeqs
<1>3. order \in Injection(1..n, D)
  BY <1>2 DEF Injection, IsInjective
<1>4. Cardinality(1..n) = n
  BY <1>1, FS_Interval
<1>5. order \in Surjection(1..n, D)
  BY <1>3, <1>4, FS_Injection
<1>6. \A p \in D : \E i \in 1..n : order[i] = p
  BY <1>5 DEF Surjection
<1>7. order \in Seq(D) /\ Len(order) = n
  BY <1>1, <1>2
<1> QED
  BY <1>1, <1>2, <1>6, <1>7

\* The registry counts the way the store does.
LEMMA SameCardinality ==
    ASSUME NEW S
    PROVE  Registry!Cardinality(S) = Cardinality(S)
BY DEF Cardinality, Registry!Cardinality

LEMMA BuiltFrom ==
    ASSUME NEW from, \A p \in DOMAIN from : from[p] \in Nested(NodeId),
           DOMAIN from \subseteq Source, IsFiniteSet(DOMAIN from),
           NEW cur \in Nested(NodeId), NEW order \in SetToSeqs(DOMAIN from)
    PROVE  /\ CopyAll(from, cur, order) \in Nested(NodeId)
           /\ Registry!IsBuiltFrom(Flat(CopyAll(from, cur, order)), Flat(cur), FlatFrom(from))
<1> DEFINE D == DOMAIN from
           n == Len(order)
           m == Flat(CopyAll(from, cur, order))
           Sources == {p \in DOMAIN FlatFrom(from) : FlatFrom(from)[p] # Absent}
           at == [p \in D |-> CHOOSE i \in 1..n : order[i] = p]
<1>1. /\ order \in Seq(D) /\ n = Cardinality(D) /\ n \in Nat
      /\ \A i, j \in 1..n : order[i] = order[j] => i = j
      /\ \A p \in D : \E i \in 1..n : order[i] = p
  BY OrderProperty
<1>2. CopyAll(from, cur, order) \in Nested(NodeId) /\ \A k \in Item : Decided(m[k], from, cur, order, k, n)
  BY <1>1, CopyAllProperty
<1>3. \A p \in D : Flat(from[p]) # Absent
  BY FlatType, AbsentAssumption DEF FlatMap, Item
<1>4. Sources = D /\ \A p \in D : FlatFrom(from)[p] = Flat(from[p])
  BY <1>3 DEF FlatFrom
<1>5. \A p \in D : at[p] \in 1..n /\ order[at[p]] = p
  BY <1>1
<1>6. \A i \in 1..n : order[i] \in D /\ at[order[i]] = i
  BY <1>1, <1>5
<1>7. at \in Registry!Injection(D, 1..n)
  BY <1>5 DEF Registry!Injection, Registry!IsInjective
<1> HIDE DEF m, n, at, D
<1>8. ASSUME NEW k \in Item
      PROVE  LET Holders == {p \in Sources : FlatFrom(from)[p][k] # NoAddr}
             IN  IF Holders = {} THEN m[k] = Flat(cur)[k]
                 ELSE \E p \in Holders : /\ m[k] = FlatFrom(from)[p][k]
                                         /\ \A q \in Holders : at[q] <= at[p]
  <2> DEFINE Holders == {p \in D : Flat(from[p])[k] # NoAddr}
  <2>1. Holders = {p \in Sources : FlatFrom(from)[p][k] # NoAddr}
    BY <1>4
  <2>2. CASE (\A l \in 1..n : Flat(from[order[l]])[k] = NoAddr) /\ m[k] = Flat(cur)[k]
    <3>1. Holders = {}
      BY <1>5, <2>2
    <3> QED
      BY <2>1, <2>2, <3>1
  <2>3. ASSUME NEW j \in 1..n, LastHolder(from, order, k, n, j), m[k] = Flat(from[order[j]])[k]
        PROVE  /\ order[j] \in Holders /\ m[k] = FlatFrom(from)[order[j]][k]
               /\ \A q \in Holders : at[q] <= at[order[j]]
    BY <1>4, <1>5, <1>6, <2>3 DEF LastHolder
  <2> QED
    BY <1>2, <2>1, <2>2, <2>3 DEF Decided
<1>9. at \in Registry!Injection(Sources, 1..Registry!Cardinality(Sources))
  <2> HIDE DEF Sources
  <2> QED BY <1>1, <1>4, <1>7, SameCardinality
<1>10. Registry!IsBuiltFrom(m, Flat(cur), FlatFrom(from))
  <2> SUFFICES \E order2 \in Registry!Injection(Sources, 1..Registry!Cardinality(Sources)) :
                  \A k \in Item :
                     LET Holders == {p \in Sources : FlatFrom(from)[p][k] # NoAddr}
                     IN  IF Holders = {} THEN m[k] = Flat(cur)[k]
                         ELSE \E p \in Holders : /\ m[k] = FlatFrom(from)[p][k]
                                                 /\ \A q \in Holders : order2[q] <= order2[p]
    BY DEF Registry!IsBuiltFrom
  <2> WITNESS at \in Registry!Injection(Sources, 1..Registry!Cardinality(Sources))
  <2> QED
    BY <1>8
<1> QED
  BY <1>2, <1>10 DEF m

-----------------------------------------------------------------------------
(***************************************************************************)
(* The inductive invariant                                                 *)
(***************************************************************************)

\* dataFrom is a finite map: it starts empty and grows by one entry at a time.
\* Go ranges over all of it, each mirror once.
IndInv == TypeOK /\ PendingDisjoint /\ IsFiniteSet(DOMAIN dataFrom)

ListOf == Seq(Entry(NodeId))

LEMMA UpTo ==
    ASSUME NEW S, NEW n \in Nat, NEW list
    PROVE  list \in SeqUpTo(S, n) <=> list \in Seq(S) /\ Len(list) <= n
<1>1. ASSUME list \in SeqUpTo(S, n) PROVE list \in Seq(S) /\ Len(list) <= n
  <2>1. PICK i \in 0..n : list \in [1..i -> S]
    BY <1>1 DEF SeqUpTo
  <2>2. list \in Seq(S) /\ Len(list) = i
    BY <2>1
  <2> QED
    BY <2>2
<1>2. ASSUME list \in Seq(S), Len(list) <= n PROVE list \in SeqUpTo(S, n)
  <2>1. Len(list) \in 0..n /\ list \in [1..Len(list) -> S]
    BY <1>2
  <2> QED
    BY <2>1 DEF SeqUpTo
<1> QED
  BY <1>1, <1>2

Pending == [Add : ListOf, Del : ListOf]

\* The lists of a watcher, without the bound and with it.
LEMMA PendingType ==
    ASSUME NEW ch
    PROVE  LET list == SeqUpTo(Entry(NodeId), MaxPending)
           IN  ch \in [Add : list, Del : list] <=>
                  ch \in Pending /\ Len(ch.Add) <= MaxPending /\ Len(ch.Del) <= MaxPending
<1>1. \A l : l \in SeqUpTo(Entry(NodeId), MaxPending) <=>
             l \in ListOf /\ Len(l) <= MaxPending
  BY StoreAssumption, UpTo DEF ListOf
<1> QED
  BY <1>1 DEF Pending

\* No item is on both lists.
Apart(ch) == Names(ch.Add) \cap Names(ch.Del) = {}

\* The lists of the watchers.
WatchersOK(to) ==
    /\ DOMAIN to \subseteq Watcher
    /\ \A w \in DOMAIN to : /\ to[w] \in Pending /\ Apart(to[w])
                            /\ Len(to[w].Add) <= MaxPending /\ Len(to[w].Del) <= MaxPending

\* The mirrors of the peers.
MirrorsOK(from) ==
    /\ DOMAIN from \subseteq Source /\ IsFiniteSet(DOMAIN from)
    /\ \A p \in DOMAIN from : from[p] \in Nested(NodeId)

LEMMA ApartItems ==
    ASSUME NEW ch
    PROVE  Apart(ch) <=> \A i \in DOMAIN ch.Add, j \in DOMAIN ch.Del :
                            \/ ch.Add[i].ServiceName # ch.Del[j].ServiceName
                            \/ ch.Add[i].NodeName # ch.Del[j].NodeName
<1> DEFINE A(i) == <<ch.Add[i].ServiceName, ch.Add[i].NodeName>>
           B(j) == <<ch.Del[j].ServiceName, ch.Del[j].NodeName>>
<1>1. Apart(ch) <=> \A i \in DOMAIN ch.Add, j \in DOMAIN ch.Del : A(i) # B(j)
  BY Zenon DEF Apart, Names
<1>2. \A i, j : A(i) = B(j) <=> /\ ch.Add[i].ServiceName = ch.Del[j].ServiceName
                               /\ ch.Add[i].NodeName = ch.Del[j].NodeName
  OBVIOUS
<1> HIDE DEF A, B
<1> QED
  BY <1>1, <1>2

\* The invariant by parts, in a state and in the next one.
LEMMA Parts ==
    /\ IndInv <=> /\ services \in Nested(NodeId) /\ currentServices \in Nested(NodeId)
                  /\ MirrorsOK(dataFrom) /\ WatchersOK(dataTo)
    /\ IndInv' <=> /\ services' \in Nested(NodeId) /\ currentServices' \in Nested(NodeId)
                   /\ MirrorsOK(dataFrom') /\ WatchersOK(dataTo')
<1>1. /\ PendingDisjoint <=> \A w \in DOMAIN dataTo : Apart(dataTo[w])
      /\ PendingDisjoint' <=> \A w \in DOMAIN dataTo' : Apart(dataTo'[w])
  BY ApartItems DEF PendingDisjoint
<1> QED
  BY <1>1, PendingType DEF IndInv, TypeOK, MirrorsOK, WatchersOK

LEMMA MirroredData == Nested(Mirrored) \subseteq Nested(NodeId)
<1> SUFFICES ASSUME NEW m \in Nested(Mirrored) PROVE m \in Nested(NodeId)
  OBVIOUS
<1>1. \A x : x \in Inner(Mirrored) => x \in Inner(NodeId)
  BY InnerType, StoreAssumption
<1>2. m \in [DOMAIN m -> Inner(Mirrored)] /\ DOMAIN m \subseteq Service
  BY NestedType
<1>3. m \in [DOMAIN m -> Inner(NodeId)]
  BY <1>1, <1>2
<1> QED
  BY <1>2, <1>3, NestedType

LEMMA MirroredLists == SeqUpTo(Entry(Mirrored), MaxSync) \subseteq ListOf
<1> SUFFICES ASSUME NEW l \in SeqUpTo(Entry(Mirrored), MaxSync) PROVE l \in ListOf
  OBVIOUS
<1>1. l \in Seq(Entry(Mirrored))
  BY StoreAssumption, UpTo
<1>2. Entry(Mirrored) \subseteq Entry(NodeId)
  BY StoreAssumption DEF Entry
<1>3. Len(l) \in Nat /\ l \in [1..Len(l) -> Entry(Mirrored)]
  BY <1>1
<1>4. l \in [1..Len(l) -> Entry(NodeId)]
  BY <1>2, <1>3
<1> QED
  BY <1>3, <1>4 DEF ListOf

\* What a registration does to the lists of a watcher.
LEMMA PublishPending ==
    ASSUME NEW ch \in Pending, Len(ch.Add) < MaxPending, Len(ch.Del) <= MaxPending, Apart(ch),
           NEW s \in Service, NEW n \in NodeId, NEW a \in Addr
    PROVE  LET e == [ServiceName |-> s, NodeName |-> n, Addr |-> a]
               new == [Add |-> Append(ch.Add, e), Del |-> RebuildServiceItemList(ch.Del, s, n)]
           IN  /\ new \in Pending /\ Len(new.Add) <= MaxPending /\ Len(new.Del) <= MaxPending
               /\ Apart(new)
               /\ FlatChanges(new) = Registry!PendPublish(FlatChanges(ch), <<s, n>>, a)
<1> DEFINE e == [ServiceName |-> s, NodeName |-> n, Addr |-> a]
           add == Append(ch.Add, e)
           del == RebuildServiceItemList(ch.Del, s, n)
           new == [Add |-> add, Del |-> del]
           k == <<s, n>>
<1>1. ch.Add \in ListOf /\ ch.Del \in ListOf /\ e \in Entry(NodeId) /\ MaxPending \in Nat
  BY StoreAssumption DEF Pending, Entry
<1>2. /\ e.ServiceName = s /\ e.NodeName = n /\ e.Addr = a
      /\ add \in ListOf /\ Len(add) <= MaxPending
  BY <1>1 DEF ListOf
<1>3. FlatList(add) = [FlatList(ch.Add) EXCEPT ![k] = a] /\ Names(add) = Names(ch.Add) \cup {k}
  BY <1>1, <1>2, FlatListAppend, NamesAppend DEF ListOf
<1>4. /\ del \in ListOf /\ Len(del) <= Len(ch.Del) /\ Names(del) = Names(ch.Del) \ {k}
  BY <1>1, RebuildProperty DEF ListOf
<1>5. Len(del) <= MaxPending
  BY <1>1, <1>4 DEF ListOf
<1> HIDE DEF add, del
<1>6. new \in Pending /\ new.Add = add /\ new.Del = del
  BY <1>2, <1>4 DEF Pending
<1>7. Apart(new)
  BY <1>3, <1>4, <1>6 DEF Apart
<1>8. FlatChanges(new) = [Add |-> FlatList(add), Del |-> Names(del)]
  BY <1>6 DEF FlatChanges, Names
<1>9. FlatChanges(ch).Add = FlatList(ch.Add) /\ FlatChanges(ch).Del = Names(ch.Del)
  BY DEF FlatChanges, Names
<1>10. FlatChanges(new) = Registry!PendPublish(FlatChanges(ch), k, a)
  BY <1>3, <1>4, <1>8, <1>9 DEF Registry!PendPublish, Registry!SetItem
<1> QED
  BY <1>2, <1>5, <1>6, <1>7, <1>10 DEF add, del

\* What a removal does to them.
LEMMA DeletePending ==
    ASSUME NEW ch \in Pending, Len(ch.Add) <= MaxPending, Len(ch.Del) < MaxPending, Apart(ch),
           NEW s \in Service, NEW n \in NodeId, NEW a \in Addr
    PROVE  LET e == [ServiceName |-> s, NodeName |-> n, Addr |-> a]
               new == [Add |-> RebuildServiceItemList(ch.Add, s, n), Del |-> Append(ch.Del, e)]
           IN  /\ new \in Pending /\ Len(new.Add) <= MaxPending /\ Len(new.Del) <= MaxPending
               /\ Apart(new)
               /\ FlatChanges(new) = Registry!PendDelete(FlatChanges(ch), <<s, n>>)
<1> DEFINE e == [ServiceName |-> s, NodeName |-> n, Addr |-> a]
           add == RebuildServiceItemList(ch.Add, s, n)
           del == Append(ch.Del, e)
           new == [Add |-> add, Del |-> del]
           k == <<s, n>>
<1>1. ch.Add \in ListOf /\ ch.Del \in ListOf /\ e \in Entry(NodeId) /\ MaxPending \in Nat
  BY StoreAssumption DEF Pending, Entry
<1>2. /\ e.ServiceName = s /\ e.NodeName = n
      /\ del \in ListOf /\ Len(del) <= MaxPending
  BY <1>1 DEF ListOf
<1>3. Names(del) = Names(ch.Del) \cup {k}
  BY <1>1, <1>2, NamesAppend DEF ListOf
<1>4. /\ add \in ListOf /\ Len(add) <= Len(ch.Add) /\ Names(add) = Names(ch.Add) \ {k}
      /\ FlatList(add) = [FlatList(ch.Add) EXCEPT ![k] = NoAddr]
  BY <1>1, RebuildProperty DEF ListOf
<1>5. Len(add) <= MaxPending
  BY <1>1, <1>4 DEF ListOf
<1> HIDE DEF add, del
<1>6. new \in Pending /\ new.Add = add /\ new.Del = del
  BY <1>2, <1>4 DEF Pending
<1>7. Apart(new)
  BY <1>3, <1>4, <1>6 DEF Apart
<1>8. FlatChanges(new) = [Add |-> FlatList(add), Del |-> Names(del)]
  BY <1>6 DEF FlatChanges, Names
<1>9. FlatChanges(ch).Add = FlatList(ch.Add) /\ FlatChanges(ch).Del = Names(ch.Del)
  BY DEF FlatChanges, Names
<1>10. FlatChanges(new) = Registry!PendDelete(FlatChanges(ch), k)
  BY <1>3, <1>4, <1>8, <1>9 DEF Registry!PendDelete, Registry!DropItem
<1> QED
  BY <1>2, <1>5, <1>6, <1>7, <1>10 DEF add, del

-----------------------------------------------------------------------------
(***************************************************************************)
(* The operations, one by one: each keeps the invariant and is the         *)
(* operation of the flat registry.                                         *)
(***************************************************************************)

\* What is pending, and what the last operation exchanged, in the registry.
FlatTo(to) == [w \in Watcher |-> IF w \in DOMAIN to THEN FlatChanges(to[w]) ELSE Absent]

FlatOut(o) ==
    IF o = Absent THEN Absent
    ELSE IF "full" \in DOMAIN o THEN [full |-> Flat(o.full)]
    ELSE [changes |-> FlatChanges(o.changes)]

LEMMA FlatOutOf ==
    /\ FlatOut(Absent) = Absent
    /\ \A d \in Nested(NodeId) : FlatOut([full |-> d]) = [full |-> Flat(d)]
    /\ \A ch \in Pending : FlatOut([changes |-> ch]) = [changes |-> FlatChanges(ch)]
<1>1. \A d \in Nested(NodeId) : [full |-> d] # Absent
  BY AbsentAssumption
<1>2. \A ch \in Pending : [changes |-> ch] # Absent
  BY AbsentAssumption DEF Pending, ListOf
<1>3. \A x : "full" \in DOMAIN [full |-> x] /\ "full" \notin DOMAIN [changes |-> x]
  OBVIOUS
<1>4. \A x : [full |-> x].full = x /\ [changes |-> x].changes = x
  OBVIOUS
<1> QED
  BY <1>1, <1>2, <1>3, <1>4 DEF FlatOut

LEMMA FlatChangesType ==
    ASSUME NEW ch \in Pending
    PROVE  FlatChanges(ch) \in Registry!Changes /\ FlatChanges(ch) # Absent
<1>1. ch.Add \in ListOf /\ ch.Del \in ListOf
  BY DEF Pending
<1>2. FlatList(ch.Add) \in FlatMap /\ Names(ch.Del) \subseteq Item
  BY <1>1, FlatListType, NamesType DEF ListOf
<1>3. FlatChanges(ch) = [Add |-> FlatList(ch.Add), Del |-> Names(ch.Del)]
  BY DEF FlatChanges, Names
<1>4. FlatChanges(ch) \in [Add : FlatMap, Del : SUBSET Item]
  BY <1>2, <1>3
<1> QED
  BY <1>4, AbsentAssumption
     DEF Registry!Changes, Registry!Services, Registry!AddrOrNone, FlatMap, Item

LEMMA PublishStep ==
    ASSUME IndInv, NEW s \in Service, NEW n \in NodeId, NEW a \in Addr, PublishService(s, n, a)
    PROVE  IndInv' /\ Registry!PublishService(<<s, n>>, a)
<1> DEFINE e == [ServiceName |-> s, NodeName |-> n, Addr |-> a]
           New(ch) == [Add |-> Append(ch.Add, e), Del |-> RebuildServiceItemList(ch.Del, s, n)]
           k == <<s, n>>
<1>1. /\ \A w \in DOMAIN dataTo : Len(dataTo[w].Add) < MaxPending
      /\ services' = PutItem(services, s, n, a)
      /\ currentServices' = PutItem(currentServices, s, n, a)
      /\ dataTo' = [w \in DOMAIN dataTo |-> New(dataTo[w])]
      /\ dataFrom' = dataFrom /\ out' = Absent
  BY DEF PublishService
<1>2. /\ services \in Nested(NodeId) /\ currentServices \in Nested(NodeId)
      /\ MirrorsOK(dataFrom) /\ WatchersOK(dataTo)
  BY Parts
<1>3. ASSUME NEW w \in DOMAIN dataTo
      PROVE  /\ dataTo[w] \in Pending
             /\ New(dataTo[w]) \in Pending /\ Apart(New(dataTo[w]))
             /\ Len(New(dataTo[w]).Add) <= MaxPending /\ Len(New(dataTo[w]).Del) <= MaxPending
             /\ FlatChanges(New(dataTo[w])) = Registry!PendPublish(FlatChanges(dataTo[w]), k, a)
  BY <1>1, <1>2, PublishPending DEF WatchersOK
<1> HIDE DEF New
<1>4. DOMAIN dataTo' = DOMAIN dataTo /\ \A w \in DOMAIN dataTo : dataTo'[w] = New(dataTo[w])
  BY <1>1
<1>5. WatchersOK(dataTo')
  BY <1>2, <1>3, <1>4 DEF WatchersOK
<1>6. services' \in Nested(NodeId) /\ currentServices' \in Nested(NodeId)
  BY <1>1, <1>2, PutItemType
<1>7. IndInv'
  BY <1>1, <1>2, <1>5, <1>6, Parts
<1>8. /\ Flat(services') = [Flat(services) EXCEPT ![k] = a]
      /\ Flat(currentServices') = [Flat(currentServices) EXCEPT ![k] = a]
  BY <1>1, <1>2, FlatPut
<1>9. FlatTo(dataTo') = [w \in Watcher |-> IF FlatTo(dataTo)[w] = Absent THEN Absent
                                           ELSE Registry!PendPublish(FlatTo(dataTo)[w], k, a)]
  BY <1>3, <1>4, FlatChangesType DEF FlatTo
<1>10. FlatFrom(dataFrom') = FlatFrom(dataFrom) /\ FlatOut(out') = Absent
  BY <1>1, FlatOutOf
<1>11. Registry!PublishService(k, a)
  BY <1>8, <1>9, <1>10
     DEF Registry!PublishService, Registry!SetItem, Registry!PendAll, FlatTo, FlatFrom, FlatOut
<1> QED
  BY <1>7, <1>11

LEMMA DeleteStep ==
    ASSUME IndInv, NEW s \in Service, NEW n \in NodeId, NEW a \in Addr, DeleteService(s, n, a)
    PROVE  IndInv' /\ Registry!DeleteService(<<s, n>>)
<1> DEFINE e == [ServiceName |-> s, NodeName |-> n, Addr |-> a]
           New(ch) == [Add |-> RebuildServiceItemList(ch.Add, s, n), Del |-> Append(ch.Del, e)]
           k == <<s, n>>
<1>1. /\ \A w \in DOMAIN dataTo : Len(dataTo[w].Del) < MaxPending
      /\ services' = RemoveItem(services, s, n)
      /\ currentServices' = RemoveItem(currentServices, s, n)
      /\ dataTo' = [w \in DOMAIN dataTo |-> New(dataTo[w])]
      /\ dataFrom' = dataFrom /\ out' = Absent
  BY DEF DeleteService
<1>2. /\ services \in Nested(NodeId) /\ currentServices \in Nested(NodeId)
      /\ MirrorsOK(dataFrom) /\ WatchersOK(dataTo)
  BY Parts
<1>3. ASSUME NEW w \in DOMAIN dataTo
      PROVE  /\ dataTo[w] \in Pending
             /\ New(dataTo[w]) \in Pending /\ Apart(New(dataTo[w]))
             /\ Len(New(dataTo[w]).Add) <= MaxPending /\ Len(New(dataTo[w]).Del) <= MaxPending
             /\ FlatChanges(New(dataTo[w])) = Registry!PendDelete(FlatChanges(dataTo[w]), k)
  BY <1>1, <1>2, DeletePending DEF WatchersOK
<1> HIDE DEF New
<1>4. DOMAIN dataTo' = DOMAIN dataTo /\ \A w \in DOMAIN dataTo : dataTo'[w] = New(dataTo[w])
  BY <1>1
<1>5. WatchersOK(dataTo')
  BY <1>2, <1>3, <1>4 DEF WatchersOK
<1>6. services' \in Nested(NodeId) /\ currentServices' \in Nested(NodeId)
  BY <1>1, <1>2, RemoveItemType
<1>7. IndInv'
  BY <1>1, <1>2, <1>5, <1>6, Parts
<1>8. /\ Flat(services') = [Flat(services) EXCEPT ![k] = NoAddr]
      /\ Flat(currentServices') = [Flat(currentServices) EXCEPT ![k] = NoAddr]
  BY <1>1, <1>2, FlatRemove
<1>9. FlatTo(dataTo') = [w \in Watcher |-> IF FlatTo(dataTo)[w] = Absent THEN Absent
                                           ELSE Registry!PendDelete(FlatTo(dataTo)[w], k)]
  BY <1>3, <1>4, FlatChangesType DEF FlatTo
<1>10. FlatFrom(dataFrom') = FlatFrom(dataFrom) /\ FlatOut(out') = Absent
  BY <1>1, FlatOutOf
<1>11. Registry!DeleteService(k)
  BY <1>8, <1>9, <1>10
     DEF Registry!DeleteService, Registry!DropItem, Registry!PendAll, FlatTo, FlatFrom, FlatOut
<1> QED
  BY <1>7, <1>11

\* buildMemData after a change of one mirror.
LEMMA MirrorStep ==
    ASSUME IndInv, NEW p \in Source, NEW data, MirrorsOK(dataFrom'), BuildMemData(dataFrom'),
           UNCHANGED <<currentServices, dataTo>>,
           FlatFrom(dataFrom') = [FlatFrom(dataFrom) EXCEPT ![p] = data]
    PROVE  IndInv' /\ Registry!Mirror(p, data)
<1>1. /\ services \in Nested(NodeId) /\ currentServices \in Nested(NodeId)
      /\ MirrorsOK(dataFrom) /\ WatchersOK(dataTo)
  BY Parts
<1>2. PICK order \in SetToSeqs(DOMAIN dataFrom') :
          services' = CopyAll(dataFrom', currentServices, order)
  BY DEF BuildMemData, CopyAll
<1>3. /\ services' \in Nested(NodeId)
      /\ Registry!IsBuiltFrom(Flat(services'), Flat(currentServices), FlatFrom(dataFrom'))
  BY <1>1, <1>2, BuiltFrom DEF MirrorsOK
<1>4. IndInv'
  BY <1>1, <1>3, Parts
<1>5. Flat(services') \in Registry!Services
  BY <1>3, FlatType DEF FlatMap, Registry!Services, Registry!AddrOrNone
<1>6. FlatTo(dataTo') = FlatTo(dataTo) /\ Flat(currentServices') = Flat(currentServices)
  OBVIOUS
<1>7. Registry!Mirror(p, data)
  BY <1>3, <1>5, <1>6 DEF Registry!Mirror, FlatTo, FlatFrom
<1> QED
  BY <1>4, <1>7

\* A mirror is put in place.
LEMMA WithMirror ==
    ASSUME NEW from, MirrorsOK(from), NEW p \in Source, NEW data \in Nested(NodeId)
    PROVE  /\ MirrorsOK(With(from, p, data))
           /\ FlatFrom(With(from, p, data)) = [FlatFrom(from) EXCEPT ![p] = Flat(data)]
<1> DEFINE new == With(from, p, data)
<1>1. /\ DOMAIN new = DOMAIN from \cup {p} /\ new[p] = data
      /\ \A q \in DOMAIN from : q # p => new[q] = from[q]
  BY DEF With
<1>2. IsFiniteSet(DOMAIN new)
  BY <1>1, FS_AddElement DEF MirrorsOK
<1> HIDE DEF new
<1>3. MirrorsOK(new)
  BY <1>1, <1>2 DEF MirrorsOK
<1>4. FlatFrom(new) = [FlatFrom(from) EXCEPT ![p] = Flat(data)]
  BY <1>1 DEF FlatFrom
<1> QED
  BY <1>3, <1>4 DEF new

LEMMA WithoutMirror ==
    ASSUME NEW from, MirrorsOK(from), NEW p \in Source
    PROVE  /\ MirrorsOK(Without(from, p))
           /\ FlatFrom(Without(from, p)) = [FlatFrom(from) EXCEPT ![p] = Absent]
<1> DEFINE new == Without(from, p)
<1>1. DOMAIN new = DOMAIN from \ {p} /\ \A q \in DOMAIN new : new[q] = from[q]
  BY DEF Without
<1>2. IsFiniteSet(DOMAIN new)
  BY <1>1, FS_RemoveElement DEF MirrorsOK
<1> HIDE DEF new
<1>3. MirrorsOK(new)
  BY <1>1, <1>2 DEF MirrorsOK
<1>4. FlatFrom(new) = [FlatFrom(from) EXCEPT ![p] = Absent]
  BY <1>1 DEF FlatFrom
<1> QED
  BY <1>3, <1>4 DEF new

LEMMA FullFromStep ==
    ASSUME IndInv, NEW p \in Source, NEW data \in Nested(NodeId), FullFrom(p, data)
    PROVE  IndInv' /\ Registry!FullFrom(p)
<1>1. /\ dataFrom' = With(dataFrom, p, data) /\ BuildMemData(dataFrom')
      /\ out' = [full |-> data] /\ UNCHANGED <<currentServices, dataTo>>
  BY DEF FullFrom
<1>2. MirrorsOK(dataFrom') /\ FlatFrom(dataFrom') = [FlatFrom(dataFrom) EXCEPT ![p] = Flat(data)]
  BY <1>1, Parts, WithMirror
<1>3. IndInv' /\ Registry!Mirror(p, Flat(data))
  BY <1>1, <1>2, MirrorStep
<1>4. FlatOut(out') = [full |-> Flat(data)] /\ Flat(data) \in Registry!Services
  BY <1>1, FlatOutOf, FlatType DEF FlatMap, Registry!Services, Registry!AddrOrNone
<1> QED
  BY <1>3, <1>4 DEF Registry!FullFrom, FlatOut

\* The flat registry has nothing to do.
LEMMA NothingStep ==
    ASSUME UNCHANGED <<services, currentServices, dataFrom, dataTo>>, out' = Absent
    PROVE  Registry!Nothing
<1>1. FlatOut(out') = Absent
  BY FlatOutOf
<1>2. /\ Flat(services') = Flat(services) /\ Flat(currentServices') = Flat(currentServices)
      /\ FlatFrom(dataFrom') = FlatFrom(dataFrom) /\ FlatTo(dataTo') = FlatTo(dataTo)
  OBVIOUS
<1> QED
  BY <1>1, <1>2 DEF Registry!Nothing, Registry!storeVars, FlatOut, FlatFrom, FlatTo

LEMMA SyncFromStep ==
    ASSUME IndInv, NEW p \in Source, NEW add \in ListOf, NEW del \in ListOf, SyncFrom(p, add, del)
    PROVE  IndInv' /\ (Registry!SyncFrom(p) \/ Registry!Nothing)
<1> DEFINE ch == [Add |-> add, Del |-> del]
<1> PICK data : data = Merged(dataFrom[p], add, del)
  OBVIOUS
<1>0. MirrorsOK(dataFrom)
  BY Parts
<1>1. CASE p \in DOMAIN dataFrom
  <2>1. /\ dataFrom' = With(dataFrom, p, data) /\ BuildMemData(dataFrom')
        /\ out' = [changes |-> ch] /\ UNCHANGED <<currentServices, dataTo>>
    BY <1>1 DEF SyncFrom
  <2>2. dataFrom[p] \in Nested(NodeId) /\ FlatFrom(dataFrom)[p] = Flat(dataFrom[p])
    BY <1>0, <1>1 DEF MirrorsOK, FlatFrom
  <2>3. data \in Nested(NodeId) /\ Flat(data) = Registry!ApplyChanges(FlatChanges(ch), Flat(dataFrom[p]))
    BY <2>2, MergedProperty DEF ListOf
  <2>4. ch \in Pending
    BY DEF Pending
  <2> HIDE DEF ch
  <2>5. MirrorsOK(dataFrom') /\ FlatFrom(dataFrom') = [FlatFrom(dataFrom) EXCEPT ![p] = Flat(data)]
    BY <1>0, <2>1, <2>3, WithMirror
  <2>6. IndInv' /\ Registry!Mirror(p, Flat(data))
    BY <2>1, <2>5, MirrorStep
  <2>7. FlatChanges(ch) \in Registry!Changes /\ FlatOut(out') = [changes |-> FlatChanges(ch)]
    BY <2>1, <2>4, FlatChangesType, FlatOutOf
  <2>8. FlatFrom(dataFrom)[p] # Absent
    BY <2>2, FlatType, AbsentAssumption DEF FlatMap, Item
  <2>9. Flat(data) = Registry!ApplyChanges(FlatChanges(ch), FlatFrom(dataFrom)[p])
    BY <2>2, <2>3
  <2>10. Registry!SyncFrom(p)
    BY <2>6, <2>7, <2>8, <2>9 DEF Registry!SyncFrom, Registry!Mirror, FlatOut, FlatFrom
  <2> QED
    BY <2>6, <2>10
<1>2. CASE p \notin DOMAIN dataFrom
  <2>1. UNCHANGED <<services, currentServices, dataFrom, dataTo>> /\ out' = Absent
    BY <1>2 DEF SyncFrom
  <2> QED
    BY <2>1, Parts, NothingStep
<1> QED
  BY <1>1, <1>2

LEMMA AbandonStep ==
    ASSUME IndInv, NEW p \in Source, Abandon(p)
    PROVE  IndInv' /\ (Registry!Abandon(p) \/ Registry!Nothing)
<1>0. MirrorsOK(dataFrom)
  BY Parts
<1>1. CASE p \in DOMAIN dataFrom
  <2>1. /\ dataFrom' = Without(dataFrom, p) /\ BuildMemData(dataFrom')
        /\ out' = Absent /\ UNCHANGED <<currentServices, dataTo>>
    BY <1>1 DEF Abandon
  <2>2. dataFrom[p] \in Nested(NodeId) /\ FlatFrom(dataFrom)[p] = Flat(dataFrom[p])
    BY <1>0, <1>1 DEF MirrorsOK, FlatFrom
  <2>3. MirrorsOK(dataFrom') /\ FlatFrom(dataFrom') = [FlatFrom(dataFrom) EXCEPT ![p] = Absent]
    BY <1>0, <2>1, WithoutMirror
  <2>4. IndInv' /\ Registry!Mirror(p, Absent)
    BY <2>1, <2>3, MirrorStep
  <2>5. FlatFrom(dataFrom)[p] # Absent /\ FlatOut(out') = Absent
    BY <2>1, <2>2, FlatType, FlatOutOf, AbsentAssumption DEF FlatMap, Item
  <2>6. Registry!Abandon(p)
    BY <2>4, <2>5 DEF Registry!Abandon, FlatOut, FlatFrom
  <2> QED
    BY <2>4, <2>6
<1>2. CASE p \notin DOMAIN dataFrom
  <2>1. UNCHANGED <<services, currentServices, dataFrom, dataTo>> /\ out' = Absent
    BY <1>2 DEF Abandon
  <2> QED
    BY <2>1, Parts, NothingStep
<1> QED
  BY <1>1, <1>2

NoPending == [Add |-> << >>, Del |-> << >>]

LEMMA NoPendingProperty ==
    /\ NoPending \in Pending /\ Apart(NoPending)
    /\ Len(NoPending.Add) <= MaxPending /\ Len(NoPending.Del) <= MaxPending
    /\ FlatChanges(NoPending) = Registry!NoChanges
<1>1. << >> \in ListOf /\ Len(<< >>) <= MaxPending /\ Names(<< >>) = {}
  BY StoreAssumption DEF ListOf, Names
<1>2. FlatList(<< >>) = [k \in Item |-> NoAddr]
  <2>1. \A k \in Item : FlatList(<< >>)[k] = NoAddr
    BY FlatListEmpty
  <2>2. FlatList(<< >>) = [k \in Item |-> FlatList(<< >>)[k]]
    BY FlatListIsMap
  <2> QED
    BY <2>1, <2>2
<1>3. NoPending.Add = << >> /\ NoPending.Del = << >>
  BY DEF NoPending
<1>4. FlatChanges(NoPending) = [Add |-> FlatList(<< >>), Del |-> Names(<< >>)]
  BY <1>3 DEF FlatChanges, Names
<1>5. FlatChanges(NoPending) = Registry!NoChanges
  BY <1>1, <1>2, <1>4 DEF Registry!NoChanges, Registry!NoServices
<1>6. NoPending \in Pending
  BY <1>1 DEF Pending, NoPending
<1> QED
  BY <1>1, <1>3, <1>5, <1>6 DEF Apart

\* A watch is put in place, empty.
LEMMA WithWatch ==
    ASSUME NEW to, WatchersOK(to), NEW w \in Watcher
    PROVE  /\ WatchersOK(With(to, w, NoPending))
           /\ FlatTo(With(to, w, NoPending)) = [FlatTo(to) EXCEPT ![w] = Registry!NoChanges]
<1> DEFINE new == With(to, w, NoPending)
<1>1. /\ DOMAIN new = DOMAIN to \cup {w} /\ new[w] = NoPending
      /\ \A v \in DOMAIN to : v # w => new[v] = to[v]
  BY DEF With
<1> HIDE DEF new
<1>2. WatchersOK(new)
  BY <1>1, NoPendingProperty DEF WatchersOK
<1>3. FlatTo(new) = [FlatTo(to) EXCEPT ![w] = Registry!NoChanges]
  BY <1>1, NoPendingProperty DEF FlatTo
<1> QED
  BY <1>2, <1>3 DEF new

LEMMA FlatToAt ==
    ASSUME NEW to, WatchersOK(to), NEW w \in Watcher
    PROVE  FlatTo(to)[w] = Absent <=> w \notin DOMAIN to
BY FlatChangesType DEF FlatTo, WatchersOK

LEMMA FetchFullStep ==
    ASSUME IndInv, NEW w \in Watcher, FetchFullAndWatch(w)
    PROVE  IndInv' /\ Registry!FetchFullAndWatch(w)
<1>1. /\ dataTo' = IF w \in DOMAIN dataTo THEN dataTo ELSE With(dataTo, w, NoPending)
      /\ out' = [full |-> currentServices]
      /\ UNCHANGED <<services, currentServices, dataFrom>>
  BY DEF FetchFullAndWatch, NoPending
<1>2. /\ services \in Nested(NodeId) /\ currentServices \in Nested(NodeId)
      /\ MirrorsOK(dataFrom) /\ WatchersOK(dataTo)
  BY Parts
<1>3. FlatTo(dataTo)[w] = Absent <=> w \notin DOMAIN dataTo
  BY <1>2, FlatToAt
<1>4. /\ WatchersOK(dataTo')
      /\ FlatTo(dataTo') = [FlatTo(dataTo) EXCEPT ![w] = IF @ = Absent THEN Registry!NoChanges ELSE @]
  <2>1. CASE w \in DOMAIN dataTo
    <3>1. FlatTo(dataTo) = [FlatTo(dataTo) EXCEPT ![w] = FlatTo(dataTo)[w]]
      BY DEF FlatTo
    <3> QED
      BY <1>1, <1>2, <1>3, <2>1, <3>1
  <2>2. CASE w \notin DOMAIN dataTo
    BY <1>1, <1>2, <1>3, <2>2, WithWatch
  <2> QED
    BY <2>1, <2>2
<1>5. IndInv'
  BY <1>1, <1>2, <1>4, Parts
<1>6. FlatOut(out') = [full |-> Flat(currentServices)]
  BY <1>1, <1>2, FlatOutOf
<1>7. /\ Flat(services') = Flat(services) /\ Flat(currentServices') = Flat(currentServices)
      /\ FlatFrom(dataFrom') = FlatFrom(dataFrom)
  BY <1>1
<1>8. Registry!FetchFullAndWatch(w)
  BY <1>4, <1>6, <1>7 DEF Registry!FetchFullAndWatch, FlatOut, FlatTo, FlatFrom
<1> QED
  BY <1>5, <1>8

LEMMA FetchChangesStep ==
    ASSUME IndInv, NEW w \in Watcher, FetchChangesForPeerNodeRequest(w)
    PROVE  IndInv' /\ (Registry!FetchChangesForPeerNodeRequest(w) \/ Registry!Nothing)
<1>1. /\ services \in Nested(NodeId) /\ currentServices \in Nested(NodeId)
      /\ MirrorsOK(dataFrom) /\ WatchersOK(dataTo)
  BY Parts
<1>2. CASE w \in DOMAIN dataTo
  <2>1. /\ out' = [changes |-> dataTo[w]] /\ dataTo' = With(dataTo, w, NoPending)
        /\ UNCHANGED <<services, currentServices, dataFrom>>
    BY <1>2 DEF FetchChangesForPeerNodeRequest, NoPending
  <2>2. dataTo[w] \in Pending /\ FlatTo(dataTo)[w] = FlatChanges(dataTo[w]) /\ FlatTo(dataTo)[w] # Absent
    BY <1>1, <1>2, FlatToAt DEF FlatTo, WatchersOK
  <2>3. WatchersOK(dataTo') /\ FlatTo(dataTo') = [FlatTo(dataTo) EXCEPT ![w] = Registry!NoChanges]
    BY <1>1, <2>1, WithWatch
  <2>4. IndInv'
    BY <1>1, <2>1, <2>3, Parts
  <2>5. FlatOut(out') = [changes |-> FlatTo(dataTo)[w]]
    BY <2>1, <2>2, FlatOutOf
  <2>6. /\ Flat(services') = Flat(services) /\ Flat(currentServices') = Flat(currentServices)
        /\ FlatFrom(dataFrom') = FlatFrom(dataFrom)
    BY <2>1
  <2>7. Registry!FetchChangesForPeerNodeRequest(w)
    BY <2>2, <2>3, <2>5, <2>6
       DEF Registry!FetchChangesForPeerNodeRequest, FlatOut, FlatTo, FlatFrom
  <2> QED
    BY <2>4, <2>7
<1>3. CASE w \notin DOMAIN dataTo
  <2>1. UNCHANGED <<services, currentServices, dataFrom, dataTo>> /\ out' = Absent
    BY <1>3 DEF FetchChangesForPeerNodeRequest
  <2> QED
    BY <2>1, Parts, NothingStep
<1> QED
  BY <1>2, <1>3

LEMMA UnwatchStep ==
    ASSUME IndInv, NEW w \in Watcher, Unwatch(w)
    PROVE  IndInv' /\ Registry!Unwatch(w)
<1>1. /\ dataTo' = Without(dataTo, w) /\ out' = Absent
      /\ UNCHANGED <<services, currentServices, dataFrom>>
  BY DEF Unwatch
<1>2. /\ services \in Nested(NodeId) /\ currentServices \in Nested(NodeId)
      /\ MirrorsOK(dataFrom) /\ WatchersOK(dataTo)
  BY Parts
<1>3. DOMAIN dataTo' = DOMAIN dataTo \ {w} /\ \A v \in DOMAIN dataTo' : dataTo'[v] = dataTo[v]
  BY <1>1 DEF Without
<1>4. WatchersOK(dataTo')
  BY <1>2, <1>3 DEF WatchersOK
<1>5. FlatTo(dataTo') = [FlatTo(dataTo) EXCEPT ![w] = Absent]
  BY <1>3 DEF FlatTo
<1>6. IndInv'
  BY <1>1, <1>2, <1>4, Parts
<1>7. /\ Flat(services') = Flat(services) /\ Flat(currentServices') = Flat(currentServices)
      /\ FlatFrom(dataFrom') = FlatFrom(dataFrom) /\ FlatOut(out') = Absent
  BY <1>1, FlatOutOf
<1>8. Registry!Unwatch(w)
  BY <1>5, <1>7 DEF Registry!Unwatch, FlatOut, FlatTo, FlatFrom
<1> QED
  BY <1>6, <1>8

-----------------------------------------------------------------------------
(***************************************************************************)
(* The theorems                                                            *)
(***************************************************************************)
LEMMA EmptyMapProperty ==
    EmptyMap \in Nested(NodeId) /\ DOMAIN EmptyMap = {} /\ Flat(EmptyMap) = Registry!NoServices
<1>1. DOMAIN EmptyMap = {} /\ EmptyMap \in [{} -> Inner(NodeId)]
  BY DEF EmptyMap
<1>2. EmptyMap \in Nested(NodeId)
  BY <1>1, NestedType
<1> QED
  BY <1>1, <1>2 DEF Flat, Registry!NoServices

LEMMA InitStep ==
    ASSUME Init
    PROVE  IndInv /\ Registry!Init
<1>1. /\ services = EmptyMap /\ currentServices = EmptyMap
      /\ dataFrom = EmptyMap /\ dataTo = EmptyMap /\ out = Absent
  BY DEF Init
<1>2. IndInv
  BY <1>1, EmptyMapProperty, FS_EmptySet, Parts DEF MirrorsOK, WatchersOK
<1>3. /\ FlatFrom(dataFrom) = [p \in Source |-> Absent]
      /\ FlatTo(dataTo) = [w \in Watcher |-> Absent] /\ FlatOut(out) = Absent
  BY <1>1, EmptyMapProperty, FlatOutOf DEF FlatFrom, FlatTo
<1>4. Flat(services) = Registry!NoServices /\ Flat(currentServices) = Registry!NoServices
  BY <1>1, EmptyMapProperty
<1> QED
  BY <1>2, <1>3, <1>4 DEF Registry!Init, FlatFrom, FlatTo, FlatOut

\* One step per operation: what it is in the registry.
LEMMA NextStep ==
    ASSUME IndInv, Next
    PROVE  IndInv' /\ Registry!Next
<1>1. ASSUME NEW s \in Service, NEW n \in NodeId, NEW a \in Addr, PublishService(s, n, a)
      PROVE  IndInv' /\ Registry!Next
  <2>1. IndInv' /\ Registry!PublishService(<<s, n>>, a) /\ <<s, n>> \in Item
    BY <1>1, PublishStep DEF Item
  <2> QED
    BY <2>1 DEF Registry!Next
<1>2. ASSUME NEW s \in Service, NEW n \in NodeId, NEW a \in Addr, DeleteService(s, n, a)
      PROVE  IndInv' /\ Registry!Next
  <2>1. IndInv' /\ Registry!DeleteService(<<s, n>>) /\ <<s, n>> \in Item
    BY <1>2, DeleteStep DEF Item
  <2> QED
    BY <2>1 DEF Registry!Next
<1>3. ASSUME NEW p \in Source, NEW data \in Nested(Mirrored), FullFrom(p, data)
      PROVE  IndInv' /\ Registry!Next
  <2>1. IndInv' /\ Registry!FullFrom(p)
    BY <1>3, FullFromStep, MirroredData
  <2> QED
    BY <2>1 DEF Registry!Next
<1>4. ASSUME NEW p \in Source, NEW add \in SeqUpTo(Entry(Mirrored), MaxSync),
             NEW del \in SeqUpTo(Entry(Mirrored), MaxSync), SyncFrom(p, add, del)
      PROVE  IndInv' /\ Registry!Next
  <2>1. IndInv' /\ (Registry!SyncFrom(p) \/ Registry!Nothing)
    BY <1>4, SyncFromStep, MirroredLists
  <2> QED
    BY <2>1 DEF Registry!Next
<1>5. ASSUME NEW p \in Source, Abandon(p) PROVE IndInv' /\ Registry!Next
  <2>1. IndInv' /\ (Registry!Abandon(p) \/ Registry!Nothing)
    BY <1>5, AbandonStep
  <2> QED
    BY <2>1 DEF Registry!Next
<1>6. ASSUME NEW w \in Watcher, FetchFullAndWatch(w) PROVE IndInv' /\ Registry!Next
  <2>1. IndInv' /\ Registry!FetchFullAndWatch(w)
    BY <1>6, FetchFullStep
  <2> QED
    BY <2>1 DEF Registry!Next
<1>7. ASSUME NEW w \in Watcher, FetchChangesForPeerNodeRequest(w) PROVE IndInv' /\ Registry!Next
  <2>1. IndInv' /\ (Registry!FetchChangesForPeerNodeRequest(w) \/ Registry!Nothing)
    BY <1>7, FetchChangesStep
  <2> QED
    BY <2>1 DEF Registry!Next
<1>8. ASSUME NEW w \in Watcher, Unwatch(w) PROVE IndInv' /\ Registry!Next
  <2>1. IndInv' /\ Registry!Unwatch(w)
    BY <1>8, UnwatchStep
  <2> QED
    BY <2>1 DEF Registry!Next
<1> QED
  BY <1>1, <1>2, <1>3, <1>4, <1>5, <1>6, <1>7, <1>8 DEF Next

LEMMA StutterStep ==
    ASSUME IndInv, UNCHANGED vars
    PROVE  IndInv' /\ UNCHANGED Registry!vars
<1>1. UNCHANGED <<services, currentServices, dataFrom, dataTo, out>>
  BY DEF vars
<1>2. IndInv'
  BY <1>1, Parts
<1>3. UNCHANGED Registry!vars
  BY <1>1 DEF Registry!vars
<1> QED
  BY <1>2, <1>3

LEMMA Invariance == Spec => []IndInv
<1>1. Init => IndInv
  BY InitStep
<1>2. IndInv /\ [Next]_vars => IndInv'
  BY NextStep, StutterStep
<1> QED
  BY <1>1, <1>2, PTL DEF Spec

\* The nested maps keep their form: an inner map goes with its last entry, in
\* DeleteService, in SyncFrom and in what buildMemData puts together, so no query
\* lists a service that no node offers; and the pending lists keep their bound.
THEOREM Typing == Spec => []TypeOK
<1>1. IndInv => TypeOK
  BY DEF IndInv
<1> QED
  BY <1>1, Invariance, PTL

\* PublishService and DeleteService never leave an item on both lists of a
\* watcher, so the order in which a peer applies the lists (deletions first)
\* does not undo a registration.
THEOREM PendingApart == Spec => []PendingDisjoint
<1>1. IndInv => PendingDisjoint
  BY DEF IndInv
<1> QED
  BY <1>1, Invariance, PTL

\* The store that storage.mem.go implements with maps of maps and lists is the
\* flat registry that the model of the replication is built on, operation by
\* operation, in whatever order Go ranges over the mirrors.
THEOREM Refinement == Spec => ImplementsRegistry
<1>1. Init => Registry!Init
  BY InitStep
<1>2. IndInv /\ [Next]_vars => [Registry!Next]_(Registry!vars)
  BY NextStep, StutterStep
<1> QED
  BY <1>1, <1>2, Invariance, PTL DEF Spec, ImplementsRegistry, Registry!Spec

=============================================================================
