------------------------ MODULE BatchCommandsProofs ------------------------
(***************************************************************************)
(* Proofs about BatchCommands, for batches of any size, cut into chunks of *)
(* any size and grouped in any way: the chunks of a plan hold every item   *)
(* once, the receipt of an item is its own and is proof, no item is left   *)
(* without one, and a batch returns with its writes on record.             *)
(***************************************************************************)
EXTENDS BatchCommands, FiniteSetTheorems, SequenceTheorems, TLAPS

----------------------------------------------------------------------------
(* Plans.                                                                  *)

\* A chunk: some items, each once.
IsChunk(s) ==
    /\ s \in Seq(Items)
    /\ s # << >>
    /\ \A j, k \in DOMAIN s : s[j] = s[k] => j = k

\* A sequence of chunks that holds each of some items once, and no other.
Cuts(plan, items) ==
    /\ plan \in Seq(Seq(Items))
    /\ \A k \in DOMAIN plan : IsChunk(plan[k])
    /\ \A j, k \in DOMAIN plan : j # k => Members(plan[j]) \cap Members(plan[k]) = {}
    /\ \A i : i \in items <=> \E k \in DOMAIN plan : i \in Members(plan[k])

\* The quotient that counts the chunks of a slice.
LEMMA ChunkCount ==
    ASSUME NEW n \in Nat, NEW c \in Nat \ {0}
    PROVE  /\ (n + c - 1) \div c \in Nat
           /\ n <= ((n + c - 1) \div c) * c
           /\ \A k \in 1 .. (n + c - 1) \div c : (k - 1) * c < n
  <1> DEFINE q == (n + c - 1) \div c
  <1>1. q \in Int /\ q * c <= n + c - 1 /\ n + c - 1 < q * c + c
    OBVIOUS
  <1>2. q \in Nat
    <2>1. CASE q < 0
      <3>1. q + 1 <= 0
        BY <1>1, <2>1
      <3>2. (q + 1) * c <= 0
        BY <1>1, <3>1
      <3> QED BY <1>1, <3>2
    <2> QED BY <1>1, <2>1
  <1>3. ASSUME NEW k \in 1 .. q PROVE (k - 1) * c < n
    <2>1. k <= q /\ k \in Int
      BY <1>2
    <2>2. (k - 1) * c <= (q - 1) * c
      BY <1>1, <2>1
    <2>3. (q - 1) * c = q * c - c
      BY <1>1
    <2> QED BY <1>1, <2>1, <2>2, <2>3
  <1> HIDE DEF q
  <1> QED BY <1>1, <1>2, <1>3 DEF q

\* slice::chunks keeps every element of the slice, once.
LEMMA ChunksCut ==
    ASSUME NEW s \in Seq(Items), \A j, k \in DOMAIN s : s[j] = s[k] => j = k
    PROVE  Cuts(Chunks(s), Members(s))
  <1> DEFINE n == Len(s)
             c == ChunkSize
             q == (n + c - 1) \div c
             first(k) == (k - 1) * c + 1
             last(k) == IF k * c < n THEN k * c ELSE n
  <1>0. n \in Nat /\ c \in Nat \ {0} /\ DOMAIN s = 1 .. n /\ s \in [1 .. n -> Items]
    BY BatchAssumption
  <1>1. /\ q \in Nat /\ n <= q * c
        /\ \A k \in 1 .. q : (k - 1) * c < n
    BY <1>0, ChunkCount
  <1>2. /\ Chunks(s) = [k \in 1 .. q |-> SubSeq(s, first(k), last(k))]
        /\ DOMAIN Chunks(s) = 1 .. q
    BY DEF Chunks
  <1>3. ASSUME NEW k \in 1 .. q
        PROVE  /\ first(k) \in 1 .. n /\ last(k) \in first(k) .. n
               /\ last(k) <= k * c
               /\ last(k) < n => last(k) = k * c
    <2>1. (k - 1) * c \in Nat /\ k * c = (k - 1) * c + c
      BY <1>0, <1>1
    <2>2. (k - 1) * c < n
      BY <1>1
    <2> QED BY <1>0, <2>1, <2>2
  <1> HIDE DEF n, c, q, first, last
  <1>4. ASSUME NEW k \in 1 .. q
        PROVE  /\ Chunks(s)[k] \in Seq(Items)
               /\ Len(Chunks(s)[k]) = last(k) - first(k) + 1
               /\ DOMAIN Chunks(s)[k] = 1 .. last(k) - first(k) + 1
               /\ \A m \in 1 .. last(k) - first(k) + 1 : Chunks(s)[k][m] = s[first(k) + m - 1]
    <2>1. Chunks(s)[k] = SubSeq(s, first(k), last(k))
      BY <1>2
    <2>2. first(k) \in 1 .. n /\ last(k) \in first(k) .. n
      BY <1>3
    <2>3. /\ SubSeq(s, first(k), last(k)) \in Seq(Items)
          /\ Len(SubSeq(s, first(k), last(k))) = last(k) - first(k) + 1
          /\ \A m \in 1 .. last(k) - first(k) + 1 :
               SubSeq(s, first(k), last(k))[m] = s[first(k) + m - 1]
      <3>1. first(k) \in 1 .. Len(s) + 1 /\ last(k) \in first(k) - 1 .. Len(s)
        BY <1>0, <2>2 DEF n
      <3>2. last(k) \in Int /\ first(k) \in Int /\ first(k) <= last(k)
        BY <1>0, <2>2
      <3> QED BY <1>0, <3>1, <3>2, SubSeqProperties
    <2> QED BY <2>1, <2>3
  <1>5. ASSUME NEW k \in 1 .. q
        PROVE  Members(Chunks(s)[k]) = {s[p] : p \in first(k) .. last(k)}
    <2>0. first(k) \in Int /\ last(k) \in Int
      BY <1>0, <1>3
    <2>1. ASSUME NEW m \in 1 .. last(k) - first(k) + 1
          PROVE  first(k) + m - 1 \in first(k) .. last(k)
      BY <2>0
    <2>2. ASSUME NEW p \in first(k) .. last(k)
          PROVE  /\ p - first(k) + 1 \in 1 .. last(k) - first(k) + 1
                 /\ first(k) + (p - first(k) + 1) - 1 = p
      BY <2>0
    <2>3. Members(Chunks(s)[k]) = {s[first(k) + m - 1] : m \in 1 .. last(k) - first(k) + 1}
      BY <1>4 DEF Members
    <2> QED BY <2>1, <2>2, <2>3
  <1>6. ASSUME NEW k \in 1 .. q PROVE IsChunk(Chunks(s)[k])
    <2>0. first(k) \in 1 .. n /\ last(k) \in first(k) .. n /\ n \in Nat
      BY <1>0, <1>3
    <2>1. Chunks(s)[k] # << >>
      BY <1>4, <2>0
    <2>2. ASSUME NEW l \in DOMAIN Chunks(s)[k], NEW m \in DOMAIN Chunks(s)[k],
                 Chunks(s)[k][l] = Chunks(s)[k][m]
          PROVE  l = m
      <3>1. l \in 1 .. last(k) - first(k) + 1 /\ m \in 1 .. last(k) - first(k) + 1
        BY <1>4
      <3>2. s[first(k) + l - 1] = s[first(k) + m - 1]
        BY <1>4, <2>2, <3>1
      <3>3. first(k) + l - 1 \in 1 .. n /\ first(k) + m - 1 \in 1 .. n
        BY <2>0, <3>1
      <3>4. first(k) + l - 1 = first(k) + m - 1
        BY <1>0, <3>2, <3>3
      <3> QED BY <2>0, <3>1, <3>4
    <2> QED BY <1>4, <2>1, <2>2 DEF IsChunk
  <1>7. ASSUME NEW j \in 1 .. q, NEW k \in 1 .. q, j < k
        PROVE  Members(Chunks(s)[j]) \cap Members(Chunks(s)[k]) = {}
    <2>1. last(j) < first(k)
      <3>1. j * c <= (k - 1) * c
        BY <1>0, <1>1, <1>7
      <3>2. j * c \in Nat /\ (k - 1) * c \in Nat
        BY <1>0, <1>1
      <3>3. last(j) <= j * c /\ last(j) \in Int
        BY <1>0, <1>3
      <3> QED BY <3>1, <3>2, <3>3 DEF first
    <2>2. ASSUME NEW p \in first(j) .. last(j), NEW r \in first(k) .. last(k)
          PROVE  s[p] # s[r]
      <3>1. p \in 1 .. n /\ r \in 1 .. n /\ p # r
        BY <1>0, <1>3, <2>1
      <3> QED BY <1>0, <3>1
    <2>3. /\ Members(Chunks(s)[j]) = {s[p] : p \in first(j) .. last(j)}
          /\ Members(Chunks(s)[k]) = {s[p] : p \in first(k) .. last(k)}
      BY <1>5
    <2> QED BY <2>2, <2>3
  <1>8. ASSUME NEW p \in 1 .. n PROVE \E k \in 1 .. q : p \in first(k) .. last(k)
    <2> DEFINE k == (p + c - 1) \div c
    <2>1. /\ k \in Nat /\ p <= k * c
          /\ \A m \in 1 .. k : (m - 1) * c < p
      BY <1>0, ChunkCount
    <2>2. k # 0
      BY <1>0, <2>1
    <2>3. k <= q
      <3>1. CASE q < k
        <4>1. (k - 1) * c < p
          BY <2>1, <2>2
        <4>2. q * c <= (k - 1) * c
          BY <1>0, <1>1, <2>1, <3>1
        <4>3. q * c \in Nat /\ (k - 1) * c \in Int
          BY <1>0, <1>1, <2>1
        <4> QED BY <1>0, <1>1, <4>1, <4>2, <4>3
      <3> QED BY <1>1, <2>1, <3>1
    <2> HIDE DEF k
    <2>4. k \in 1 .. q
      BY <1>1, <2>1, <2>2, <2>3
    <2>5. (k - 1) * c < p /\ (k - 1) * c \in Int /\ k * c \in Int
      BY <1>0, <2>1, <2>4
    <2>6. first(k) <= p /\ p <= last(k)
      BY <1>0, <2>1, <2>5 DEF first, last
    <2>7. first(k) \in Int /\ last(k) \in Int
      BY <1>0, <1>3, <2>4
    <2> QED BY <2>4, <2>6, <2>7
  <1>9. ASSUME NEW i
        PROVE  i \in Members(s) <=> \E k \in DOMAIN Chunks(s) : i \in Members(Chunks(s)[k])
    <2>1. ASSUME i \in Members(s)
          PROVE  \E k \in DOMAIN Chunks(s) : i \in Members(Chunks(s)[k])
      <3>1. PICK p \in 1 .. n : i = s[p]
        BY <1>0, <2>1 DEF Members
      <3>2. PICK k \in 1 .. q : p \in first(k) .. last(k)
        BY <1>8
      <3> QED BY <1>2, <1>5, <3>1, <3>2
    <2>2. ASSUME NEW k \in DOMAIN Chunks(s), i \in Members(Chunks(s)[k])
          PROVE  i \in Members(s)
      <3>1. PICK p \in first(k) .. last(k) : i = s[p]
        BY <1>2, <1>5, <2>2
      <3>2. p \in 1 .. n
        BY <1>0, <1>2, <1>3, <3>1
      <3> QED BY <1>0, <3>1, <3>2 DEF Members
    <2> QED BY <2>1, <2>2
  <1>10. Chunks(s) \in Seq(Seq(Items))
    BY <1>1, <1>2, <1>4
  <1>11. ASSUME NEW j \in DOMAIN Chunks(s), NEW k \in DOMAIN Chunks(s), j # k
         PROVE  Members(Chunks(s)[j]) \cap Members(Chunks(s)[k]) = {}
    <2>1. j \in 1 .. q /\ k \in 1 .. q /\ (j < k \/ k < j)
      BY <1>1, <1>2, <1>11
    <2> QED BY <1>7, <2>1
  <1> QED BY <1>2, <1>6, <1>9, <1>10, <1>11 DEF Cuts

\* A group in the order of the batch holds every item of the group, once.
LEMMA InOrderHoldsAll ==
    ASSUME NEW g, g \subseteq Items
    PROVE  /\ InOrder(g) \in Seq(Items)
           /\ \A j, k \in DOMAIN InOrder(g) : InOrder(g)[j] = InOrder(g)[k] => j = k
           /\ Members(InOrder(g)) = g
  <1> DEFINE upTo(i) == {j \in g : j <= i}
             n == Cardinality(g)
             rank == [i \in g |-> Cardinality(upTo(i))]
  <1>1. IsFiniteSet(g) /\ n \in Nat /\ g \subseteq Int
    <2>1. IsFiniteSet(1 .. N)
      BY BatchAssumption, FS_Interval
    <2>2. g \in SUBSET (1 .. N) /\ g \subseteq Int
      BY BatchAssumption DEF Items
    <2>3. IsFiniteSet(g)
      BY <2>1, <2>2, FS_Subset
    <2> QED BY <2>2, <2>3, FS_CardinalityType
  <1>2. ASSUME NEW i \in g
        PROVE  IsFiniteSet(upTo(i)) /\ rank[i] \in 1 .. n
    <2>1. IsFiniteSet(upTo(i)) /\ Cardinality(upTo(i)) <= n
      BY <1>1, FS_Subset
    <2>2. Cardinality(upTo(i)) \in Nat
      BY <2>1, FS_CardinalityType
    <2>3. i \in upTo(i)
      BY <1>1
    <2>4. Cardinality(upTo(i)) # 0
      BY <2>1, <2>3, FS_EmptySet
    <2> QED BY <1>1, <2>1, <2>2, <2>4
  <1>3. ASSUME NEW i \in g, NEW j \in g, i < j
        PROVE  rank[i] # rank[j]
    <2>0. i \in Int /\ j \in Int /\ \A m \in g : m \in Int
      BY <1>1
    <2>1. upTo(i) \in SUBSET upTo(j) /\ j \in upTo(j) /\ j \notin upTo(i)
      <3>1. \A m \in g : m <= i => m <= j
        BY <1>3, <2>0
      <3>2. j <= j /\ ~(j <= i)
        BY <1>3, <2>0
      <3> QED BY <3>1, <3>2
    <2>2. Cardinality(upTo(j)) # Cardinality(upTo(i))
      <3>1. IsFiniteSet(upTo(j))
        BY <1>2
      <3> HIDE DEF upTo
      <3> QED BY <2>1, <3>1, FS_Subset
    <2> QED BY <2>2
  <1>4. ASSUME NEW i \in g, NEW j \in g, rank[i] = rank[j]
        PROVE  i = j
    <2>1. i < j \/ j < i \/ i = j
      BY <1>1
    <2> QED BY <1>3, <1>4, <2>1
  <1> HIDE DEF rank
  <1>5. rank \in Injection(g, 1 .. n)
    <2>1. rank \in [g -> 1 .. n]
      BY <1>2 DEF rank
    <2> QED BY <1>4, <2>1 DEF Injection, IsInjective
  <1>6. rank \in Surjection(g, 1 .. n)
    <2>1. IsFiniteSet(1 .. n) /\ Cardinality(1 .. n) = n
      <3>1. /\ IsFiniteSet(1 .. n)
            /\ Cardinality(1 .. n) = IF 1 > n THEN 0 ELSE n - 1 + 1
        BY <1>1, FS_Interval
      <3> QED BY <1>1, <3>1
    <2> QED BY <1>5, <2>1, FS_Injection
  <1>7. ASSUME NEW k \in 1 .. n PROVE \E i \in g : rank[i] = k
    BY <1>6 DEF Surjection
  <1>8. /\ DOMAIN InOrder(g) = 1 .. n
        /\ \A k \in 1 .. n : InOrder(g)[k] = CHOOSE i \in g : rank[i] = k
    BY DEF InOrder, rank
  <1>9. ASSUME NEW k \in 1 .. n
        PROVE  InOrder(g)[k] \in g /\ rank[InOrder(g)[k]] = k
    BY <1>7, <1>8
  <1>10. InOrder(g) \in Seq(Items)
    <2>1. InOrder(g) = [k \in 1 .. n |-> InOrder(g)[k]]
      BY <1>8 DEF InOrder
    <2>2. \A k \in 1 .. n : InOrder(g)[k] \in Items
      BY <1>9
    <2> QED BY <1>1, <2>1, <2>2
  <1>11. \A j, k \in DOMAIN InOrder(g) : InOrder(g)[j] = InOrder(g)[k] => j = k
    BY <1>8, <1>9
  <1>12. Members(InOrder(g)) = g
    <2>1. ASSUME NEW i \in g PROVE i \in Members(InOrder(g))
      <3>1. rank[i] \in 1 .. n
        BY <1>2 DEF rank
      <3>2. InOrder(g)[rank[i]] = i
        BY <1>4, <1>9, <3>1
      <3> QED BY <1>8, <3>1, <3>2 DEF Members
    <2>2. Members(InOrder(g)) \subseteq g
      BY <1>8, <1>9 DEF Members
    <2> QED BY <2>1, <2>2
  <1> QED BY <1>10, <1>11, <1>12

\* Two plans for different items make a plan for both.
LEMMA CutsConcat ==
    ASSUME NEW p, NEW q, NEW S, NEW T, Cuts(p, S), Cuts(q, T), S \cap T = {}
    PROVE  Cuts(p \o q, S \cup T)
  <1> DEFINE r == p \o q
  <1>0. p \in Seq(Seq(Items)) /\ q \in Seq(Seq(Items)) /\ Len(p) \in Nat /\ Len(q) \in Nat
        /\ DOMAIN p = 1 .. Len(p) /\ DOMAIN q = 1 .. Len(q)
    BY DEF Cuts
  <1>1. /\ r \in Seq(Seq(Items)) /\ DOMAIN r = 1 .. Len(p) + Len(q)
        /\ \A k \in 1 .. Len(p) : r[k] = p[k]
        /\ \A k \in Len(p) + 1 .. Len(p) + Len(q) : r[k] = q[k - Len(p)]
    BY <1>0
  <1> HIDE DEF r
  <1>2. ASSUME NEW k \in DOMAIN r
        PROVE  \/ k \in DOMAIN p /\ r[k] = p[k]
               \/ k \notin DOMAIN p /\ k - Len(p) \in DOMAIN q /\ r[k] = q[k - Len(p)]
    <2>1. k \in 1 .. Len(p) + Len(q)
      BY <1>1
    <2>2. CASE k <= Len(p)
      BY <1>0, <1>1, <2>1, <2>2
    <2>3. CASE k > Len(p)
      <3>1. k \in Len(p) + 1 .. Len(p) + Len(q) /\ k - Len(p) \in 1 .. Len(q) /\ k \notin 1 .. Len(p)
        BY <1>0, <2>1, <2>3
      <3> QED BY <1>0, <1>1, <3>1
    <2> QED BY <1>0, <2>1, <2>2, <2>3
  <1>3. ASSUME NEW k \in DOMAIN q
        PROVE  k + Len(p) \in DOMAIN r /\ r[k + Len(p)] = q[k]
    <2>1. /\ k + Len(p) \in 1 .. Len(p) + Len(q)
          /\ k + Len(p) \in Len(p) + 1 .. Len(p) + Len(q)
          /\ (k + Len(p)) - Len(p) = k
      BY <1>0
    <2> QED BY <1>1, <2>1
  <1>4. ASSUME NEW k \in DOMAIN p
        PROVE  k \in DOMAIN r /\ r[k] = p[k] /\ Members(p[k]) \subseteq S
    BY <1>0, <1>1 DEF Cuts
  <1>5. \A k \in DOMAIN q : Members(q[k]) \subseteq T
    BY DEF Cuts
  <1>6. \A k \in DOMAIN r : IsChunk(r[k])
    BY <1>2 DEF Cuts
  <1>7. ASSUME NEW j \in DOMAIN r, NEW k \in DOMAIN r, j # k
        PROVE  Members(r[j]) \cap Members(r[k]) = {}
    <2>1. CASE j \in DOMAIN p /\ k \in DOMAIN p
      BY <1>4, <1>7, <2>1 DEF Cuts
    <2>2. CASE j \in DOMAIN p /\ k \notin DOMAIN p
      BY <1>2, <1>4, <1>5, <2>2
    <2>3. CASE j \notin DOMAIN p /\ k \in DOMAIN p
      BY <1>2, <1>4, <1>5, <2>3
    <2>4. CASE j \notin DOMAIN p /\ k \notin DOMAIN p
      <3>1. j - Len(p) \in DOMAIN q /\ k - Len(p) \in DOMAIN q /\ j - Len(p) # k - Len(p)
        BY <1>0, <1>1, <1>2, <1>7, <2>4
      <3>2. r[j] = q[j - Len(p)] /\ r[k] = q[k - Len(p)]
        BY <1>2, <2>4
      <3> QED BY <3>1, <3>2 DEF Cuts
    <2> QED BY <2>1, <2>2, <2>3, <2>4
  <1>8. ASSUME NEW i
        PROVE  i \in S \cup T <=> \E k \in DOMAIN r : i \in Members(r[k])
    <2>1. ASSUME i \in S PROVE \E k \in DOMAIN r : i \in Members(r[k])
      BY <1>4, <2>1 DEF Cuts
    <2>2. ASSUME i \in T PROVE \E k \in DOMAIN r : i \in Members(r[k])
      BY <1>3, <2>2 DEF Cuts
    <2>3. ASSUME NEW k \in DOMAIN r, i \in Members(r[k]) PROVE i \in S \cup T
      BY <1>2, <1>4, <1>5, <2>3
    <2> QED BY <2>1, <2>2, <2>3
  <1> QED BY <1>1, <1>6, <1>7, <1>8 DEF Cuts, r

\* Whatever the venue, the transport and the operation, the chunks of a batch
\* hold each of its items once.
THEOREM PlanCuts == Cuts(Plan, Items)
  <1>0. N \in Nat /\ N > 1 /\ ById \subseteq Items /\ Instrument \in [Items -> {1, 2}]
    BY BatchAssumption
  <1>1. /\ All \in Seq(Items)
        /\ \A j, k \in DOMAIN All : All[j] = All[k] => j = k
        /\ Members(All) = Items
    <2>1. DOMAIN All = Items /\ \A i \in Items : All[i] = i
      BY DEF All
    <2>2. All \in Seq(Items)
      BY <1>0 DEF All, Items
    <2> QED BY <2>1, <2>2 DEF Members
  <1>2. Cuts(Chunks(All), Items)
    BY <1>1, ChunksCut
  <1>3. Cuts(<<All>>, Items)
    <2>1. <<All>> \in Seq(Seq(Items)) /\ DOMAIN <<All>> = {1} /\ <<All>>[1] = All
      BY <1>1
    <2>2. IsChunk(All)
      <3>1. 1 \in Items
        BY <1>0 DEF Items
      <3>2. All # << >>
        BY <1>1, <3>1 DEF Members
      <3> QED BY <1>1, <3>2 DEF IsChunk
    <2> QED BY <1>1, <2>1, <2>2 DEF Cuts
  <1>4. Cuts(GroupedChunks, Items)
    <2> DEFINE G(ids, m) == {i \in ids : Instrument[i] = m}
    <2>1. ASSUME NEW ids, NEW m, ids \subseteq Items
          PROVE  Cuts(Group(ids, m), G(ids, m))
      BY <2>1, ChunksCut, InOrderHoldsAll DEF Group
    <2>2. Cuts(Group(ById, 1), G(ById, 1)) /\ Cuts(Group(ById, 2), G(ById, 2))
      BY <1>0, <2>1
    <2>3. Cuts(Group(Items \ ById, 1), G(Items \ ById, 1))
          /\ Cuts(Group(Items \ ById, 2), G(Items \ ById, 2))
      BY <2>1
    <2> HIDE DEF G
    <2>4. G(ById, 1) \cap G(ById, 2) = {}
      BY DEF G
    <2>5. Cuts(Group(ById, 1) \o Group(ById, 2), G(ById, 1) \cup G(ById, 2))
      BY <2>2, <2>4, CutsConcat
    <2>6. (G(ById, 1) \cup G(ById, 2)) \cap G(Items \ ById, 1) = {}
      BY DEF G
    <2>7. Cuts((Group(ById, 1) \o Group(ById, 2)) \o Group(Items \ ById, 1),
               (G(ById, 1) \cup G(ById, 2)) \cup G(Items \ ById, 1))
      BY ONLY <2>3, <2>5, <2>6, CutsConcat
    <2>8. ((G(ById, 1) \cup G(ById, 2)) \cup G(Items \ ById, 1)) \cap G(Items \ ById, 2) = {}
      BY DEF G
    <2>9. Cuts(((Group(ById, 1) \o Group(ById, 2)) \o Group(Items \ ById, 1))
                  \o Group(Items \ ById, 2),
               ((G(ById, 1) \cup G(ById, 2)) \cup G(Items \ ById, 1)) \cup G(Items \ ById, 2))
      BY ONLY <2>3, <2>7, <2>8, CutsConcat
    <2>10. ((G(ById, 1) \cup G(ById, 2)) \cup G(Items \ ById, 1)) \cup G(Items \ ById, 2) = Items
      BY <1>0 DEF G
    <2> QED BY ONLY <2>9, <2>10 DEF GroupedChunks
  <1> QED BY <1>2, <1>3, <1>4 DEF Plan

----------------------------------------------------------------------------
(* The invariant.                                                          *)

Active == stage \in {"join", "ws", "rest", "await", "emit"}

\* Nothing was done about item i yet.
Fresh(i) ==
    /\ acks[i] = "none" /\ response[i] = "none" /\ executed[i] = 0
    /\ ~InFlight(i) /\ i \notin started

\* What the client may say of item i, once the venue answered.
Proof(i, status) ==
    /\ status = "Accepted" =>
         response[i] # "none" /\ (executed[i] = 1 \/ response[i] = "garbled")
    /\ status = "Rejected" => executed[i] = 0 /\ response[i] # "none"

\* The chunks that are left hold each item once and apart from the chunk under
\* way, and nothing was done about their items.
PlanInv ==
    /\ \A k \in DOMAIN todo : IsChunk(todo[k])
    /\ \A j, k \in DOMAIN todo : j # k => Members(todo[j]) \cap Members(todo[k]) = {}
    /\ \A k \in DOMAIN todo : \A i \in Members(todo[k]) : Fresh(i)
    /\ Active => IsChunk(chunk)
    /\ Active => \A k \in DOMAIN todo : Members(todo[k]) \cap Members(chunk) = {}

\* A call is carried out once, and an answer says what was done.
ItemInv(i) ==
    /\ executed[i] \in {0, 1}
    /\ response[i] = "none" => executed[i] = 0
    /\ response[i] # "none" => ~InFlight(i)
    /\ response[i] = "accept" => executed[i] = 1
    /\ response[i] \in {"reject", "refused"} => executed[i] = 0
    /\ Proof(i, acks[i])
    /\ acks[i] = "UnknownExecution" => i \in pending

\* No two calls on their way carry the same item.
FlightInv == \A a, b \in flying : a # b => a \cap b = {}

\* The chunk under way: nothing was done before it is sent, no item has a
\* receipt before they are handed out, and then each item gets its own.
ChunkInv ==
    /\ stage = "new" => todo = << >> /\ \A i \in Items : Fresh(i)
    /\ stage \in {"ws", "rest"} => \A i \in Members(chunk) : Fresh(i)
    /\ stage = "join" => Joined /\ \A i \in Members(chunk) \ started : Fresh(i)
    /\ stage = "await" => \A i \in Members(chunk) : acks[i] = "none"
    /\ stage = "emit" =>
         /\ Len(receipts) \in 1 .. Len(chunk)
         /\ \A k \in 1 .. Len(receipts) : Proof(chunk[Len(chunk) - Len(receipts) + k], receipts[k])
         /\ \A k \in 1 .. Len(chunk) - Len(receipts) : acks[chunk[k]] # "none"

\* Every item has its receipt, is in the chunk under way or in a later one.
CoverInv ==
    /\ Active \/ stage = "open" =>
         \A i \in Items : \/ acks[i] # "none"
                          \/ Active /\ i \in Members(chunk)
                          \/ \E k \in DOMAIN todo : i \in Members(todo[k])
    /\ result # "MissingAck"

\* A batch that returned has no write without a receipt.
ReturnInv ==
    stage = "returned" /\ ~Joined =>
        \A i \in Items : \/ acks[i] # "none"
                         \/ ~InFlight(i) /\ (executed[i] = 0 \/ response[i] = "garbled")

BatchInv ==
    /\ TypeOK
    /\ PlanInv
    /\ \A i \in Items : ItemInv(i)
    /\ FlightInv
    /\ ChunkInv
    /\ CoverInv
    /\ ReturnInv

----------------------------------------------------------------------------
(* Steps that touch neither the venue nor a receipt.                       *)

itemVars == <<response, acks, pending, flying, executed, started>>

\* What is said of the items depends on the items alone.
LEMMA ItemsKept ==
    ASSUME UNCHANGED itemVars
    PROVE  /\ \A i : Fresh(i)' = Fresh(i) /\ ItemInv(i)' = ItemInv(i) /\ InFlight(i)' = InFlight(i)
           /\ \A i, s : Proof(i, s)' = Proof(i, s)
           /\ FlightInv' = FlightInv
  <1>1. ASSUME NEW i PROVE InFlight(i)' = InFlight(i)
    BY DEF itemVars, InFlight
  <1>2. ASSUME NEW i, NEW s PROVE Proof(i, s)' = Proof(i, s)
    BY DEF itemVars, Proof
  <1>3. ASSUME NEW i PROVE Fresh(i)' = Fresh(i)
    BY <1>1 DEF itemVars, Fresh
  <1>4. ASSUME NEW i PROVE ItemInv(i)' = ItemInv(i)
    <2>1. Proof(i, acks[i])' = Proof(i, acks[i])
      BY <1>2 DEF itemVars
    <2> QED BY <1>1, <2>1 DEF itemVars, ItemInv
  <1>5. FlightInv' = FlightInv
    BY DEF itemVars, FlightInv
  <1> QED BY <1>1, <1>2, <1>3, <1>4, <1>5

\* The types of a step that leaves the venue and the receipts alone.
LEMMA TypesKept ==
    ASSUME TypeOK, UNCHANGED <<config, itemVars>>,
           stage' \in {"new", "open", "join", "ws", "rest", "await", "emit", "returned", "abandoned"},
           todo' \in Seq(Seq(Items)), chunk' \in Seq(Items), receipts' \in Seq(Statuses),
           result' \in {"none", "Ok", "Err", "MissingAck"}
    PROVE  TypeOK'
  BY DEF TypeOK, config, itemVars

\* A batch may return when every item without a receipt is known not to have
\* been written, or its reply could not be decoded.
LEMMA ReturnStep ==
    ASSUME BatchInv, stage' = "returned", result' \in {"Ok", "Err"}, UNCHANGED <<Silent, todo>>,
           ~Joined => \A i \in Items :
               acks[i] # "none" \/ (~InFlight(i) /\ (executed[i] = 0 \/ response[i] = "garbled"))
    PROVE  BatchInv'
  <1>0. UNCHANGED itemVars /\ UNCHANGED <<config, chunk, receipts, todo>>
    BY DEF Silent, itemVars, config
  <1>1. TypeOK'
    BY <1>0, TypesKept DEF BatchInv, TypeOK
  <1>2. ~Active'
    BY DEF Active
  <1>3. PlanInv'
    BY <1>0, <1>2, ItemsKept DEF BatchInv, PlanInv
  <1>4. \A i \in Items : ItemInv(i)'
    BY <1>0, ItemsKept DEF BatchInv
  <1>5. FlightInv'
    BY <1>0, ItemsKept DEF BatchInv
  <1>6. ChunkInv'
    BY DEF ChunkInv
  <1>7. CoverInv'
    BY <1>2 DEF CoverInv
  <1>8. ReturnInv'
    <2>1. Joined' = Joined
      BY <1>0 DEF Joined, config
    <2>2. \A i : InFlight(i)' = InFlight(i)
      BY <1>0, ItemsKept
    <2> QED BY <1>0, <2>1, <2>2 DEF ReturnInv, itemVars
  <1> QED BY <1>1, <1>3, <1>4, <1>5, <1>6, <1>7, <1>8 DEF BatchInv

\* Nothing to lose: the items of later chunks, and those of a chunk that was
\* not sent, were not written.
LEMMA FreshIsUnwritten ==
    ASSUME NEW i, Fresh(i)
    PROVE  ~InFlight(i) /\ executed[i] = 0
  BY DEF Fresh

\* The steps by which a batch returns.
LEMMA ReturningSteps ==
    ASSUME BatchInv,
           \/ Refuse \/ BuildFails \/ Finish \/ RestNotSent \/ BatchGarbled
           \/ (WsUnavailable /\ client.only)
           \/ (BatchRefused /\ stage' = "returned")
           \/ \E i \in Items : JoinFails(i)
    PROVE  BatchInv'
  <1>0. UNCHANGED <<Silent, todo>> /\ stage' = "returned"
    BY DEF Refuse, BuildFails, Finish, RestNotSent, BatchGarbled, WsUnavailable, BatchRefused,
       JoinFails, Return, Receive
  <1>1. ASSUME NEW i \in Items, Active \/ stage = "open"
        PROVE  \/ acks[i] # "none"
               \/ Active /\ i \in Members(chunk)
               \/ ~InFlight(i) /\ executed[i] = 0
    BY <1>1, FreshIsUnwritten DEF BatchInv, CoverInv, PlanInv
  <1>2. CASE Refuse
    <2>1. \A i \in Items : Fresh(i)
      BY <1>2 DEF Refuse, BatchInv, ChunkInv
    <2> QED BY <1>0, <1>2, <2>1, FreshIsUnwritten, ReturnStep DEF Refuse, Return
  <1>3. CASE BuildFails
    <2>1. stage = "open" /\ result' = "Err"
      BY <1>3 DEF BuildFails, Return
    <2>2. ~Active
      BY <2>1 DEF Active
    <2> QED BY <1>0, <1>1, <2>1, <2>2, ReturnStep
  <1>4. CASE Finish
    <2>1. stage = "open" /\ todo = << >>
      BY <1>4 DEF Finish
    <2>2. ~Active /\ DOMAIN todo = {}
      BY <2>1 DEF Active
    <2>3. \A i \in Items : acks[i] # "none"
      BY <2>1, <2>2 DEF BatchInv, CoverInv
    <2>4. result' = "Ok"
      BY <1>4, <2>3 DEF Finish, Return
    <2> QED BY <1>0, <2>3, <2>4, ReturnStep
  <1>5. CASE RestNotSent \/ (WsUnavailable /\ client.only)
    <2>1. stage \in {"ws", "rest"} /\ result' = "Err"
      BY <1>5 DEF RestNotSent, WsUnavailable, Return
    <2>2. \A i \in Members(chunk) : Fresh(i)
      BY <2>1 DEF BatchInv, ChunkInv
    <2> QED BY <1>0, <1>1, <2>1, <2>2, FreshIsUnwritten, ReturnStep DEF Active
  <1>6. CASE BatchGarbled \/ (BatchRefused /\ stage' = "returned")
    <2>1. stage = "await" /\ result' = "Err"
      BY <1>6 DEF BatchGarbled, BatchRefused, Return, Receive
    <2>2. \A i \in Members(chunk) : response[i] \in {"garbled", "refused"}
      BY <1>6 DEF BatchGarbled, BatchRefused
    <2>3. \A i \in Items : response[i] \in {"garbled", "refused"} =>
            ~InFlight(i) /\ (executed[i] = 0 \/ response[i] = "garbled")
      BY DEF BatchInv, ItemInv
    <2> QED BY <1>0, <1>1, <2>1, <2>2, <2>3, ReturnStep DEF Active
  <1>7. CASE \E i \in Items : JoinFails(i)
    <2>1. stage = "join" /\ result' = "Err"
      BY <1>7 DEF JoinFails, Return
    <2>2. Joined
      BY <2>1 DEF BatchInv, ChunkInv
    <2> QED BY <1>0, <2>1, <2>2, ReturnStep
  <1> QED BY <1>2, <1>3, <1>4, <1>5, <1>6, <1>7

----------------------------------------------------------------------------
(* Steps inside a batch that touch neither.                                *)

\* Begin: the plan is made, and holds every item.
LEMMA BeginStep ==
    ASSUME BatchInv, NEW o, Begin(o)
    PROVE  BatchInv'
  <1>0. /\ UNCHANGED itemVars /\ UNCHANGED <<config, chunk, receipts, result>>
        /\ stage = "new" /\ stage' = "open" /\ todo' = Plan
    BY DEF Begin, Silent, itemVars, config
  <1>1. Cuts(todo', Items)
    BY <1>0, PlanCuts
  <1>2. TypeOK'
    BY <1>0, <1>1, TypesKept DEF BatchInv, TypeOK, Cuts
  <1>3. ~Active'
    BY <1>0 DEF Active
  <1>4. \A i \in Items : Fresh(i)'
    BY <1>0, ItemsKept DEF BatchInv, ChunkInv
  <1>5. PlanInv'
    BY <1>1, <1>3, <1>4 DEF PlanInv, Cuts
  <1>6. (\A i \in Items : ItemInv(i)') /\ FlightInv'
    BY <1>0, ItemsKept DEF BatchInv
  <1>7. ChunkInv'
    BY <1>0 DEF ChunkInv
  <1>8. CoverInv'
    BY <1>0, <1>1 DEF BatchInv, CoverInv, Cuts
  <1>9. ReturnInv'
    BY <1>0 DEF ReturnInv
  <1> QED BY <1>2, <1>5, <1>6, <1>7, <1>8, <1>9 DEF BatchInv

\* OpenChunk: the first chunk of the plan becomes the one under way.
LEMMA OpenStep ==
    ASSUME BatchInv, OpenChunk
    PROVE  BatchInv'
  <1>0. /\ UNCHANGED itemVars /\ UNCHANGED <<config, receipts, result>>
        /\ stage = "open" /\ stage' \in {"join", "ws", "rest"} /\ (stage' = "join" => Joined)
        /\ todo # << >> /\ chunk' = Head(todo) /\ todo' = Tail(todo)
    BY DEF OpenChunk, itemVars, config
  <1>1. todo \in Seq(Seq(Items)) /\ PlanInv
    BY DEF BatchInv, TypeOK
  <1>2. /\ 1 \in DOMAIN todo /\ chunk' = todo[1]
        /\ todo' \in Seq(Seq(Items))
        /\ \A k \in DOMAIN todo' : k + 1 \in DOMAIN todo /\ k + 1 # 1 /\ todo'[k] = todo[k + 1]
        /\ \A k \in DOMAIN todo \ {1} : k - 1 \in DOMAIN todo' /\ todo'[k - 1] = todo[k]
    <2>1. Len(todo) \in Nat \ {0} /\ DOMAIN todo = 1 .. Len(todo)
      BY <1>0, <1>1
    <2>2. /\ Tail(todo) \in Seq(Seq(Items)) /\ Len(Tail(todo)) = Len(todo) - 1
          /\ \A k \in 1 .. Len(todo) - 1 : Tail(todo)[k] = todo[k + 1]
          /\ Head(todo) = todo[1]
      BY <1>0, <1>1, HeadTailProperties
    <2>3. DOMAIN Tail(todo) = 1 .. Len(todo) - 1
      BY <2>1, <2>2
    <2>4. \A k \in 1 .. Len(todo) - 1 : k + 1 \in 1 .. Len(todo) /\ k + 1 # 1
      BY <2>1
    <2>5. ASSUME NEW k \in DOMAIN todo \ {1}
          PROVE  k - 1 \in DOMAIN todo' /\ todo'[k - 1] = todo[k]
      <3>1. k - 1 \in 1 .. Len(todo) - 1 /\ (k - 1) + 1 = k
        BY <2>1
      <3> QED BY <1>0, <2>2, <2>3, <3>1
    <2> QED BY <1>0, <2>1, <2>2, <2>3, <2>4, <2>5
  <1>3. IsChunk(chunk') /\ Active'
    BY <1>0, <1>1, <1>2 DEF PlanInv, Active
  <1>4. TypeOK'
    BY <1>0, <1>2, <1>3, TypesKept DEF BatchInv, TypeOK, IsChunk
  <1>5. ASSUME NEW i PROVE Fresh(i)' = Fresh(i)
    BY <1>0, ItemsKept
  <1>6. PlanInv'
    <2>1. \A k \in DOMAIN todo' : IsChunk(todo'[k])
      BY <1>1, <1>2 DEF PlanInv
    <2>2. ASSUME NEW j \in DOMAIN todo', NEW k \in DOMAIN todo', j # k
          PROVE  Members(todo'[j]) \cap Members(todo'[k]) = {}
      <3>1. j \in Nat /\ k \in Nat
        BY <1>2
      <3>2. j + 1 # k + 1
        BY <2>2, <3>1
      <3> QED BY <1>1, <1>2, <3>2 DEF PlanInv
    <2>3. \A k \in DOMAIN todo' : \A i \in Members(todo'[k]) : Fresh(i)'
      BY <1>1, <1>2, <1>5 DEF PlanInv
    <2>4. \A k \in DOMAIN todo' : Members(todo'[k]) \cap Members(chunk') = {}
      BY <1>1, <1>2 DEF PlanInv
    <2> QED BY <1>3, <2>1, <2>2, <2>3, <2>4 DEF PlanInv
  <1>7. (\A i \in Items : ItemInv(i)') /\ FlightInv'
    BY <1>0, ItemsKept DEF BatchInv
  <1>8. ChunkInv'
    <2>1. \A i \in Members(chunk') : Fresh(i)'
      BY <1>1, <1>2, <1>5 DEF PlanInv
    <2>2. Joined' = Joined
      BY <1>0 DEF Joined, config
    <2> QED BY <1>0, <2>1, <2>2 DEF ChunkInv
  <1>9. CoverInv'
    <2>1. ASSUME NEW i \in Items
          PROVE  \/ acks'[i] # "none"
                 \/ Active' /\ i \in Members(chunk')
                 \/ \E k \in DOMAIN todo' : i \in Members(todo'[k])
      <3>1. acks[i] # "none" \/ \E k \in DOMAIN todo : i \in Members(todo[k])
        BY <1>0 DEF BatchInv, CoverInv, Active
      <3> QED BY <1>0, <1>2, <1>3, <3>1 DEF itemVars
    <2> QED BY <1>0, <2>1 DEF BatchInv, CoverInv
  <1>10. ReturnInv'
    BY <1>0 DEF ReturnInv
  <1> QED BY <1>4, <1>6, <1>7, <1>8, <1>9, <1>10 DEF BatchInv

\* The fallback to REST, the arrival of a chunk's receipts, and the caller
\* that drops the batch: a new stage for the same chunk.
LEMMA StageStep ==
    ASSUME BatchInv, UNCHANGED itemVars, UNCHANGED <<config, todo, chunk, result>>,
           Active, receipts' \in Seq(Statuses),
           \/ stage = "ws" /\ stage' = "rest"
           \/ stage' = "abandoned"
           \/ /\ stage' = "emit" /\ Len(receipts') = Len(chunk)
              /\ \A k \in 1 .. Len(chunk) : Proof(chunk[k], receipts'[k])
    PROVE  BatchInv'
  <1>1. TypeOK'
    BY TypesKept DEF BatchInv, TypeOK
  <1>2. Active' => Active
    OBVIOUS
  <1>3. PlanInv'
    BY <1>2, ItemsKept DEF BatchInv, PlanInv
  <1>4. (\A i \in Items : ItemInv(i)') /\ FlightInv'
    BY ItemsKept DEF BatchInv
  <1>5. ChunkInv'
    <2>1. CASE stage = "ws" /\ stage' = "rest"
      BY <2>1, ItemsKept DEF BatchInv, ChunkInv
    <2>2. CASE stage' = "abandoned"
      BY <2>2 DEF ChunkInv
    <2>3. CASE stage' = "emit"
      <3>1. /\ Len(receipts') = Len(chunk)
            /\ \A k \in 1 .. Len(chunk) : Proof(chunk[k], receipts'[k])
        BY <2>3
      <3>2. Len(chunk) \in Nat \ {0}
        BY DEF BatchInv, PlanInv, IsChunk
      <3>3. Len(receipts') \in 1 .. Len(chunk') /\ Len(chunk') - Len(receipts') = 0
        BY <3>1, <3>2
      <3>4. ASSUME NEW k \in 1 .. Len(receipts')
            PROVE  Proof(chunk[Len(chunk) - Len(receipts) + k], receipts[k])'
        <4>1. k \in 1 .. Len(chunk) /\ Len(chunk') - Len(receipts') + k = k
          BY <3>1, <3>2, <3>3
        <4>2. Proof(chunk[k], receipts'[k])
          BY <3>1, <4>1
        <4> QED BY <4>1, <4>2 DEF Proof, itemVars
      <3>5. 1 .. Len(chunk') - Len(receipts') = {}
        BY <3>3
      <3> QED BY <2>3, <3>3, <3>4, <3>5 DEF ChunkInv
    <2> QED BY <2>1, <2>2, <2>3
  <1>6. CoverInv'
    BY DEF BatchInv, CoverInv, Active, itemVars
  <1>7. ReturnInv'
    BY DEF ReturnInv
  <1> QED BY <1>1, <1>3, <1>4, <1>5, <1>6, <1>7 DEF BatchInv

----------------------------------------------------------------------------
(* Steps that write to the venue.                                          *)

\* A call for items about which nothing was done goes out.
LEMMA CallGoesOut ==
    ASSUME BatchInv, NEW call, call \subseteq Items, \A i \in call : Fresh(i),
           flying' = flying \cup {call}, started \subseteq started', started' \subseteq started \cup call,
           UNCHANGED <<response, acks, pending, executed>>
    PROVE  /\ FlightInv'
           /\ \A i \in Items : ItemInv(i)' /\ (i \notin call /\ Fresh(i) => Fresh(i)')
  <1>1. ASSUME NEW i PROVE InFlight(i)' <=> (InFlight(i) \/ i \in call)
    BY DEF InFlight
  <1>2. FlightInv'
    <2>1. \A a \in flying : a \cap call = {}
      BY DEF Fresh, InFlight
    <2> QED BY <2>1 DEF BatchInv, FlightInv
  <1>3. ASSUME NEW i \in Items PROVE ItemInv(i)'
    <2>1. ItemInv(i) /\ (response[i] # "none" => i \notin call)
      BY DEF BatchInv, Fresh
    <2>2. Proof(i, acks[i])'
      BY <2>1 DEF ItemInv, Proof
    <2> QED BY <1>1, <2>1, <2>2 DEF ItemInv
  <1>4. ASSUME NEW i \in Items, i \notin call, Fresh(i) PROVE Fresh(i)'
    BY <1>1, <1>4 DEF Fresh
  <1> QED BY <1>2, <1>3, <1>4

\* The members of a chunk and of the chunks of a plan are items.
LEMMA MembersAreItems ==
    ASSUME NEW s, IsChunk(s)
    PROVE  Members(s) \subseteq Items
  BY DEF IsChunk, Members

\* A chunk goes out as one call.
LEMMA SendStep ==
    ASSUME BatchInv, WsSend \/ RestSend
    PROVE  BatchInv'
  <1>0. /\ stage \in {"ws", "rest"} /\ stage' = "await"
        /\ flying' = flying \cup {Members(chunk)}
        /\ UNCHANGED <<client, op, todo, chunk, started, response, receipts, acks, pending,
                       executed, result>>
    BY DEF WsSend, RestSend, Send, config
  <1>1. Active /\ Active'
    BY <1>0 DEF Active
  <1>2. IsChunk(chunk) /\ Members(chunk) \subseteq Items /\ \A i \in Members(chunk) : Fresh(i)
    BY <1>0, <1>1, MembersAreItems DEF BatchInv, PlanInv, ChunkInv
  <1>3. /\ FlightInv'
        /\ \A i \in Items : ItemInv(i)' /\ (i \notin Members(chunk) /\ Fresh(i) => Fresh(i)')
    BY <1>0, <1>2, CallGoesOut
  <1>4. TypeOK'
    BY <1>0, <1>2 DEF BatchInv, TypeOK
  <1>5. PlanInv'
    <2>1. \A k \in DOMAIN todo : \A i \in Members(todo[k]) : i \in Items /\ i \notin Members(chunk)
      BY <1>1, MembersAreItems DEF BatchInv, PlanInv
    <2> QED BY <1>0, <1>1, <1>3, <2>1 DEF BatchInv, PlanInv
  <1>6. ChunkInv'
    BY <1>0, <1>2 DEF ChunkInv, Fresh
  <1>7. CoverInv'
    BY <1>0, <1>1 DEF BatchInv, CoverInv
  <1>8. ReturnInv'
    BY <1>0 DEF ReturnInv
  <1> QED BY <1>3, <1>4, <1>5, <1>6, <1>7, <1>8 DEF BatchInv

\* An item of a joined chunk goes out as a command of its own.
LEMMA JoinSendStep ==
    ASSUME BatchInv, NEW d \in Items, JoinSend(d)
    PROVE  BatchInv'
  <1>0. /\ stage = "join" /\ stage' = "join" /\ d \in Members(chunk) \ started
        /\ flying' = flying \cup {{d}} /\ started' = started \cup {d}
        /\ UNCHANGED <<client, op, todo, chunk, response, receipts, acks, pending, executed, result>>
    BY DEF JoinSend, config
  <1>1. Active /\ Active'
    BY <1>0 DEF Active
  <1>2. IsChunk(chunk) /\ Members(chunk) \subseteq Items /\ \A i \in {d} : Fresh(i)
    BY <1>0, <1>1, MembersAreItems DEF BatchInv, PlanInv, ChunkInv
  <1>3. /\ FlightInv'
        /\ \A i \in Items : ItemInv(i)' /\ (i \notin {d} /\ Fresh(i) => Fresh(i)')
    BY <1>0, <1>2, CallGoesOut
  <1>4. TypeOK'
    BY <1>0, <1>2 DEF BatchInv, TypeOK
  <1>5. PlanInv'
    <2>1. \A k \in DOMAIN todo : \A i \in Members(todo[k]) : i \in Items /\ i # d
      BY <1>0, <1>1, MembersAreItems DEF BatchInv, PlanInv
    <2> QED BY <1>0, <1>1, <1>3, <2>1 DEF BatchInv, PlanInv
  <1>6. ChunkInv'
    <2>1. Joined'
      BY <1>0 DEF BatchInv, ChunkInv, Joined
    <2>2. \A i \in Members(chunk) \ started' : Fresh(i)'
      BY <1>0, <1>2, <1>3 DEF BatchInv, ChunkInv
    <2> QED BY <1>0, <2>1, <2>2 DEF ChunkInv
  <1>7. CoverInv'
    BY <1>0, <1>1 DEF BatchInv, CoverInv
  <1>8. ReturnInv'
    BY <1>0 DEF ReturnInv
  <1> QED BY <1>3, <1>4, <1>5, <1>6, <1>7, <1>8 DEF BatchInv

----------------------------------------------------------------------------
(* Receipts.                                                               *)

\* A receipt that is proof is recorded for an item of the chunk under way.
LEMMA ReceiptIsRecorded ==
    ASSUME BatchInv, Active, NEW d \in Members(chunk), NEW status \in Statuses, Proof(d, status),
           acks' = [acks EXCEPT ![d] = status],
           pending' = IF status = "UnknownExecution" THEN pending \cup {d} ELSE pending,
           UNCHANGED <<todo, chunk, started, response, flying, executed>>
    PROVE  /\ d \in Items
           /\ acks' \in [Items -> Statuses \cup {"none"}] /\ pending' \subseteq Items
           /\ acks'[d] # "none" /\ \A i \in Items \ {d} : acks'[i] = acks[i]
           /\ FlightInv' /\ PlanInv'
           /\ \A i \in Items : ItemInv(i)' /\ (i # d => Fresh(i)' = Fresh(i))
  <1>0. d \in Items /\ acks \in [Items -> Statuses \cup {"none"}] /\ pending \subseteq Items
    BY MembersAreItems DEF BatchInv, PlanInv, TypeOK
  <1>1. /\ acks' \in [Items -> Statuses \cup {"none"}] /\ pending' \subseteq Items
        /\ acks'[d] = status /\ \A i \in Items \ {d} : acks'[i] = acks[i]
    BY <1>0
  <1>2. acks'[d] # "none"
    BY <1>1 DEF Statuses
  <1>3. FlightInv' /\ \A i : InFlight(i)' = InFlight(i)
    BY DEF BatchInv, FlightInv, InFlight
  <1>4. ASSUME NEW i \in Items PROVE ItemInv(i)'
    <2>1. ItemInv(i)
      BY DEF BatchInv
    <2>2. Proof(i, acks[i])'
      <3>1. CASE i = d
        BY <1>1, <3>1 DEF Proof
      <3>2. CASE i # d
        BY <1>1, <2>1, <3>2 DEF ItemInv, Proof
      <3> QED BY <3>1, <3>2
    <2>3. acks'[i] = "UnknownExecution" => i \in pending'
      <3>1. CASE i = d
        BY <1>1, <3>1
      <3>2. CASE i # d
        BY <1>1, <2>1, <3>2 DEF ItemInv
      <3> QED BY <3>1, <3>2
    <2> QED BY <1>3, <2>1, <2>2, <2>3 DEF ItemInv
  <1>5. ASSUME NEW i \in Items, i # d PROVE Fresh(i)' = Fresh(i)
    BY <1>1, <1>3, <1>5 DEF Fresh
  <1>6. PlanInv'
    <2>1. \A k \in DOMAIN todo : \A i \in Members(todo[k]) : i \in Items /\ i # d
      BY MembersAreItems DEF BatchInv, PlanInv
    <2> QED BY <1>5, <2>1 DEF BatchInv, PlanInv
  <1> QED BY <1>0, <1>1, <1>2, <1>3, <1>4, <1>5, <1>6

\* cache_and_emit_batch_receipts hands the next receipt to the next item.
LEMMA EmitStep ==
    ASSUME BatchInv, CacheAndEmit
    PROVE  BatchInv'
  <1> DEFINE p == Len(chunk) - Len(receipts) + 1
             d == chunk[p]
  <1>0. /\ stage = "emit" /\ stage' = IF Len(receipts) = 1 THEN "open" ELSE "emit"
        /\ acks' = [acks EXCEPT ![d] = Head(receipts)]
        /\ pending' = IF Head(receipts) = "UnknownExecution" THEN pending \cup {d} ELSE pending
        /\ receipts' = Tail(receipts)
        /\ UNCHANGED <<client, op, todo, chunk, started, response, flying, executed, result>>
    BY DEF CacheAndEmit, config
  <1>1. /\ receipts \in Seq(Statuses) /\ Len(receipts) \in 1 .. Len(chunk)
        /\ \A k \in 1 .. Len(receipts) : Proof(chunk[Len(chunk) - Len(receipts) + k], receipts[k])
        /\ \A k \in 1 .. Len(chunk) - Len(receipts) : acks[chunk[k]] # "none"
    BY <1>0 DEF BatchInv, ChunkInv, TypeOK
  <1>2. Active /\ IsChunk(chunk) /\ chunk \in Seq(Items) /\ Len(chunk) \in Nat
        /\ DOMAIN chunk = 1 .. Len(chunk)
    BY <1>0 DEF BatchInv, PlanInv, Active, IsChunk
  <1>3. /\ receipts # << >> /\ Head(receipts) = receipts[1] /\ receipts[1] \in Statuses
        /\ Tail(receipts) \in Seq(Statuses) /\ Len(Tail(receipts)) = Len(receipts) - 1
        /\ \A k \in 1 .. Len(receipts) - 1 : Tail(receipts)[k] = receipts[k + 1]
    <2>1. receipts # << >> /\ 1 \in 1 .. Len(receipts)
      BY <1>1, <1>2
    <2> QED BY <1>1, <2>1, HeadTailProperties
  <1>4. p \in 1 .. Len(chunk) /\ d \in Members(chunk)
    BY <1>1, <1>2 DEF Members
  <1>5. Proof(d, Head(receipts))
    BY <1>1, <1>2, <1>3
  <1> HIDE DEF d
  <1>6. /\ d \in Items
        /\ acks' \in [Items -> Statuses \cup {"none"}] /\ pending' \subseteq Items
        /\ acks'[d] # "none" /\ \A i \in Items \ {d} : acks'[i] = acks[i]
        /\ FlightInv' /\ PlanInv'
        /\ \A i \in Items : ItemInv(i)' /\ (i # d => Fresh(i)' = Fresh(i))
    <2>1. Head(receipts) \in Statuses
      BY <1>3
    <2> QED BY <1>0, <1>2, <1>4, <1>5, <2>1, ReceiptIsRecorded
  <1>7. TypeOK'
    BY <1>0, <1>3, <1>6 DEF BatchInv, TypeOK
  <1>8. ASSUME NEW k \in 1 .. p PROVE acks'[chunk[k]] # "none"
    <2>1. chunk[k] \in Items /\ k \in Int /\ p \in Int
      BY <1>2, <1>4
    <2>2. CASE k = p
      <3>1. chunk[k] = d
        BY <2>2 DEF d
      <3> QED BY <1>6, <3>1
    <2>3. CASE k # p
      <3>0. Len(chunk) \in Int /\ Len(receipts) \in Int /\ 1 <= k /\ k <= p
        BY <1>1, <1>2, <2>1
      <3>1. k \in 1 .. Len(chunk) - Len(receipts)
        BY ONLY <2>1, <2>3, <3>0
      <3>2. acks[chunk[k]] # "none"
        BY <1>1, <3>1
      <3> QED BY <1>6, <2>1, <3>2
    <2> QED BY <2>2, <2>3
  <1>9. ChunkInv'
    <2>1. CASE Len(receipts) = 1
      BY <1>0, <2>1 DEF ChunkInv
    <2>2. CASE Len(receipts) # 1
      <3>1. stage' = "emit" /\ Len(receipts') = Len(receipts) - 1 /\ Len(receipts') \in 1 .. Len(chunk)
        BY <1>0, <1>1, <1>2, <1>3, <2>2
      <3>2. ASSUME NEW k \in 1 .. Len(receipts')
            PROVE  Proof(chunk[Len(chunk) - Len(receipts) + k], receipts[k])'
        <4>1. /\ k + 1 \in 1 .. Len(receipts) /\ k \in 1 .. Len(receipts) - 1
              /\ Len(chunk) - Len(receipts') + k = Len(chunk) - Len(receipts) + (k + 1)
          BY <1>1, <1>2, <3>1
        <4>2. Proof(chunk[Len(chunk) - Len(receipts) + (k + 1)], receipts[k + 1])
          BY <1>1, <4>1
        <4>3. receipts'[k] = receipts[k + 1]
          BY <1>0, <1>3, <4>1
        <4> QED BY <1>0, <4>1, <4>2, <4>3 DEF Proof
      <3>3. Len(chunk) - Len(receipts') = p
        BY <1>1, <1>2, <3>1
      <3>4. \A k \in 1 .. Len(chunk) - Len(receipts') : acks'[chunk[k]] # "none"
        BY <1>8, <3>3
      <3> QED BY <1>0, <3>1, <3>2, <3>4 DEF ChunkInv
    <2> QED BY <2>1, <2>2
  <1>10. CoverInv'
    <2>1. ASSUME NEW i \in Items
          PROVE  \/ acks'[i] # "none"
                 \/ Active' /\ i \in Members(chunk)
                 \/ \E k \in DOMAIN todo : i \in Members(todo[k])
      <3>1. CASE acks[i] # "none"
        BY <1>6, <3>1
      <3>2. CASE i \in Members(chunk)
        <4>1. CASE Len(receipts) = 1
          <5>1. p = Len(chunk)
            BY <1>1, <1>2, <4>1
          <5>2. PICK k \in 1 .. Len(chunk) : i = chunk[k]
            BY <1>2, <3>2 DEF Members
          <5> QED BY <1>8, <5>1, <5>2
        <4>2. CASE Len(receipts) # 1
          BY <1>0, <3>2, <4>2 DEF Active
        <4> QED BY <4>1, <4>2
      <3>3. CASE \E k \in DOMAIN todo : i \in Members(todo[k])
        BY <3>3
      <3> QED BY <1>2, <3>1, <3>2, <3>3 DEF BatchInv, CoverInv
    <2> QED BY <1>0, <2>1 DEF BatchInv, CoverInv
  <1>11. ReturnInv'
    BY <1>0 DEF ReturnInv
  <1> QED BY <1>6, <1>7, <1>9, <1>10, <1>11 DEF BatchInv

\* A joined command gets its receipt; the chunk is done with the last one.
LEMMA JoinAnswerStep ==
    ASSUME BatchInv, NEW d \in Items, JoinAnswered(d)
    PROVE  BatchInv'
  <1>0. PICK status \in Statuses :
          (status # "UnknownExecution" => response[d] \in {"accept", "reject"} /\ status = Classify(response[d]))
          /\ JoinReceipt(d, status)
    BY DEF JoinAnswered, Classify, Statuses
  <1>1. /\ stage = "join" /\ d \in Members(chunk) /\ d \in started
        /\ stage' = IF \A j \in Members(chunk) \ {d} : acks[j] # "none" THEN "open" ELSE "join"
        /\ acks' = [acks EXCEPT ![d] = status]
        /\ pending' = IF status = "UnknownExecution" THEN pending \cup {d} ELSE pending
        /\ UNCHANGED <<client, op, todo, chunk, started, response, receipts, flying, executed, result>>
    BY <1>0 DEF JoinAnswered, JoinReceipt, config
  <1>2. Active /\ Members(chunk) \subseteq Items
    BY <1>1, MembersAreItems DEF BatchInv, PlanInv, Active
  <1>3. Proof(d, status)
    BY <1>0 DEF BatchInv, ItemInv, Proof, Classify
  <1>4. /\ d \in Items
        /\ acks' \in [Items -> Statuses \cup {"none"}] /\ pending' \subseteq Items
        /\ acks'[d] # "none" /\ \A i \in Items \ {d} : acks'[i] = acks[i]
        /\ FlightInv' /\ PlanInv'
        /\ \A i \in Items : ItemInv(i)' /\ (i # d => Fresh(i)' = Fresh(i))
    BY <1>1, <1>2, <1>3, ReceiptIsRecorded
  <1>5. TypeOK'
    BY <1>1, <1>4 DEF BatchInv, TypeOK
  <1>6. ChunkInv'
    <2>1. Joined'
      BY <1>1 DEF BatchInv, ChunkInv, Joined
    <2>2. \A i \in Members(chunk) \ started : Fresh(i)'
      BY <1>1, <1>2, <1>4 DEF BatchInv, ChunkInv
    <2> QED BY <1>1, <2>1, <2>2 DEF ChunkInv
  <1>7. CoverInv'
    <2>1. ASSUME NEW i \in Items
          PROVE  \/ acks'[i] # "none"
                 \/ Active' /\ i \in Members(chunk)
                 \/ \E k \in DOMAIN todo : i \in Members(todo[k])
      <3>1. CASE acks[i] # "none"
        BY <1>4, <3>1
      <3>2. CASE i \in Members(chunk)
        BY <1>1, <1>4, <3>2 DEF Active
      <3>3. CASE \E k \in DOMAIN todo : i \in Members(todo[k])
        BY <3>3
      <3> QED BY <1>2, <3>1, <3>2, <3>3 DEF BatchInv, CoverInv
    <2> QED BY <1>1, <2>1 DEF BatchInv, CoverInv
  <1>8. ReturnInv'
    BY <1>1 DEF ReturnInv
  <1> QED BY <1>4, <1>5, <1>6, <1>7, <1>8 DEF BatchInv

----------------------------------------------------------------------------
(* The venue.                                                              *)

\* The venue handles a call: no answer was given for its items before, and it
\* is the only call that carries them.
LEMMA VenueStep ==
    ASSUME BatchInv, NEW call \in flying, VenueHandles(call)
    PROVE  BatchInv'
  <1>0. PICK done \in SUBSET call, answer \in {"items", "refused", "garbled"} :
          /\ answer = "refused" => done = {}
          /\ executed' = [i \in Items |-> IF i \in done THEN executed[i] + 1 ELSE executed[i]]
          /\ response' = [i \in Items |->
                            IF i \notin call THEN response[i]
                            ELSE IF answer # "items" THEN answer
                            ELSE IF i \in done THEN "accept" ELSE "reject"]
    BY DEF VenueHandles
  <1>1. /\ flying' = flying \ {call}
        /\ UNCHANGED <<client, op, stage, todo, chunk, started, receipts, acks, pending, result>>
    BY DEF VenueHandles, config
  <1>2. call \subseteq Items /\ executed \in [Items -> Nat]
        /\ response \in [Items -> Answers \cup {"none"}]
    BY DEF BatchInv, TypeOK
  <1>3. ASSUME NEW i \in Items \ call
        PROVE  response'[i] = response[i] /\ executed'[i] = executed[i]
    BY <1>0, <1>3
  <1>4. ASSUME NEW i \in call
        PROVE  response[i] = "none" /\ executed[i] = 0 /\ ~InFlight(i)' /\ InFlight(i)
    <2>1. InFlight(i)
      BY DEF InFlight
    <2>2. ~InFlight(i)'
      BY <1>1 DEF BatchInv, FlightInv, InFlight
    <2> QED BY <1>2, <2>1, <2>2 DEF BatchInv, ItemInv
  <1>5. ASSUME NEW i \in call
        PROVE  /\ response'[i] \in {"accept", "reject", "refused", "garbled"}
               /\ executed'[i] = (IF i \in done THEN 1 ELSE 0)
               /\ response'[i] = "accept" => i \in done
               /\ response'[i] \in {"reject", "refused"} => i \notin done
    BY <1>0, <1>2, <1>4
  <1>6. ASSUME NEW i \in Items \ call PROVE InFlight(i)' = InFlight(i)
    BY <1>1 DEF InFlight
  <1>7. TypeOK'
    <2>1. executed' \in [Items -> Nat]
      BY <1>0, <1>2
    <2>2. response' \in [Items -> Answers \cup {"none"}]
      BY <1>0, <1>2 DEF Answers
    <2> QED BY <1>1, <2>1, <2>2 DEF BatchInv, TypeOK
  <1>8. FlightInv'
    BY <1>1 DEF BatchInv, FlightInv
  <1>9. ASSUME NEW i \in Items, NEW status, Proof(i, status) PROVE Proof(i, status)'
    <2>1. CASE i \in call
      BY <1>4, <1>9, <2>1 DEF Proof
    <2>2. CASE i \notin call
      BY <1>3, <1>9, <2>2 DEF Proof
    <2> QED BY <2>1, <2>2
  <1>10. ASSUME NEW i \in Items PROVE ItemInv(i)'
    <2>0. ItemInv(i)
      BY DEF BatchInv
    <2>1. Proof(i, acks[i])'
      <3>1. Proof(i, acks[i])
        BY <2>0 DEF ItemInv
      <3>2. CASE i \in call
        BY <1>1, <1>4, <3>1, <3>2 DEF Proof
      <3>3. CASE i \notin call
        BY <1>1, <1>3, <3>1, <3>3 DEF Proof
      <3> QED BY <3>2, <3>3
    <2>2. CASE i \in call
      BY <1>1, <1>4, <1>5, <2>0, <2>1, <2>2 DEF ItemInv
    <2>3. CASE i \notin call
      BY <1>1, <1>3, <1>6, <2>0, <2>1, <2>3 DEF ItemInv
    <2> QED BY <2>2, <2>3
  <1>11. ASSUME NEW i \in Items, Fresh(i) PROVE Fresh(i)'
    <2>1. i \notin call
      BY <1>4, <1>11 DEF Fresh
    <2> QED BY <1>1, <1>3, <1>6, <1>11, <2>1 DEF Fresh
  <1>12. PlanInv'
    <2>1. Active' = Active
      BY <1>1 DEF Active
    <2>2. \A k \in DOMAIN todo : \A i \in Members(todo[k]) : i \in Items /\ Fresh(i)
      BY MembersAreItems DEF BatchInv, PlanInv
    <2> QED BY <1>1, <1>11, <2>1, <2>2 DEF BatchInv, PlanInv
  <1>13. ChunkInv'
    <2>0. Active => Members(chunk) \subseteq Items
      BY MembersAreItems DEF BatchInv, PlanInv
    <2>1. stage' = "new" => todo' = << >> /\ \A i \in Items : Fresh(i)'
      BY <1>1, <1>11 DEF BatchInv, ChunkInv
    <2>2. stage' \in {"ws", "rest"} => \A i \in Members(chunk') : Fresh(i)'
      BY <1>1, <1>11, <2>0 DEF BatchInv, ChunkInv, Active
    <2>3. stage' = "join" => Joined' /\ \A i \in Members(chunk') \ started' : Fresh(i)'
      BY <1>1, <1>11, <2>0 DEF BatchInv, ChunkInv, Active, Joined
    <2>4. stage' = "await" => \A i \in Members(chunk') : acks'[i] = "none"
      BY <1>1 DEF BatchInv, ChunkInv
    <2>5. ASSUME stage' = "emit", NEW k \in 1 .. Len(receipts')
          PROVE  Proof(chunk[Len(chunk) - Len(receipts) + k], receipts[k])'
      <3>1. /\ Len(receipts) \in 1 .. Len(chunk) /\ k \in 1 .. Len(receipts)
            /\ Proof(chunk[Len(chunk) - Len(receipts) + k], receipts[k])
        BY <1>1, <2>5 DEF BatchInv, ChunkInv
      <3>2. chunk \in Seq(Items) /\ Len(chunk) \in Nat
        BY DEF BatchInv, TypeOK
      <3>3. chunk[Len(chunk) - Len(receipts) + k] \in Items
        BY <3>1, <3>2
      <3>4. CASE chunk[Len(chunk) - Len(receipts) + k] \in call
        BY <1>1, <1>4, <3>1, <3>4 DEF Proof
      <3>5. CASE chunk[Len(chunk) - Len(receipts) + k] \notin call
        BY <1>1, <1>3, <3>1, <3>3, <3>5 DEF Proof
      <3> QED BY <3>4, <3>5
    <2>6. stage' = "emit" => /\ Len(receipts') \in 1 .. Len(chunk')
                             /\ \A k \in 1 .. Len(chunk') - Len(receipts') : acks'[chunk'[k]] # "none"
      BY <1>1 DEF BatchInv, ChunkInv
    <2> QED BY <2>1, <2>2, <2>3, <2>4, <2>5, <2>6 DEF ChunkInv
  <1>14. CoverInv'
    BY <1>1 DEF BatchInv, CoverInv, Active
  <1>15. ReturnInv'
    <2>1. Joined' = Joined
      BY <1>1 DEF Joined
    <2>2. ASSUME NEW i \in Items, ~InFlight(i) /\ (executed[i] = 0 \/ response[i] = "garbled")
          PROVE  ~InFlight(i)' /\ (executed'[i] = 0 \/ response'[i] = "garbled")
      BY <1>3, <1>4, <1>6, <2>2
    <2> QED BY <1>1, <2>1, <2>2 DEF BatchInv, ReturnInv
  <1> QED BY <1>7, <1>8, <1>10, <1>12, <1>13, <1>14, <1>15 DEF BatchInv

----------------------------------------------------------------------------
(* The theorems.                                                           *)

\* The invariant holds initially.
LEMMA BatchInit == Init => BatchInv
  <1> SUFFICES ASSUME Init PROVE BatchInv
    OBVIOUS
  <1>1. TypeOK
    <2>1. << >> \in Seq(Seq(Items)) /\ << >> \in Seq(Items) /\ << >> \in Seq(Statuses)
      OBVIOUS
    <2> QED BY <2>1 DEF Init, TypeOK
  <1>2. \A i \in Items : Fresh(i) /\ ItemInv(i)
    BY DEF Init, Fresh, ItemInv, InFlight, Proof
  <1>3. PlanInv
    BY DEF Init, PlanInv, Active
  <1>4. FlightInv
    BY DEF Init, FlightInv
  <1>5. ChunkInv
    BY <1>2 DEF Init, ChunkInv
  <1>6. CoverInv /\ ReturnInv
    BY DEF Init, CoverInv, ReturnInv, Active
  <1> QED BY <1>1, <1>2, <1>3, <1>4, <1>5, <1>6 DEF BatchInv

\* Receipts for a whole chunk, one per item and each of them proof.
LEMMA ReceiveStep ==
    ASSUME BatchInv, Active, NEW rs, rs \in [DOMAIN chunk -> Statuses], Receive(rs),
           \A k \in DOMAIN chunk : Proof(chunk[k], rs[k])
    PROVE  BatchInv'
  <1>1. chunk \in Seq(Items) /\ Len(chunk) \in Nat /\ DOMAIN chunk = 1 .. Len(chunk)
    BY DEF BatchInv, TypeOK
  <1>2. rs \in Seq(Statuses) /\ Len(rs) = Len(chunk)
    BY <1>1
  <1>3. /\ UNCHANGED itemVars /\ UNCHANGED <<config, todo, chunk, result>>
        /\ stage' = "emit" /\ receipts' = rs
    BY DEF Receive, itemVars, config
  <1> QED BY <1>1, <1>2, <1>3, StageStep

\* The steps by which the receipts of a chunk arrive.
LEMMA ReceivingSteps ==
    ASSUME BatchInv,
           BatchAnswered \/ BatchDefaulted \/ BatchUncertain \/ (BatchRefused /\ stage' # "returned")
    PROVE  BatchInv'
  <1>0. stage = "await" /\ Active
    BY DEF BatchAnswered, BatchDefaulted, BatchUncertain, BatchRefused, Active
  <1>1. chunk \in Seq(Items) /\ \A k \in DOMAIN chunk : chunk[k] \in Items /\ chunk[k] \in Members(chunk)
    BY DEF BatchInv, TypeOK, Members
  <1>2. CASE BatchAnswered
    <2> DEFINE rs == [k \in DOMAIN chunk |-> Classify(response[chunk[k]])]
    <2>1. rs \in [DOMAIN chunk -> Statuses]
      BY DEF Classify, Statuses
    <2>2. ASSUME NEW k \in DOMAIN chunk PROVE Proof(chunk[k], rs[k])
      <3>1. response[chunk[k]] \in {"accept", "reject"} /\ ItemInv(chunk[k])
        BY <1>1, <1>2 DEF BatchAnswered, BatchInv
      <3> QED BY <3>1 DEF ItemInv, Proof, Classify
    <2>3. Receive(rs)
      BY <1>2 DEF BatchAnswered
    <2> HIDE DEF rs
    <2> QED BY <1>0, <2>1, <2>2, <2>3, ReceiveStep
  <1>3. CASE BatchUncertain
    <2> DEFINE rs == [k \in DOMAIN chunk |-> "UnknownExecution"]
    <2>1. rs \in [DOMAIN chunk -> Statuses] /\ \A k \in DOMAIN chunk : Proof(chunk[k], rs[k])
      BY DEF Statuses, Proof
    <2>2. Receive(rs)
      BY <1>3 DEF BatchUncertain
    <2> HIDE DEF rs
    <2> QED BY <1>0, <2>1, <2>2, ReceiveStep
  <1>4. CASE BatchRefused /\ stage' # "returned"
    <2> DEFINE rs == [k \in DOMAIN chunk |-> "Rejected"]
    <2>1. rs \in [DOMAIN chunk -> Statuses]
      BY DEF Statuses
    <2>2. ASSUME NEW k \in DOMAIN chunk PROVE Proof(chunk[k], rs[k])
      <3>1. response[chunk[k]] = "refused" /\ ItemInv(chunk[k])
        BY <1>1, <1>4 DEF BatchRefused, BatchInv
      <3> QED BY <3>1 DEF ItemInv, Proof
    <2>3. Receive(rs)
      BY <1>4 DEF BatchRefused, Return
    <2> HIDE DEF rs
    <2> QED BY <1>0, <2>1, <2>2, <2>3, ReceiveStep
  <1>5. CASE BatchDefaulted
    <2> DEFINE rs == [k \in DOMAIN chunk |-> "Accepted"]
    <2>1. rs \in [DOMAIN chunk -> Statuses]
      BY DEF Statuses
    <2>2. ASSUME NEW k \in DOMAIN chunk PROVE Proof(chunk[k], rs[k])
      <3>1. response[chunk[k]] = "garbled"
        BY <1>1, <1>5 DEF BatchDefaulted
      <3> QED BY <3>1 DEF Proof
    <2>3. Receive(rs)
      BY <1>5 DEF BatchDefaulted
    <2> HIDE DEF rs
    <2> QED BY <1>0, <2>1, <2>2, <2>3, ReceiveStep
  <1> QED BY <1>2, <1>3, <1>4, <1>5

\* Every step keeps the invariant.
LEMMA BatchNext == BatchInv /\ [Next]_vars => BatchInv'
  <1> SUFFICES ASSUME BatchInv, [Next]_vars PROVE BatchInv'
    OBVIOUS
  <1>1. CASE CreateOrders \/ AmendOrders \/ CancelOrders
    BY <1>1, BeginStep DEF CreateOrders, AmendOrders, CancelOrders
  <1>2. CASE Refuse \/ BuildFails \/ Finish \/ RestNotSent \/ BatchGarbled
    BY <1>2, ReturningSteps
  <1>3. CASE \E i \in Items : JoinFails(i)
    BY <1>3, ReturningSteps
  <1>4. CASE WsUnavailable
    <2>1. CASE client.only
      BY <1>4, <2>1, ReturningSteps
    <2>2. CASE ~client.only
      <3>1. /\ UNCHANGED itemVars /\ UNCHANGED <<config, todo, chunk, result>>
            /\ stage = "ws" /\ stage' = "rest" /\ receipts' = receipts
        BY <1>4, <2>2 DEF WsUnavailable, Silent, itemVars, config
      <3>2. Active /\ receipts \in Seq(Statuses)
        BY <3>1 DEF Active, BatchInv, TypeOK
      <3> QED BY <3>1, <3>2, StageStep
    <2> QED BY <2>1, <2>2
  <1>5. CASE BatchRefused
    BY <1>5, ReturningSteps, ReceivingSteps
  <1>6. CASE BatchAnswered \/ BatchDefaulted \/ BatchUncertain
    BY <1>6, ReceivingSteps
  <1>7. CASE OpenChunk
    BY <1>7, OpenStep
  <1>8. CASE WsSend \/ RestSend
    BY <1>8, SendStep
  <1>9. CASE CacheAndEmit
    BY <1>9, EmitStep
  <1>10. CASE \E i \in Items : JoinSend(i) \/ JoinAnswered(i)
    BY <1>10, JoinSendStep, JoinAnswerStep
  <1>11. CASE \E call \in flying : VenueHandles(call)
    BY <1>11, VenueStep
  <1>12. CASE Abandon
    <2>1. /\ UNCHANGED itemVars /\ UNCHANGED <<config, todo, chunk, result>>
          /\ Active /\ stage' = "abandoned" /\ receipts' = receipts
      BY <1>12 DEF Abandon, Active, Silent, itemVars, config
    <2>2. receipts \in Seq(Statuses)
      BY DEF BatchInv, TypeOK
    <2> QED BY <2>1, <2>2, StageStep
  <1>13. CASE UNCHANGED vars
    <2>1. UNCHANGED itemVars /\ UNCHANGED <<client, op, stage, todo, chunk, receipts, result>>
      BY <1>13 DEF vars, itemVars, config
    <2>2. TypeOK'
      BY <2>1 DEF BatchInv, TypeOK, itemVars
    <2>3. PlanInv'
      BY <2>1, ItemsKept DEF BatchInv, PlanInv, Active
    <2>4. (\A i \in Items : ItemInv(i)') /\ FlightInv'
      BY <2>1, ItemsKept DEF BatchInv
    <2>5. ChunkInv'
      <3>1. ASSUME stage = "emit", NEW k \in 1 .. Len(receipts)
            PROVE  Proof(chunk[Len(chunk) - Len(receipts) + k], receipts[k])'
        BY <2>1, <3>1 DEF BatchInv, ChunkInv, Proof, itemVars
      <3> QED BY <2>1, <3>1, ItemsKept DEF BatchInv, ChunkInv, Joined, itemVars
    <2>6. CoverInv'
      BY <2>1 DEF BatchInv, CoverInv, Active, itemVars
    <2>7. ReturnInv'
      BY <2>1, ItemsKept DEF BatchInv, ReturnInv, Joined, itemVars
    <2> QED BY <2>2, <2>3, <2>4, <2>5, <2>6, <2>7 DEF BatchInv
  <1> QED BY <1>1, <1>2, <1>3, <1>4, <1>5, <1>6, <1>7, <1>8, <1>9, <1>10, <1>11, <1>12, <1>13
      DEF Next, BatchStep

\* The invariant holds in every reachable state: the chunks that are left, the
\* chunk under way and the receipts account for each item once.
THEOREM BatchInvariant == Spec => []BatchInv
  <1> QED BY BatchInit, BatchNext, PTL DEF Spec

\* Every variable of a batch keeps its type.
THEOREM BatchTypes == Spec => []TypeOK
  <1>1. BatchInv => TypeOK
    BY DEF BatchInv
  <1> QED BY <1>1, BatchInvariant, PTL

\* For every grouping and every size of batch and chunk, the receipt that
\* cache_and_emit_batch_receipts or a joined command gives an item is its own
\* and is proof of what the venue did with it.
THEOREM ItemReceiptsAreProof == Spec => []ItemReceiptIsProof
  <1>1. BatchInv => ItemReceiptIsProof
    BY DEF BatchInv, ItemInv, Proof, ItemReceiptIsProof
  <1> QED BY <1>1, BatchInvariant, PTL

\* The error "missing ack" of collect_batch_acks is never reached.
THEOREM NoAckIsEverMissing == Spec => []NoAckIsMissing
  <1>1. BatchInv => NoAckIsMissing
    BY DEF BatchInv, CoverInv, NoAckIsMissing
  <1> QED BY <1>1, BatchInvariant, PTL

\* A batch that uses the venue's batch endpoint returns, also with the error of
\* a later chunk, with a receipt for every write it made, and with the unknown
\* ones on the pending list.
THEOREM BatchesReturnTracked == Spec => []BatchWritesAreTracked
  <1>1. BatchInv => BatchWritesAreTracked
    <2> SUFFICES ASSUME BatchInv, stage = "returned", ~Joined, NEW i \in Items
                 PROVE  /\ Written(i) => acks[i] # "none"
                        /\ acks[i] = "UnknownExecution" => i \in pending
      BY DEF BatchWritesAreTracked
    <2>1. executed[i] \in Nat /\ (acks[i] = "UnknownExecution" => i \in pending)
      BY DEF BatchInv, TypeOK, ItemInv
    <2>2. Written(i) => acks[i] # "none"
      BY <2>1 DEF BatchInv, ReturnInv, Written
    <2> QED BY <2>1, <2>2
  <1> QED BY <1>1, BatchInvariant, PTL
=============================================================================
