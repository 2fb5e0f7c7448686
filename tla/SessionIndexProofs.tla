------------------------- MODULE SessionIndexProofs -------------------------
(***************************************************************************)
(* Theorems about SessionIndex, for every number of updaters, all keys,    *)
(* times and namespaces and every limit.                                   *)
(***************************************************************************)
EXTENDS SessionIndex, FiniteSetTheorems, TLAPS

(* What an updater takes the index for. *)
Base(u) == IF u \in blind THEN Empty ELSE file.records

(* Whoever is at work has the lock, so that what it is about to write is   *)
(* its update of the index as it is now.                                   *)
UpdatesAreFresh ==
    \A u \in Updaters :
        /\ pc[u] # "idle" => holder = u /\ op[u] \in Updates
        /\ u \in blind => pc[u] \notin {"idle", "reading"}
        /\ pc[u] \in {"writing", "replacing"} =>
             Applies(op[u], Base(u)) /\ next[u] = Updated(op[u], Base(u))

(* What a rename puts in place of the index has been written to the disk.  *)
FilesInOrder == file.synced /\ durable.synced /\ durable.version <= file.version

(* The inductive invariant. *)
IInv == TypeOK /\ ConfirmedUpdatesSurvive /\ UpdatesAreFresh /\ FilesInOrder

-----------------------------------------------------------------------------
(* Counting by rank: when n elements have different ranks below n, exactly *)
(* m of them have a rank below m.                                          *)
LEMMA BelowRank ==
    ASSUME NEW S, IsFiniteSet(S), NEW m \in 0 .. Cardinality(S),
           NEW rank \in [S -> 0 .. Cardinality(S) - 1],
           \A j, k \in S : rank[j] = rank[k] => j = k
    PROVE  Cardinality({k \in S : rank[k] < m}) = m
<1> DEFINE n == Cardinality(S)
           Low == {k \in S : rank[k] < m}
           High == S \ Low
<1>1. n \in Nat /\ m \in Nat /\ m <= n
  BY FS_CardinalityType
<1>2. IsFiniteSet(0 .. m - 1) /\ Cardinality(0 .. m - 1) = m
  <2>1. 0 \in Int /\ m - 1 \in Int /\ (m - 1) - 0 + 1 = m /\ (0 > m - 1 <=> m = 0)
    BY <1>1
  <2>2. Cardinality(0 .. m - 1) = IF 0 > m - 1 THEN 0 ELSE (m - 1) - 0 + 1
    BY <2>1, FS_Interval
  <2> QED
    BY <2>1, <2>2, FS_Interval
<1>3. IsFiniteSet(m .. n - 1) /\ Cardinality(m .. n - 1) = n - m
  <2>1. m \in Int /\ n - 1 \in Int /\ (n - 1) - m + 1 = n - m /\ (m > n - 1 <=> n - m = 0)
    BY <1>1
  <2>2. Cardinality(m .. n - 1) = IF m > n - 1 THEN 0 ELSE (n - 1) - m + 1
    <3> HIDE DEF n
    <3> QED
      BY <2>1, FS_Interval
  <2> QED
    BY <2>1, <2>2, FS_Interval
<1>4. \A k \in S : rank[k] \in Nat /\ rank[k] < n
  BY <1>1
<1>5. [k \in Low |-> rank[k]] \in Injection(Low, 0 .. m - 1)
  BY <1>1, <1>4 DEF Injection, IsInjective
<1>6. [k \in High |-> rank[k]] \in Injection(High, m .. n - 1)
  BY <1>1, <1>4 DEF Injection, IsInjective
<1>7. Cardinality(Low) <= m
  BY <1>2, <1>5, FS_Injection
<1>8. Cardinality(High) <= n - m
  BY <1>3, <1>6, FS_Injection
<1>9. Cardinality(High) = n - Cardinality(Low) /\ IsFiniteSet(Low)
  <2>1. S \cap Low = Low /\ Low \in SUBSET S
    OBVIOUS
  <2> QED
    BY <2>1, FS_Difference, FS_Subset
<1>10. Cardinality(Low) \in Nat
  BY <1>9, FS_CardinalityType
<1> QED
  BY <1>1, <1>7, <1>8, <1>9, <1>10

-----------------------------------------------------------------------------
(* Records. *)

LEMMA IndexShape ==
    ASSUME NEW r \in Indexes
    PROVE  /\ DOMAIN r \subseteq Keys
           /\ IsFiniteSet(DOMAIN r) /\ Cardinality(DOMAIN r) \in Nat
           /\ r \in [DOMAIN r -> Entries]
           /\ \A k \in DOMAIN r : r[k].stamp \in Nat /\ r[k].archived \in BOOLEAN
           /\ \A k \in DOMAIN r : k \in Nat
<1>1. PICK S \in SUBSET Keys : r \in [S -> Entries]
  BY DEF Indexes
<1>2. DOMAIN r = S /\ S \subseteq Keys /\ r \in [DOMAIN r -> Entries]
  BY <1>1
<1>3. IsFiniteSet(DOMAIN r) /\ Cardinality(DOMAIN r) \in Nat
  BY <1>2, SessionIndexAssumption, FS_Subset, FS_CardinalityType
<1>4. \A k \in DOMAIN r : r[k].stamp \in Nat /\ r[k].archived \in BOOLEAN
  BY <1>2, SessionIndexAssumption DEF Entries
<1> QED
  BY <1>2, <1>3, <1>4, SessionIndexAssumption

(* _prune's order is a strict total order, whatever the records. *)
LEMMA PruneOrder ==
    ASSUME NEW r \in Indexes
    PROVE  /\ \A k \in DOMAIN r : ~DeletedBefore(r, k, k)
           /\ \A i, j, k \in DOMAIN r :
                DeletedBefore(r, i, j) /\ DeletedBefore(r, j, k) => DeletedBefore(r, i, k)
           /\ \A j, k \in DOMAIN r :
                j # k => DeletedBefore(r, j, k) \/ DeletedBefore(r, k, j)
<1>1. \A k \in DOMAIN r : k \in Nat /\ r[k].stamp \in Nat /\ r[k].archived \in BOOLEAN
  BY IndexShape
<1>2. \A k \in DOMAIN r : ~DeletedBefore(r, k, k)
  BY <1>1 DEF DeletedBefore, Older
<1>3. \A i, j, k \in DOMAIN r :
        DeletedBefore(r, i, j) /\ DeletedBefore(r, j, k) => DeletedBefore(r, i, k)
  BY <1>1 DEF DeletedBefore, Older
<1>4. \A j, k \in DOMAIN r : j # k => DeletedBefore(r, j, k) \/ DeletedBefore(r, k, j)
  BY <1>1 DEF DeletedBefore, Older
<1> QED
  BY <1>2, <1>3, <1>4

(* How many records go before k. *)
Rank(r, k) == Cardinality({j \in DOMAIN r : DeletedBefore(r, j, k)})

LEMMA Ranks ==
    ASSUME NEW r \in Indexes
    PROVE  /\ \A k \in DOMAIN r : Rank(r, k) \in 0 .. Cardinality(DOMAIN r) - 1
           /\ \A j, k \in DOMAIN r : DeletedBefore(r, j, k) => Rank(r, j) < Rank(r, k)
           /\ \A j, k \in DOMAIN r : Rank(r, j) = Rank(r, k) => j = k
<1> DEFINE Before(k) == {j \in DOMAIN r : DeletedBefore(r, j, k)}
<1>1. \A k \in DOMAIN r : /\ IsFiniteSet(Before(k)) /\ Cardinality(Before(k)) \in Nat
                          /\ Cardinality(Before(k)) < Cardinality(DOMAIN r)
  <2> TAKE k \in DOMAIN r
  <2>1. IsFiniteSet(DOMAIN r \ {k}) /\ Cardinality(DOMAIN r \ {k}) = Cardinality(DOMAIN r) - 1
    BY IndexShape, FS_RemoveElement
  <2>2. Before(k) \in SUBSET (DOMAIN r \ {k})
    BY PruneOrder
  <2>3. /\ IsFiniteSet(Before(k))
        /\ Cardinality(Before(k)) <= Cardinality(DOMAIN r \ {k})
    BY <2>1, <2>2, FS_Subset
  <2>4. Cardinality(Before(k)) \in Nat
    BY <2>3, FS_CardinalityType
  <2> HIDE DEF Before
  <2> QED
    BY <2>1, <2>3, <2>4, IndexShape
<1>2. \A j, k \in DOMAIN r :
        DeletedBefore(r, j, k) => Cardinality(Before(j)) < Cardinality(Before(k))
  <2> SUFFICES ASSUME NEW j \in DOMAIN r, NEW k \in DOMAIN r, DeletedBefore(r, j, k)
               PROVE  Cardinality(Before(j)) < Cardinality(Before(k))
    OBVIOUS
  <2>1. j \notin Before(j) /\ Before(j) \cup {j} \in SUBSET Before(k)
    BY PruneOrder
  <2>2. Cardinality(Before(j) \cup {j}) = Cardinality(Before(j)) + 1
    BY <1>1, <2>1, FS_AddElement
  <2>3. Cardinality(Before(j) \cup {j}) <= Cardinality(Before(k))
    BY <1>1, <2>1, FS_Subset
  <2> HIDE DEF Before
  <2> QED
    BY <1>1, <2>2, <2>3
<1>3. \A k : Rank(r, k) = Cardinality(Before(k))
  BY DEF Rank
<1> HIDE DEF Before
<1>4. \A k \in DOMAIN r : Rank(r, k) \in 0 .. Cardinality(DOMAIN r) - 1
  BY <1>1, <1>3, IndexShape
<1>5. \A j, k \in DOMAIN r : DeletedBefore(r, j, k) => Rank(r, j) < Rank(r, k)
  BY <1>2, <1>3
<1>6. \A j, k \in DOMAIN r : Rank(r, j) = Rank(r, k) => j = k
  BY <1>4, <1>5, PruneOrder, IndexShape
<1> QED
  BY <1>4, <1>5, <1>6

(* _prune leaves what fits, and never a record worth less than one it      *)
(* takes.                                                                  *)
LEMMA PrunedKeepsTheBest ==
    ASSUME NEW r \in Indexes
    PROVE  /\ Pruned(r) \in Indexes
           /\ Cardinality(DOMAIN r) <= Limit => Pruned(r) = r
           /\ Cardinality(DOMAIN r) > Limit => Cardinality(DOMAIN Pruned(r)) = Limit
           /\ \A k \in DOMAIN Pruned(r), j \in DOMAIN r \ DOMAIN Pruned(r) :
                DeletedBefore(r, j, k)
           /\ DOMAIN Pruned(r) \subseteq DOMAIN r
           /\ Pruned(r) = [k \in DOMAIN Pruned(r) |-> r[k]]
<1> DEFINE n == Cardinality(DOMAIN r)
           Gone == {k \in DOMAIN r : Rank(r, k) < n - Limit}
<1>0. n \in Nat /\ Limit \in Nat
  BY IndexShape, SessionIndexAssumption
<1>1. Pruned(r) = [k \in DOMAIN r \ Gone |-> r[k]]
  BY DEF Pruned, Without, Rank
<1>2. DOMAIN Pruned(r) = DOMAIN r \ Gone
  BY <1>1
<1>3. Pruned(r) \in Indexes
  <2>1. Pruned(r) \in [DOMAIN r \ Gone -> Entries]
    BY <1>1, IndexShape
  <2>2. DOMAIN r \ Gone \in SUBSET Keys
    BY IndexShape
  <2> HIDE DEF Gone
  <2> QED
    BY <2>1, <2>2 DEF Indexes
<1>4. n <= Limit => Pruned(r) = r
  <2> SUFFICES ASSUME n <= Limit PROVE Pruned(r) = r
    OBVIOUS
  <2>1. Gone = {}
    BY <1>0, Ranks
  <2>2. r = [k \in DOMAIN r |-> r[k]]
    BY IndexShape
  <2> HIDE DEF Gone
  <2> QED
    BY <1>1, <2>1, <2>2
<1>5. n > Limit => Cardinality(DOMAIN Pruned(r)) = Limit
  <2> SUFFICES ASSUME n > Limit PROVE Cardinality(DOMAIN Pruned(r)) = Limit
    OBVIOUS
  <2> DEFINE rank == [k \in DOMAIN r |-> Rank(r, k)]
             m == n - Limit
  <2>1. m \in 0 .. n
    BY <1>0
  <2>2. rank \in [DOMAIN r -> 0 .. n - 1]
    BY Ranks
  <2>3. \A j, k \in DOMAIN r : rank[j] = rank[k] => j = k
    BY Ranks
  <2>4. Gone = {k \in DOMAIN r : rank[k] < m}
    OBVIOUS
  <2>5. IsFiniteSet(DOMAIN r)
    BY IndexShape
  <2>6. Cardinality({k \in DOMAIN r : rank[k] < m}) = m
    <3> HIDE DEF rank, m
    <3> QED
      BY <2>1, <2>2, <2>3, <2>5, BelowRank
  <2>7. DOMAIN r \cap Gone = Gone
    OBVIOUS
  <2>8. Cardinality(DOMAIN r \ Gone) = n - Cardinality(Gone)
    BY <2>5, <2>7, FS_Difference
  <2>9. Cardinality(Gone) = m
    BY <2>4, <2>6
  <2> HIDE DEF Gone
  <2> QED
    BY <1>0, <1>2, <2>8, <2>9
<1>6. \A k \in DOMAIN Pruned(r), j \in DOMAIN r \ DOMAIN Pruned(r) : DeletedBefore(r, j, k)
  <2> SUFFICES ASSUME NEW k \in DOMAIN r \ Gone, NEW j \in Gone
               PROVE  DeletedBefore(r, j, k)
    BY <1>2
  <2>1. Rank(r, j) < Rank(r, k)
    BY <1>0, Ranks, IndexShape
  <2>2. j # k /\ ~DeletedBefore(r, k, j)
    BY <2>1, Ranks
  <2> QED
    BY <2>2, PruneOrder
<1> QED
  BY <1>1, <1>2, <1>3, <1>4, <1>5, <1>6
-----------------------------------------------------------------------------
(* The updates. *)

LEMMA UpdateShape ==
    ASSUME NEW o \in Updates
    PROVE  /\ o.kind \in {"upsert", "rename", "fork", "archive", "delete", "clear"}
           /\ o.kind = "upsert" =>
                o.key \in Keys /\ o.stamp \in Times /\ o.archived \in BOOLEAN \cup {None}
           /\ o.kind = "rename" => o.key \in Keys /\ o.stamp \in Times
           /\ o.kind = "fork" => o.key \in Keys /\ o.stamp \in Times
           /\ o.kind = "archive" =>
                o.key \in Keys /\ o.stamp \in Times /\ o.archived \in BOOLEAN
           /\ o.kind = "delete" => o.key \in Keys
           /\ o.kind = "clear" => o.keys \in Namespaces \cup {Keys}
BY DEF Updates

LEMMA FlagType ==
    ASSUME NEW r \in Indexes, NEW o \in Updates, Applies(o, r),
           o.kind \in {"upsert", "fork", "rename", "archive"}
    PROVE  Flag(o, r) \in BOOLEAN
<1>1. \A k \in DOMAIN r : r[k].archived \in BOOLEAN
  BY IndexShape
<1>2. CASE o.kind = "archive"
  BY <1>2, UpdateShape DEF Flag
<1>3. CASE o.kind = "rename"
  BY <1>1, <1>3 DEF Flag, Applies
<1>4. CASE o.kind = "fork"
  BY <1>4 DEF Flag
<1>5. CASE o.kind = "upsert"
  <2>1. CASE o.archived # None
    BY <1>5, <2>1, UpdateShape DEF Flag
  <2>2. CASE o.archived = None
    <3>1. Flag(o, r) = (o.key \in DOMAIN r /\ r[o.key].archived)
      BY <1>5, <2>2 DEF Flag
    <3> QED
      BY <3>1
  <2> QED
    BY <2>1, <2>2
<1> QED
  BY <1>2, <1>3, <1>4, <1>5

LEMMA WithShape ==
    ASSUME NEW r \in Indexes, NEW k \in Keys, NEW stamp \in Times, NEW flag \in BOOLEAN
    PROVE  With(r, k, stamp, flag) \in Indexes /\ DOMAIN With(r, k, stamp, flag) = DOMAIN r \cup {k}
<1>1. DOMAIN With(r, k, stamp, flag) = DOMAIN r \cup {k}
  BY DEF With
<1>2. [stamp |-> stamp, archived |-> flag] \in Entries
  BY DEF Entries
<1>3. With(r, k, stamp, flag) \in [DOMAIN r \cup {k} -> Entries]
  BY <1>2, IndexShape DEF With
<1>4. DOMAIN r \cup {k} \in SUBSET Keys
  BY IndexShape
<1> QED
  BY <1>1, <1>3, <1>4 DEF Indexes

LEMMA WithoutShape ==
    ASSUME NEW r \in Indexes, NEW S
    PROVE  /\ Without(r, S) \in Indexes
           /\ Cardinality(DOMAIN Without(r, S)) <= Cardinality(DOMAIN r)
<1>1. DOMAIN Without(r, S) = DOMAIN r \ S
  BY DEF Without
<1>2. Without(r, S) \in [DOMAIN r \ S -> Entries]
  BY IndexShape DEF Without
<1>3. DOMAIN r \ S \in SUBSET Keys
  BY IndexShape
<1>4. Cardinality(DOMAIN r \ S) <= Cardinality(DOMAIN r)
  BY IndexShape, FS_Subset
<1> QED
  BY <1>1, <1>2, <1>3, <1>4 DEF Indexes

(* Every update of an index within its bound is one. *)
LEMMA UpdatedShape ==
    ASSUME NEW r \in Indexes, Cardinality(DOMAIN r) <= Limit,
           NEW o \in Updates, Applies(o, r)
    PROVE  Updated(o, r) \in Indexes /\ Cardinality(DOMAIN Updated(o, r)) <= Limit
<1>0. Limit \in Nat /\ Cardinality(DOMAIN r) \in Nat
  BY IndexShape, SessionIndexAssumption
<1>1. CASE o.kind = "delete"
  <2>1. Updated(o, r) = Without(r, {o.key})
    BY <1>1 DEF Updated
  <2>2. DOMAIN Without(r, {o.key}) = DOMAIN r \ {o.key} /\ DOMAIN r \ {o.key} \in SUBSET DOMAIN r
    BY DEF Without
  <2>3. Cardinality(DOMAIN r \ {o.key}) <= Cardinality(DOMAIN r) /\ Cardinality(DOMAIN r \ {o.key}) \in Nat
    BY IndexShape, <2>2, FS_Subset, FS_CardinalityType
  <2> QED
    BY <1>0, <2>1, <2>2, <2>3, WithoutShape
<1>2. CASE o.kind = "clear"
  <2>1. Updated(o, r) = Without(r, o.keys)
    BY <1>2 DEF Updated
  <2>2. DOMAIN Without(r, o.keys) = DOMAIN r \ o.keys /\ DOMAIN r \ o.keys \in SUBSET DOMAIN r
    BY DEF Without
  <2>3. Cardinality(DOMAIN r \ o.keys) <= Cardinality(DOMAIN r) /\ Cardinality(DOMAIN r \ o.keys) \in Nat
    BY IndexShape, <2>2, FS_Subset, FS_CardinalityType
  <2> QED
    BY <1>0, <2>1, <2>2, <2>3, WithoutShape
<1>3. CASE o.kind \in {"upsert", "fork"}
  <2> DEFINE w == With(r, o.key, o.stamp, Flag(o, r))
  <2>1. w \in Indexes
    BY <1>3, FlagType, UpdateShape, WithShape
  <2>2. Updated(o, r) = Pruned(w)
    BY <1>3 DEF Updated
  <2> HIDE DEF w
  <2>3. Cardinality(DOMAIN w) \in Nat
    BY <2>1, IndexShape
  <2>4. Pruned(w) \in Indexes /\ Cardinality(DOMAIN Pruned(w)) <= Limit
    BY <1>0, <2>1, <2>3, PrunedKeepsTheBest
  <2> QED
    BY <2>2, <2>4
<1>4. CASE o.kind \in {"rename", "archive"}
  <2>1. Updated(o, r) = With(r, o.key, o.stamp, Flag(o, r))
    BY <1>4 DEF Updated
  <2>2. DOMAIN r \cup {o.key} = DOMAIN r
    BY <1>4 DEF Applies
  <2>3. o.key \in Keys /\ o.stamp \in Times /\ Flag(o, r) \in BOOLEAN
    BY <1>4, FlagType, UpdateShape
  <2>4. /\ With(r, o.key, o.stamp, Flag(o, r)) \in Indexes
        /\ DOMAIN With(r, o.key, o.stamp, Flag(o, r)) = DOMAIN r
    BY <2>2, <2>3, WithShape
  <2> QED
    BY <2>1, <2>4
<1> QED
  BY <1>1, <1>2, <1>3, <1>4, UpdateShape

LEMMA EmptyIndex == Empty \in Indexes /\ DOMAIN Empty = {} /\ Cardinality(DOMAIN Empty) = 0
<1>1. DOMAIN Empty = {} /\ Empty \in [{} -> Entries]
  BY DEF Empty
<1> QED
  BY <1>1, FS_EmptySet DEF Indexes

(* What an updater takes the index for is within the bound. *)
LEMMA BaseShape ==
    ASSUME TypeOK, NEW u \in Updaters
    PROVE  Base(u) \in Indexes /\ Cardinality(DOMAIN Base(u)) <= Limit
<1>1. file.records \in Indexes /\ Cardinality(DOMAIN file.records) <= Limit
  BY DEF TypeOK, Files
<1> QED
  BY <1>1, EmptyIndex, SessionIndexAssumption DEF Base

-----------------------------------------------------------------------------
(* The steps. *)

LEMMA InitIInv == Init => IInv
<1> SUFFICES ASSUME Init PROVE IInv
  OBVIOUS
<1>1. file \in Files /\ durable \in Files
  BY EmptyIndex DEF Init, Files
<1>2. \A f \in {file, durable} : Cardinality(DOMAIN f.records) <= Limit
  BY EmptyIndex, SessionIndexAssumption DEF Init
<1>3. TypeOK
  BY <1>1, <1>2, EmptyIndex DEF Init, TypeOK, Places
<1>4. ConfirmedUpdatesSurvive /\ UpdatesAreFresh /\ FilesInOrder
  BY DEF Init, ConfirmedUpdatesSurvive, UpdatesAreFresh, FilesInOrder
<1> QED
  BY <1>3, <1>4 DEF IInv

LEMMA LockIInv ==
    ASSUME IInv, NEW u \in Updaters, NEW o \in Updates, Lock(u, o)
    PROVE  IInv'
<1> USE DEF IInv, Lock, LockFree, Goto
<1>1. TypeOK'
  BY DEF TypeOK, Places
<1>2. ConfirmedUpdatesSurvive' /\ FilesInOrder'
  BY DEF ConfirmedUpdatesSurvive, FilesInOrder
<1>3. UpdatesAreFresh'
  <2>1. \A v \in Updaters : pc[v] = "idle"
    BY SessionIndexAssumption DEF UpdatesAreFresh
  <2>2. pc'[u] = "reading" /\ op'[u] = o /\ \A v \in Updaters : v # u => pc'[v] = "idle"
    BY <2>1 DEF TypeOK
  <2>3. \A v \in Updaters : v \notin blind
    BY <2>1 DEF UpdatesAreFresh
  <2> QED
    BY <2>2, <2>3 DEF UpdatesAreFresh
<1> QED
  BY <1>1, <1>2, <1>3

(* Whoever is at work is the only one. *)
LEMMA Alone ==
    ASSUME IInv, NEW u \in Updaters, pc[u] # "idle"
    PROVE  holder = u /\ \A v \in Updaters : v # u => pc[v] = "idle" /\ v \notin blind
BY DEF IInv, UpdatesAreFresh

LEMMA ReadIInv ==
    ASSUME IInv, NEW u \in Updaters, Read(u)
    PROVE  IInv'
<1>1. pc[u] = "reading" /\ op[u] \in Updates /\ u \notin blind
  BY DEF IInv, UpdatesAreFresh, Read
<1>2. /\ holder = u /\ \A v \in Updaters : v # u => pc[v] = "idle" /\ v \notin blind
  BY <1>1, Alone
<1>3. blind' \in SUBSET Updaters
  BY DEF IInv, TypeOK, Read
<1>4. \A v \in Updaters : v # u => v \notin blind'
  BY <1>2 DEF Read
<1>5. Proceed(u, Base(u)')
  BY <1>1 DEF Read, Base
<1>6. Base(u)' \in Indexes /\ Cardinality(DOMAIN Base(u)') <= Limit
  <2>1. file' = file /\ file.records \in Indexes /\ Cardinality(DOMAIN file.records) <= Limit
    BY DEF IInv, TypeOK, Files, Read
  <2> QED
    BY <2>1, EmptyIndex, SessionIndexAssumption DEF Base
<1>7. UNCHANGED <<file, durable, holder, op, confirmed>>
  BY DEF Read
<1> DEFINE base == Base(u)'
<1> HIDE DEF base
<1>8. Proceed(u, base) /\ base \in Indexes /\ Cardinality(DOMAIN base) <= Limit
  BY <1>5, <1>6 DEF base
<1>9. Applies(op[u], base) =>
        Updated(op[u], base) \in Indexes /\ Cardinality(DOMAIN Updated(op[u], base)) <= Limit
  BY <1>1, <1>8, UpdatedShape
<1>10. next' \in [Updaters -> Indexes] /\ pc' \in [Updaters -> Places]
  BY <1>8, <1>9 DEF Proceed, Goto, IInv, TypeOK, Places
<1>11. TypeOK'
  BY <1>3, <1>7, <1>10 DEF IInv, TypeOK
<1>12. ConfirmedUpdatesSurvive' /\ FilesInOrder'
  BY <1>7 DEF IInv, ConfirmedUpdatesSurvive, FilesInOrder
<1>13. /\ pc'[u] \in {"writing", "unlocking"}
       /\ \A v \in Updaters : v # u => pc'[v] = "idle"
       /\ pc'[u] = "writing" => Applies(op[u], base) /\ next'[u] = Updated(op[u], base)
  BY <1>2, <1>8 DEF Proceed, Goto, IInv, TypeOK
<1>14. UpdatesAreFresh'
  <2> SUFFICES ASSUME NEW v \in Updaters
               PROVE  /\ pc'[v] # "idle" => holder' = v /\ op'[v] \in Updates
                      /\ v \in blind' => pc'[v] \notin {"idle", "reading"}
                      /\ pc'[v] \in {"writing", "replacing"} =>
                           Applies(op'[v], Base(v)') /\ next'[v] = Updated(op'[v], Base(v)')
    BY DEF UpdatesAreFresh, Applies, Updated, Flag, Base
  <2>1. CASE v # u
    BY <1>4, <1>13, <2>1
  <2>2. CASE v = u
    BY <1>1, <1>2, <1>7, <1>13, <2>2 DEF base
  <2> QED
    BY <2>1, <2>2
<1> QED
  BY <1>11, <1>12, <1>14 DEF IInv
(* A step that leaves the files, the updates and what was read alone. *)
LEMMA WriteIInv ==
    ASSUME IInv, NEW u \in Updaters, WriteTemporary(u) \/ WriteFails(u)
    PROVE  IInv'
<1>1. /\ pc[u] \in {"writing", "replacing"}
      /\ pc' = [pc EXCEPT ![u] = "replacing"] \/ pc' = [pc EXCEPT ![u] = "unlocking"]
      /\ UNCHANGED <<file, durable, holder, op, next, blind, confirmed>>
  BY DEF WriteTemporary, WriteFails, Goto
<1>2. TypeOK'
  BY <1>1 DEF IInv, TypeOK, Places
<1>3. ConfirmedUpdatesSurvive' /\ FilesInOrder'
  BY <1>1 DEF IInv, ConfirmedUpdatesSurvive, FilesInOrder
<1>4. UpdatesAreFresh'
  <2> SUFFICES ASSUME NEW v \in Updaters
               PROVE  /\ pc'[v] # "idle" => holder' = v /\ op'[v] \in Updates
                      /\ v \in blind' => pc'[v] \notin {"idle", "reading"}
                      /\ pc'[v] \in {"writing", "replacing"} =>
                           Applies(op'[v], Base(v)') /\ next'[v] = Updated(op'[v], Base(v)')
    BY DEF UpdatesAreFresh, Applies, Updated, Flag, Base
  <2>1. Base(v)' = Base(v)
    BY <1>1 DEF Base
  <2>2. /\ pc[v] # "idle" => holder = v /\ op[v] \in Updates
        /\ v \in blind => pc[v] \notin {"idle", "reading"}
        /\ pc[v] \in {"writing", "replacing"} =>
             Applies(op[v], Base(v)) /\ next[v] = Updated(op[v], Base(v))
    BY DEF IInv, UpdatesAreFresh
  <2>3. pc' \in [Updaters -> Places] /\ (v # u => pc'[v] = pc[v])
    BY <1>1, <1>2 DEF TypeOK, IInv
  <2>4. pc[u] \in {"writing", "replacing"} /\ pc'[u] \in {"replacing", "unlocking"}
    BY <1>1 DEF IInv, TypeOK
  <2> QED
    BY <1>1, <2>1, <2>2, <2>3, <2>4
<1> QED
  BY <1>2, <1>3, <1>4 DEF IInv

(* What is about to be written is within the bound. *)
LEMMA NextShape ==
    ASSUME IInv, NEW u \in Updaters, pc[u] \in {"writing", "replacing"}
    PROVE  /\ next[u] \in Indexes /\ Cardinality(DOMAIN next[u]) <= Limit
           /\ op[u] \in Updates /\ Applies(op[u], Base(u))
           /\ next[u] = Updated(op[u], Base(u))
<1>1. /\ op[u] \in Updates /\ Applies(op[u], Base(u))
      /\ next[u] = Updated(op[u], Base(u))
  BY DEF IInv, UpdatesAreFresh
<1>2. Base(u) \in Indexes /\ Cardinality(DOMAIN Base(u)) <= Limit
  BY BaseShape DEF IInv
<1> QED
  BY <1>1, <1>2, UpdatedShape

LEMMA ReplaceIInv ==
    ASSUME IInv, NEW u \in Updaters, Replace(u)
    PROVE  IInv'
<1>1. /\ pc[u] = "replacing" /\ file' = Written(u)
      /\ pc' = [pc EXCEPT ![u] = "syncing"] \/ pc' = [pc EXCEPT ![u] = "unlocking"]
      /\ UNCHANGED <<durable, holder, op, next, blind, confirmed>>
  BY DEF Replace, Goto
<1>2. next[u] \in Indexes /\ Cardinality(DOMAIN next[u]) <= Limit
  BY <1>1, NextShape
<1>3. file \in Files /\ durable \in Files /\ confirmed \in Nat
  BY DEF IInv, TypeOK
<1>4. /\ file' \in Files /\ file'.records = next[u] /\ file'.synced /\ file'.whole
      /\ file'.version = file.version + 1
  BY <1>1, <1>2, <1>3 DEF Written, Files
<1>5. file.version \in Nat /\ durable.version \in Nat
  BY <1>3 DEF Files
<1>6. TypeOK'
  BY <1>1, <1>2, <1>4 DEF IInv, TypeOK, Places
<1>7. ConfirmedUpdatesSurvive' /\ FilesInOrder'
  BY <1>1, <1>3, <1>4, <1>5 DEF IInv, ConfirmedUpdatesSurvive, FilesInOrder
<1>8. UpdatesAreFresh'
  <2>1. \A v \in Updaters : v # u => pc[v] = "idle" /\ v \notin blind
    BY <1>1, Alone
  <2>2. pc'[u] \in {"syncing", "unlocking"} /\ \A v \in Updaters : v # u => pc'[v] = pc[v]
    BY <1>1 DEF IInv, TypeOK
  <2>3. holder' = u /\ op'[u] \in Updates
    BY <1>1 DEF IInv, UpdatesAreFresh
  <2> QED
    BY <1>1, <2>1, <2>2, <2>3 DEF UpdatesAreFresh
<1> QED
  BY <1>6, <1>7, <1>8 DEF IInv

(* The file is on the disk with all of its content. *)
LEMMA OnDiskIsWhole == IInv => OnDisk(file) = file
<1> SUFFICES ASSUME IInv PROVE OnDisk(file) = file
  OBVIOUS
<1>1. file \in Files /\ file.whole /\ file.synced
  BY DEF IInv, TypeOK, ConfirmedUpdatesSurvive, FilesInOrder
<1>2. file.whole = TRUE
  BY <1>1 DEF Files
<1>3. OnDisk(file) = [file EXCEPT !.whole = (file.whole /\ file.synced)]
  BY DEF OnDisk
<1>4. (file.whole /\ file.synced) = TRUE
  BY <1>1
<1> QED
  BY <1>1, <1>2, <1>3, <1>4 DEF Files

LEMMA SyncIInv ==
    ASSUME IInv, NEW u \in Updaters, Sync(u)
    PROVE  IInv'
<1>1. /\ pc[u] = "syncing" /\ pc' = [pc EXCEPT ![u] = "unlocking"]
      /\ (durable' = file /\ confirmed' = file.version) \/ UNCHANGED <<durable, confirmed>>
      /\ UNCHANGED <<file, holder, op, next, blind>>
  BY OnDiskIsWhole DEF Sync, SyncDirectory, Goto
<1>2. file \in Files /\ file.version \in Nat
  BY DEF IInv, TypeOK, Files
<1>3. TypeOK'
  BY <1>1, <1>2 DEF IInv, TypeOK, Places
<1>4. ConfirmedUpdatesSurvive' /\ FilesInOrder'
  BY <1>1, <1>2 DEF IInv, ConfirmedUpdatesSurvive, FilesInOrder
<1>5. UpdatesAreFresh'
  <2>1. \A v \in Updaters : v # u => pc[v] = "idle" /\ v \notin blind
    BY <1>1, Alone
  <2>2. pc'[u] = "unlocking" /\ \A v \in Updaters : v # u => pc'[v] = pc[v]
    BY <1>1 DEF IInv, TypeOK
  <2>3. holder' = u /\ op'[u] \in Updates
    BY <1>1 DEF IInv, UpdatesAreFresh
  <2> QED
    BY <1>1, <2>1, <2>2, <2>3 DEF UpdatesAreFresh
<1> QED
  BY <1>3, <1>4, <1>5 DEF IInv

(* The end of an update, by its own doing or by a kill. *)
LEMMA EndIInv ==
    ASSUME IInv, NEW u \in Updaters, Unlock(u) \/ Killed(u)
    PROVE  IInv'
<1>1. /\ pc[u] # "idle" /\ pc' = [pc EXCEPT ![u] = "idle"]
      /\ op' = [op EXCEPT ![u] = None] /\ next' = [next EXCEPT ![u] = Empty]
      /\ blind' = blind \ {u}
      /\ UNCHANGED <<file, durable, confirmed>>
  BY DEF Unlock, Killed, Done, Goto
<1>2. holder' = None
  BY <1>1, Alone DEF Unlock, Killed
<1>3. TypeOK'
  BY <1>1, <1>2, EmptyIndex DEF IInv, TypeOK, Places
<1>4. ConfirmedUpdatesSurvive' /\ FilesInOrder'
  BY <1>1 DEF IInv, ConfirmedUpdatesSurvive, FilesInOrder
<1>5. \A v \in Updaters : pc'[v] = "idle" /\ v \notin blind'
  BY <1>1, Alone DEF IInv, TypeOK
<1>6. UpdatesAreFresh'
  BY <1>5 DEF UpdatesAreFresh
<1> QED
  BY <1>3, <1>4, <1>6 DEF IInv

LEMMA WritebackIInv ==
    ASSUME IInv, Writeback
    PROVE  IInv'
<1>1. durable' = file /\ UNCHANGED <<file, holder, pc, op, next, blind, confirmed>>
  BY OnDiskIsWhole DEF Writeback
<1>2. file \in Files /\ durable \in Files /\ confirmed \in Nat
  BY DEF IInv, TypeOK
<1>3. TypeOK'
  BY <1>1 DEF IInv, TypeOK
<1>4. ConfirmedUpdatesSurvive' /\ FilesInOrder'
  BY <1>1, <1>2 DEF IInv, ConfirmedUpdatesSurvive, FilesInOrder, Files
<1>5. UpdatesAreFresh'
  BY <1>1 DEF IInv, UpdatesAreFresh, Applies, Updated, Flag, Base
<1> QED
  BY <1>3, <1>4, <1>5 DEF IInv

LEMMA PowerFailsIInv ==
    ASSUME IInv, PowerFails
    PROVE  IInv'
<1>1. TypeOK'
  BY EmptyIndex DEF PowerFails, IInv, TypeOK, Places
<1>2. durable.version \in Nat
  BY DEF IInv, TypeOK, Files
<1>3. ConfirmedUpdatesSurvive' /\ FilesInOrder'
  BY <1>2 DEF PowerFails, IInv, ConfirmedUpdatesSurvive, FilesInOrder
<1>4. UpdatesAreFresh'
  BY DEF PowerFails, UpdatesAreFresh
<1> QED
  BY <1>1, <1>3, <1>4 DEF IInv

LEMMA StepIInv == IInv /\ [Next]_vars => IInv'
<1> SUFFICES ASSUME IInv, [Next]_vars PROVE IInv'
  OBVIOUS
<1>1. CASE \E u \in Updaters, o \in Updates : Lock(u, o)
  BY <1>1, LockIInv
<1>2. CASE \E u \in Updaters : Read(u)
  BY <1>2, ReadIInv
<1>3. CASE \E u \in Updaters : WriteTemporary(u) \/ WriteFails(u)
  BY <1>3, WriteIInv
<1>4. CASE \E u \in Updaters : Replace(u)
  BY <1>4, ReplaceIInv
<1>5. CASE \E u \in Updaters : Sync(u)
  BY <1>5, SyncIInv
<1>6. CASE \E u \in Updaters : Unlock(u) \/ Killed(u)
  BY <1>6, EndIInv
<1>7. CASE Writeback
  BY <1>7, WritebackIInv
<1>8. CASE PowerFails
  BY <1>8, PowerFailsIInv
<1>9. CASE UNCHANGED vars
  <2>1. TypeOK'
    BY <1>9 DEF vars, IInv, TypeOK
  <2>2. ConfirmedUpdatesSurvive' /\ FilesInOrder'
    BY <1>9 DEF vars, IInv, ConfirmedUpdatesSurvive, FilesInOrder
  <2>3. UpdatesAreFresh'
    BY <1>9 DEF vars, IInv, UpdatesAreFresh, Applies, Updated, Flag, Base
  <2> QED
    BY <2>1, <2>2, <2>3 DEF IInv
<1> QED
  BY <1>1, <1>2, <1>3, <1>4, <1>5, <1>6, <1>7, <1>8, <1>9 DEF Next

-----------------------------------------------------------------------------
(* Theorems. *)

(* The inductive invariant: whoever is at work has the lock, and what it   *)
(* is about to write is its update of the index as it now is.              *)
THEOREM Invariance == Spec => []IInv
<1> QED
  BY InitIInv, StepIInv, PTL DEF Spec

(* Every variable keeps its type, and the index on the disk, which a power *)
(* failure brings back, its bound.                                         *)
THEOREM TypeCorrect == Spec => []TypeOK
<1>1. IInv => TypeOK
  BY DEF IInv
<1> QED
  BY <1>1, Invariance, PTL

(* The index is never torn, and an update known to be durable is never     *)
(* lost, whatever fails.                                                   *)
THEOREM Durability == Spec => []ConfirmedUpdatesSurvive
<1>1. IInv => ConfirmedUpdatesSurvive
  BY DEF IInv
<1> QED
  BY <1>1, Invariance, PTL

-----------------------------------------------------------------------------
(* The refinement. *)

LEMMA SameCardinality == \A S : Abstract!Cardinality(S) = Cardinality(S)
BY DEF Abstract!Cardinality, Cardinality, Abstract!IsFiniteSet, IsFiniteSet

LEMMA SameWith ==
    ASSUME NEW r, NEW k, NEW stamp, NEW flag
    PROVE  With(r, k, stamp, flag) = Abstract!With(r, k, [stamp |-> stamp, archived |-> flag])
BY DEF With, Abstract!With

LEMMA SameEmpty == Abstract!Empty = Empty
BY DEF Abstract!Empty, Empty

(* What _prune leaves is what the abstract index may keep. *)
LEMMA PrunedIsKept ==
    ASSUME NEW r \in Indexes
    PROVE  Pruned(r) \in Abstract!Kept(r)
<1> DEFINE S == DOMAIN Pruned(r)
<1>0. Cardinality(DOMAIN r) \in Nat /\ Limit \in Nat
  BY IndexShape, SessionIndexAssumption
<1>1. CASE Cardinality(DOMAIN r) <= Limit
  <2>1. Pruned(r) = r
    BY <1>1, PrunedKeepsTheBest
  <2> QED
    BY <1>1, <2>1, SameCardinality DEF Abstract!Kept
<1>2. CASE ~(Cardinality(DOMAIN r) <= Limit)
  <2>1. Cardinality(S) = Limit
    BY <1>0, <1>2, PrunedKeepsTheBest
  <2>2. \A k \in S, j \in DOMAIN r \ S : Abstract!WorthAtLeast(r[k], r[j])
    <3> SUFFICES ASSUME NEW k \in S, NEW j \in DOMAIN r \ S
                 PROVE  Abstract!WorthAtLeast(r[k], r[j])
      OBVIOUS
    <3>1. DeletedBefore(r, j, k) /\ k \in DOMAIN r
      BY PrunedKeepsTheBest
    <3>2. r[k].stamp \in Nat /\ r[j].stamp \in Nat
      BY <3>1, IndexShape
    <3> QED
      BY <3>1, <3>2 DEF DeletedBefore, Older, Abstract!WorthAtLeast
  <2>3. S \in SUBSET DOMAIN r /\ Pruned(r) = Abstract!Restricted(r, S)
    BY PrunedKeepsTheBest DEF Abstract!Restricted
  <2> HIDE DEF S
  <2> QED
    BY <1>2, <2>1, <2>2, <2>3, SameCardinality DEF Abstract!Kept
<1> QED
  BY <1>1, <1>2

(* An update that adds or changes a record stores one. *)
LEMMA StoresOne ==
    ASSUME NEW r \in Indexes, Cardinality(DOMAIN r) <= Limit,
           NEW o \in Updates, Applies(o, r),
           o.kind \in {"upsert", "fork", "rename", "archive"}
    PROVE  \E k \in Keys, e \in Abstract!Entries :
               Updated(o, r) \in Abstract!Kept(Abstract!With(r, k, e))
<1> DEFINE e == [stamp |-> o.stamp, archived |-> Flag(o, r)]
           w == With(r, o.key, o.stamp, Flag(o, r))
<1>1. o.key \in Keys /\ o.stamp \in Times /\ Flag(o, r) \in BOOLEAN
  BY FlagType, UpdateShape
<1>2. e \in Abstract!Entries
  BY <1>1 DEF Abstract!Entries
<1>3. w \in Indexes /\ DOMAIN w = DOMAIN r \cup {o.key}
  BY <1>1, WithShape
<1>4. w = Abstract!With(r, o.key, e)
  BY SameWith
<1>5. Updated(o, r) \in Abstract!Kept(w)
  <2>1. CASE o.kind \in {"upsert", "fork"}
    <3>1. Updated(o, r) = Pruned(w)
      BY <2>1 DEF Updated
    <3> HIDE DEF w
    <3> QED
      BY <1>3, <3>1, PrunedIsKept
  <2>2. CASE o.kind \in {"rename", "archive"}
    <3>1. Updated(o, r) = w
      BY <2>2 DEF Updated
    <3>2. DOMAIN w = DOMAIN r
      BY <1>3, <2>2 DEF Applies
    <3> HIDE DEF w
    <3> QED
      BY <3>1, <3>2, SameCardinality DEF Abstract!Kept
  <2> QED
    BY <2>1, <2>2
<1> HIDE DEF w, e
<1> QED
  BY <1>1, <1>2, <1>4, <1>5

(* Any other update removes some. *)
LEMMA RemovesSome ==
    ASSUME NEW r \in Indexes, NEW o \in Updates, o.kind \in {"delete", "clear"}
    PROVE  \E S \in {{k} : k \in Keys} \cup Namespaces \cup {Keys} :
               Updated(o, r) = Abstract!Restricted(r, DOMAIN r \ S)
<1>1. CASE o.kind = "delete"
  <2>1. Updated(o, r) = Abstract!Restricted(r, DOMAIN r \ {o.key})
    BY <1>1 DEF Updated, Without, Abstract!Restricted
  <2>2. o.key \in Keys
    BY <1>1, UpdateShape
  <2> QED
    BY <2>1, <2>2
<1>2. CASE o.kind = "clear"
  <2>1. Updated(o, r) = Abstract!Restricted(r, DOMAIN r \ o.keys)
    BY <1>2 DEF Updated, Without, Abstract!Restricted
  <2>2. o.keys \in Namespaces \cup {Keys}
    BY <1>2, UpdateShape
  <2> QED
    BY <2>1, <2>2
<1> QED
  BY <1>1, <1>2

(* The one step that changes the index: an update of it, or of nothing. *)
LEMMA ReplaceRefines ==
    ASSUME IInv, NEW u \in Updaters, Replace(u)
    PROVE  Abstract!Next
<1>1. /\ pc[u] = "replacing" /\ file'.records = next[u]
      /\ durable' = durable /\ blind' = blind
  BY DEF Replace, Written
<1>2. /\ op[u] \in Updates /\ Applies(op[u], Base(u))
      /\ next[u] = Updated(op[u], Base(u))
  BY <1>1, NextShape
<1>3. Base(u) \in Indexes /\ Cardinality(DOMAIN Base(u)) <= Limit
  BY BaseShape DEF IInv
<1>4. \A v \in Updaters : v # u => v \notin blind
  BY <1>1, Alone
<1>5. op[u].kind \in {"upsert", "rename", "fork", "archive", "delete", "clear"}
  BY <1>2, UpdateShape
<1>6. blind \in SUBSET Updaters
  BY DEF IInv, TypeOK
<1>7. CASE u \notin blind
  <2>1. blind = {} /\ Base(u) = file.records
    BY <1>4, <1>6, <1>7 DEF Base
  <2>2. CASE op[u].kind \in {"upsert", "fork", "rename", "archive"}
    <3>1. \E k \in Keys, e \in Abstract!Entries :
              file'.records \in Abstract!Kept(Abstract!With(file.records, k, e))
      BY <1>1, <1>2, <1>3, <2>1, <2>2, StoresOne
    <3> QED
      BY <1>1, <2>1, <3>1 DEF Abstract!Next, Abstract!Store
  <2>3. CASE op[u].kind \in {"delete", "clear"}
    <3>1. \E S \in {{k} : k \in Keys} \cup Namespaces \cup {Keys} :
              file'.records = Abstract!Restricted(file.records, DOMAIN file.records \ S)
      BY <1>1, <1>2, <1>3, <2>1, <2>3, RemovesSome
    <3> QED
      BY <1>1, <2>1, <3>1 DEF Abstract!Next, Abstract!Remove
  <2> QED
    BY <1>5, <2>2, <2>3
<1>8. CASE u \in blind
  <2>1. blind # {} /\ Base(u) = Empty /\ DOMAIN Empty = {}
    BY <1>8, EmptyIndex DEF Base
  <2>2. op[u].kind = "upsert"
    BY <1>2, <1>5, <2>1 DEF Applies
  <2> DEFINE e == [stamp |-> op[u].stamp, archived |-> Flag(op[u], Empty)]
             w == With(Empty, op[u].key, op[u].stamp, Flag(op[u], Empty))
  <2>3. op[u].key \in Keys /\ op[u].stamp \in Times /\ Flag(op[u], Empty) \in BOOLEAN
    BY <1>2, <2>1, <2>2, EmptyIndex, FlagType, UpdateShape
  <2>4. e \in Abstract!Entries
    BY <2>3 DEF Abstract!Entries
  <2>5. w \in Indexes /\ DOMAIN w = {op[u].key}
    BY <2>1, <2>3, EmptyIndex, WithShape
  <2>6. w = Abstract!With(Abstract!Empty, op[u].key, e)
    BY SameWith, SameEmpty
  <2>7. Updated(op[u], Empty) = Pruned(w)
    BY <2>2 DEF Updated
  <2> HIDE DEF w, e
  <2>8. Cardinality(DOMAIN w) = 1
    BY <2>5, FS_Singleton
  <2>9. Pruned(w) = w
    BY <2>5, <2>8, PrunedKeepsTheBest, SessionIndexAssumption
  <2>10. \E k \in Keys, f \in Abstract!Entries : file'.records = Abstract!With(Abstract!Empty, k, f)
    BY <1>1, <1>2, <2>1, <2>3, <2>4, <2>6, <2>7, <2>9
  <2> QED
    BY <1>1, <2>1, <2>10 DEF Abstract!Next, Abstract!StartOver
<1> QED
  BY <1>7, <1>8

LEMMA InitRefines == Init => Abstract!Init
BY SameEmpty DEF Init, Abstract!Init

LEMMA StepRefines == IInv /\ [Next]_vars => [Abstract!Next]_(Abstract!vars)
<1> SUFFICES ASSUME IInv, [Next]_vars PROVE Abstract!Next \/ UNCHANGED Abstract!vars
  OBVIOUS
<1>1. ASSUME UNCHANGED <<file, durable, blind>> PROVE UNCHANGED Abstract!vars
  BY <1>1 DEF Abstract!vars
<1>2. ASSUME UNCHANGED <<file, durable>> PROVE Abstract!Next
  BY <1>2 DEF Abstract!Next, Abstract!Look
<1>3. ASSUME UNCHANGED <<file, blind>>, durable' = file PROVE Abstract!Next
  BY <1>3 DEF Abstract!Next, Abstract!Persist
<1>4. ASSUME NEW u \in Updaters, NEW o \in Updates, Lock(u, o)
      PROVE  UNCHANGED Abstract!vars
  BY <1>1, <1>4 DEF Lock
<1>5. ASSUME NEW u \in Updaters, Read(u) \/ Unlock(u) \/ Killed(u) PROVE Abstract!Next
  BY <1>2, <1>5 DEF Read, Unlock, Killed
<1>6. ASSUME NEW u \in Updaters, WriteTemporary(u) \/ WriteFails(u)
      PROVE  UNCHANGED Abstract!vars
  BY <1>1, <1>6 DEF WriteTemporary, WriteFails
<1>7. ASSUME NEW u \in Updaters, Sync(u) PROVE Abstract!Next \/ UNCHANGED Abstract!vars
  <2>1. UNCHANGED <<file, blind>> /\ (durable' = file \/ durable' = durable)
    BY <1>7, OnDiskIsWhole DEF Sync, SyncDirectory
  <2> QED
    BY <1>1, <1>3, <2>1
<1>8. CASE Writeback
  BY <1>3, <1>8, OnDiskIsWhole DEF Writeback
<1>9. CASE PowerFails
  BY <1>9 DEF PowerFails, Abstract!Next, Abstract!PowerFails
<1>10. CASE UNCHANGED vars
  BY <1>1, <1>10 DEF vars
<1> QED
  BY <1>4, <1>5, <1>6, <1>7, <1>8, <1>9, <1>10, ReplaceRefines DEF Next

(* Every behaviour of the lock, the temporary file and the rename is one   *)
(* of an index that is updated in one step.                                *)
THEOREM Refinement == Spec => ImplementsAtomicIndex
<1> QED
  BY InitRefines, StepRefines, Invariance, PTL DEF Spec, ImplementsAtomicIndex, Abstract!Spec
=============================================================================
