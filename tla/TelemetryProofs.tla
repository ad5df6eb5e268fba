--------------------------- MODULE TelemetryProofs ---------------------------
(***************************************************************************)
(* For any tuples and caps.  The exposure batcher accounts for each call   *)
(* of record() exactly once and its map stays bounded.  And whatever is    *)
(* lost, refused, broken off or half stored on the way to the server: no   *)
(* evaluation is counted twice in the exposures table, and without a       *)
(* failure none is missing from it.                                        *)
(***************************************************************************)
EXTENDS Telemetry, FiniteSetTheorems, WellFoundedInduction, TLAPS

-----------------------------------------------------------------------------
(* The exposure batcher: how the helpers on counts behave at one tuple.    *)
LEMMA EmptyCounts == Empty \in Counts /\ Keys(Empty) = {}
  BY DEF Empty, Counts, Keys

LEMMA PlusCounts ==
  ASSUME NEW m \in Counts, NEW n \in Counts
  PROVE  Plus(m, n) \in Counts /\ \A t \in Tuples : Plus(m, n)[t] = m[t] + n[t]
  BY DEF Plus, Counts

LEMMA OneCounts ==
  ASSUME NEW t \in Tuples
  PROVE  One(t) \in Counts /\ \A u \in Tuples : One(t)[u] = IF u = t THEN 1 ELSE 0
  BY DEF One, Counts

(* flush() keeps types and moves rows without losing any. *)
LEMMA FlushOfMoves ==
  ASSUME TypeOK, NEW m \in Counts, FlushOf(m), \A t \in Tuples : ~flushing => batch[t] = 0
  PROVE  /\ buffer' \in Counts /\ batch' \in Counts /\ flushing' \in BOOLEAN
         /\ \A t \in Tuples : buffer'[t] + batch'[t] = m[t] + batch[t]
         /\ \A t \in Tuples : ~flushing' => batch'[t] = 0
         /\ buffer' \in {m, Empty}
<1>1. CASE Flushable(m)
  <2>1. flushing' = TRUE /\ batch' = m /\ buffer' = Empty /\ ~flushing
    BY <1>1 DEF FlushOf, Flushable, Send
  <2>2. \A t \in Tuples : Empty[t] = 0 /\ batch[t] = 0 /\ m[t] \in Nat
    BY <2>1 DEF Empty, Counts
  <2> QED BY <2>1, <2>2, EmptyCounts
<1>2. CASE ~Flushable(m)
  BY <1>2 DEF FlushOf, TypeOK
<1> QED BY <1>1, <1>2

-----------------------------------------------------------------------------
(* Between sends no row is in flight: without this, Conservation is not     *)
(* inductive, because a flush overwrites `batch`.                           *)
IdleIsEmpty == \A t \in Tuples : ~flushing => batch[t] = 0

BatcherInv == TypeOK /\ IdleIsEmpty /\ Conservation

LEMMA InitBatcherInv == Init => BatcherInv
<1> SUFFICES ASSUME Init PROVE BatcherInv
  OBVIOUS
<1>1. TypeOK
  BY EmptyCounts DEF Init, TypeOK
<1>2. \A t \in Tuples : /\ buffer[t] = 0 /\ batch[t] = 0 /\ recorded[t] = 0
                        /\ dropped[t] = 0 /\ settled[t] = 0
  BY DEF Init, Empty
<1> QED BY <1>1, <1>2 DEF BatcherInv, IdleIsEmpty, Conservation

LEMMA RecordKeepsInv ==
  ASSUME BatcherInv, NEW t \in Tuples, Record(t)
  PROVE  BatcherInv'
<1> USE DEF BatcherInv, TypeOK, IdleIsEmpty, Conservation
<1>1. recorded' \in Counts /\ \A u \in Tuples : recorded'[u] = recorded[u] + IF u = t THEN 1 ELSE 0
  BY PlusCounts, OneCounts DEF Record
<1>2. UNCHANGED <<scheduled, settled>>
  BY DEF Record
<1>3. CASE RecordKnown(t)
  BY <1>1, <1>2, <1>3 DEF RecordKnown, Counts
<1>4. CASE RecordDropped(t)
  <2>1. dropped' \in Counts /\ \A u \in Tuples : dropped'[u] = dropped[u] + IF u = t THEN 1 ELSE 0
    BY <1>4, PlusCounts, OneCounts DEF RecordDropped
  <2>2. UNCHANGED <<buffer, flushing, batch>>
    BY <1>4 DEF RecordDropped
  <2>3. Conservation'
    <3> SUFFICES ASSUME NEW u \in Tuples
                 PROVE  recorded'[u] = buffer'[u] + batch'[u] + settled'[u] + dropped'[u]
      OBVIOUS
    <3> QED BY <1>1, <1>2, <2>1, <2>2 DEF Counts
  <2> QED BY <1>1, <1>2, <2>1, <2>2, <2>3
<1>5. CASE RecordNew(t)
  <2> DEFINE m == [buffer EXCEPT ![t] = 1]
  <2>1. m \in Counts /\ \A u \in Tuples : m[u] = buffer[u] + IF u = t THEN 1 ELSE 0
    BY <1>5 DEF RecordNew, Counts
  <2>2. dropped' = dropped
    BY <1>5 DEF RecordNew
  <2>3. FlushOf(m) \/ (buffer' = m /\ UNCHANGED <<flushing, batch>>)
    BY <1>5 DEF RecordNew
  <2> HIDE DEF m
  <2>4. /\ buffer' \in Counts /\ batch' \in Counts /\ flushing' \in BOOLEAN
        /\ \A u \in Tuples : buffer'[u] + batch'[u] = m[u] + batch[u]
        /\ \A u \in Tuples : ~flushing' => batch'[u] = 0
    BY <2>1, <2>3, FlushOfMoves
  <2>5. Conservation'
    <3> SUFFICES ASSUME NEW u \in Tuples
                 PROVE  recorded'[u] = buffer'[u] + batch'[u] + settled'[u] + dropped'[u]
      OBVIOUS
    <3>1. m[u] \in Nat /\ buffer'[u] \in Nat /\ batch'[u] \in Nat
      BY <2>1, <2>4 DEF Counts
    <3> QED BY <1>1, <1>2, <2>1, <2>2, <2>4, <3>1 DEF Counts
  <2> QED BY <1>1, <1>2, <2>2, <2>4, <2>5
<1> QED BY <1>3, <1>4, <1>5 DEF Record

LEMMA NextKeepsInv == BatcherInv /\ [Next]_vars => BatcherInv'
<1> SUFFICES ASSUME BatcherInv, [Next]_vars PROVE BatcherInv'
  OBVIOUS
<1> USE DEF BatcherInv, TypeOK, IdleIsEmpty, Conservation
<1>1. CASE \E t \in Tuples : Record(t)
  BY <1>1, RecordKeepsInv
<1>2. CASE Tick
  BY <1>2, EmptyCounts DEF Tick, Flush, Flushable, Send, Empty, Counts
<1>3. CASE Settle
  <2>1. settled' \in Counts /\ \A t \in Tuples : settled'[t] = settled[t] + batch[t]
    BY <1>3, PlusCounts DEF Settle
  <2>2. /\ batch' = Empty /\ UNCHANGED <<buffer, scheduled, recorded, dropped>>
        /\ flushing' = FALSE
    BY <1>3 DEF Settle
  <2>3. Conservation'
    <3> SUFFICES ASSUME NEW u \in Tuples
                 PROVE  recorded'[u] = buffer'[u] + batch'[u] + settled'[u] + dropped'[u]
      OBVIOUS
    <3> QED BY <2>1, <2>2 DEF Empty, Counts
  <2> QED BY <2>1, <2>2, <2>3, EmptyCounts DEF Empty
<1>4. CASE Close
  <2>1. FlushOf(buffer) /\ buffer \in Counts
    BY <1>4 DEF Close
  <2>2. /\ buffer' \in Counts /\ batch' \in Counts /\ flushing' \in BOOLEAN
        /\ \A u \in Tuples : buffer'[u] + batch'[u] = buffer[u] + batch[u]
        /\ \A u \in Tuples : ~flushing' => batch'[u] = 0
    BY <2>1, FlushOfMoves
  <2> QED BY <1>4, <2>2 DEF Close, Counts
<1>5. CASE UNCHANGED vars
  BY <1>5 DEF vars
<1> QED BY <1>1, <1>2, <1>3, <1>4, <1>5 DEF Next

(* Every call of record() is still buffered, in flight, settled or dropped, *)
(* and exactly one of these: exposure-batcher.ts loses no row between the   *)
(* map and the transport and sends none twice.                              *)
THEOREM ConservationHolds == Spec => []Conservation
<1>1. BatcherInv => Conservation
  BY DEF BatcherInv
<1> QED BY <1>1, InitBatcherInv, NextKeepsInv, PTL DEF Spec

-----------------------------------------------------------------------------
(* Recording a tuple adds at most one key to the map. *)
LEMMA OneMoreKey ==
  ASSUME NEW m \in Counts, NEW t \in Tuples, IsFiniteSet(Keys(m)), NEW n \in Nat
  PROVE  /\ IsFiniteSet(Keys([m EXCEPT ![t] = n]))
         /\ Cardinality(Keys([m EXCEPT ![t] = n])) <= Cardinality(Keys(m)) + 1
         /\ m[t] > 0 => Cardinality(Keys([m EXCEPT ![t] = n])) <= Cardinality(Keys(m))
<1>1. Keys([m EXCEPT ![t] = n]) \subseteq Keys(m) \cup {t}
  BY DEF Keys, Counts
<1>2. /\ IsFiniteSet(Keys(m) \cup {t})
      /\ Cardinality(Keys(m) \cup {t}) = IF t \in Keys(m) THEN Cardinality(Keys(m))
                                         ELSE Cardinality(Keys(m)) + 1
  BY FS_AddElement
<1>3. /\ IsFiniteSet(Keys([m EXCEPT ![t] = n]))
      /\ Cardinality(Keys([m EXCEPT ![t] = n])) <= Cardinality(Keys(m) \cup {t})
  BY <1>1, <1>2, FS_Subset
<1>4. Cardinality(Keys(m)) \in Nat /\ Cardinality(Keys([m EXCEPT ![t] = n])) \in Nat
  BY <1>3, FS_CardinalityType
<1>5. m[t] > 0 => t \in Keys(m)
  BY DEF Keys
<1> QED BY <1>2, <1>3, <1>4, <1>5

BoundInv == TypeOK /\ IdleIsEmpty /\ Conservation /\ IsFiniteSet(Keys(buffer)) /\ DistinctBounded

LEMMA FlushKeepsBound ==
  ASSUME NEW m \in Counts, FlushOf(m) \/ buffer' = m, IsFiniteSet(Keys(m)),
         Cardinality(Keys(m)) <= MaxDistinct
  PROVE  IsFiniteSet(Keys(buffer')) /\ Cardinality(Keys(buffer')) <= MaxDistinct
<1>1. buffer' = m \/ buffer' = Empty
  BY DEF FlushOf, Send
<1>2. IsFiniteSet({}) /\ Cardinality({}) = 0
  BY FS_EmptySet
<1> QED BY <1>1, <1>2, EmptyCounts, BatcherAssumption DEF BatcherAssumption

LEMMA NextKeepsBound == BoundInv /\ [Next]_vars => BoundInv'
<1> SUFFICES ASSUME BoundInv, [Next]_vars PROVE BoundInv'
  OBVIOUS
<1> DEFINE Bounded(m) == IsFiniteSet(Keys(m)) /\ Cardinality(Keys(m)) <= MaxDistinct
<1>1. BatcherInv'
  BY NextKeepsInv DEF BoundInv, BatcherInv
<1>2. buffer \in Counts /\ Bounded(buffer)
  BY DEF BoundInv, TypeOK, DistinctBounded
<1>3. Cardinality(Keys(buffer)) \in Nat /\ MaxDistinct \in Nat
  BY <1>2, FS_CardinalityType, BatcherAssumption DEF BatcherAssumption
<1>4. ASSUME NEW t \in Tuples, Record(t) PROVE Bounded(buffer')
  <2>1. CASE RecordKnown(t)
    <3>1. buffer[t] > 0 /\ buffer[t] + 1 \in Nat /\ buffer' = [buffer EXCEPT ![t] = buffer[t] + 1]
      BY <1>2, <2>1 DEF RecordKnown, Counts
    <3>2. /\ IsFiniteSet(Keys(buffer'))
          /\ Cardinality(Keys(buffer')) <= Cardinality(Keys(buffer))
      BY <1>2, <3>1, OneMoreKey
    <3>3. Cardinality(Keys(buffer')) \in Nat
      BY <3>2, FS_CardinalityType
    <3> QED BY <1>2, <1>3, <3>2, <3>3
  <2>2. CASE RecordDropped(t)
    BY <1>2, <2>2 DEF RecordDropped
  <2>3. CASE RecordNew(t)
    <3> DEFINE m == [buffer EXCEPT ![t] = 1]
    <3>1. m \in Counts
      BY <1>2 DEF Counts
    <3>2. IsFiniteSet(Keys(m)) /\ Cardinality(Keys(m)) <= Cardinality(Keys(buffer)) + 1
      BY <1>2, OneMoreKey
    <3>3. Cardinality(Keys(buffer)) < MaxDistinct /\ Cardinality(Keys(m)) \in Nat
      BY <2>3, <3>2, FS_CardinalityType DEF RecordNew
    <3>4. FlushOf(m) \/ buffer' = m
      BY <2>3 DEF RecordNew
    <3>5. Cardinality(Keys(m)) <= MaxDistinct
      BY <1>3, <3>2, <3>3
    <3> HIDE DEF m
    <3> QED BY <3>1, <3>2, <3>4, <3>5, FlushKeepsBound
  <2> QED BY <1>4, <2>1, <2>2, <2>3 DEF Record
<1>5. CASE Tick \/ Close
  <2>1. FlushOf(buffer)
    BY <1>5 DEF Tick, Flush, Close, FlushOf
  <2> QED BY <1>1, <1>2, <2>1, FlushKeepsBound DEF BoundInv, BatcherInv, DistinctBounded
<1>6. CASE Settle \/ UNCHANGED vars
  BY <1>1, <1>2, <1>6 DEF Settle, vars, BoundInv, BatcherInv, DistinctBounded
<1>7. CASE \E t \in Tuples : Record(t)
  BY <1>1, <1>4, <1>7 DEF BoundInv, BatcherInv, DistinctBounded
<1> QED BY <1>5, <1>6, <1>7 DEF Next

(* The map never holds more than maxDistinctExposures tuples, however long  *)
(* a send takes to settle.                                                  *)
THEOREM DistinctBoundedHolds == Spec => []DistinctBounded
<1>1. Init => BoundInv
  BY InitBatcherInv, EmptyCounts, FS_EmptySet, BatcherAssumption
  DEF BoundInv, BatcherInv, Init, DistinctBounded, BatcherAssumption
<1>2. BoundInv => DistinctBounded
  BY DEF BoundInv
<1> QED BY <1>1, <1>2, NextKeepsBound, PTL DEF Spec

-----------------------------------------------------------------------------
(* Sums over a sequence.  The induction theorems of the library that take  *)
(* an operator are out of the provers' reach; WFMin takes a set.           *)

LEMMA NatSetInduction ==
  ASSUME NEW T \in SUBSET Nat, 0 \in T, \A n \in T : n + 1 \in T
  PROVE  T = Nat
<1> DEFINE U == Nat \ T
<1> SUFFICES ASSUME U # {} PROVE FALSE
  OBVIOUS
<1>1. \E x \in U : \A y \in U : ~(<<y, x>> \in OpToRel(<, Nat))
  BY WFMin, NatLessThanWellFounded
<1>2. PICK x \in U : \A y \in U : ~(<<y, x>> \in OpToRel(<, Nat))
  BY <1>1
<1>3. x # 0 /\ x - 1 \in Nat /\ x - 1 < x /\ (x - 1) + 1 = x
  OBVIOUS
<1>4. <<x - 1, x>> \in OpToRel(<, Nat)
  BY <1>3 DEF OpToRel
<1>5. x - 1 \in T
  BY <1>2, <1>3, <1>4
<1> QED BY <1>3, <1>5

\* s holds the sums of the first 0, 1, 2, ... of n numbers.
PartialSums(s, c, n) == s = [k \in 0 .. n |-> IF k = 0 THEN 0 ELSE s[k - 1] + c[k]]

LEMMA PartialSumsUnique ==
  ASSUME NEW n \in Nat, NEW c, NEW s, NEW u, PartialSums(s, c, n), PartialSums(u, c, n)
  PROVE  s[n] = u[n]
<1> DEFINE T == {k \in Nat : k <= n => s[k] = u[k]}
<1>1. 0 \in T
  BY DEF PartialSums
<1>2. ASSUME NEW k \in T PROVE k + 1 \in T
  <2> SUFFICES ASSUME k + 1 <= n PROVE s[k + 1] = u[k + 1]
    OBVIOUS
  <2>1. k \in Nat /\ k <= n /\ k + 1 \in 0 .. n /\ k + 1 # 0 /\ (k + 1) - 1 = k
    OBVIOUS
  <2>2. s[k] = u[k]
    BY <2>1
  <2>3. s[k + 1] = s[(k + 1) - 1] + c[k + 1] /\ u[k + 1] = u[(k + 1) - 1] + c[k + 1]
    BY <2>1 DEF PartialSums
  <2> QED BY <2>1, <2>2, <2>3
<1>3. T = Nat
  BY <1>1, <1>2, NatSetInduction
<1> QED BY <1>3

LEMMA PartialSumsExist ==
  ASSUME NEW c \in Seq(Nat)
  PROVE  \E s : s \in [0 .. Len(c) -> Nat] /\ PartialSums(s, c, Len(c))
<1> DEFINE Sums(n) == \E s : s \in [0 .. n -> Nat] /\ PartialSums(s, c, n)
           T == {n \in Nat : n <= Len(c) => Sums(n)}
<1>0. Len(c) \in Nat /\ \A k \in 1 .. Len(c) : c[k] \in Nat
  OBVIOUS
<1>1. 0 \in T
  <2>1. [k \in 0 .. 0 |-> 0] \in [0 .. 0 -> Nat] /\ PartialSums([k \in 0 .. 0 |-> 0], c, 0)
    BY DEF PartialSums
  <2> QED BY <2>1
<1>2. ASSUME NEW n \in T PROVE n + 1 \in T
  <2> HIDE DEF Sums
  <2>0. n \in Nat /\ n + 1 \in Nat
    OBVIOUS
  <2> SUFFICES ASSUME n + 1 <= Len(c) PROVE Sums(n + 1)
    BY <2>0
  <2>1. n \in Nat /\ n <= Len(c) /\ n + 1 \in 1 .. Len(c) /\ c[n + 1] \in Nat
    <3>1. n <= Len(c) /\ n + 1 \in 1 .. Len(c)
      BY <1>0, <2>0
    <3> QED BY <1>0, <2>0, <3>1
  <2>2. PICK s : s \in [0 .. n -> Nat] /\ PartialSums(s, c, n)
    BY <2>1 DEF Sums
  <2> DEFINE u == [k \in 0 .. n + 1 |-> IF k <= n THEN s[k] ELSE s[n] + c[n + 1]]
  <2>3. u \in [0 .. n + 1 -> Nat]
    BY <2>1, <2>2
  <2>4. ASSUME NEW k \in 0 .. n + 1 PROVE u[k] = IF k = 0 THEN 0 ELSE u[k - 1] + c[k]
    <3>1. CASE k <= n
      <4>1. k \in 0 .. n /\ (k # 0 => k - 1 \in 0 .. n /\ k - 1 <= n)
        BY <2>1, <3>1
      <4>2. s[k] = IF k = 0 THEN 0 ELSE s[k - 1] + c[k]
        BY <2>2, <4>1 DEF PartialSums
      <4> QED BY <3>1, <4>1, <4>2
    <3>2. CASE k = n + 1
      BY <2>1, <2>2, <3>2
    <3> QED BY <2>1, <3>1, <3>2
  <2>5. PartialSums(u, c, n + 1)
    BY <2>4 DEF PartialSums
  <2> QED BY <2>3, <2>5 DEF Sums
<1>3. T = Nat
  BY <1>1, <1>2, NatSetInduction
<1>4. Sums(Len(c))
  BY <1>0, <1>3
<1> QED BY <1>4

\* Any function of partial sums gives the total.
LEMMA TotalIs ==
  ASSUME NEW c \in Seq(Nat), NEW s, PartialSums(s, c, Len(c))
  PROVE  Total(c) = s[Len(c)] /\ Total(c) \in Nat
<1> DEFINE sum == CHOOSE u : u = [k \in 0 .. Len(c) |-> IF k = 0 THEN 0 ELSE u[k - 1] + c[k]]
<1>1. sum = [k \in 0 .. Len(c) |-> IF k = 0 THEN 0 ELSE sum[k - 1] + c[k]]
  BY DEF PartialSums
<1>2. PartialSums(sum, c, Len(c)) /\ Len(c) \in Nat
  <2>1. Len(c) \in Nat
    OBVIOUS
  <2> HIDE DEF sum
  <2> QED BY <1>1, <2>1 DEF PartialSums
<1>3. Total(c) = sum[Len(c)]
  BY DEF Total
<1> HIDE DEF sum
<1>4. sum[Len(c)] = s[Len(c)]
  BY <1>2, PartialSumsUnique
<1>5. PICK v : v \in [0 .. Len(c) -> Nat] /\ PartialSums(v, c, Len(c))
  BY PartialSumsExist
<1>6. v[Len(c)] = s[Len(c)]
  BY <1>2, <1>5, PartialSumsUnique
<1>7. v[Len(c)] \in Nat
  BY <1>2, <1>5
<1> QED BY <1>3, <1>4, <1>6, <1>7

LEMMA TotalZero ==
  ASSUME NEW c \in Seq(Nat), \A k \in 1 .. Len(c) : c[k] = 0
  PROVE  Total(c) = 0
<1> DEFINE s == [k \in 0 .. Len(c) |-> 0]
<1>1. PartialSums(s, c, Len(c)) /\ s[Len(c)] = 0
  BY DEF PartialSums
<1> HIDE DEF s
<1> QED BY <1>1, TotalIs

LEMMA TotalAppend ==
  ASSUME NEW c \in Seq(Nat), NEW x \in Nat
  PROVE  Total(Append(c, x)) = Total(c) + x
<1> DEFINE d == Append(c, x)
<1>1. PICK s : s \in [0 .. Len(c) -> Nat] /\ PartialSums(s, c, Len(c))
  BY PartialSumsExist
<1> DEFINE u == [k \in 0 .. Len(c) + 1 |-> IF k <= Len(c) THEN s[k] ELSE s[Len(c)] + x]
<1>2. /\ d \in Seq(Nat) /\ Len(c) \in Nat /\ Len(d) = Len(c) + 1 /\ d[Len(c) + 1] = x
      /\ \A k \in 1 .. Len(c) : d[k] = c[k]
  OBVIOUS
<1> HIDE DEF d
<1>3. ASSUME NEW k \in 0 .. Len(c) + 1 PROVE u[k] = IF k = 0 THEN 0 ELSE u[k - 1] + d[k]
  <2>1. CASE k <= Len(c)
    <3>1. k \in 0 .. Len(c) /\ (k # 0 => k - 1 <= Len(c) /\ k \in 1 .. Len(c))
      BY <1>2, <2>1
    <3>2. s[k] = IF k = 0 THEN 0 ELSE s[k - 1] + c[k]
      BY <1>1, <3>1 DEF PartialSums
    <3> QED BY <1>2, <2>1, <3>1, <3>2
  <2>2. CASE k = Len(c) + 1
    BY <1>1, <1>2, <2>2
  <2> QED BY <1>2, <2>1, <2>2
<1>4. PartialSums(u, d, Len(d))
  BY <1>2, <1>3 DEF PartialSums
<1>5. Total(d) = u[Len(d)]
  BY <1>2, <1>4, TotalIs
<1>6. Total(c) = s[Len(c)]
  BY <1>1, TotalIs
<1> QED BY <1>2, <1>5, <1>6 DEF d

LEMMA TotalChange ==
  ASSUME NEW c \in Seq(Nat), NEW n \in 1 .. Len(c), NEW x \in Nat
  PROVE  Total([c EXCEPT ![n] = x]) = Total(c) - c[n] + x
<1> DEFINE d == [c EXCEPT ![n] = x]
<1>1. PICK s : s \in [0 .. Len(c) -> Nat] /\ PartialSums(s, c, Len(c))
  BY PartialSumsExist
<1> DEFINE u == [k \in 0 .. Len(c) |-> IF k < n THEN s[k] ELSE s[k] - c[n] + x]
<1>2. /\ d \in Seq(Nat) /\ Len(c) \in Nat /\ Len(d) = Len(c) /\ d[n] = x
      /\ \A k \in 1 .. Len(c) : c[k] \in Nat /\ (k # n => d[k] = c[k])
  OBVIOUS
<1> HIDE DEF d
<1>3. ASSUME NEW k \in 0 .. Len(c) PROVE u[k] = IF k = 0 THEN 0 ELSE u[k - 1] + d[k]
  <2>1. s[k] = IF k = 0 THEN 0 ELSE s[k - 1] + c[k]
    BY <1>1, <1>2 DEF PartialSums
  <2>2. s[k] \in Nat /\ (k # 0 => s[k - 1] \in Nat /\ k - 1 \in 0 .. Len(c))
    <3>1. k # 0 => k - 1 \in 0 .. Len(c)
      BY <1>2
    <3>2. s \in [0 .. Len(c) -> Nat]
      BY <1>1
    <3> QED BY <3>1, <3>2
  <2>3. k # 0 => k \in 1 .. Len(c) /\ c[k] \in Nat
    BY <1>2
  <2>4. CASE k < n
    BY <1>2, <2>1, <2>2, <2>3, <2>4
  <2>5. CASE k = n
    BY <1>2, <2>1, <2>2, <2>3, <2>5
  <2>6. CASE k > n
    <3>1. k # 0 /\ ~(k < n) /\ k # n /\ ~(k - 1 < n)
      BY <1>2, <2>6
    <3>2. d[k] = c[k] /\ s[k] = s[k - 1] + c[k] /\ c[n] \in Nat
      BY <1>2, <2>1, <2>3, <3>1
    <3>3. u[k] = s[k] - c[n] + x /\ u[k - 1] = s[k - 1] - c[n] + x
      BY <2>2, <3>1
    <3>4. \A a, b, e \in Nat : (a + b) - e + x = (a - e + x) + b
      OBVIOUS
    <3>5. s[k - 1] \in Nat /\ c[n] \in Nat /\ c[k] \in Nat
      BY <2>2, <2>3, <3>1, <3>2
    <3>6. s[k] - c[n] + x = (s[k - 1] - c[n] + x) + c[k]
      BY <3>2, <3>4, <3>5
    <3> HIDE DEF u
    <3> QED BY <3>1, <3>2, <3>3, <3>6
  <2> QED BY <1>2, <2>4, <2>5, <2>6
<1>4. PartialSums(u, d, Len(d))
  BY <1>2, <1>3 DEF PartialSums
<1>5. Total(d) = u[Len(c)]
  BY <1>2, <1>4, TotalIs
<1>6. Total(c) = s[Len(c)] /\ u[Len(c)] = s[Len(c)] - c[n] + x
  BY <1>1, <1>2, TotalIs
<1> QED BY <1>5, <1>6 DEF d

-----------------------------------------------------------------------------
(* Rows on the way, request by request. *)
Posts == [rows : Counts, stage : {"wire", "storing", "over"}]
RowsOf(p, t) == [n \in DOMAIN p |-> p[n].rows[t]]

LEMMA RowsAreCounts ==
  ASSUME NEW p \in Seq(Posts), NEW t \in Tuples
  PROVE  /\ RowsOf(p, t) \in Seq(Nat) /\ Len(RowsOf(p, t)) = Len(p) /\ Len(p) \in Nat
         /\ DOMAIN p = 1 .. Len(p)
         /\ \A n \in DOMAIN p : RowsOf(p, t)[n] = p[n].rows[t]
         /\ Total(RowsOf(p, t)) \in Nat
<1>1. Len(p) \in Nat /\ DOMAIN p = 1 .. Len(p) /\ \A n \in DOMAIN p : p[n] \in Posts
  OBVIOUS
<1>2. \A n \in DOMAIN p : p[n].rows[t] \in Nat
  BY <1>1 DEF Posts, Counts
<1>3. RowsOf(p, t) \in Seq(Nat) /\ Len(RowsOf(p, t)) = Len(p)
  BY <1>1, <1>2 DEF RowsOf
<1>4. \E s : s \in [0 .. Len(RowsOf(p, t)) -> Nat] /\ PartialSums(s, RowsOf(p, t), Len(RowsOf(p, t)))
  BY <1>3, PartialSumsExist
<1>5. Total(RowsOf(p, t)) \in Nat
  BY <1>3, <1>4, TotalIs
<1> QED BY <1>1, <1>3, <1>5 DEF RowsOf

LEMMA SendingAddsRows ==
  ASSUME NEW p \in Seq(Posts), NEW r \in Posts, NEW t \in Tuples
  PROVE  Total(RowsOf(Append(p, r), t)) = Total(RowsOf(p, t)) + r.rows[t]
<1>1. r.rows[t] \in Nat
  BY DEF Posts, Counts
<1>2. RowsOf(Append(p, r), t) = Append(RowsOf(p, t), r.rows[t])
  <2>1. Append(p, r) \in Seq(Posts)
    OBVIOUS
  <2>2. Len(Append(p, r)) = Len(p) + 1 /\ Append(p, r)[Len(p) + 1] = r
        /\ \A n \in DOMAIN p : Append(p, r)[n] = p[n]
    OBVIOUS
  <2> DEFINE c == RowsOf(Append(p, r), t)
             d == Append(RowsOf(p, t), r.rows[t])
  <2>3. c \in Seq(Nat) /\ Len(c) = Len(p) + 1 /\ \A n \in 1 .. Len(p) + 1 : c[n] = Append(p, r)[n].rows[t]
    BY <2>1, <2>2, RowsAreCounts
  <2>4. /\ RowsOf(p, t) \in Seq(Nat) /\ Len(RowsOf(p, t)) = Len(p) /\ Len(p) \in Nat
        /\ \A n \in 1 .. Len(p) : RowsOf(p, t)[n] = p[n].rows[t]
    BY RowsAreCounts
  <2>5. d \in Seq(Nat) /\ Len(d) = Len(p) + 1 /\ d[Len(p) + 1] = r.rows[t]
        /\ \A n \in 1 .. Len(p) : d[n] = p[n].rows[t]
    BY <1>1, <2>4
  <2> HIDE DEF c, d
  <2>6. \A n \in 1 .. Len(p) + 1 : n \in 1 .. Len(p) \/ n = Len(p) + 1
    BY <2>4
  <2>7. DOMAIN p = 1 .. Len(p)
    OBVIOUS
  <2>8. \A n \in 1 .. Len(p) + 1 : c[n] = d[n]
    BY <2>2, <2>3, <2>5, <2>6, <2>7
  <2>9. c = d
    BY <2>3, <2>5, <2>8
  <2> QED BY <2>9 DEF c, d
<1> QED BY <1>1, <1>2, RowsAreCounts, TotalAppend

LEMMA MovingChangesRows ==
  ASSUME NEW p \in Seq(Posts), NEW n \in DOMAIN p, NEW r \in Posts, NEW t \in Tuples
  PROVE  Total(RowsOf([p EXCEPT ![n] = r], t)) = Total(RowsOf(p, t)) - p[n].rows[t] + r.rows[t]
<1>1. r.rows[t] \in Nat
  BY DEF Posts, Counts
<1>2. RowsOf([p EXCEPT ![n] = r], t) = [RowsOf(p, t) EXCEPT ![n] = r.rows[t]]
  BY DEF RowsOf
<1>3. n \in 1 .. Len(RowsOf(p, t)) /\ RowsOf(p, t)[n] = p[n].rows[t]
  BY RowsAreCounts
<1> QED BY <1>1, <1>2, <1>3, RowsAreCounts, TotalChange

-----------------------------------------------------------------------------
(* What the client has handed over is counted, on the way or lost, tuple by *)
(* tuple; and as long as nothing has failed nothing is lost, and only the   *)
(* request the client still waits for is under way.                         *)
ServerTypeOK ==
  /\ posts \in Seq(Posts) /\ counted \in Counts /\ faulty \in BOOLEAN
  /\ \A n \in DOMAIN posts : posts[n].stage = "over" => posts[n].rows = Empty
AtMostSent == \A t \in Tuples : counted[t] + OnTheWay(t) <= settled[t] + batch[t]
ExactlySent == ~faulty => \A t \in Tuples : counted[t] + OnTheWay(t) = settled[t] + batch[t]
LastUnderWay ==
  ~faulty => \A n \in DOMAIN posts : posts[n].stage # "over" => flushing /\ n = Len(posts)

TelemetryInv == BatcherInv /\ ServerTypeOK /\ AtMostSent /\ ExactlySent /\ LastUnderWay

LEMMA OnTheWayIs ==
  /\ \A t \in Tuples : OnTheWay(t) = Total(RowsOf(posts, t))
  /\ \A t \in Tuples : OnTheWay(t)' = Total(RowsOf(posts', t))
  BY DEF OnTheWay, RowsOf

LEMMA InitTelemetryInv == InitAll => TelemetryInv
<1> SUFFICES ASSUME InitAll PROVE TelemetryInv
  OBVIOUS
<1>1. BatcherInv
  BY InitBatcherInv DEF InitAll
<1>2. posts = <<>> /\ posts \in Seq(Posts) /\ Len(posts) = 0 /\ DOMAIN posts = {}
  BY DEF InitAll
<1>3. ServerTypeOK /\ LastUnderWay
  BY <1>2, EmptyCounts DEF InitAll, ServerTypeOK, LastUnderWay
<1>4. \A t \in Tuples : OnTheWay(t) = 0
  <2> TAKE t \in Tuples
  <2>1. RowsOf(posts, t) \in Seq(Nat) /\ Len(RowsOf(posts, t)) = 0
    BY <1>2, RowsAreCounts
  <2>2. \A k \in 1 .. Len(RowsOf(posts, t)) : RowsOf(posts, t)[k] = 0
    BY <2>1
  <2>3. Total(RowsOf(posts, t)) = 0
    BY <2>1, <2>2, TotalZero
  <2> QED BY <2>3, OnTheWayIs
<1>5. \A t \in Tuples : counted[t] = 0 /\ settled[t] = 0 /\ batch[t] = 0
  BY DEF InitAll, Init, Empty
<1> QED BY <1>1, <1>3, <1>4, <1>5 DEF TelemetryInv, AtMostSent, ExactlySent

(* The client's steps are the batcher's. *)
LEMMA ClientStep == NextAll => [Next]_vars
  BY DEF NextAll, Next, Posting, Answered, Broken, Serve, Refuse, Accept, StoreRow, Stored, Lost,
         WriteFails, Give, server

(* A client step that does not settle a batch either leaves the batch in    *)
(* flight alone or hands over a new one where there was none.               *)
LEMMA PostingStep ==
  ASSUME BatcherInv, Posting(Tick) \/ Posting(Close) \/ \E t \in Tuples : Posting(Record(t))
  PROVE  /\ settled' = settled /\ UNCHANGED <<counted, faulty>>
         /\ \/ flushing' = flushing /\ batch' = batch /\ posts' = posts
            \/ /\ ~flushing /\ flushing' /\ \A t \in Tuples : batch[t] = 0
               /\ posts' = Append(posts, [rows |-> batch', stage |-> "wire"])
<1>1. Tick \/ Close \/ \E t \in Tuples : Record(t)
  BY DEF Posting
<1>2. /\ posts' = IF flushing' /\ ~flushing
                  THEN Append(posts, [rows |-> batch', stage |-> "wire"]) ELSE posts
      /\ UNCHANGED <<counted, faulty>>
  BY DEF Posting
<1>3. settled' = settled
  BY <1>1 DEF Tick, Flush, Close, Record
<1>4. UNCHANGED <<flushing, batch>> \/ (~flushing /\ flushing')
  <2>1. CASE Tick
    BY <2>1 DEF Tick, Flush, Flushable, Send
  <2>2. CASE Close
    BY <2>2 DEF Close, FlushOf, Flushable, Send
  <2>3. ASSUME NEW t \in Tuples, Record(t) PROVE UNCHANGED <<flushing, batch>> \/ (~flushing /\ flushing')
    BY <2>3 DEF Record, RecordKnown, RecordDropped, RecordNew, FlushOf, Flushable, Send
  <2> QED BY <1>1, <2>1, <2>2, <2>3
<1> QED BY <1>2, <1>3, <1>4 DEF BatcherInv, TypeOK, IdleIsEmpty

LEMMA PostingKeepsInv ==
  ASSUME TelemetryInv, BatcherInv',
         Posting(Tick) \/ Posting(Close) \/ \E t \in Tuples : Posting(Record(t))
  PROVE  TelemetryInv'
<1> USE DEF TelemetryInv
<1>1. settled' = settled /\ UNCHANGED <<counted, faulty>>
  BY PostingStep
<1>2. CASE flushing' = flushing /\ batch' = batch /\ posts' = posts
  BY <1>1, <1>2, OnTheWayIs DEF ServerTypeOK, AtMostSent, ExactlySent, LastUnderWay
<1>3. CASE /\ ~flushing /\ flushing' /\ \A t \in Tuples : batch[t] = 0
           /\ posts' = Append(posts, [rows |-> batch', stage |-> "wire"])
  <2> DEFINE r == [rows |-> batch', stage |-> "wire"]
  <2>1. r \in Posts /\ r.rows = batch' /\ r.stage = "wire" /\ posts \in Seq(Posts)
    BY DEF Posts, BatcherInv, TypeOK, ServerTypeOK
  <2>2. posts' = Append(posts, r)
    BY <1>3
  <2> HIDE DEF r
  <2>3. /\ posts' \in Seq(Posts) /\ Len(posts) \in Nat /\ Len(posts') = Len(posts) + 1
        /\ posts'[Len(posts) + 1] = r /\ \A n \in 1 .. Len(posts) : posts'[n] = posts[n]
        /\ DOMAIN posts' = 1 .. Len(posts) + 1 /\ DOMAIN posts = 1 .. Len(posts)
    BY <2>1, <2>2
  <2>4. ServerTypeOK' /\ LastUnderWay'
    BY <1>1, <1>3, <2>1, <2>3 DEF ServerTypeOK, LastUnderWay
  <2>5. ASSUME NEW t \in Tuples
        PROVE  /\ OnTheWay(t)' = OnTheWay(t) + batch'[t] /\ OnTheWay(t) \in Nat
               /\ counted'[t] = counted[t] /\ settled'[t] = settled[t] /\ batch[t] = 0
               /\ counted[t] \in Nat /\ settled[t] \in Nat /\ batch'[t] \in Nat
    <3>1. Total(RowsOf(posts', t)) = Total(RowsOf(posts, t)) + r.rows[t]
      BY <2>1, <2>2, SendingAddsRows
    <3>2. Total(RowsOf(posts, t)) \in Nat
      BY <2>1, RowsAreCounts
    <3>3. counted[t] \in Nat /\ settled[t] \in Nat /\ batch'[t] \in Nat
      BY DEF ServerTypeOK, BatcherInv, TypeOK, Counts
    <3> QED BY <1>1, <1>3, <2>1, <3>1, <3>2, <3>3, OnTheWayIs
  <2>6. AtMostSent'
    BY <2>5 DEF AtMostSent
  <2>7. ExactlySent'
    BY <1>1, <2>5 DEF ExactlySent
  <2> QED BY <2>4, <2>6, <2>7
<1> QED BY <1>2, <1>3, PostingStep

LEMMA RowsOfPost ==
  ASSUME ServerTypeOK, NEW n \in DOMAIN posts
  PROVE  posts[n].rows \in Counts
<1>1. posts \in Seq(Posts)
  BY DEF ServerTypeOK
<1>2. posts[n] \in Posts
  BY <1>1
<1> QED BY <1>2 DEF Posts

(* The server's steps: one request moves to another stage with fewer rows,  *)
(* which are then in the table or lost.                                     *)
LEMMA MovedRows ==
  ASSUME ServerTypeOK, NEW n \in DOMAIN posts, NEW rows \in Counts,
         NEW stage \in {"wire", "storing", "over"}, Move(n, rows, stage),
         stage = "over" => rows = Empty
  PROVE  /\ posts' \in Seq(Posts) /\ Len(posts') = Len(posts) /\ DOMAIN posts' = DOMAIN posts
         /\ posts'[n] = [rows |-> rows, stage |-> stage]
         /\ \A k \in DOMAIN posts : k # n => posts'[k] = posts[k]
         /\ \A k \in DOMAIN posts : posts'[k].stage = "over" => posts'[k].rows = Empty
         /\ \A t \in Tuples : /\ OnTheWay(t)' = OnTheWay(t) - posts[n].rows[t] + rows[t]
                              /\ OnTheWay(t) \in Nat /\ OnTheWay(t)' \in Nat
                              /\ posts[n].rows[t] \in Nat /\ rows[t] \in Nat
<1> DEFINE r == [rows |-> rows, stage |-> stage]
<1>1. r \in Posts /\ posts \in Seq(Posts) /\ r.rows = rows /\ r.stage = stage
  BY DEF Posts, ServerTypeOK
<1>2. posts' = [posts EXCEPT ![n] = r]
  BY DEF Move
<1> HIDE DEF r
<1>3. /\ posts' \in Seq(Posts) /\ Len(posts') = Len(posts) /\ DOMAIN posts' = DOMAIN posts
      /\ posts'[n] = r /\ \A k \in DOMAIN posts : k # n => posts'[k] = posts[k]
  BY <1>1, <1>2
<1>4. \A k \in DOMAIN posts : posts'[k].stage = "over" => posts'[k].rows = Empty
  BY <1>1, <1>3 DEF ServerTypeOK
<1>5. ASSUME NEW t \in Tuples
      PROVE  /\ OnTheWay(t)' = OnTheWay(t) - posts[n].rows[t] + rows[t]
             /\ OnTheWay(t) \in Nat /\ OnTheWay(t)' \in Nat
  <2>1. Total(RowsOf([posts EXCEPT ![n] = r], t)) = Total(RowsOf(posts, t)) - posts[n].rows[t] + r.rows[t]
    BY <1>1, MovingChangesRows
  <2>2. Total(RowsOf(posts, t)) \in Nat /\ Total(RowsOf(posts', t)) \in Nat
    BY <1>1, <1>3, RowsAreCounts
  <2> QED BY <1>1, <1>2, <2>1, <2>2, OnTheWayIs
<1>6. posts[n].rows \in Counts
  BY RowsOfPost
<1> QED BY <1>3, <1>4, <1>5, <1>6 DEF Counts, r

LEMMA GiveKeepsInv ==
  ASSUME TelemetryInv, BatcherInv', NEW n \in DOMAIN posts, Give(n)
  PROVE  TelemetryInv'
<1> USE DEF TelemetryInv
<1>1. Move(n, Empty, "over") /\ faulty' = TRUE /\ UNCHANGED <<vars, counted>>
  BY DEF Give
<1>2. /\ posts' \in Seq(Posts) /\ DOMAIN posts' = DOMAIN posts
      /\ \A k \in DOMAIN posts : posts'[k].stage = "over" => posts'[k].rows = Empty
      /\ \A t \in Tuples : /\ OnTheWay(t)' = OnTheWay(t) - posts[n].rows[t] + Empty[t]
                           /\ OnTheWay(t) \in Nat /\ posts[n].rows[t] \in Nat
  BY <1>1, EmptyCounts, MovedRows
<1>3. ServerTypeOK'
  BY <1>1, <1>2 DEF ServerTypeOK
<1>4. ASSUME NEW t \in Tuples PROVE counted'[t] + OnTheWay(t)' <= settled'[t] + batch'[t]
  <2>1. counted[t] \in Nat /\ settled[t] \in Nat /\ batch[t] \in Nat /\ Empty[t] = 0
    BY DEF ServerTypeOK, BatcherInv, TypeOK, Counts, Empty
  <2>2. counted[t] + OnTheWay(t) <= settled[t] + batch[t]
    BY DEF AtMostSent
  <2>3. counted'[t] = counted[t] /\ settled'[t] = settled[t] /\ batch'[t] = batch[t]
    BY <1>1 DEF vars
  <2>4. OnTheWay(t)' = OnTheWay(t) - posts[n].rows[t] /\ OnTheWay(t) \in Nat /\ posts[n].rows[t] \in Nat
    BY <1>2, <2>1
  <2> QED BY <2>1, <2>2, <2>3, <2>4
<1> QED BY <1>1, <1>3, <1>4 DEF AtMostSent, ExactlySent, LastUnderWay

LEMMA AcceptKeepsInv ==
  ASSUME TelemetryInv, BatcherInv', NEW n \in DOMAIN posts, Accept(n)
  PROVE  TelemetryInv'
<1> USE DEF TelemetryInv
<1>1. /\ Move(n, posts[n].rows, "storing") /\ UNCHANGED <<vars, counted, faulty>>
      /\ posts[n].stage = "wire" /\ posts[n].rows \in Counts
  BY RowsOfPost DEF Accept, At
<1>2. /\ posts' \in Seq(Posts) /\ DOMAIN posts' = DOMAIN posts /\ Len(posts') = Len(posts)
      /\ \A k \in DOMAIN posts : k # n => posts'[k] = posts[k]
      /\ \A k \in DOMAIN posts : posts'[k].stage = "over" => posts'[k].rows = Empty
      /\ \A t \in Tuples : /\ OnTheWay(t)' = OnTheWay(t) - posts[n].rows[t] + posts[n].rows[t]
                           /\ OnTheWay(t) \in Nat /\ posts[n].rows[t] \in Nat
  BY <1>1, MovedRows
<1>3. \A t \in Tuples : OnTheWay(t)' = OnTheWay(t)
  BY <1>2
<1>4. ServerTypeOK'
  BY <1>1, <1>2 DEF ServerTypeOK
<1>5. LastUnderWay'
  BY <1>1, <1>2 DEF LastUnderWay, vars
<1>6. AtMostSent' /\ ExactlySent'
  BY <1>1, <1>3 DEF AtMostSent, ExactlySent, vars
<1> QED BY <1>4, <1>5, <1>6

LEMMA StoreRowKeepsInv ==
  ASSUME TelemetryInv, BatcherInv', NEW n \in DOMAIN posts, StoreRow(n)
  PROVE  TelemetryInv'
<1> USE DEF TelemetryInv
<1>1. PICK t \in Keys(posts[n].rows) :
         /\ counted' = [counted EXCEPT ![t] = counted[t] + posts[n].rows[t]]
         /\ Move(n, Without(posts[n].rows, t), "storing")
  BY DEF StoreRow
<1>2. /\ UNCHANGED <<vars, faulty>> /\ posts[n].stage = "storing" /\ posts[n].rows \in Counts
      /\ t \in Tuples
  BY RowsOfPost DEF StoreRow, At, Keys
<1> DEFINE left == Without(posts[n].rows, t)
<1>3. left \in Counts /\ \A u \in Tuples : left[u] = IF u = t THEN 0 ELSE posts[n].rows[u]
  BY <1>2 DEF Without, Counts
<1>4. Move(n, left, "storing")
  BY <1>1
<1> HIDE DEF left
<1>5. /\ posts' \in Seq(Posts) /\ DOMAIN posts' = DOMAIN posts /\ Len(posts') = Len(posts)
      /\ \A k \in DOMAIN posts : k # n => posts'[k] = posts[k]
      /\ \A k \in DOMAIN posts : posts'[k].stage = "over" => posts'[k].rows = Empty
      /\ \A u \in Tuples : /\ OnTheWay(u)' = OnTheWay(u) - posts[n].rows[u] + left[u]
                           /\ OnTheWay(u) \in Nat /\ posts[n].rows[u] \in Nat
  BY <1>3, <1>4, MovedRows
<1>6. /\ counted' \in Counts /\ counted \in Counts
      /\ \A u \in Tuples : counted'[u] = IF u = t THEN counted[u] + posts[n].rows[u] ELSE counted[u]
  BY <1>1, <1>2, <1>5 DEF ServerTypeOK, Counts
<1>7. ASSUME NEW u \in Tuples PROVE counted'[u] + OnTheWay(u)' = counted[u] + OnTheWay(u)
  <2>1. counted[u] \in Nat
    BY <1>6 DEF Counts
  <2> QED BY <1>3, <1>5, <1>6, <2>1
<1>8. ServerTypeOK'
  BY <1>2, <1>5, <1>6 DEF ServerTypeOK
<1>9. LastUnderWay'
  BY <1>2, <1>5 DEF LastUnderWay, vars
<1>10. AtMostSent' /\ ExactlySent'
  BY <1>2, <1>7 DEF AtMostSent, ExactlySent, vars
<1> QED BY <1>8, <1>9, <1>10

LEMMA StoredKeepsInv ==
  ASSUME TelemetryInv, BatcherInv', NEW n \in DOMAIN posts, Stored(n)
  PROVE  TelemetryInv'
<1> USE DEF TelemetryInv
<1>1. /\ Move(n, Empty, "over") /\ UNCHANGED <<vars, counted, faulty>>
      /\ posts[n].stage = "storing" /\ posts[n].rows \in Counts
      /\ \A t \in Tuples : posts[n].rows[t] = 0 /\ Empty[t] = 0
  BY RowsOfPost DEF Stored, At, Keys, Counts, Empty
<1>2. /\ posts' \in Seq(Posts) /\ DOMAIN posts' = DOMAIN posts /\ Len(posts') = Len(posts)
      /\ posts'[n].stage = "over"
      /\ \A k \in DOMAIN posts : k # n => posts'[k] = posts[k]
      /\ \A k \in DOMAIN posts : posts'[k].stage = "over" => posts'[k].rows = Empty
      /\ \A t \in Tuples : /\ OnTheWay(t)' = OnTheWay(t) - posts[n].rows[t] + Empty[t]
                           /\ OnTheWay(t) \in Nat
  <2>1. Move(n, Empty, "over") /\ Empty \in Counts
    BY <1>1, EmptyCounts
  <2>2. posts'[n] = [rows |-> Empty, stage |-> "over"]
    BY <2>1, MovedRows
  <2>3. posts'[n].stage = "over"
    BY <2>2
  <2>4. /\ posts' \in Seq(Posts) /\ DOMAIN posts' = DOMAIN posts /\ Len(posts') = Len(posts)
        /\ \A k \in DOMAIN posts : k # n => posts'[k] = posts[k]
        /\ \A k \in DOMAIN posts : posts'[k].stage = "over" => posts'[k].rows = Empty
    BY <2>1, MovedRows
  <2>5. \A t \in Tuples : /\ OnTheWay(t)' = OnTheWay(t) - posts[n].rows[t] + Empty[t]
                         /\ OnTheWay(t) \in Nat
    BY <2>1, MovedRows
  <2> QED BY <2>3, <2>4, <2>5
<1>3. \A t \in Tuples : OnTheWay(t)' = OnTheWay(t)
  BY <1>1, <1>2
<1>4. ServerTypeOK'
  BY <1>1, <1>2 DEF ServerTypeOK
<1>5. LastUnderWay'
  BY <1>1, <1>2 DEF LastUnderWay, vars
<1>6. AtMostSent' /\ ExactlySent'
  BY <1>1, <1>3 DEF AtMostSent, ExactlySent, vars
<1> QED BY <1>4, <1>5, <1>6

(* The answer, or an error while the request is still under way, moves the  *)
(* batch from "in flight" to "settled".                                     *)
LEMMA SettleKeepsInv ==
  ASSUME TelemetryInv, BatcherInv', Answered \/ Broken
  PROVE  TelemetryInv'
<1> USE DEF TelemetryInv
<1>1. Settle /\ UNCHANGED <<posts, counted>>
  BY DEF Answered, Broken, server
<1>2. ASSUME NEW t \in Tuples
      PROVE  /\ settled'[t] + batch'[t] = settled[t] + batch[t]
             /\ counted'[t] + OnTheWay(t)' = counted[t] + OnTheWay(t)
  <2>1. settled'[t] = settled[t] + batch[t] /\ batch'[t] = 0
    BY <1>1 DEF Settle, Plus, Empty
  <2>2. settled[t] \in Nat /\ batch[t] \in Nat
    BY DEF BatcherInv, TypeOK, Counts
  <2>3. OnTheWay(t)' = OnTheWay(t)
    BY <1>1, OnTheWayIs
  <2> QED BY <1>1, <2>1, <2>2, <2>3
<1>3. AtMostSent'
  BY <1>2 DEF AtMostSent
<1>4. faulty' = TRUE \/ (faulty' = faulty /\ posts[Len(posts)].stage = "over")
  BY DEF Answered, Broken, At, server
<1>5. ServerTypeOK'
  BY <1>1, <1>4 DEF ServerTypeOK
<1>6. ExactlySent'
  BY <1>2, <1>4 DEF ExactlySent
<1>7. LastUnderWay'
  BY <1>1, <1>4 DEF LastUnderWay
<1> QED BY <1>3, <1>5, <1>6, <1>7

LEMMA NextTelemetryInv == TelemetryInv /\ [NextAll]_allVars => TelemetryInv'
<1> SUFFICES ASSUME TelemetryInv, [NextAll]_allVars PROVE TelemetryInv'
  OBVIOUS
<1>1. CASE NextAll
  <2>1. BatcherInv'
    BY <1>1, ClientStep, NextKeepsInv DEF TelemetryInv
  <2>2. CASE Posting(Tick) \/ Posting(Close) \/ \E t \in Tuples : Posting(Record(t))
    BY <2>1, <2>2, PostingKeepsInv
  <2>3. CASE Answered \/ Broken
    BY <2>1, <2>3, SettleKeepsInv
  <2>4. ASSUME NEW n \in DOMAIN posts, Serve(n) \/ Lost(n) \/ WriteFails(n) PROVE TelemetryInv'
    BY <2>1, <2>4, GiveKeepsInv, AcceptKeepsInv, StoreRowKeepsInv, StoredKeepsInv
    DEF Serve, Lost, Refuse, WriteFails
  <2> QED BY <1>1, <2>2, <2>3, <2>4 DEF NextAll
<1>2. CASE UNCHANGED allVars
  BY <1>2, OnTheWayIs DEF allVars, vars, server, TelemetryInv, BatcherInv, TypeOK, IdleIsEmpty,
     Conservation, ServerTypeOK, AtMostSent, ExactlySent, LastUnderWay
<1> QED BY <1>1, <1>2

LEMMA TelemetryInvHolds == FullSpec => []TelemetryInv
  BY InitTelemetryInv, NextTelemetryInv, PTL DEF FullSpec

-----------------------------------------------------------------------------
(* No call of record() is counted twice, nor counted while a copy of it is  *)
(* on the way or buffered: the batcher discards a batch whose send failed   *)
(* (exposure-batcher.ts) and the server adds each row it stores once.       *)
THEOREM NeverDoubleCountedHolds == FullSpec => []NeverDoubleCounted
<1>1. TelemetryInv => NeverDoubleCounted
  <2> SUFFICES ASSUME TelemetryInv, NEW t \in Tuples
               PROVE  counted[t] + OnTheWay(t) + buffer[t] + dropped[t] <= recorded[t]
    BY DEF NeverDoubleCounted
  <2>1. /\ counted[t] \in Nat /\ buffer[t] \in Nat /\ dropped[t] \in Nat /\ settled[t] \in Nat
        /\ batch[t] \in Nat
    BY DEF TelemetryInv, ServerTypeOK, BatcherInv, TypeOK, Counts
  <2>2. OnTheWay(t) \in Nat
    BY RowsAreCounts, OnTheWayIs DEF TelemetryInv, ServerTypeOK
  <2>3. /\ recorded[t] = buffer[t] + batch[t] + settled[t] + dropped[t]
        /\ counted[t] + OnTheWay(t) <= settled[t] + batch[t]
    BY DEF TelemetryInv, BatcherInv, Conservation, AtMostSent
  <2> QED BY <2>1, <2>2, <2>3
<1> QED BY <1>1, TelemetryInvHolds, PTL

(* While nothing has failed the exposures table holds exactly the rows of   *)
(* the batches that were answered: what is missing from it was lost to a    *)
(* failure the code accepts, never to the batching itself.                  *)
THEOREM LossNeedsFailureHolds == FullSpec => []LossNeedsFailure
<1>1. TelemetryInv => LossNeedsFailure
  <2> SUFFICES ASSUME TelemetryInv, ~faulty, ~flushing PROVE counted = settled
    BY DEF LossNeedsFailure
  <2>1. posts \in Seq(Posts) /\ \A n \in DOMAIN posts : posts[n].rows = Empty
    BY DEF TelemetryInv, ServerTypeOK, LastUnderWay
  <2>2. ASSUME NEW t \in Tuples PROVE counted[t] = settled[t]
    <3>1. RowsOf(posts, t) \in Seq(Nat) /\ \A n \in 1 .. Len(RowsOf(posts, t)) : RowsOf(posts, t)[n] = 0
      BY <2>1, RowsAreCounts DEF Empty
    <3>2. OnTheWay(t) = 0
      BY <3>1, TotalZero, OnTheWayIs
    <3>3. batch[t] = 0 /\ counted[t] \in Nat /\ settled[t] \in Nat
      BY DEF TelemetryInv, BatcherInv, IdleIsEmpty, ServerTypeOK, TypeOK, Counts
    <3>4. counted[t] + OnTheWay(t) = settled[t] + batch[t]
      BY DEF TelemetryInv, ExactlySent
    <3> QED BY <3>2, <3>3, <3>4
  <2>3. counted \in [Tuples -> Nat] /\ settled \in [Tuples -> Nat]
    BY DEF TelemetryInv, BatcherInv, ServerTypeOK, TypeOK, Counts
  <2> QED BY <2>2, <2>3
<1> QED BY <1>1, TelemetryInvHolds, PTL

(* Together with the server the client still accounts for every call of     *)
(* record() and keeps its map bounded, whatever happens to the requests.    *)
THEOREM ClientInTelemetry == FullSpec => [](Conservation /\ DistinctBounded)
<1>1. InitAll => Init
  BY DEF InitAll
<1>2. [NextAll]_allVars => [Next]_vars
  BY ClientStep DEF allVars
<1>3. FullSpec => Spec
  BY <1>1, <1>2, PTL DEF FullSpec, Spec
<1> QED BY <1>3, ConservationHolds, DistinctBoundedHolds, PTL
=============================================================================
