------------------------- MODULE DefinitionsProofs -------------------------
(***************************************************************************)
(* For any flags, bodies, candidates, contexts and bucket function, and    *)
(* however writers interleave with a listing: it never pairs a             *)
(* configuration with older rules or overrides, 304 is answered exactly    *)
(* when nothing changed, a preview foretells its write, and raising a      *)
(* rollout keeps the units that have it.                                   *)
(***************************************************************************)
EXTENDS Definitions, SequenceTheorems, FiniteSetTheorems, WellFoundedInduction, TLAPS

-----------------------------------------------------------------------------
(* Numbers, and sequences put together of parts.                           *)

LEMMA LeastOf ==
  ASSUME NEW U \in SUBSET Nat, U # {}
  PROVE  \E x \in U : \A y \in U : x <= y
<1>1. \E x \in U : \A y \in U : ~(<<y, x>> \in OpToRel(<, Nat))
  BY WFMin, NatLessThanWellFounded
<1>2. PICK x \in U : \A y \in U : ~(<<y, x>> \in OpToRel(<, Nat))
  BY <1>1
<1>3. ASSUME NEW y \in U PROVE x <= y
  <2>1. x \in Nat /\ y \in Nat
    OBVIOUS
  <2>2. y < x => <<y, x>> \in OpToRel(<, Nat)
    BY <2>1 DEF OpToRel
  <2>3. ~(y < x)
    BY <1>2, <2>2
  <2> QED BY <2>1, <2>3
<1> QED BY <1>3

LEMMA NatSetInduction ==
  ASSUME NEW T \in SUBSET Nat, 0 \in T, \A n \in T : n + 1 \in T
  PROVE  T = Nat
<1> DEFINE U == Nat \ T
<1> SUFFICES ASSUME U # {} PROVE FALSE
  OBVIOUS
<1>1. PICK x \in U : \A y \in U : x <= y
  BY LeastOf
<1>2. x # 0 /\ x - 1 \in Nat /\ x - 1 < x /\ (x - 1) + 1 = x
  OBVIOUS
<1>3. x - 1 \in T
  BY <1>1, <1>2
<1> QED BY <1>2, <1>3

\* s holds the concatenations of the first 0, 1, 2, ... of n parts.
Parts(s, c, n) == s = [k \in 0 .. n |-> IF k = 0 THEN <<>> ELSE s[k - 1] \o c[k]]

LEMMA PartsZero ==
  ASSUME NEW n \in Nat, NEW c, NEW s, Parts(s, c, n)
  PROVE  s[0] = <<>>
  BY DEF Parts

LEMMA PartsNext ==
  ASSUME NEW n \in Nat, NEW c, NEW s, Parts(s, c, n)
  PROVE  \A k \in Nat : k + 1 <= n => s[k + 1] = s[k] \o c[k + 1]
<1> SUFFICES ASSUME NEW k \in Nat, k + 1 <= n PROVE s[k + 1] = s[k] \o c[k + 1]
  OBVIOUS
<1>1. k + 1 \in 0 .. n /\ k + 1 # 0 /\ (k + 1) - 1 = k
  OBVIOUS
<1>2. s[k + 1] = IF k + 1 = 0 THEN <<>> ELSE s[(k + 1) - 1] \o c[k + 1]
  BY <1>1 DEF Parts
<1> QED BY <1>1, <1>2

LEMMA PartsExist ==
  ASSUME NEW S, NEW m \in Nat, NEW c \in [1 .. m -> Seq(S)]
  PROVE  \E s \in [0 .. m -> Seq(S)] : Parts(s, c, m)
<1> DEFINE Exist(n) == \E s \in [0 .. n -> Seq(S)] : Parts(s, c, n)
           T == {n \in Nat : n <= m => Exist(n)}
<1>1. 0 \in T
  <2>1. [k \in 0 .. 0 |-> <<>>] \in [0 .. 0 -> Seq(S)] /\ Parts([k \in 0 .. 0 |-> <<>>], c, 0)
    BY DEF Parts
  <2> QED BY <2>1
<1>2. ASSUME NEW n \in T PROVE n + 1 \in T
  <2> HIDE DEF Exist
  <2>0. n \in Nat /\ n + 1 \in Nat
    OBVIOUS
  <2> SUFFICES ASSUME n + 1 <= m PROVE Exist(n + 1)
    BY <2>0
  <2>1. n <= m /\ n + 1 \in 1 .. m /\ c[n + 1] \in Seq(S)
    BY <2>0
  <2>2. PICK s \in [0 .. n -> Seq(S)] : Parts(s, c, n)
    BY <2>1 DEF Exist
  <2> DEFINE u == [k \in 0 .. n + 1 |-> IF k <= n THEN s[k] ELSE s[n] \o c[n + 1]]
  <2>3. u \in [0 .. n + 1 -> Seq(S)]
    <3>1. s[n] \o c[n + 1] \in Seq(S)
      BY <2>0, <2>1, <2>2, ConcatProperties
    <3>2. \A k \in 0 .. n + 1 : k <= n => s[k] \in Seq(S)
      BY <2>0, <2>2
    <3> QED BY <3>1, <3>2
  <2>4. ASSUME NEW k \in 0 .. n + 1 PROVE u[k] = IF k = 0 THEN <<>> ELSE u[k - 1] \o c[k]
    <3>1. CASE k <= n
      <4>1. k \in 0 .. n /\ (k # 0 => k - 1 \in 0 .. n + 1 /\ k - 1 <= n)
        BY <2>0, <3>1
      <4>2. s[k] = IF k = 0 THEN <<>> ELSE s[k - 1] \o c[k]
        BY <2>2, <4>1 DEF Parts
      <4> QED BY <3>1, <4>1, <4>2
    <3>2. CASE k = n + 1
      <4>1. k # 0 /\ k - 1 = n /\ ~(k <= n) /\ n \in 0 .. n + 1
        BY <2>0, <3>2
      <4> QED BY <3>2, <4>1
    <3> QED BY <2>0, <3>1, <3>2
  <2>5. Parts(u, c, n + 1)
    BY <2>4 DEF Parts
  <2> HIDE DEF u
  <2> QED BY <2>3, <2>5 DEF Exist
<1>3. T = Nat
  BY <1>1, <1>2, NatSetInduction
<1> QED BY <1>3

LEMMA PartsUnique ==
  ASSUME NEW n \in Nat, NEW c, NEW d, NEW s, NEW u, Parts(s, c, n), Parts(u, d, n),
         \A k \in 1 .. n : c[k] = d[k]
  PROVE  s[n] = u[n]
<1> DEFINE T == {k \in Nat : k <= n => s[k] = u[k]}
<1>1. 0 \in T
  BY PartsZero
<1>2. ASSUME NEW k \in T PROVE k + 1 \in T
  <2> SUFFICES ASSUME k + 1 <= n PROVE s[k + 1] = u[k + 1]
    OBVIOUS
  <2>1. k \in Nat /\ k <= n /\ k + 1 \in 0 .. n /\ k + 1 \in 1 .. n /\ k + 1 # 0 /\ (k + 1) - 1 = k
    OBVIOUS
  <2>2. s[k] = u[k] /\ c[k + 1] = d[k + 1]
    BY <2>1
  <2>3. s[k + 1] = s[k] \o c[k + 1] /\ u[k + 1] = u[k] \o d[k + 1]
    BY <2>1, PartsNext
  <2> QED BY <2>2, <2>3
<1>3. T = Nat
  BY <1>1, <1>2, NatSetInduction
<1> QED BY <1>3

LEMMA RangeConcat ==
  ASSUME NEW S, NEW s \in Seq(S), NEW t \in Seq(S)
  PROVE  Range(s \o t) = Range(s) \cup Range(t)
<1>1. /\ Len(s) \in Nat /\ DOMAIN s = 1 .. Len(s) /\ Len(t) \in Nat /\ DOMAIN t = 1 .. Len(t)
      /\ s \o t \in Seq(S) /\ DOMAIN (s \o t) = 1 .. Len(s) + Len(t)
      /\ \A i \in 1 .. Len(s) + Len(t) : (s \o t)[i] = IF i <= Len(s) THEN s[i] ELSE t[i - Len(s)]
  BY ConcatProperties, LenProperties
<1>2. ASSUME NEW x \in Range(s \o t) PROVE x \in Range(s) \cup Range(t)
  <2>1. PICK i \in 1 .. Len(s) + Len(t) : x = (s \o t)[i]
    BY <1>1 DEF Range
  <2>2. i <= Len(s) => i \in DOMAIN s /\ x = s[i]
    BY <1>1, <2>1
  <2>3. ~(i <= Len(s)) => i - Len(s) \in DOMAIN t /\ x = t[i - Len(s)]
    BY <1>1, <2>1
  <2> QED BY <2>2, <2>3 DEF Range
<1>3. ASSUME NEW i \in DOMAIN s PROVE s[i] \in Range(s \o t)
  <2>1. i \in 1 .. Len(s) + Len(t) /\ i <= Len(s)
    BY <1>1
  <2>2. (s \o t)[i] = s[i]
    BY <1>1, <2>1
  <2> QED BY <1>1, <2>1, <2>2 DEF Range
<1>4. ASSUME NEW i \in DOMAIN t PROVE t[i] \in Range(s \o t)
  <2>1. i + Len(s) \in 1 .. Len(s) + Len(t) /\ ~(i + Len(s) <= Len(s)) /\ (i + Len(s)) - Len(s) = i
    BY <1>1
  <2>2. (s \o t)[i + Len(s)] = t[i]
    BY <1>1, <2>1
  <2> QED BY <1>1, <2>1, <2>2 DEF Range
<1> QED BY <1>2, <1>3, <1>4 DEF Range

LEMMA PartsRange ==
  ASSUME NEW S, NEW m \in Nat, NEW c \in [1 .. m -> Seq(S)], NEW s, Parts(s, c, m)
  PROVE  s[m] \in Seq(S) /\ Range(s[m]) = UNION {Range(c[i]) : i \in 1 .. m}
<1> DEFINE Upto(n) == s[n] \in Seq(S) /\ Range(s[n]) = UNION {Range(c[i]) : i \in 1 .. n}
           T == {n \in Nat : n <= m => Upto(n)}
<1> HIDE DEF Upto
<1>0. \A k \in Nat : k + 1 <= m => s[k + 1] = s[k] \o c[k + 1]
  BY PartsNext
<1>1. Upto(0)
  <2>1. s[0] = <<>>
    BY PartsZero
  <2>2. <<>> \in Seq(S) /\ Range(<<>>) = {} /\ 1 .. 0 = {}
    BY DEF Range
  <2> QED BY <2>1, <2>2 DEF Upto
<1>2. ASSUME NEW n \in Nat, n + 1 <= m, Upto(n) PROVE Upto(n + 1)
  <2>1. s[n + 1] = s[n] \o c[n + 1]
    BY <1>0, <1>2
  <2>2. n + 1 \in 1 .. m
    BY <1>2
  <2>3. c[n + 1] \in Seq(S) /\ s[n] \in Seq(S)
    BY <1>2, <2>2 DEF Upto
  <2>4. s[n + 1] \in Seq(S) /\ Range(s[n + 1]) = Range(s[n]) \cup Range(c[n + 1])
    BY <2>1, <2>3, ConcatProperties, RangeConcat
  <2>5. 1 .. n + 1 = (1 .. n) \cup {n + 1}
    BY <1>2
  <2> DEFINE A == UNION {Range(c[i]) : i \in 1 .. n}
             B == UNION {Range(c[i]) : i \in 1 .. n + 1}
  <2>6. \A x : x \in B <=> x \in A \/ x \in Range(c[n + 1])
    BY <2>5
  <2>7. Range(s[n]) = A
    BY <1>2 DEF Upto
  <2> HIDE DEF A, B
  <2>8. Range(s[n + 1]) = B
    BY <2>4, <2>6, <2>7
  <2> QED BY <2>4, <2>8 DEF Upto, B
<1>3. \A n \in T : n + 1 \in T
  BY <1>2
<1>4. T = Nat
  BY <1>1, <1>3, NatSetInduction
<1>5. Upto(m)
  BY <1>4
<1> QED BY <1>5 DEF Upto

\* E applied to every element.
Mapped(E, s) == [i \in DOMAIN s |-> E[s[i]]]

LEMMA MappedSeq ==
  ASSUME NEW S, NEW E, NEW s \in Seq(S)
  PROVE  Mapped(E, s) \in Seq({E[x] : x \in S}) /\ Len(Mapped(E, s)) = Len(s)
<1>1. Len(s) \in Nat /\ DOMAIN s = 1 .. Len(s) /\ \A i \in 1 .. Len(s) : s[i] \in S
  BY LenProperties
<1> QED BY <1>1 DEF Mapped

LEMMA MappedConcat ==
  ASSUME NEW S, NEW E, NEW s \in Seq(S), NEW t \in Seq(S)
  PROVE  Mapped(E, s \o t) = Mapped(E, s) \o Mapped(E, t)
<1> DEFINE U == {E[x] : x \in S}
<1>1. /\ Len(s) \in Nat /\ DOMAIN s = 1 .. Len(s) /\ Len(t) \in Nat /\ DOMAIN t = 1 .. Len(t)
      /\ s \o t \in Seq(S) /\ Len(s \o t) = Len(s) + Len(t)
      /\ DOMAIN (s \o t) = 1 .. Len(s) + Len(t)
      /\ \A i \in 1 .. Len(s) + Len(t) : (s \o t)[i] = IF i <= Len(s) THEN s[i] ELSE t[i - Len(s)]
  BY ConcatProperties, LenProperties
<1>2. /\ Mapped(E, s) \in Seq(U) /\ Len(Mapped(E, s)) = Len(s)
      /\ Mapped(E, t) \in Seq(U) /\ Len(Mapped(E, t)) = Len(t)
      /\ Mapped(E, s \o t) \in Seq(U) /\ Len(Mapped(E, s \o t)) = Len(s) + Len(t)
  <2>1. Len(Mapped(E, s \o t)) = Len(s \o t) /\ Mapped(E, s \o t) \in Seq(U)
    <3>1. s \o t \in Seq(S)
      BY <1>1
    <3> QED BY <3>1, MappedSeq
  <2>2. Mapped(E, s) \in Seq(U) /\ Len(Mapped(E, s)) = Len(s)
    BY MappedSeq
  <2>3. Mapped(E, t) \in Seq(U) /\ Len(Mapped(E, t)) = Len(t)
    BY MappedSeq
  <2> QED BY <1>1, <2>1, <2>2, <2>3
<1> HIDE DEF U
<1>3. /\ Mapped(E, s) \o Mapped(E, t) \in Seq(U)
      /\ Len(Mapped(E, s) \o Mapped(E, t)) = Len(s) + Len(t)
      /\ \A i \in 1 .. Len(s) + Len(t) :
           (Mapped(E, s) \o Mapped(E, t))[i] = IF i <= Len(s) THEN Mapped(E, s)[i] ELSE Mapped(E, t)[i - Len(s)]
  <2> DEFINE a == Mapped(E, s)
             b == Mapped(E, t)
  <2>1. a \in Seq(U) /\ b \in Seq(U) /\ Len(a) = Len(s) /\ Len(b) = Len(t)
    BY <1>2
  <2> HIDE DEF a, b
  <2>2. /\ a \o b \in Seq(U) /\ Len(a \o b) = Len(a) + Len(b)
        /\ \A i \in 1 .. Len(a) + Len(b) : (a \o b)[i] = IF i <= Len(a) THEN a[i] ELSE b[i - Len(a)]
    BY <2>1, ConcatProperties
  <2> QED BY <2>1, <2>2 DEF a, b
<1>4. ASSUME NEW i \in 1 .. Len(s) + Len(t)
      PROVE  Mapped(E, s \o t)[i] = (Mapped(E, s) \o Mapped(E, t))[i]
  <2>1. Mapped(E, s \o t)[i] = E[(s \o t)[i]]
    BY <1>1 DEF Mapped
  <2>2. CASE i <= Len(s)
    <3>1. i \in DOMAIN s /\ (s \o t)[i] = s[i]
      BY <1>1, <2>2
    <3> QED BY <1>3, <2>1, <2>2, <3>1 DEF Mapped
  <2>3. CASE ~(i <= Len(s))
    <3>1. i - Len(s) \in DOMAIN t /\ (s \o t)[i] = t[i - Len(s)]
      BY <1>1, <2>3
    <3> QED BY <1>3, <2>1, <2>3, <3>1 DEF Mapped
  <2> QED BY <2>2, <2>3
<1> QED BY <1>2, <1>3, <1>4, SeqEqual

\* Parts that look the same through E make sequences that do.
Alike(E, c, d, m) == \A k \in 1 .. m : Mapped(E, c[k]) = Mapped(E, d[k])
AlikeParts(S, E, m, c, d, s, u) ==
  /\ m \in Nat /\ c \in [1 .. m -> Seq(S)] /\ d \in [1 .. m -> Seq(S)]
  /\ Parts(s, c, m) /\ Parts(u, d, m) /\ Alike(E, c, d, m)

LEMMA PartsMapped ==
  ASSUME NEW S, NEW E, NEW m, NEW c, NEW d, NEW s, NEW u, AlikeParts(S, E, m, c, d, s, u)
  PROVE  Mapped(E, s[m]) = Mapped(E, u[m])
<1>0. /\ m \in Nat /\ c \in [1 .. m -> Seq(S)] /\ d \in [1 .. m -> Seq(S)]
      /\ Parts(s, c, m) /\ Parts(u, d, m) /\ Alike(E, c, d, m)
  BY DEF AlikeParts
<1> DEFINE Same(n) == s[n] \in Seq(S) /\ u[n] \in Seq(S) /\ Mapped(E, s[n]) = Mapped(E, u[n])
           T == {n \in Nat : n <= m => Same(n)}
<1> HIDE DEF Same
<1>1. \A k \in Nat : k + 1 <= m => s[k + 1] = s[k] \o c[k + 1]
  BY <1>0, PartsNext, ZenonT(30)
<1>2. \A k \in Nat : k + 1 <= m => u[k + 1] = u[k] \o d[k + 1]
  BY <1>0, PartsNext, ZenonT(30)
<1>3. \A p, q \in Seq(S) : Mapped(E, p \o q) = Mapped(E, p) \o Mapped(E, q)
  BY MappedConcat
<1>4. Same(0)
  <2>1. s[0] = <<>> /\ u[0] = <<>>
    BY <1>0, PartsZero
  <2>2. <<>> \in Seq(S)
    OBVIOUS
  <2> QED BY <2>1, <2>2 DEF Same
<1>5. ASSUME NEW n \in Nat, n + 1 <= m, Same(n) PROVE Same(n + 1)
  <2>0. s[n] \in Seq(S) /\ u[n] \in Seq(S) /\ Mapped(E, s[n]) = Mapped(E, u[n])
    BY <1>5 DEF Same
  <2>1. s[n + 1] = s[n] \o c[n + 1] /\ u[n + 1] = u[n] \o d[n + 1]
    BY <1>1, <1>2, <1>5
  <2>2. n + 1 \in 1 .. m
    BY <1>5
  <2>3. c[n + 1] \in Seq(S) /\ d[n + 1] \in Seq(S) /\ Mapped(E, c[n + 1]) = Mapped(E, d[n + 1])
    BY <1>0, <2>2 DEF Alike
  <2>4. s[n + 1] \in Seq(S) /\ u[n + 1] \in Seq(S)
    BY <2>0, <2>1, <2>3, ConcatProperties
  <2>5. Mapped(E, s[n] \o c[n + 1]) = Mapped(E, s[n]) \o Mapped(E, c[n + 1])
    BY <1>3, <2>0, <2>3
  <2>6. Mapped(E, u[n] \o d[n + 1]) = Mapped(E, u[n]) \o Mapped(E, d[n + 1])
    BY <1>3, <2>0, <2>3
  <2> QED BY <2>0, <2>1, <2>3, <2>4, <2>5, <2>6 DEF Same
<1>6. \A n \in T : n + 1 \in T
  BY <1>0, <1>5
<1>7. T = Nat
  BY <1>4, <1>6, NatSetInduction
<1>8. Same(m)
  BY <1>0, <1>7
<1> QED BY <1>8 DEF Same

-----------------------------------------------------------------------------
(* Sequences that enumerate a set: what a table gives without ORDER BY.    *)

LEMMA SeqRangeFinite ==
  ASSUME NEW S, NEW s \in Seq(S)
  PROVE  IsFiniteSet(Range(s))
<1>1. Len(s) \in Nat /\ DOMAIN s = 1 .. Len(s) /\ s \in [1 .. Len(s) -> S]
  BY LenProperties
<1>2. s \in Surjection(1 .. Len(s), Range(s))
  BY <1>1 DEF Surjection, Range
<1>3. IsFiniteSet(1 .. Len(s))
  BY <1>1, FS_Interval
<1> QED BY <1>2, <1>3, FS_Surjection

LEMMA Enumerates ==
  ASSUME NEW S, IsFiniteSet(S), NEW q \in SetToSeqs(S)
  PROVE  q \in Seq(S) /\ Range(q) = S /\ \A i, j \in DOMAIN q : q[i] = q[j] => i = j
<1> DEFINE n == Cardinality(S)
<1>1. n \in Nat
  BY FS_CardinalityType
<1>2. q \in [1 .. n -> S] /\ \A i, j \in 1 .. n : i # j => q[i] # q[j]
  BY DEF SetToSeqs
<1>3. q \in Seq(S) /\ DOMAIN q = 1 .. n
  BY <1>1, <1>2
<1>4. ASSUME NEW x \in S, x \notin Range(q) PROVE FALSE
  <2>1. IsFiniteSet(S \ {x}) /\ Cardinality(S \ {x}) = n - 1
    BY <1>4, FS_RemoveElement
  <2>2. q \in Injection(1 .. n, S \ {x})
    <3>1. \A i \in 1 .. n : q[i] \in S \ {x}
      BY <1>2, <1>3, <1>4 DEF Range
    <3> QED BY <1>2, <3>1 DEF Injection, IsInjective
  <2>3. Cardinality(1 .. n) <= n - 1
    BY <2>1, <2>2, FS_Injection
  <2>4. Cardinality(1 .. n) = n
    BY <1>1, FS_Interval
  <2> QED BY <1>1, <2>3, <2>4
<1> QED BY <1>2, <1>3, <1>4 DEF Range

LEMMA FlagsFinite == IsFiniteSet(Flags) /\ \A S \in SUBSET Flags : IsFiniteSet(S)
  BY DefinitionsAssumption, SeqRangeFinite, FS_Subset DEF DefinitionsAssumption, Flags

Entries == Range(UnitOrder) \X BOOLEAN

LEMMA OverridesAreEntries ==
  ASSUME NEW o \in Overrides
  PROVE  o \in Seq(Entries) /\ IsFiniteSet(Range(o)) /\ Range(o) \subseteq Entries
<1>1. o \in Seq(Entries)
  <2>1. CASE o = <<>>
    BY <2>1
  <2>2. CASE o \in OverrideBodies
    BY <2>2, DefinitionsAssumption DEF DefinitionsAssumption, Entries
  <2> QED BY <2>1, <2>2 DEF Overrides
<1>2. Range(o) \subseteq Entries
  BY <1>1, LenProperties DEF Range
<1> QED BY <1>1, <1>2, SeqRangeFinite

LEMMA OrdersAreEntries ==
  ASSUME NEW q \in Orders
  PROVE  q \in Seq(Entries)
<1>1. PICK o \in Overrides : q \in SetToSeqs(Range(o))
  BY DEF Orders
<1>2. q \in Seq(Range(o)) /\ Range(o) \subseteq Entries
  BY <1>1, OverridesAreEntries, Enumerates
<1> QED BY <1>2, SeqMonotonic

-----------------------------------------------------------------------------
(* Sorting and encoding.                                                   *)

FoundDefs(L) ==
  [i \in 1 .. Len(FlagOrder) |->
     IF \E j \in DOMAIN L : L[j].key = FlagOrder[i]
     THEN <<L[CHOOSE j \in DOMAIN L : L[j].key = FlagOrder[i]]>> ELSE <<>>]
FoundEntries(o) ==
  [i \in 1 .. Len(UnitOrder) |->
     IF \E j \in DOMAIN o : o[j][1] = UnitOrder[i]
     THEN <<o[CHOOSE j \in DOMAIN o : o[j][1] = UnitOrder[i]]>> ELSE <<>>]

LEMMA FoundDefsType ==
  ASSUME NEW S, NEW L \in Seq(S)
  PROVE  FoundDefs(L) \in [1 .. Len(FlagOrder) -> Seq(S)] /\ Len(FlagOrder) \in Nat
<1>1. Len(FlagOrder) \in Nat
  BY DefinitionsAssumption, LenProperties DEF DefinitionsAssumption
<1>2. \A j \in DOMAIN L : L[j] \in S
  BY LenProperties
<1>3. ASSUME NEW i \in 1 .. Len(FlagOrder) PROVE FoundDefs(L)[i] \in Seq(S)
  <2>1. CASE \E j \in DOMAIN L : L[j].key = FlagOrder[i]
    <3>1. (CHOOSE j \in DOMAIN L : L[j].key = FlagOrder[i]) \in DOMAIN L
      BY <2>1
    <3> QED BY <1>2, <2>1, <3>1 DEF FoundDefs
  <2>2. CASE ~\E j \in DOMAIN L : L[j].key = FlagOrder[i]
    BY <2>2 DEF FoundDefs
  <2> QED BY <2>1, <2>2
<1> QED BY <1>1, <1>3 DEF FoundDefs

LEMMA FoundEntriesType ==
  ASSUME NEW S, NEW o \in Seq(S)
  PROVE  FoundEntries(o) \in [1 .. Len(UnitOrder) -> Seq(S)] /\ Len(UnitOrder) \in Nat
<1>1. Len(UnitOrder) \in Nat
  BY DefinitionsAssumption, LenProperties DEF DefinitionsAssumption
<1>2. \A j \in DOMAIN o : o[j] \in S
  BY LenProperties
<1>3. ASSUME NEW i \in 1 .. Len(UnitOrder) PROVE FoundEntries(o)[i] \in Seq(S)
  <2>1. CASE \E j \in DOMAIN o : o[j][1] = UnitOrder[i]
    <3>1. (CHOOSE j \in DOMAIN o : o[j][1] = UnitOrder[i]) \in DOMAIN o
      BY <2>1
    <3> QED BY <1>2, <2>1, <3>1 DEF FoundEntries
  <2>2. CASE ~\E j \in DOMAIN o : o[j][1] = UnitOrder[i]
    BY <2>2 DEF FoundEntries
  <2> QED BY <2>1, <2>2
<1> QED BY <1>1, <1>3 DEF FoundEntries

LEMMA SortDefinitionsIs ==
  ASSUME NEW S, NEW L \in Seq(S)
  PROVE  \E s : Parts(s, FoundDefs(L), Len(FlagOrder)) /\ sortDefinitions(L) = s[Len(FlagOrder)]
<1> DEFINE with(k) == IF \E j \in DOMAIN L : L[j].key = k
                      THEN <<L[CHOOSE j \in DOMAIN L : L[j].key = k]>> ELSE <<>>
           m == Len(FlagOrder)
           upTo == CHOOSE u : u = [n \in 0 .. m |-> IF n = 0 THEN <<>> ELSE u[n - 1] \o with(FlagOrder[n])]
<1>1. sortDefinitions(L) = upTo[m]
  BY DEF sortDefinitions, SortBy
<1>2. \A n \in 1 .. m : with(FlagOrder[n]) = FoundDefs(L)[n]
  BY DEF FoundDefs
<1>3. PICK s : Parts(s, FoundDefs(L), m)
  BY FoundDefsType, PartsExist
<1> HIDE DEF with
<1>4. s = [n \in 0 .. m |-> IF n = 0 THEN <<>> ELSE s[n - 1] \o with(FlagOrder[n])]
  <2>1. \A n \in 0 .. m : n # 0 => n \in 1 .. m
    BY FoundDefsType
  <2> QED BY <1>2, <1>3, <2>1 DEF Parts
<1>5. upTo = [n \in 0 .. m |-> IF n = 0 THEN <<>> ELSE upTo[n - 1] \o with(FlagOrder[n])]
  BY <1>4
<1> HIDE DEF upTo
<1>6. Parts(upTo, FoundDefs(L), m)
  <2>1. \A n \in 0 .. m : n # 0 => n \in 1 .. m
    BY FoundDefsType
  <2> QED BY <1>2, <1>5, <2>1 DEF Parts
<1> QED BY <1>1, <1>6

LEMMA EncodeOverridesIs ==
  ASSUME NEW S, NEW o \in Seq(S)
  PROVE  \E s : Parts(s, FoundEntries(o), Len(UnitOrder)) /\ encodeOverrides(o) = s[Len(UnitOrder)]
<1> DEFINE with(k) == IF \E j \in DOMAIN o : o[j][1] = k
                      THEN <<o[CHOOSE j \in DOMAIN o : o[j][1] = k]>> ELSE <<>>
           m == Len(UnitOrder)
           upTo == CHOOSE u : u = [n \in 0 .. m |-> IF n = 0 THEN <<>> ELSE u[n - 1] \o with(UnitOrder[n])]
<1>1. encodeOverrides(o) = upTo[m]
  BY DEF encodeOverrides, SortBy
<1>2. \A n \in 1 .. m : with(UnitOrder[n]) = FoundEntries(o)[n]
  BY DEF FoundEntries
<1>3. PICK s : Parts(s, FoundEntries(o), m)
  BY FoundEntriesType, PartsExist
<1> HIDE DEF with
<1>4. s = [n \in 0 .. m |-> IF n = 0 THEN <<>> ELSE s[n - 1] \o with(UnitOrder[n])]
  <2>1. \A n \in 0 .. m : n # 0 => n \in 1 .. m
    BY FoundEntriesType
  <2> QED BY <1>2, <1>3, <2>1 DEF Parts
<1>5. upTo = [n \in 0 .. m |-> IF n = 0 THEN <<>> ELSE upTo[n - 1] \o with(UnitOrder[n])]
  BY <1>4
<1> HIDE DEF upTo
<1>6. Parts(upTo, FoundEntries(o), m)
  <2>1. \A n \in 0 .. m : n # 0 => n \in 1 .. m
    BY FoundEntriesType
  <2> QED BY <1>2, <1>5, <2>1 DEF Parts
<1> QED BY <1>1, <1>6

\* No flag twice.
DistinctKeys(L) == \A i, j \in DOMAIN L : L[i].key = L[j].key => i = j

LEMMA SortedRange ==
  ASSUME NEW L \in Seq(Listable), DistinctKeys(L)
  PROVE  sortDefinitions(L) \in Seq(Listable) /\ Range(sortDefinitions(L)) = Range(L)
<1> DEFINE m == Len(FlagOrder)
           c == FoundDefs(L)
<1>1. c \in [1 .. m -> Seq(Listable)] /\ m \in Nat
  BY FoundDefsType
<1>2. PICK s : Parts(s, c, m) /\ sortDefinitions(L) = s[m]
  BY SortDefinitionsIs
<1> HIDE DEF c
<1>3. s[m] \in Seq(Listable) /\ Range(s[m]) = UNION {Range(c[i]) : i \in 1 .. m}
  BY <1>1, <1>2, PartsRange
<1>4. ASSUME NEW x, NEW i \in 1 .. m, x \in Range(c[i]) PROVE x \in Range(L)
  <2>1. CASE \E j \in DOMAIN L : L[j].key = FlagOrder[i]
    <3> DEFINE k == CHOOSE j \in DOMAIN L : L[j].key = FlagOrder[i]
    <3>1. k \in DOMAIN L
      BY <2>1
    <3>2. c[i] = <<L[k]>>
      BY <2>1 DEF c, FoundDefs
    <3> HIDE DEF k
    <3> QED BY <1>4, <3>1, <3>2 DEF Range
  <2>2. CASE ~\E j \in DOMAIN L : L[j].key = FlagOrder[i]
    <3>1. c[i] = <<>>
      BY <2>2 DEF c, FoundDefs
    <3> QED BY <1>4, <3>1 DEF Range
  <2> QED BY <2>1, <2>2
<1>5. ASSUME NEW j \in DOMAIN L PROVE \E i \in 1 .. m : L[j] \in Range(c[i])
  <2>0. L[j] \in Listable
    BY LenProperties
  <2>1. L[j].key \in Flags
    BY <2>0 DEF Listable
  <2>2. PICK i \in 1 .. m : FlagOrder[i] = L[j].key
    BY <2>1, DefinitionsAssumption, LenProperties DEF DefinitionsAssumption, Flags, Range
  <2> DEFINE k == CHOOSE n \in DOMAIN L : L[n].key = FlagOrder[i]
  <2>3. k \in DOMAIN L /\ L[k].key = FlagOrder[i]
    BY <2>2
  <2>4. c[i] = <<L[k]>>
    BY <2>2 DEF c, FoundDefs
  <2> HIDE DEF k
  <2>5. k = j
    BY <2>2, <2>3 DEF DistinctKeys
  <2>6. L[j] \in Range(c[i])
    BY <2>4, <2>5 DEF Range
  <2> QED BY <2>6
<1>6. Range(L) \subseteq UNION {Range(c[i]) : i \in 1 .. m}
  BY <1>5 DEF Range
<1>7. UNION {Range(c[i]) : i \in 1 .. m} \subseteq Range(L)
  BY <1>4
<1> QED BY <1>2, <1>3, <1>6, <1>7

\* An object has the first entry of each unit.
LEMMA ObjectOf ==
  ASSUME NEW o \in Seq(Entries), NEW u \in DOMAIN AsObject(o)
  PROVE  LET k == CHOOSE j \in DOMAIN o : o[j][1] = u
         IN k \in DOMAIN o /\ o[k] = <<u, AsObject(o)[u]>> /\ u \in Range(UnitOrder)
<1> DEFINE k == CHOOSE j \in DOMAIN o : o[j][1] = u
<1>1. u \in {o[i][1] : i \in DOMAIN o}
  BY DEF AsObject
<1>2. k \in DOMAIN o /\ o[k][1] = u
  BY <1>1
<1>3. AsObject(o)[u] = o[k][2]
  BY <1>1 DEF AsObject
<1> HIDE DEF k
<1>4. o[k] \in Range(UnitOrder) \X BOOLEAN
  BY <1>2, LenProperties DEF Entries
<1>5. o[k] = <<o[k][1], o[k][2]>> /\ o[k][1] \in Range(UnitOrder)
  BY <1>4
<1> QED BY <1>2, <1>3, <1>5 DEF k

\* The entry FoundEntries gives for a unit is the object's.
LEMMA FoundObject ==
  ASSUME NEW o \in Seq(Entries), NEW i \in 1 .. Len(UnitOrder)
  PROVE  /\ UnitOrder[i] \in DOMAIN AsObject(o) =>
              FoundEntries(o)[i] = << <<UnitOrder[i], AsObject(o)[UnitOrder[i]]>> >>
         /\ UnitOrder[i] \notin DOMAIN AsObject(o) => FoundEntries(o)[i] = <<>>
<1> DEFINE u == UnitOrder[i]
           k == CHOOSE j \in DOMAIN o : o[j][1] = u
<1>1. u \in DOMAIN AsObject(o) <=> \E j \in DOMAIN o : o[j][1] = u
  BY DEF AsObject
<1>2. ASSUME u \in DOMAIN AsObject(o) PROVE FoundEntries(o)[i] = << <<u, AsObject(o)[u]>> >>
  <2>1. FoundEntries(o)[i] = <<o[k]>>
    BY <1>1, <1>2 DEF FoundEntries
  <2>2. o[k] = <<u, AsObject(o)[u]>>
    BY <1>2, ObjectOf
  <2> HIDE DEF k
  <2> QED BY <2>1, <2>2
<1>3. ASSUME u \notin DOMAIN AsObject(o) PROVE FoundEntries(o)[i] = <<>>
  BY <1>1, <1>3 DEF FoundEntries
<1> QED BY <1>2, <1>3

LEMMA UnitsOfObjects ==
  ASSUME NEW o \in Seq(Entries), NEW u \in DOMAIN AsObject(o)
  PROVE  \E i \in 1 .. Len(UnitOrder) : UnitOrder[i] = u
<1>1. u \in Range(UnitOrder)
  BY ObjectOf
<1> QED BY <1>1, DefinitionsAssumption, LenProperties DEF DefinitionsAssumption, Range

ObjectEntries(f) == {<<u, f[u]>> : u \in DOMAIN f}

LEMMA EncodedOverrides ==
  ASSUME NEW o \in Seq(Entries)
  PROVE  Range(encodeOverrides(o)) = ObjectEntries(AsObject(o))
<1> DEFINE m == Len(UnitOrder)
           c == FoundEntries(o)
           f == AsObject(o)
<1>1. c \in [1 .. m -> Seq(Entries)] /\ m \in Nat
  BY FoundEntriesType
<1>2. PICK s : Parts(s, c, m) /\ encodeOverrides(o) = s[m]
  BY EncodeOverridesIs
<1>3. \A i \in 1 .. m : /\ UnitOrder[i] \in DOMAIN f => c[i] = << <<UnitOrder[i], f[UnitOrder[i]]>> >>
                        /\ UnitOrder[i] \notin DOMAIN f => c[i] = <<>>
  BY FoundObject
<1>4. \A u \in DOMAIN f : \E i \in 1 .. m : UnitOrder[i] = u
  BY UnitsOfObjects
<1> HIDE DEF c, f
<1>5. Range(s[m]) = UNION {Range(c[i]) : i \in 1 .. m}
  BY <1>1, <1>2, PartsRange
<1>6. ASSUME NEW i \in 1 .. m, NEW x \in Range(c[i]) PROVE x \in ObjectEntries(f)
  <2>1. CASE UnitOrder[i] \in DOMAIN f
    <3>1. x = <<UnitOrder[i], f[UnitOrder[i]]>>
      BY <1>3, <2>1 DEF Range
    <3> QED BY <2>1, <3>1 DEF ObjectEntries
  <2>2. CASE UnitOrder[i] \notin DOMAIN f
    BY <1>3, <2>2 DEF Range
  <2> QED BY <2>1, <2>2
<1>7. ASSUME NEW x \in ObjectEntries(f) PROVE \E i \in 1 .. m : x \in Range(c[i])
  <2>1. PICK u \in DOMAIN f : x = <<u, f[u]>>
    BY DEF ObjectEntries
  <2>2. PICK i \in 1 .. m : UnitOrder[i] = u
    BY <1>4
  <2>3. c[i] = <<x>>
    BY <1>3, <2>1, <2>2
  <2>4. x \in Range(c[i])
    BY <2>3 DEF Range
  <2> QED BY <2>4
<1>8. UNION {Range(c[i]) : i \in 1 .. m} = ObjectEntries(f)
  BY <1>6, <1>7
<1> QED BY <1>2, <1>5, <1>8 DEF f

LEMMA SameEntriesSameObject ==
  ASSUME NEW D, NEW E, NEW f, NEW g, f = [u \in D |-> f[u]], g = [u \in E |-> g[u]],
         ObjectEntries(f) = ObjectEntries(g)
  PROVE  f = g
<1>1. ASSUME NEW u \in D PROVE u \in E /\ f[u] = g[u]
  <2>1. <<u, f[u]>> \in ObjectEntries(g)
    BY DEF ObjectEntries
  <2> QED BY <2>1 DEF ObjectEntries
<1>2. ASSUME NEW u \in E PROVE u \in D
  <2>1. <<u, g[u]>> \in ObjectEntries(f)
    BY DEF ObjectEntries
  <2> QED BY <2>1 DEF ObjectEntries
<1> QED BY <1>1, <1>2

\* The encoding of overrides forgets the order they came in, and nothing else.
LEMMA OverridesEncodeObjects ==
  ASSUME NEW o \in Seq(Entries), NEW q \in Seq(Entries)
  PROVE  encodeOverrides(o) = encodeOverrides(q) <=> AsObject(o) = AsObject(q)
<1>1. ASSUME encodeOverrides(o) = encodeOverrides(q) PROVE AsObject(o) = AsObject(q)
  <2>1. ObjectEntries(AsObject(o)) = ObjectEntries(AsObject(q))
    BY <1>1, EncodedOverrides
  <2>2. /\ AsObject(o) = [u \in DOMAIN AsObject(o) |-> AsObject(o)[u]]
        /\ AsObject(q) = [u \in DOMAIN AsObject(q) |-> AsObject(q)[u]]
    BY DEF AsObject
  <2> QED BY <2>1, <2>2, SameEntriesSameObject
<1>2. ASSUME AsObject(o) = AsObject(q) PROVE encodeOverrides(o) = encodeOverrides(q)
  <2> DEFINE m == Len(UnitOrder)
  <2>1. m \in Nat
    BY FoundEntriesType
  <2>2. PICK s : Parts(s, FoundEntries(o), m) /\ encodeOverrides(o) = s[m]
    BY EncodeOverridesIs
  <2>3. PICK t : Parts(t, FoundEntries(q), m) /\ encodeOverrides(q) = t[m]
    BY EncodeOverridesIs
  <2>4. ASSUME NEW i \in 1 .. m PROVE FoundEntries(o)[i] = FoundEntries(q)[i]
    BY <1>2, FoundObject
  <2>5. s[m] = t[m]
    BY <2>1, <2>2, <2>3, <2>4, PartsUnique
  <2> QED BY <2>2, <2>3, <2>5
<1> QED BY <1>1, <1>2

LEMMA RulesEncodeRules ==
  ASSUME NEW r \in Rules, NEW t \in Rules
  PROVE  [i \in DOMAIN r |-> encodeRule(r[i])] = [i \in DOMAIN t |-> encodeRule(t[i])] <=> r = t
<1>1. ASSUME NEW q \in Rules
      PROVE  q \in Seq(Range(q)) /\ \A i \in DOMAIN q : q[i] = [k \in RuleFields |-> q[i][k]]
  <2>1. CASE q = <<>>
    BY <2>1 DEF Range
  <2>2. CASE q \in RuleBodies
    BY <2>2, DefinitionsAssumption DEF DefinitionsAssumption
  <2> QED BY <2>1, <2>2 DEF Rules
<1> SUFFICES ASSUME [i \in DOMAIN r |-> encodeRule(r[i])] = [i \in DOMAIN t |-> encodeRule(t[i])]
             PROVE  r = t
  OBVIOUS
<1>2. DOMAIN r = DOMAIN t /\ \A i \in DOMAIN r : encodeRule(r[i]) = encodeRule(t[i])
  OBVIOUS
<1>3. ASSUME NEW i \in DOMAIN r PROVE r[i] = t[i]
  <2>1. encodeRule(r[i]) = encodeRule(t[i])
    BY <1>2
  <2>2. /\ r[i].attribute = t[i].attribute /\ r[i].operator = t[i].operator /\ r[i].values = t[i].values
        /\ r[i].serve = t[i].serve /\ r[i].rollout = t[i].rollout
    BY <2>1 DEF encodeRule
  <2>3. \A k \in RuleFields : r[i][k] = t[i][k]
    BY <2>2 DEF RuleFields
  <2>4. r[i] = [k \in RuleFields |-> r[i][k]] /\ t[i] = [k \in RuleFields |-> t[i][k]]
    BY <1>1, <1>2
  <2> QED BY <2>3, <2>4
<1>4. r \in Seq(Range(r)) /\ t \in Seq(Range(t))
  BY <1>1
<1>5. Len(r) = Len(t)
  BY <1>2, <1>4, LenProperties
<1>6. r \in Seq(Range(r) \cup Range(t)) /\ t \in Seq(Range(r) \cup Range(t))
  BY <1>4, SeqMonotonic
<1> QED BY <1>2, <1>3, <1>5, <1>6, SeqEqual

\* Two definitions have one encoding exactly when evaluate() cannot tell them apart.
LEMMA EncodesMeaning ==
  ASSUME NEW d \in Listable, NEW e \in Listable
  PROVE  encodeDefinition(d) = encodeDefinition(e) <=> Evaluable(d) = Evaluable(e)
<1>1. /\ d.overrides \in Seq(Entries) /\ e.overrides \in Seq(Entries)
      /\ d.rules \in Rules /\ e.rules \in Rules
  BY OrdersAreEntries DEF Listable
<1>2. /\ encodeOverrides(d.overrides) = encodeOverrides(e.overrides)
           <=> AsObject(d.overrides) = AsObject(e.overrides)
      /\ [i \in DOMAIN d.rules |-> encodeRule(d.rules[i])] = [i \in DOMAIN e.rules |-> encodeRule(e.rules[i])]
           <=> d.rules = e.rules
  BY <1>1, OverridesEncodeObjects, RulesEncodeRules
<1> DEFINE Same == /\ d.key = e.key /\ d.environment = e.environment /\ d.archived = e.archived
                   /\ d.enabled = e.enabled /\ d.onValue = e.onValue /\ d.offValue = e.offValue
                   /\ d.rollout = e.rollout /\ d.salt = e.salt
                   /\ d.rules = e.rules /\ AsObject(d.overrides) = AsObject(e.overrides)
<1>3. encodeDefinition(d) = encodeDefinition(e) <=> Same
  BY <1>2 DEF encodeDefinition
<1>4. ASSUME NEW c \in Listable
      PROVE  Evaluable(c) = [key |-> c.key, environment |-> c.environment, archived |-> c.archived,
                             enabled |-> c.enabled, onValue |-> c.onValue, offValue |-> c.offValue,
                             rollout |-> c.rollout, salt |-> c.salt, rules |-> c.rules,
                             overrides |-> AsObject(c.overrides)]
  BY DEF Evaluable, Listable
<1>5. Evaluable(d) = Evaluable(e) <=> Same
  BY <1>4
<1> QED BY <1>3, <1>5

Encoding == [d \in Listable |-> encodeDefinition(d)]

LEMMA EtagIsEncoding ==
  ASSUME NEW s \in Seq(Listable), NEW t \in Seq(Listable)
  PROVE  definitionsEtag(s) = definitionsEtag(t) <=> Mapped(Encoding, s) = Mapped(Encoding, t)
<1>1. (\A i \in DOMAIN s : s[i] \in Listable) /\ (\A i \in DOMAIN t : t[i] \in Listable)
  BY LenProperties
<1>2. /\ Mapped(Encoding, s) = [i \in DOMAIN s |-> encodeDefinition(s[i])]
      /\ Mapped(Encoding, t) = [i \in DOMAIN t |-> encodeDefinition(t[i])]
  BY <1>1 DEF Mapped, Encoding
<1> QED BY <1>2 DEF definitionsEtag

LEMMA MeaningOfRange ==
  ASSUME NEW s, NEW t, Range(s) = Range(t)
  PROVE  Meaning(s) = Meaning(t)
<1>1. Meaning(s) = {Evaluable(d) : d \in Range(s)} /\ Meaning(t) = {Evaluable(d) : d \in Range(t)}
  BY DEF Meaning, Range
<1> QED BY <1>1

LEMMA FoundAlike ==
  ASSUME NEW L \in Seq(Listable), DistinctKeys(L), NEW M \in Seq(Listable), DistinctKeys(M),
         Meaning(L) \subseteq Meaning(M), NEW i \in 1 .. Len(FlagOrder), NEW j \in DOMAIN L, L[j].key = FlagOrder[i]
  PROVE  \E k \in DOMAIN M : /\ M[k].key = FlagOrder[i]
                             /\ FoundDefs(L)[i] = <<L[j]>> /\ FoundDefs(M)[i] = <<M[k]>>
                             /\ L[j] \in Listable /\ M[k] \in Listable /\ Encoding[L[j]] = Encoding[M[k]]
<1>1. (\A n \in DOMAIN L : L[n] \in Listable) /\ (\A n \in DOMAIN M : M[n] \in Listable)
  BY LenProperties
<1>2. PICK k \in DOMAIN M : Evaluable(M[k]) = Evaluable(L[j])
  BY DEF Meaning
<1>3. \A d \in Listable : Evaluable(d).key = d.key
  BY DEF Evaluable, Listable
<1>4. M[k].key = FlagOrder[i]
  BY <1>1, <1>2, <1>3
<1>5. FoundDefs(L)[i] = <<L[j]>>
  <2> DEFINE n == CHOOSE n \in DOMAIN L : L[n].key = FlagOrder[i]
  <2>1. n \in DOMAIN L /\ L[n].key = FlagOrder[i]
    OBVIOUS
  <2>2. FoundDefs(L)[i] = <<L[n]>>
    BY DEF FoundDefs
  <2> HIDE DEF n
  <2>3. n = j
    BY <2>1 DEF DistinctKeys
  <2> QED BY <2>2, <2>3
<1>6. FoundDefs(M)[i] = <<M[k]>>
  <2> DEFINE n == CHOOSE n \in DOMAIN M : M[n].key = FlagOrder[i]
  <2>1. n \in DOMAIN M /\ M[n].key = FlagOrder[i]
    BY <1>4
  <2>2. FoundDefs(M)[i] = <<M[n]>>
    BY <1>4 DEF FoundDefs
  <2> HIDE DEF n
  <2>3. n = k
    BY <1>4, <2>1 DEF DistinctKeys
  <2> QED BY <2>2, <2>3
<1>7. encodeDefinition(L[j]) = encodeDefinition(M[k])
  BY <1>1, <1>2, EncodesMeaning
<1> QED BY <1>1, <1>4, <1>5, <1>6, <1>7 DEF Encoding

\* The tags of two sorted sets are equal exactly when the sets mean the same.
LEMMA EtagIsMeaning ==
  ASSUME NEW L \in Seq(Listable), DistinctKeys(L), NEW M \in Seq(Listable), DistinctKeys(M)
  PROVE  definitionsEtag(sortDefinitions(L)) = definitionsEtag(sortDefinitions(M)) <=> Meaning(L) = Meaning(M)
<1> DEFINE s == sortDefinitions(L)
           t == sortDefinitions(M)
           m == Len(FlagOrder)
           c == FoundDefs(L)
           d == FoundDefs(M)
<1>1. /\ s \in Seq(Listable) /\ Range(s) = Range(L)
      /\ t \in Seq(Listable) /\ Range(t) = Range(M)
  BY SortedRange
<1>2. definitionsEtag(s) = definitionsEtag(t) <=> Mapped(Encoding, s) = Mapped(Encoding, t)
  BY <1>1, EtagIsEncoding
<1>3. Meaning(s) = Meaning(L) /\ Meaning(t) = Meaning(M)
  BY <1>1, MeaningOfRange
<1>4. ASSUME Mapped(Encoding, s) = Mapped(Encoding, t) PROVE Meaning(L) = Meaning(M)
  <2> HIDE DEF s, t
  <2>1. DOMAIN s = DOMAIN t /\ \A i \in DOMAIN s : Encoding[s[i]] = Encoding[t[i]]
    BY <1>4 DEF Mapped
  <2>2. \A i \in DOMAIN s : s[i] \in Listable /\ t[i] \in Listable
    BY <1>1, <2>1, LenProperties
  <2>3. \A i \in DOMAIN s : Evaluable(s[i]) = Evaluable(t[i])
    BY <2>1, <2>2, EncodesMeaning DEF Encoding
  <2>4. Meaning(s) = Meaning(t)
    BY <2>1, <2>3 DEF Meaning
  <2> QED BY <1>3, <2>4
<1>5. ASSUME Meaning(L) = Meaning(M) PROVE Mapped(Encoding, s) = Mapped(Encoding, t)
  <2>1. c \in [1 .. m -> Seq(Listable)] /\ d \in [1 .. m -> Seq(Listable)] /\ m \in Nat
    BY FoundDefsType
  <2>2. PICK p : Parts(p, c, m) /\ s = p[m]
    BY SortDefinitionsIs
  <2>3. PICK q : Parts(q, d, m) /\ t = q[m]
    BY SortDefinitionsIs
  <2>4. ASSUME NEW i \in 1 .. m PROVE Mapped(Encoding, c[i]) = Mapped(Encoding, d[i])
    <3>1. \A x, y \in Listable : Encoding[x] = Encoding[y] => Mapped(Encoding, <<x>>) = Mapped(Encoding, <<y>>)
      BY DEF Mapped
    <3>2. CASE \E j \in DOMAIN L : L[j].key = FlagOrder[i]
      <4>1. PICK j \in DOMAIN L : L[j].key = FlagOrder[i]
        BY <3>2
      <4>2. Meaning(L) \subseteq Meaning(M)
        BY <1>5
      <4>3. PICK k \in DOMAIN M : /\ M[k].key = FlagOrder[i]
                                  /\ c[i] = <<L[j]>> /\ d[i] = <<M[k]>>
                                  /\ L[j] \in Listable /\ M[k] \in Listable /\ Encoding[L[j]] = Encoding[M[k]]
        BY <4>1, <4>2, FoundAlike, ZenonT(60)
      <4> HIDE DEF c, d
      <4> QED BY <3>1, <4>3
    <3>3. CASE \E k \in DOMAIN M : M[k].key = FlagOrder[i]
      <4>1. PICK k \in DOMAIN M : M[k].key = FlagOrder[i]
        BY <3>3
      <4>2. PICK j \in DOMAIN L : L[j].key = FlagOrder[i]
        BY <1>5, <4>1, FoundAlike
      <4> QED BY <3>2, <4>2
    <3>4. CASE ~(\E j \in DOMAIN L : L[j].key = FlagOrder[i]) /\ ~(\E k \in DOMAIN M : M[k].key = FlagOrder[i])
      BY <3>4 DEF FoundDefs
    <3> QED BY <3>2, <3>3, <3>4
  <2>5. Alike(Encoding, c, d, m)
    BY <2>4 DEF Alike
  <2> HIDE DEF c, d, m, s, t
  <2>6. Parts(p, c, m) /\ Parts(q, d, m)
    BY <2>2, <2>3
  <2>7. Mapped(Encoding, p[m]) = Mapped(Encoding, q[m])
    <3>1. AlikeParts(Listable, Encoding, m, c, d, p, q)
      BY <2>1, <2>5, <2>6 DEF AlikeParts
    <3> QED BY <3>1, PartsMapped
  <2> QED BY <2>2, <2>3, <2>7
<1> QED BY <1>2, <1>4, <1>5

-----------------------------------------------------------------------------
(* The inductive invariant.                                                *)

\* Rows are never deleted and their versions never fall.
PastInv ==
  /\ past \in Seq([Flags -> Rows \cup {None}]) /\ past # <<>> /\ row = past[Len(past)]
  /\ \A f \in Flags : \A i, j \in DOMAIN past : i <= j /\ past[i][f] # None =>
       past[j][f] # None /\ past[i][f].version <= past[j][f].version

\* The rules were f's at moment j of p, when its version was at least v, and the overrides
\* at that moment or later.
SeenAt(p, f, j, v, rules) == p[j][f] # None /\ p[j][f].version >= v /\ p[j][f].rules = rules
Seen(p, f, v, rules, overrides) ==
  \E j \in DOMAIN p : \E k \in j .. Len(p) :
    SeenAt(p, f, j, v, rules) /\ Range(p[k][f].overrides) = overrides

Heads == [version : Nat, config : Configs]

ListingType ==
  /\ listing = [todo |-> listing.todo, cur |-> listing.cur, got |-> listing.got]
  /\ listing.todo \in Seq([key : Flags, archived : BOOLEAN])
  /\ listing.cur \in Seq(Heads \cup Rules \cup Orders)
  /\ listing.got \in Seq([def : Listable, version : Nat])
  /\ Len(listing.cur) <= 3 /\ (listing.cur # <<>> => listing.todo # <<>>)

\* The flags to come and the flags done are different flags.
TodoInv(todo, got) ==
  /\ \A i, j \in DOMAIN todo : todo[i].key = todo[j].key => i = j
  /\ \A i, j \in DOMAIN got : got[i].def.key = got[j].def.key => i = j
  /\ \A i \in DOMAIN todo : \A j \in DOMAIN got : todo[i].key # got[j].def.key

\* What is read of the flag at the head so far.
CurInv(p, f, cur) ==
  /\ Len(cur) >= 1 => cur[1] \in Heads /\ cur[1].version <= p[Len(p)][f].version
  /\ Len(cur) = 2 => cur[2] \in Rules /\ \E j \in DOMAIN p : SeenAt(p, f, j, cur[1].version, cur[2])
  /\ Len(cur) = 3 => cur[2] \in Rules /\ cur[3] \in Orders /\ Seen(p, f, cur[1].version, cur[2], Range(cur[3]))

GotInv(p, got) ==
  \A i \in DOMAIN got : Seen(p, got[i].def.key, got[i].version, got[i].def.rules, Range(got[i].def.overrides))

ListingInv ==
  listing # Undefined =>
    /\ ListingType
    /\ \A i \in DOMAIN listing.todo : row[listing.todo[i].key] # None
    /\ TodoInv(listing.todo, listing.got)
    /\ listing.todo # <<>> => CurInv(past, Head(listing.todo).key, listing.cur)
    /\ GotInv(past, listing.got)

\* A tag is the SDK's only together with the sorted set it was computed of.
SdkInv ==
  sdk.etag # Undefined => \E L \in Seq(Listable) :
    /\ DistinctKeys(L)
    /\ sdk.snapshot = sortDefinitions(L) /\ sdk.etag = definitionsEtag(sdk.snapshot)

DefinitionsInv == PastInv /\ ListingInv /\ SdkInv

-----------------------------------------------------------------------------
(* Writers.                                                                *)

LEMMA NewRowType == NewRow \in Rows
<1>1. NewRow.config \in Configs
  BY DEF NewRow, Configs, Settings
<1> QED BY <1>1 DEF NewRow, Rows, Rules, Overrides

LEMMA PatchedType ==
  ASSUME NEW config \in Configs, NEW p \in Patches
  PROVE  Patched(config, p) \in Configs
<1> DEFINE c == Patched(config, p)
<1>1. c = [enabled |-> c.enabled, onValue |-> c.onValue, offValue |-> c.offValue, rollout |-> c.rollout]
  BY DEF Patched, Columns
<1>2. /\ c.enabled \in Settings("enabled") /\ c.onValue \in Settings("onValue")
      /\ c.offValue \in Settings("offValue") /\ c.rollout \in Settings("rollout")
  BY DEF Patched, Columns, Configs, Settings
<1> HIDE DEF c
<1>3. [enabled |-> c.enabled, onValue |-> c.onValue, offValue |-> c.offValue, rollout |-> c.rollout] \in Configs
  BY <1>2 DEF Configs
<1> QED BY <1>1, <1>3, Zenon DEF c

LEMMA RowChanges ==
  ASSUME NEW r \in Rows
  PROVE  /\ [r EXCEPT !.archived = TRUE] \in Rows /\ r.version <= [r EXCEPT !.archived = TRUE].version
         /\ \A c \in Configs : /\ [r EXCEPT !.config = c, !.version = @ + 1] \in Rows
                               /\ r.version <= [r EXCEPT !.config = c, !.version = @ + 1].version
         /\ \A b \in Rules : /\ [r EXCEPT !.rules = b, !.version = @ + 1] \in Rows
                             /\ r.version <= [r EXCEPT !.rules = b, !.version = @ + 1].version
         /\ \A b \in Overrides : /\ [r EXCEPT !.overrides = b, !.version = @ + 1] \in Rows
                                 /\ r.version <= [r EXCEPT !.overrides = b, !.version = @ + 1].version
<1>1. r.version \in Nat /\ r.version + 1 \in Nat /\ r.version <= r.version + 1
  BY DEF Rows
<1>2. [r EXCEPT !.archived = TRUE] \in Rows /\ r.version <= [r EXCEPT !.archived = TRUE].version
  <2>1. \A a \in BOOLEAN : [r EXCEPT !.archived = a] \in Rows /\ r.version <= [r EXCEPT !.archived = a].version
    BY <1>1 DEF Rows
  <2> QED BY <2>1
<1>3. \A c \in Configs : /\ [r EXCEPT !.config = c, !.version = @ + 1] \in Rows
                         /\ r.version <= [r EXCEPT !.config = c, !.version = @ + 1].version
  BY <1>1 DEF Rows
<1>4. \A b \in Rules : /\ [r EXCEPT !.rules = b, !.version = @ + 1] \in Rows
                       /\ r.version <= [r EXCEPT !.rules = b, !.version = @ + 1].version
  BY <1>1 DEF Rows
<1>5. \A b \in Overrides : /\ [r EXCEPT !.overrides = b, !.version = @ + 1] \in Rows
                           /\ r.version <= [r EXCEPT !.overrides = b, !.version = @ + 1].version
  BY <1>1 DEF Rows
<1> QED BY <1>2, <1>3, <1>4, <1>5

LEMMA ChangeWrites ==
  ASSUME PastInv, NEW f \in Flags, Change(f)
  PROVE  \E new \in Rows : Write(f, new) /\ (row[f] # None => row[f].version <= new.version)
<1> DEFINE r == row[f]
           Good(new) == new \in Rows /\ Write(f, new) /\ (r # None => r.version <= new.version)
<1>0. r # None => r \in Rows
  <2>1. row \in [Flags -> Rows \cup {None}]
    BY LenProperties DEF PastInv
  <2> QED BY <2>1
<1>1. ASSUME Create(f) PROVE \E new : Good(new)
  <2>1. Good(NewRow)
    BY <1>1, NewRowType DEF Create
  <2> QED BY <2>1
<1>2. ASSUME Archive(f) PROVE \E new : Good(new)
  <2> DEFINE new == [r EXCEPT !.archived = TRUE]
  <2>1. r # None /\ Write(f, new)
    BY <1>2 DEF Archive
  <2> HIDE DEF r
  <2>2. new \in Rows /\ r.version <= new.version
    BY <1>0, <2>1, RowChanges
  <2> HIDE DEF new
  <2> QED BY <2>1, <2>2
<1>3. ASSUME NEW p \in Patches, Patch(f, p) PROVE \E new : Good(new)
  <2> DEFINE c == Patched(r.config, p)
             new == [r EXCEPT !.config = c, !.version = @ + 1]
  <2>1. r # None /\ Write(f, new)
    BY <1>3 DEF Patch
  <2>2. c \in Configs
    BY <1>0, <2>1, PatchedType DEF Rows
  <2> HIDE DEF r, c
  <2>3. new \in Rows /\ r.version <= new.version
    BY <1>0, <2>1, <2>2, RowChanges
  <2> HIDE DEF new
  <2> QED BY <2>1, <2>3
<1>4. ASSUME NEW b \in RuleBodies, PutRules(f, b) PROVE \E new : Good(new)
  <2> DEFINE new == [r EXCEPT !.rules = b, !.version = @ + 1]
  <2>1. r # None /\ Write(f, new) /\ b \in Rules
    BY <1>4 DEF PutRules, Rules
  <2> HIDE DEF r
  <2>2. new \in Rows /\ r.version <= new.version
    BY <1>0, <2>1, RowChanges
  <2> HIDE DEF new
  <2> QED BY <2>1, <2>2
<1>5. ASSUME NEW b \in OverrideBodies, PutOverrides(f, b) PROVE \E new : Good(new)
  <2> DEFINE new == [r EXCEPT !.overrides = b, !.version = @ + 1]
  <2>1. r # None /\ Write(f, new) /\ b \in Overrides
    BY <1>5 DEF PutOverrides, Overrides
  <2> HIDE DEF r
  <2>2. new \in Rows /\ r.version <= new.version
    BY <1>0, <2>1, RowChanges
  <2> HIDE DEF new
  <2> QED BY <2>1, <2>2
<1>6. \E new : Good(new)
  <2> HIDE DEF Good, r
  <2> QED BY <1>1, <1>2, <1>3, <1>4, <1>5 DEF Change
<1> QED BY <1>6

\* What was seen stays seen.
LEMMA SeenStays ==
  ASSUME NEW S, NEW p \in Seq(S), NEW x \in S, NEW f, NEW v, NEW rules
  PROVE  /\ \A j \in DOMAIN p : SeenAt(p, f, j, v, rules) => SeenAt(Append(p, x), f, j, v, rules)
         /\ \A overrides : Seen(p, f, v, rules, overrides) => Seen(Append(p, x), f, v, rules, overrides)
<1> DEFINE q == Append(p, x)
<1>1. /\ Len(p) \in Nat /\ DOMAIN p = 1 .. Len(p) /\ Len(q) = Len(p) + 1 /\ DOMAIN q = 1 .. Len(p) + 1
      /\ \A j \in 1 .. Len(p) : q[j] = p[j]
  BY AppendProperties, LenProperties
<1> HIDE DEF q
<1>2. \A j \in DOMAIN p : SeenAt(p, f, j, v, rules) => SeenAt(q, f, j, v, rules)
  BY <1>1 DEF SeenAt
<1>3. ASSUME NEW overrides, Seen(p, f, v, rules, overrides) PROVE Seen(q, f, v, rules, overrides)
  <2>1. PICK j \in DOMAIN p : \E k \in j .. Len(p) :
          SeenAt(p, f, j, v, rules) /\ Range(p[k][f].overrides) = overrides
    BY <1>3 DEF Seen
  <2>2. PICK k \in j .. Len(p) : SeenAt(p, f, j, v, rules) /\ Range(p[k][f].overrides) = overrides
    BY <2>1
  <2>3. j \in DOMAIN q /\ k \in j .. Len(q) /\ q[k] = p[k]
    BY <1>1, <2>2
  <2> QED BY <1>2, <2>2, <2>3 DEF Seen
<1> QED BY <1>2, <1>3 DEF q

LEMMA WriteKeepsInv ==
  ASSUME DefinitionsInv, NEW f \in Flags, NEW new \in Rows, Write(f, new),
         row[f] # None => row[f].version <= new.version
  PROVE  DefinitionsInv'
<1> DEFINE S == [Flags -> Rows \cup {None}]
<1>1. past \in Seq(S) /\ past # <<>> /\ row = past[Len(past)] /\ row \in S
  <2>1. past \in Seq(S) /\ past # <<>> /\ row = past[Len(past)]
    BY DEF DefinitionsInv, PastInv
  <2> QED BY <2>1, LenProperties
<1>2. /\ row' = [row EXCEPT ![f] = new] /\ past' = Append(past, row')
      /\ listing' = listing /\ sdk' = sdk
  BY DEF Write
<1>3. row' \in S
  BY <1>1, <1>2
<1> HIDE DEF S
<1>4. /\ Len(past) \in Nat \ {0} /\ DOMAIN past = 1 .. Len(past) /\ past' \in Seq(S) /\ past' # <<>>
      /\ Len(past') = Len(past) + 1 /\ DOMAIN past' = 1 .. Len(past) + 1
      /\ \A j \in 1 .. Len(past) : past'[j] = past[j]
      /\ past'[Len(past) + 1] = row'
  BY <1>1, <1>2, <1>3, AppendProperties, LenProperties
<1>5. ASSUME NEW g \in Flags, row[g] # None
      PROVE  row'[g] # None /\ row[g].version <= row'[g].version
  <2>1. row[g].version \in Nat /\ DOMAIN row = Flags
    BY <1>1, <1>5 DEF S, Rows
  <2>2. CASE g = f
    BY <1>2, <1>5, <2>1, <2>2, NoneIsNoRow
  <2>3. CASE g # f
    BY <1>2, <1>5, <2>1, <2>3
  <2> QED BY <2>2, <2>3
<1>6. PastInv'
  <2>1. ASSUME NEW g \in Flags, NEW i \in DOMAIN past', NEW j \in DOMAIN past', i <= j, past'[i][g] # None
        PROVE  past'[j][g] # None /\ past'[i][g].version <= past'[j][g].version
    <3>1. \A m, n \in 1 .. Len(past) : m <= n /\ past[m][g] # None =>
            past[n][g] # None /\ past[m][g].version <= past[n][g].version
      BY <1>4 DEF DefinitionsInv, PastInv
    <3>2. CASE j <= Len(past)
      <4>1. i \in 1 .. Len(past) /\ j \in 1 .. Len(past)
        BY <1>4, <2>1, <3>2
      <4> QED BY <1>4, <2>1, <3>1, <4>1
    <3>3. CASE i <= Len(past) /\ j = Len(past) + 1
      <4>1. i \in 1 .. Len(past) /\ Len(past) \in 1 .. Len(past) /\ i <= Len(past)
        BY <1>4, <3>3
      <4>2. past[i][g] # None /\ past'[i] = past[i]
        BY <1>4, <2>1, <4>1
      <4>3. row[g] # None /\ past[i][g].version <= row[g].version
        BY <1>1, <3>1, <4>1, <4>2
      <4>4. row'[g] # None /\ row[g].version <= row'[g].version
        BY <1>5, <4>3
      <4>5. past[i] \in S
        BY <1>1, <1>4, <4>1
      <4>6. past[i][g].version \in Nat /\ row[g].version \in Nat /\ row'[g].version \in Nat
        BY <1>1, <1>3, <4>2, <4>3, <4>4, <4>5 DEF S, Rows
      <4> QED BY <1>4, <3>3, <4>2, <4>3, <4>4, <4>6
    <3>4. CASE i = Len(past) + 1 /\ j = Len(past) + 1
      <4>1. row'[g].version \in Nat
        BY <1>3, <1>4, <2>1, <3>4 DEF S, Rows
      <4> QED BY <1>4, <2>1, <3>4, <4>1
    <3> QED BY <1>4, <2>1, <3>2, <3>3, <3>4
  <2> QED BY <1>4, <2>1 DEF PastInv, S
<1>7. ListingInv'
  <2> SUFFICES ASSUME listing # Undefined PROVE ListingInv'
    BY <1>2 DEF ListingInv
  <2>1. /\ ListingType
        /\ \A i \in DOMAIN listing.todo : row[listing.todo[i].key] # None
        /\ TodoInv(listing.todo, listing.got)
        /\ listing.todo # <<>> => CurInv(past, Head(listing.todo).key, listing.cur)
        /\ GotInv(past, listing.got)
    BY DEF DefinitionsInv, ListingInv
  <2>2. \A i \in DOMAIN listing.todo : listing.todo[i].key \in Flags
    <3>1. \A i \in DOMAIN listing.todo : listing.todo[i] \in [key : Flags, archived : BOOLEAN]
      BY <2>1, LenProperties DEF ListingType
    <3> QED BY <3>1
  <2>3. \A i \in DOMAIN listing.todo : row'[listing.todo[i].key] # None
    BY <1>5, <2>1, <2>2
  <2>4. GotInv(past', listing.got)
    BY <1>1, <1>2, <1>3, <2>1, SeenStays DEF GotInv
  <2>5. ASSUME listing.todo # <<>> PROVE CurInv(past', Head(listing.todo).key, listing.cur)
    <3> DEFINE h == Head(listing.todo).key
               cur == listing.cur
    <3>1. h \in Flags /\ row[h] # None
      <4>1. 1 \in DOMAIN listing.todo /\ Head(listing.todo) = listing.todo[1]
        BY <2>1, <2>5, LenProperties DEF ListingType
      <4> QED BY <2>1, <2>2, <4>1
    <3>2. CurInv(past, h, cur)
      BY <2>1, <2>5
    <3> HIDE DEF h, cur
    <3>3. ASSUME Len(cur) >= 1 PROVE cur[1] \in Heads /\ cur[1].version <= past'[Len(past')][h].version
      <4>1. cur[1] \in Heads /\ cur[1].version <= row[h].version
        BY <1>1, <3>2, <3>3 DEF CurInv
      <4>2. row'[h] # None /\ row[h].version <= row'[h].version
        BY <1>5, <3>1
      <4>3. cur[1].version \in Nat /\ row[h].version \in Nat /\ row'[h].version \in Nat
        BY <1>1, <1>3, <3>1, <4>1, <4>2 DEF S, Rows, Heads
      <4> QED BY <1>4, <4>1, <4>2, <4>3
    <3>4. ASSUME Len(cur) = 2
          PROVE  cur[2] \in Rules /\ \E j \in DOMAIN past' : SeenAt(past', h, j, cur[1].version, cur[2])
      <4>1. PICK j \in DOMAIN past : SeenAt(past, h, j, cur[1].version, cur[2])
        BY <3>2, <3>4 DEF CurInv
      <4>2. SeenAt(Append(past, row'), h, j, cur[1].version, cur[2])
        BY <1>1, <1>3, <4>1, SeenStays
      <4>3. j \in DOMAIN past' /\ SeenAt(past', h, j, cur[1].version, cur[2])
        BY <1>2, <1>4, <4>2
      <4> QED BY <3>2, <3>4, <4>3 DEF CurInv
    <3>5. ASSUME Len(cur) = 3
          PROVE  /\ cur[2] \in Rules /\ cur[3] \in Orders
                 /\ Seen(past', h, cur[1].version, cur[2], Range(cur[3]))
      <4>1. /\ cur[2] \in Rules /\ cur[3] \in Orders
            /\ Seen(past, h, cur[1].version, cur[2], Range(cur[3]))
        BY <3>2, <3>5 DEF CurInv
      <4> QED BY <1>1, <1>2, <1>3, <4>1, SeenStays
    <3> QED BY <3>3, <3>4, <3>5 DEF CurInv, h, cur
  <2> QED BY <1>2, <2>1, <2>3, <2>4, <2>5 DEF ListingInv, ListingType
<1>8. SdkInv'
  BY <1>2 DEF DefinitionsInv, SdkInv
<1> QED BY <1>6, <1>7, <1>8 DEF DefinitionsInv

-----------------------------------------------------------------------------
(* The listing.                                                            *)

LEMMA ReadPieces ==
  /\ Len(Pieces) = 3 /\ Pieces[1] = "config" /\ Pieces[2] = "rules" /\ Pieces[3] = "overrides"
  /\ Read("config") = listing.cur[1] /\ Read("rules") = listing.cur[2] /\ Read("overrides") = listing.cur[3]
<1>1. /\ Len(Pieces) = 3 /\ DOMAIN Pieces = 1 .. 3
      /\ Pieces[1] = "config" /\ Pieces[2] = "rules" /\ Pieces[3] = "overrides"
  BY DEF Pieces
<1>2. \A i \in DOMAIN Pieces : i = 1 \/ i = 2 \/ i = 3
  BY <1>1
<1>3. (CHOOSE i \in DOMAIN Pieces : Pieces[i] = "config") = 1
  BY <1>1, <1>2
<1>4. (CHOOSE i \in DOMAIN Pieces : Pieces[i] = "rules") = 2
  BY <1>1, <1>2
<1>5. (CHOOSE i \in DOMAIN Pieces : Pieces[i] = "overrides") = 3
  BY <1>1, <1>2
<1> QED BY <1>1, <1>3, <1>4, <1>5 DEF Read

LEMMA HeadIs ==
  ASSUME NEW S, NEW s \in Seq(S), s # <<>>
  PROVE  /\ 1 \in DOMAIN s /\ Head(s) = s[1] /\ s[1] \in S
         /\ Tail(s) \in Seq(S) /\ DOMAIN Tail(s) = 1 .. Len(s) - 1 /\ DOMAIN s = 1 .. Len(s) /\ Len(s) \in Nat
         /\ \A i \in 1 .. Len(s) - 1 : Tail(s)[i] = s[i + 1]
<1>1. Len(s) \in Nat \ {0} /\ DOMAIN s = 1 .. Len(s) /\ \A i \in 1 .. Len(s) : s[i] \in S
  BY LenProperties, EmptySeq
<1>2. Tail(s) \in Seq(S) /\ Len(Tail(s)) = Len(s) - 1 /\ \A i \in 1 .. Len(Tail(s)) : Tail(s)[i] = s[i + 1]
  BY HeadTailProperties
<1>3. DOMAIN Tail(s) = 1 .. Len(Tail(s))
  BY <1>2, LenProperties
<1>4. Head(s) = s[1] /\ 1 \in 1 .. Len(s)
  BY <1>1
<1> QED BY <1>1, <1>2, <1>3, <1>4

LEMMA SelectFlagsKeepsInv ==
  ASSUME DefinitionsInv, SelectFlags
  PROVE  DefinitionsInv'
<1> DEFINE Present == {f \in Flags : row[f] # None}
           Entry == [key : Flags, archived : BOOLEAN]
<1>1. PICK order \in SetToSeqs(Present) :
        listing' = [todo |-> [i \in DOMAIN order |-> [key |-> order[i], archived |-> row[order[i]].archived]],
                    cur |-> <<>>, got |-> <<>>]
  BY DEF SelectFlags
<1>2. UNCHANGED <<row, past, sdk, lost>>
  BY DEF SelectFlags
<1> DEFINE todo == [i \in DOMAIN order |-> [key |-> order[i], archived |-> row[order[i]].archived]]
<1>3. order \in Seq(Present) /\ \A i, j \in DOMAIN order : order[i] = order[j] => i = j
  <2>1. IsFiniteSet(Present)
    BY FlagsFinite
  <2> QED BY <2>1, Enumerates
<1>4. Len(order) \in Nat /\ DOMAIN order = 1 .. Len(order) /\ \A i \in DOMAIN order : order[i] \in Present
  BY <1>3, LenProperties
<1>5. \A i \in DOMAIN order : row[order[i]] \in Rows
  <2>1. row \in [Flags -> Rows \cup {None}]
    BY LenProperties DEF DefinitionsInv, PastInv
  <2> QED BY <1>4, <2>1
<1>6. todo \in Seq(Entry)
  <2>1. \A i \in DOMAIN order : [key |-> order[i], archived |-> row[order[i]].archived] \in Entry
    BY <1>4, <1>5 DEF Rows
  <2> QED BY <1>4, <2>1
<1>7. listing'.todo = todo /\ listing'.cur = <<>> /\ listing'.got = <<>>
  BY <1>1
<1>8. DOMAIN todo = DOMAIN order /\ \A i \in DOMAIN order : todo[i].key = order[i] /\ row[order[i]] # None
  BY <1>4
<1> HIDE DEF todo
<1>9. ListingType'
  <2>1. listing' = [todo |-> listing'.todo, cur |-> listing'.cur, got |-> listing'.got]
    BY <1>1, <1>7 DEF todo
  <2>2. Len(<<>>) <= 3 /\ <<>> \in Seq(Heads \cup Rules \cup Orders) /\ <<>> \in Seq([def : Listable, version : Nat])
    OBVIOUS
  <2> QED BY <1>6, <1>7, <2>1, <2>2 DEF ListingType
<1>10. TodoInv(todo, <<>>)
  BY <1>3, <1>8 DEF TodoInv
<1>11. GotInv(past, <<>>) /\ \A f : CurInv(past, f, <<>>)
  BY DEF GotInv, CurInv
<1>12. ListingInv'
  BY <1>2, <1>7, <1>8, <1>9, <1>10, <1>11 DEF ListingInv
<1> QED BY <1>2, <1>12 DEF DefinitionsInv, PastInv, SdkInv

LEMMA SelectPieceKeepsInv ==
  ASSUME DefinitionsInv, SelectPiece
  PROVE  DefinitionsInv'
<1> DEFINE f == Head(listing.todo).key
           cur == listing.cur
           All == Heads \cup Rules \cup Orders
<1>1. listing # Undefined /\ listing.todo # <<>> /\ Len(cur) < 3 /\ UNCHANGED <<row, past, sdk, lost>>
  BY ReadPieces DEF SelectPiece, Idle
<1>2. PICK piece \in Piece(row[f], Pieces[Len(cur) + 1]) :
        listing' = [listing EXCEPT !.cur = Append(@, piece)]
  BY DEF SelectPiece
<1>3. /\ ListingType
      /\ \A i \in DOMAIN listing.todo : row[listing.todo[i].key] # None
      /\ TodoInv(listing.todo, listing.got)
      /\ CurInv(past, f, cur)
      /\ GotInv(past, listing.got)
  BY <1>1 DEF DefinitionsInv, ListingInv
<1>4. /\ listing'.todo = listing.todo /\ listing'.got = listing.got /\ listing'.cur = Append(cur, piece)
      /\ listing' = [todo |-> listing'.todo, cur |-> listing'.cur, got |-> listing'.got]
  BY <1>2, <1>3 DEF ListingType
<1>5. row[f] \in Rows /\ row = past[Len(past)] /\ Len(past) \in DOMAIN past /\ Len(past) \in Nat
  <2>1. past \in Seq([Flags -> Rows \cup {None}]) /\ past # <<>> /\ row = past[Len(past)]
    BY DEF DefinitionsInv, PastInv
  <2>2. row \in [Flags -> Rows \cup {None}] /\ Len(past) \in DOMAIN past /\ Len(past) \in Nat
    BY <2>1, LenProperties
  <2>3. /\ 1 \in DOMAIN listing.todo /\ Head(listing.todo) = listing.todo[1]
        /\ listing.todo[1] \in [key : Flags, archived : BOOLEAN]
    <3>1. listing.todo \in Seq([key : Flags, archived : BOOLEAN]) /\ listing.todo # <<>>
      BY <1>1, <1>3 DEF ListingType
    <3> QED BY <3>1, HeadIs
  <2>4. f \in Flags /\ row[f] # None
    BY <1>3, <2>3
  <2> QED BY <2>1, <2>2, <2>4
<1>6. cur \in Seq(All) /\ Len(cur) \in {0, 1, 2}
  <2>1. cur \in Seq(All)
    BY <1>3 DEF ListingType
  <2>2. Len(cur) \in Nat /\ Len(cur) < 3
    BY <1>1, <2>1, LenProperties
  <2>3. \A n \in Nat : n < 3 => n \in {0, 1, 2}
    OBVIOUS
  <2> QED BY <2>1, <2>2, <2>3
<1> HIDE DEF f, cur, All
<1> DEFINE new == Append(cur, piece)
<1>7. /\ Len(new) = Len(cur) + 1 /\ new[Len(cur) + 1] = piece
      /\ \A i \in 1 .. Len(cur) : new[i] = cur[i]
  BY <1>6, AppendProperties
<1>8. piece \in All /\ CurInv(past, f, new)
  <2>1. CASE Len(cur) = 0
    <3>1. piece = [version |-> row[f].version, config |-> row[f].config]
      BY <1>2, <2>1, ReadPieces DEF Piece, cur, f
    <3>2. piece \in Heads /\ piece.version = row[f].version /\ row[f].version \in Nat
      BY <1>5, <3>1 DEF Heads, Rows
    <3>3. CurInv(past, f, new)
      BY <1>5, <1>7, <2>1, <3>2 DEF CurInv
    <3> QED BY <3>2, <3>3 DEF All
  <2>2. CASE Len(cur) = 1
    <3>1. piece = row[f].rules
      BY <1>2, <2>2, ReadPieces DEF Piece, cur, f
    <3>2. piece \in Rules
      BY <1>5, <3>1 DEF Rows
    <3>3. new[1] \in Heads /\ new[1].version <= row[f].version /\ new[2] = piece /\ Len(new) = 2
      BY <1>3, <1>5, <1>7, <2>2 DEF CurInv, f, cur
    <3>4. SeenAt(past, f, Len(past), new[1].version, piece)
      BY <1>5, <3>1, <3>3, NoneIsNoRow DEF SeenAt, Heads, Rows
    <3>5. CurInv(past, f, new)
      BY <1>5, <3>2, <3>3, <3>4 DEF CurInv
    <3> QED BY <3>2, <3>5 DEF All
  <2>3. CASE Len(cur) = 2
    <3>1. piece \in SetToSeqs(Range(row[f].overrides))
      BY <1>2, <2>3, ReadPieces DEF Piece, cur, f
    <3>2. row[f].overrides \in Overrides
      BY <1>5 DEF Rows
    <3>3. piece \in Orders /\ Range(piece) = Range(row[f].overrides)
      BY <3>1, <3>2, OverridesAreEntries, Enumerates DEF Orders
    <3>4. /\ new[1] \in Heads /\ new[1].version <= row[f].version /\ new[2] = cur[2] /\ cur[1] = new[1]
          /\ new[3] = piece /\ Len(new) = 3
      BY <1>3, <1>5, <1>7, <2>3 DEF CurInv, f, cur
    <3>5. PICK j \in DOMAIN past : SeenAt(past, f, j, cur[1].version, cur[2])
      BY <1>3, <2>3 DEF CurInv, f, cur
    <3>6. Len(past) \in j .. Len(past)
      <4>1. DOMAIN past = 1 .. Len(past)
        BY LenProperties DEF DefinitionsInv, PastInv
      <4> QED BY <1>5, <4>1
    <3>7. Seen(past, f, cur[1].version, cur[2], Range(piece))
      BY <1>5, <3>3, <3>5, <3>6 DEF Seen
    <3>8. cur[2] \in Rules
      BY <1>3, <2>3 DEF CurInv, f, cur
    <3>9. CurInv(past, f, new)
      BY <1>5, <3>3, <3>4, <3>7, <3>8 DEF CurInv
    <3> QED BY <3>3, <3>9 DEF All
  <2> QED BY <1>6, <2>1, <2>2, <2>3
<1>9. new \in Seq(All) /\ Len(new) <= 3
  <2>1. cur \in Seq(All) /\ piece \in All /\ Len(new) = Len(cur) + 1 /\ Len(cur) \in {0, 1, 2}
    BY <1>6, <1>7, <1>8
  <2> HIDE DEF new
  <2>2. \A n \in {0, 1, 2} : n + 1 <= 3
    OBVIOUS
  <2>3. new \in Seq(All)
    BY <2>1, AppendProperties DEF new
  <2> QED BY <2>1, <2>2, <2>3
<1>10. ListingInv'
  <2> HIDE DEF new
  <2>1. ListingType'
    BY <1>1, <1>3, <1>4, <1>9 DEF ListingType, new, All
  <2> QED BY <1>1, <1>3, <1>4, <1>8, <2>1 DEF ListingInv, new, f
<1> QED BY <1>1, <1>10 DEF DefinitionsInv, PastInv, SdkInv

LEMMA PushDefinitionKeepsInv ==
  ASSUME DefinitionsInv, PushDefinition
  PROVE  DefinitionsInv'
<1> DEFINE todo == listing.todo
           got == listing.got
           cur == listing.cur
           f == Head(todo).key
           d == Definition(f, Head(todo).archived, cur[1].config, cur[2], cur[3])
           item == [def |-> d, version |-> cur[1].version]
           Entry == [key : Flags, archived : BOOLEAN]
           Item == [def : Listable, version : Nat]
<1>1. listing # Undefined /\ Len(cur) = 3 /\ UNCHANGED <<row, past, sdk, lost>>
  BY ReadPieces DEF PushDefinition, Idle
<1>2. listing' = [todo |-> Tail(todo), cur |-> <<>>, got |-> Append(got, item)]
  BY ReadPieces DEF PushDefinition
<1>3. /\ ListingType
      /\ \A i \in DOMAIN todo : row[todo[i].key] # None
      /\ TodoInv(todo, got)
      /\ todo # <<>> => CurInv(past, f, cur)
      /\ GotInv(past, got)
  BY <1>1 DEF DefinitionsInv, ListingInv
<1>4. /\ listing'.todo = Tail(todo) /\ listing'.got = Append(got, item) /\ listing'.cur = <<>>
      /\ listing' = [todo |-> listing'.todo, cur |-> listing'.cur, got |-> listing'.got]
  BY <1>2
<1>5. todo \in Seq(Entry) /\ todo # <<>> /\ got \in Seq(Item)
  <2>1. cur # <<>>
    BY <1>1
  <2> QED BY <1>3, <2>1 DEF ListingType
<1>6. /\ cur[1] \in Heads /\ cur[2] \in Rules /\ cur[3] \in Orders
      /\ Seen(past, f, cur[1].version, cur[2], Range(cur[3]))
  BY <1>1, <1>3, <1>5 DEF CurInv
<1>7. /\ 1 \in DOMAIN todo /\ Head(todo) = todo[1] /\ todo[1] \in Entry
      /\ Tail(todo) \in Seq(Entry) /\ DOMAIN Tail(todo) = 1 .. Len(todo) - 1
      /\ DOMAIN todo = 1 .. Len(todo) /\ Len(todo) \in Nat
      /\ \A i \in 1 .. Len(todo) - 1 : Tail(todo)[i] = todo[i + 1]
  <2> HIDE DEF todo, Entry
  <2> QED BY <1>5, HeadIs
<1> HIDE DEF todo, got, cur
<1>8. /\ item \in Item /\ item.def.key = f /\ item.version = cur[1].version
      /\ item.def.rules = cur[2] /\ item.def.overrides = cur[3]
  <2>1. f \in Flags /\ Head(todo).archived \in BOOLEAN /\ Salt[f] \in Range(Salt)
    BY <1>7, DefinitionsAssumption DEF DefinitionsAssumption, Range
  <2>2. cur[1].version \in Nat /\ cur[1].config \in Configs
    BY <1>6 DEF Heads
  <2>3. /\ cur[1].config.enabled \in Settings("enabled") /\ cur[1].config.onValue \in Settings("onValue")
        /\ cur[1].config.offValue \in Settings("offValue") /\ cur[1].config.rollout \in Settings("rollout")
    BY <2>2 DEF Configs
  <2>4. d \in Listable
    BY <1>6, <2>1, <2>3 DEF Listable, Definition
  <2>5. d.key = f /\ d.rules = cur[2] /\ d.overrides = cur[3]
    BY DEF Definition
  <2> HIDE DEF d
  <2> QED BY <2>2, <2>4, <2>5
<1> HIDE DEF item, d, f
<1>9. /\ Append(got, item) \in Seq(Item) /\ Len(got) \in Nat
      /\ DOMAIN got = 1 .. Len(got) /\ DOMAIN Append(got, item) = 1 .. Len(got) + 1
      /\ \A i \in 1 .. Len(got) : Append(got, item)[i] = got[i]
      /\ Append(got, item)[Len(got) + 1] = item
  <2> HIDE DEF Item
  <2>1. Append(got, item) \in Seq(Item) /\ Len(Append(got, item)) = Len(got) + 1
        /\ (\A i \in 1 .. Len(got) : Append(got, item)[i] = got[i])
        /\ Append(got, item)[Len(got) + 1] = item
    BY <1>5, <1>8, AppendProperties
  <2> QED BY <1>5, <2>1, LenProperties
<1> DEFINE left == Tail(todo)
           more == Append(got, item)
<1>10. ListingType'
  <2>1. <<>> \in Seq(Heads \cup Rules \cup Orders) /\ Len(<<>>) <= 3
    OBVIOUS
  <2> QED BY <1>4, <1>7, <1>9, <2>1 DEF ListingType
<1>11. \A i \in 1 .. Len(todo) - 1 : i + 1 \in DOMAIN todo /\ i + 1 # 1 /\ left[i] = todo[i + 1]
  BY <1>7
<1>12. /\ \A i, j \in DOMAIN todo : todo[i].key = todo[j].key => i = j
       /\ \A i, j \in DOMAIN got : got[i].def.key = got[j].def.key => i = j
       /\ \A i \in DOMAIN todo : \A j \in DOMAIN got : todo[i].key # got[j].def.key
       /\ todo[1].key = f
  BY <1>3, <1>7 DEF TodoInv, f
<1> HIDE DEF left, more
<1>13. \A i \in DOMAIN more : \/ i \in DOMAIN got /\ more[i] = got[i]
                              \/ i = Len(got) + 1 /\ more[i] = item
  <2>1. \A i \in 1 .. Len(got) + 1 : i \in 1 .. Len(got) \/ i = Len(got) + 1
    BY <1>9
  <2> QED BY <1>9, <2>1 DEF more
<1>14. TodoInv(left, more)
  <2>1. ASSUME NEW i \in 1 .. Len(todo) - 1, NEW j \in 1 .. Len(todo) - 1, left[i].key = left[j].key
        PROVE  i = j
    BY <1>11, <1>12, <2>1
  <2>2. ASSUME NEW i \in DOMAIN more, NEW j \in DOMAIN more, more[i].def.key = more[j].def.key
        PROVE  i = j
    BY <1>7, <1>8, <1>12, <1>13, <2>2
  <2>3. ASSUME NEW i \in 1 .. Len(todo) - 1, NEW j \in DOMAIN more
        PROVE  left[i].key # more[j].def.key
    <3>1. i + 1 \in DOMAIN todo /\ i + 1 # 1 /\ left[i] = todo[i + 1] /\ 1 \in DOMAIN todo
      BY <1>7, <1>11
    <3>2. CASE j \in DOMAIN got /\ more[j] = got[j]
      BY <1>12, <3>1, <3>2
    <3>3. CASE more[j] = item
      BY <1>8, <1>12, <3>1, <3>3
    <3> QED BY <1>13, <3>2, <3>3
  <2> QED BY <1>7, <2>1, <2>2, <2>3 DEF TodoInv, left
<1>15. GotInv(past, more)
  BY <1>3, <1>6, <1>8, <1>13 DEF GotInv
<1>16. \A i \in DOMAIN left : row[left[i].key] # None
  BY <1>3, <1>7, <1>11 DEF left
<1>17. \A g : CurInv(past, g, <<>>)
  BY DEF CurInv
<1>18. ListingInv'
  BY <1>1, <1>4, <1>10, <1>14, <1>15, <1>16, <1>17 DEF ListingInv, left, more
<1> QED BY <1>1, <1>18 DEF DefinitionsInv, PastInv, SdkInv

\* What the answer is computed of.
LEMMA ListedType ==
  ASSUME ListingInv, listing # Undefined
  PROVE  Listed \in Seq(Listable) /\ DistinctKeys(Listed)
<1> DEFINE got == listing.got
<1>1. got \in Seq([def : Listable, version : Nat]) /\ TodoInv(listing.todo, got)
  BY DEF ListingInv, ListingType
<1> HIDE DEF got
<1>2. Len(got) \in Nat /\ DOMAIN got = 1 .. Len(got) /\ \A i \in 1 .. Len(got) : got[i].def \in Listable
  <2>1. Len(got) \in Nat /\ DOMAIN got = 1 .. Len(got)
        /\ \A i \in 1 .. Len(got) : got[i] \in [def : Listable, version : Nat]
    BY <1>1, LenProperties
  <2> QED BY <2>1
<1>3. Listed = [i \in DOMAIN got |-> got[i].def]
  BY DEF Listed, got
<1>4. Listed \in Seq(Listable)
  BY <1>2, <1>3
<1>5. DistinctKeys(Listed)
  BY <1>1, <1>3 DEF DistinctKeys, TodoInv
<1> QED BY <1>4, <1>5

LEMMA RespondKeepsInv ==
  ASSUME DefinitionsInv, Respond
  PROVE  DefinitionsInv'
<1>1. listing # Undefined /\ listing' = Undefined /\ UNCHANGED <<row, past, lost>>
  BY DEF Respond, Answered, Idle
<1> DEFINE sorted == sortDefinitions(Listed)
           etag == definitionsEtag(sorted)
<1>2. sdk' = sdk \/ sdk' = [snapshot |-> sorted, etag |-> etag]
  BY DEF Respond
<1>3. Listed \in Seq(Listable) /\ DistinctKeys(Listed)
  BY <1>1, ListedType DEF DefinitionsInv
<1>4. CASE sdk' = [snapshot |-> sorted, etag |-> etag]
  <2>1. sdk'.snapshot = sorted /\ sdk'.etag = etag
    BY <1>4
  <2>2. SdkInv'
    BY <1>3, <2>1 DEF SdkInv
  <2> QED BY <1>1, <2>2 DEF DefinitionsInv, PastInv, ListingInv
<1>5. CASE sdk' = sdk
  BY <1>1, <1>5 DEF DefinitionsInv, PastInv, ListingInv, SdkInv
<1> QED BY <1>2, <1>4, <1>5

LEMMA InitDefinitionsInv == Init => DefinitionsInv
<1> SUFFICES ASSUME Init PROVE DefinitionsInv
  OBVIOUS
<1> DEFINE S == [Flags -> Rows \cup {None}]
<1>1. row \in S
  BY NewRowType DEF Init
<1> HIDE DEF S
<1>2. past = <<row>> /\ past \in Seq(S) /\ Len(past) = 1 /\ DOMAIN past = {1} /\ past[1] = row /\ past # <<>>
  BY <1>1 DEF Init
<1>3. \A f \in Flags : row[f] # None => row[f].version \in Nat
  BY <1>1 DEF S, Rows
<1>4. PastInv
  BY <1>2, <1>3 DEF PastInv, S
<1>5. listing = Undefined /\ sdk.etag = Undefined
  BY DEF Init
<1> QED BY <1>4, <1>5 DEF DefinitionsInv, ListingInv, SdkInv

LEMMA NextKeepsDefinitionsInv == DefinitionsInv /\ [Next]_vars => DefinitionsInv'
<1> SUFFICES ASSUME DefinitionsInv, [Next]_vars PROVE DefinitionsInv'
  OBVIOUS
<1>1. ASSUME NEW f \in Flags, Change(f) PROVE DefinitionsInv'
  <2>1. PICK new \in Rows : Write(f, new) /\ (row[f] # None => row[f].version <= new.version)
    BY <1>1, ChangeWrites DEF DefinitionsInv
  <2> QED BY <2>1, WriteKeepsInv
<1>2. CASE SelectFlags
  BY <1>2, SelectFlagsKeepsInv
<1>3. CASE SelectPiece
  BY <1>3, SelectPieceKeepsInv
<1>4. CASE PushDefinition
  BY <1>4, PushDefinitionKeepsInv
<1>5. CASE Respond
  BY <1>5, RespondKeepsInv
<1>6. CASE LoseAnswer
  BY <1>6 DEF LoseAnswer, DefinitionsInv, PastInv, ListingInv, SdkInv
<1>7. CASE UNCHANGED vars
  BY <1>7 DEF vars, DefinitionsInv, PastInv, ListingInv, ListingType, SdkInv
<1> QED BY <1>1, <1>2, <1>3, <1>4, <1>5, <1>6, <1>7 DEF Next, Serve

\* Whatever writers commit between the SELECTs of a listing, what was read so far is a row
\* of the past with the overrides of that row or a later one, and an SDK has a tag only
\* with the set it belongs to.
THEOREM DefinitionsInvariance == Spec => []DefinitionsInv
  BY InitDefinitionsInv, NextKeepsDefinitionsInv, PTL DEF Spec

-----------------------------------------------------------------------------
(* The properties of the listing.                                          *)

\* A torn listing never pairs a configuration with rules or overrides older than it.
THEOREM NewConfigNeverWithOldRulesHolds == Spec => []NewConfigNeverWithOldRules
<1>1. DefinitionsInv => NewConfigNeverWithOldRules
  <2> SUFFICES ASSUME DefinitionsInv, listing # Undefined PROVE NewConfigNeverWithOldRules
    BY DEF NewConfigNeverWithOldRules, Idle
  <2>1. GotInv(past, listing.got)
    BY DEF DefinitionsInv, ListingInv
  <2> QED BY <2>1 DEF NewConfigNeverWithOldRules, GotInv, Seen, SeenAt
<1> QED BY <1>1, DefinitionsInvariance, PTL

\* The server answers 304 exactly when the set it has just read and the SDK's mean the same:
\* the canonical encoding forgets the order of the tables and nothing that decides.
THEOREM NotModifiedExactlyWhenEqualHolds == Spec => []NotModifiedExactlyWhenEqual
<1>1. DefinitionsInv => NotModifiedExactlyWhenEqual
  <2> SUFFICES ASSUME DefinitionsInv, listing # Undefined, sdk.etag # Undefined
               PROVE  NotModified <=> Meaning(Listed) = Meaning(sdk.snapshot)
    BY DEF NotModifiedExactlyWhenEqual, Answered, Idle
  <2>1. Listed \in Seq(Listable) /\ DistinctKeys(Listed)
    BY ListedType DEF DefinitionsInv
  <2>2. PICK L \in Seq(Listable) :
          /\ DistinctKeys(L)
          /\ sdk.snapshot = sortDefinitions(L) /\ sdk.etag = definitionsEtag(sdk.snapshot)
    BY DEF DefinitionsInv, SdkInv
  <2>3. NotModified <=> definitionsEtag(sortDefinitions(Listed)) = definitionsEtag(sortDefinitions(L))
    BY <2>2 DEF NotModified, parseIfNoneMatch
  <2>4. Meaning(sdk.snapshot) = Meaning(L)
    BY <2>2, SortedRange, MeaningOfRange
  <2> QED BY <2>1, <2>2, <2>3, <2>4, EtagIsMeaning
<1> QED BY <1>1, DefinitionsInvariance, PTL

-----------------------------------------------------------------------------
(* The preview.                                                            *)

DefinitionFields == {"key", "environment", "archived", "enabled", "onValue", "offValue", "rollout", "salt",
                     "rules", "overrides"}

LEMMA SavedIs ==
  ASSUME NEW r, NEW f
  PROVE  /\ Saved(r, f) = [k \in DefinitionFields |-> Saved(r, f)[k]]
         /\ Saved(r, f)["key"] = f /\ Saved(r, f)["environment"] = Env /\ Saved(r, f)["archived"] = r.archived
         /\ Saved(r, f)["enabled"] = r.config.enabled /\ Saved(r, f)["onValue"] = r.config.onValue
         /\ Saved(r, f)["offValue"] = r.config.offValue /\ Saved(r, f)["rollout"] = r.config.rollout
         /\ Saved(r, f)["salt"] = Salt[f] /\ Saved(r, f)["rules"] = r.rules
         /\ Saved(r, f)["overrides"] = AsObject(r.overrides)
  BY DEF Saved, Evaluable, Definition, DefinitionFields

\* An overlay changes the fields the candidate has and no other.
LEMMA OverlayIs ==
  ASSUME NEW r, NEW s, NEW f, NEW c, DOMAIN c \subseteq Columns \cup {"rules", "overrides"},
         \A k \in DOMAIN c : c[k] = Saved(s, f)[k],
         \A k \in DefinitionFields \ DOMAIN c : Saved(r, f)[k] = Saved(s, f)[k]
  PROVE  Overlay(Saved(r, f), c) = Saved(s, f)
<1>1. DOMAIN Saved(r, f) = DefinitionFields /\ Saved(s, f) = [k \in DefinitionFields |-> Saved(s, f)[k]]
  BY SavedIs
<1>2. \A k \in DefinitionFields :
        (IF k \in DOMAIN c \cap (Columns \cup {"rules", "overrides"}) THEN c[k] ELSE Saved(r, f)[k]) = Saved(s, f)[k]
  OBVIOUS
<1>3. Overlay(Saved(r, f), c) =
        [k \in DefinitionFields |->
           IF k \in DOMAIN c \cap (Columns \cup {"rules", "overrides"}) THEN c[k] ELSE Saved(r, f)[k]]
  BY <1>1 DEF Overlay
<1> QED BY <1>1, <1>2, <1>3

LEMMA PatchForetells ==
  ASSUME NEW r, NEW s, NEW f, NEW p \in Patches, s.config = Patched(r.config, p),
         s.archived = r.archived, s.rules = r.rules, s.overrides = r.overrides
  PROVE  Overlay(Saved(r, f), p) = Saved(s, f)
<1>1. DOMAIN p \subseteq Columns
  BY DefinitionsAssumption DEF DefinitionsAssumption
<1>2. \A k \in Columns : s.config[k] = IF k \in DOMAIN p THEN p[k] ELSE r.config[k]
  BY DEF Patched
<1>3. \A k \in DOMAIN p : p[k] = Saved(s, f)[k]
  BY <1>1, <1>2, SavedIs DEF Columns
<1>4. \A k \in DefinitionFields \ DOMAIN p : Saved(r, f)[k] = Saved(s, f)[k]
  BY <1>2, SavedIs DEF Columns, DefinitionFields
<1> QED BY <1>1, <1>3, <1>4, OverlayIs

LEMMA RulesForetold ==
  ASSUME NEW r, NEW s, NEW f, NEW b, s.rules = b,
         s.config = r.config, s.archived = r.archived, s.overrides = r.overrides
  PROVE  Overlay(Saved(r, f), [rules |-> b]) = Saved(s, f)
<1> DEFINE c == [rules |-> b]
<1>1. DOMAIN c = {"rules"} /\ c["rules"] = b
  OBVIOUS
<1> HIDE DEF c
<1>2. \A k \in DOMAIN c : c[k] = Saved(s, f)[k]
  BY <1>1, SavedIs
<1>3. \A k \in DefinitionFields \ DOMAIN c : Saved(r, f)[k] = Saved(s, f)[k]
  BY <1>1, SavedIs DEF DefinitionFields
<1>4. Overlay(Saved(r, f), c) = Saved(s, f)
  BY <1>1, <1>2, <1>3, OverlayIs
<1> QED BY <1>4 DEF c

LEMMA OverridesForetold ==
  ASSUME NEW r, NEW s, NEW f, NEW b, s.overrides = b,
         s.config = r.config, s.archived = r.archived, s.rules = r.rules
  PROVE  Overlay(Saved(r, f), [overrides |-> AsObject(b)]) = Saved(s, f)
<1> DEFINE c == [overrides |-> AsObject(b)]
<1>1. DOMAIN c = {"overrides"} /\ c["overrides"] = AsObject(b)
  OBVIOUS
<1> HIDE DEF c
<1>2. \A k \in DOMAIN c : c[k] = Saved(s, f)[k]
  BY <1>1, SavedIs
<1>3. \A k \in DefinitionFields \ DOMAIN c : Saved(r, f)[k] = Saved(s, f)[k]
  BY <1>1, SavedIs DEF DefinitionFields
<1>4. Overlay(Saved(r, f), c) = Saved(s, f)
  BY <1>1, <1>2, <1>3, OverlayIs
<1> QED BY <1>4 DEF c

\* What the preview of a candidate decides is what evaluation decides once it is committed.
THEOREM PreviewForetellsWritesHolds == Spec => PreviewForetellsWrites
<1> DEFINE Foretelling ==
      \A f \in Flags :
        /\ \A p \in Patches : Patch(f, p) => Foretold(f, p)
        /\ \A b \in RuleBodies : PutRules(f, b) => Foretold(f, [rules |-> b])
        /\ \A b \in OverrideBodies : PutOverrides(f, b) => Foretold(f, [overrides |-> AsObject(b)])
<1>1. ASSUME DefinitionsInv PROVE Foretelling
  <2> SUFFICES ASSUME NEW f \in Flags
               PROVE  /\ \A p \in Patches : Patch(f, p) => Foretold(f, p)
                      /\ \A b \in RuleBodies : PutRules(f, b) => Foretold(f, [rules |-> b])
                      /\ \A b \in OverrideBodies : PutOverrides(f, b) => Foretold(f, [overrides |-> AsObject(b)])
    OBVIOUS
  <2>1. row \in [Flags -> Rows \cup {None}]
    BY <1>1, LenProperties DEF DefinitionsInv, PastInv
  <2>2. ASSUME NEW c, NEW new, row[f] # None, Write(f, new), Overlay(Saved(row[f], f), c) = Saved(new, f)
        PROVE  Foretold(f, c)
    <3>1. row'[f] = new
      BY <2>1, <2>2 DEF Write
    <3> QED BY <2>2, <3>1 DEF Foretold, Preview
  <2>3. row[f] # None => row[f] \in Rows
    BY <2>1
  <2>4. ASSUME NEW p \in Patches, Patch(f, p) PROVE Foretold(f, p)
    <3> DEFINE new == [row[f] EXCEPT !.config = Patched(@, p), !.version = @ + 1]
    <3>1. row[f] # None /\ Write(f, new) /\ row[f] \in Rows
      BY <2>3, <2>4 DEF Patch
    <3>2. /\ new.config = Patched(row[f].config, p) /\ new.archived = row[f].archived
          /\ new.rules = row[f].rules /\ new.overrides = row[f].overrides
      BY <3>1 DEF Rows
    <3> HIDE DEF new
    <3>3. Overlay(Saved(row[f], f), p) = Saved(new, f)
      BY <3>2, PatchForetells
    <3> QED BY <2>2, <3>1, <3>3
  <2>5. ASSUME NEW b \in RuleBodies, PutRules(f, b) PROVE Foretold(f, [rules |-> b])
    <3> DEFINE new == [row[f] EXCEPT !.rules = b, !.version = @ + 1]
    <3>1. row[f] # None /\ Write(f, new) /\ row[f] \in Rows
      BY <2>3, <2>5 DEF PutRules
    <3>2. /\ new.rules = b /\ new.archived = row[f].archived
          /\ new.config = row[f].config /\ new.overrides = row[f].overrides
      BY <3>1 DEF Rows
    <3> HIDE DEF new
    <3>3. Overlay(Saved(row[f], f), [rules |-> b]) = Saved(new, f)
      BY <3>2, RulesForetold
    <3> QED BY <2>2, <3>1, <3>3
  <2>6. ASSUME NEW b \in OverrideBodies, PutOverrides(f, b) PROVE Foretold(f, [overrides |-> AsObject(b)])
    <3> DEFINE new == [row[f] EXCEPT !.overrides = b, !.version = @ + 1]
    <3>1. row[f] # None /\ Write(f, new) /\ row[f] \in Rows
      BY <2>3, <2>6 DEF PutOverrides
    <3>2. /\ new.overrides = b /\ new.archived = row[f].archived
          /\ new.config = row[f].config /\ new.rules = row[f].rules
      BY <3>1 DEF Rows
    <3> HIDE DEF new
    <3>3. Overlay(Saved(row[f], f), [overrides |-> AsObject(b)]) = Saved(new, f)
      BY <3>2, OverridesForetold
    <3> QED BY <2>2, <3>1, <3>3
  <2> QED BY <2>4, <2>5, <2>6
<1>2. DefinitionsInv => [Foretelling]_vars
  BY <1>1
<1> HIDE DEF Foretelling
<1>3. Spec => [][Foretelling]_vars
  BY <1>2, DefinitionsInvariance, PTL
<1> QED BY <1>3 DEF PreviewForetellsWrites, Foretelling

-----------------------------------------------------------------------------
(* Rollouts.                                                               *)

\* Decided before the rules are looked at.
Settled(d, ctx) ==
  Field(d, "archived") = TRUE \/ Field(d, "enabled") # TRUE \/ OverrideOf(d, ctx.unitId) # Undefined

Fallthrough(d, unit) ==
  Result(IF InBucket(d, unit, Field(d, "rollout")) THEN Field(d, "onValue") ELSE Field(d, "offValue"),
         <<"FALLTHROUGH_ROLLOUT">>)

LEMMA Unsettled ==
  ASSUME NEW d, NEW ctx, d # Undefined, ~Settled(d, ctx)
  PROVE  /\ Hits(d, ctx.attributes) # {} =>
              evaluate(d, ctx) = ByRule(d, Min(Hits(d, ctx.attributes)), ctx.unitId)
         /\ Hits(d, ctx.attributes) = {} => evaluate(d, ctx) = Fallthrough(d, ctx.unitId)
  BY DEF evaluate, Settled, Fallthrough

\* Definitions that differ in rules and rollouts only.
SameButRules(a, b) ==
  \A k \in {"key", "salt", "archived", "enabled", "onValue", "offValue", "overrides"} : Field(a, k) = Field(b, k)

LEMMA SettledAlike ==
  ASSUME NEW a, NEW b, NEW ctx, SameButRules(a, b)
  PROVE  /\ Settled(a, ctx) <=> Settled(b, ctx)
         /\ a # Undefined /\ b # Undefined /\ Settled(a, ctx) => evaluate(a, ctx) = evaluate(b, ctx)
         /\ \A unit, rollout : InBucket(a, unit, rollout) <=> InBucket(b, unit, rollout)
<1>1. /\ Field(a, "archived") = Field(b, "archived") /\ Field(a, "enabled") = Field(b, "enabled")
      /\ Field(a, "offValue") = Field(b, "offValue") /\ Field(a, "overrides") = Field(b, "overrides")
      /\ Field(a, "key") = Field(b, "key") /\ Field(a, "salt") = Field(b, "salt")
  BY DEF SameButRules
<1>2. OverrideOf(a, ctx.unitId) = OverrideOf(b, ctx.unitId)
  BY <1>1 DEF OverrideOf
<1>3. Settled(a, ctx) <=> Settled(b, ctx)
  BY <1>1, <1>2 DEF Settled
<1>4. ASSUME a # Undefined, b # Undefined, Settled(a, ctx) PROVE evaluate(a, ctx) = evaluate(b, ctx)
  BY <1>1, <1>2, <1>4 DEF Settled, evaluate
<1>5. \A unit, rollout : InBucket(a, unit, rollout) <=> InBucket(b, unit, rollout)
  BY <1>1 DEF InBucket
<1> QED BY <1>3, <1>4, <1>5

LEMMA SettledReason ==
  ASSUME NEW d, NEW ctx, d # Undefined, evaluate(d, ctx).reason = <<"FALLTHROUGH_ROLLOUT">>
  PROVE  ~Settled(d, ctx) /\ Hits(d, ctx.attributes) = {}
<1>1. ASSUME Settled(d, ctx) PROVE FALSE
  BY <1>1 DEF Settled, evaluate, Result
<1>2. ASSUME ~Settled(d, ctx), Hits(d, ctx.attributes) # {} PROVE FALSE
  <2>1. evaluate(d, ctx) = ByRule(d, Min(Hits(d, ctx.attributes)), ctx.unitId)
    BY <1>2, Unsettled
  <2>2. \A j, unit : \E n : \/ ByRule(d, j, unit).reason = <<"RULE_MATCH", n>>
                            \/ ByRule(d, j, unit).reason = <<"RULE_ROLLOUT", n>>
    BY DEF ByRule, Result
  <2> QED BY <2>1, <2>2
<1> QED BY <1>1, <1>2

LEMMA RolledIs ==
  ASSUME NEW d, NEW r
  PROVE  /\ SameButRules(WithRollout(d, r), d)
         /\ Field(WithRollout(d, r), "rollout") = r
         /\ \A k : k # "rollout" => Field(WithRollout(d, r), k) = Field(d, k)
         /\ Field(d, "rules") # Undefined => WithRollout(d, r).rules = d.rules
<1>1. \A k : k # "rollout" => Field(WithRollout(d, r), k) = Field(d, k)
  BY DEF WithRollout, Field
<1>2. Field(WithRollout(d, r), "rollout") = r
  BY DEF WithRollout, Field
<1>3. Field(d, "rules") # Undefined => WithRollout(d, r).rules = d.rules
  BY DEF WithRollout, Field
<1> QED BY <1>1, <1>2, <1>3 DEF SameButRules

\* The flag's own rollout decides nothing about its rules.
LEMMA RolledRules ==
  ASSUME NEW d, NEW r
  PROVE  /\ \A attributes : Hits(WithRollout(d, r), attributes) = Hits(d, attributes)
         /\ Field(d, "rules") # Undefined => \A i, unit : ByRule(WithRollout(d, r), i, unit) = ByRule(d, i, unit)
<1> DEFINE a == WithRollout(d, r)
<1>1. /\ SameButRules(a, d) /\ Field(a, "rules") = Field(d, "rules") /\ Field(a, "offValue") = Field(d, "offValue")
      /\ Field(d, "rules") # Undefined => a.rules = d.rules
  BY RolledIs
<1>2. Field(d, "rules") # Undefined => d.rules = Field(d, "rules")
  BY DEF Field
<1>3. \A unit, rollout : InBucket(a, unit, rollout) <=> InBucket(d, unit, rollout)
  BY <1>1, SettledAlike
<1> HIDE DEF a
<1>4. ASSUME NEW attributes PROVE Hits(a, attributes) = Hits(d, attributes)
  BY <1>1 DEF Hits
<1>5. ASSUME Field(d, "rules") # Undefined, NEW i, NEW unit PROVE ByRule(a, i, unit) = ByRule(d, i, unit)
  BY <1>1, <1>3, <1>5 DEF ByRule
<1> QED BY <1>4, <1>5 DEF a

LEMMA FlagRolloutKeepsUnits ==
  ASSUME NEW d, IsDefinition(d), NEW low \in Rollouts, NEW high \in Rollouts, low < high
  PROVE  OnlyIn(WithRollout(d, low), WithRollout(d, high), Field(d, "onValue"))
<1> SUFFICES ASSUME NEW ctx \in Contexts,
                    evaluate(WithRollout(d, low), ctx).value # evaluate(WithRollout(d, high), ctx).value
             PROVE  /\ evaluate(WithRollout(d, low), ctx).value = Field(WithRollout(d, low), "offValue")
                    /\ evaluate(WithRollout(d, high), ctx).value = Field(d, "onValue")
  BY DEF OnlyIn
<1> DEFINE a == WithRollout(d, low)
           b == WithRollout(d, high)
           h == Hits(d, ctx.attributes)
           bucket == Bucket(Field(d, "key"), Field(d, "salt"), ctx.unitId)
<1>1. a # Undefined /\ b # Undefined /\ low # Undefined /\ high # Undefined
  BY DEF IsDefinition
<1>2. /\ bucket \in 0 .. TotalBuckets - 1 /\ low \in Nat /\ high \in Nat
  BY RolloutAssumption DEF IsDefinition, RolloutAssumption
<1>3. /\ SameButRules(a, d) /\ SameButRules(b, d)
      /\ Field(a, "rollout") = low /\ Field(b, "rollout") = high
      /\ Field(a, "onValue") = Field(d, "onValue") /\ Field(b, "onValue") = Field(d, "onValue")
      /\ Field(a, "offValue") = Field(d, "offValue") /\ Field(b, "offValue") = Field(d, "offValue")
  BY RolledIs
<1>4. Hits(a, ctx.attributes) = h /\ Hits(b, ctx.attributes) = h
  BY RolledRules
<1>5. h # {} => \A i : /\ ByRule(a, i, ctx.unitId) = ByRule(d, i, ctx.unitId)
                       /\ ByRule(b, i, ctx.unitId) = ByRule(d, i, ctx.unitId)
  <2>1. h # {} => Field(d, "rules") # Undefined
    BY DEF Hits
  <2> QED BY <2>1, RolledRules
<1>6. /\ InBucket(a, ctx.unitId, low) <=> bucket < low
      /\ InBucket(b, ctx.unitId, high) <=> bucket < high
  <2>1. Field(a, "key") = Field(d, "key") /\ Field(a, "salt") = Field(d, "salt")
        /\ Field(b, "key") = Field(d, "key") /\ Field(b, "salt") = Field(d, "salt")
    BY <1>3 DEF SameButRules
  <2> HIDE DEF a, b
  <2> QED BY <1>1, <2>1 DEF InBucket
<1> HIDE DEF a, b, h
<1>7. SameButRules(a, b)
  BY <1>3 DEF SameButRules
<1>8. ~Settled(a, ctx) /\ ~Settled(b, ctx)
  BY <1>1, <1>7, SettledAlike DEF a, b
<1>9. h = {}
  <2>1. h # {} => evaluate(a, ctx) = evaluate(b, ctx)
    BY <1>1, <1>4, <1>5, <1>8, Unsettled
  <2> QED BY <2>1 DEF a, b
<1>10. evaluate(a, ctx) = Fallthrough(a, ctx.unitId) /\ evaluate(b, ctx) = Fallthrough(b, ctx.unitId)
  BY <1>1, <1>4, <1>8, <1>9, Unsettled
<1>11. /\ Fallthrough(a, ctx.unitId).value = IF bucket < low THEN Field(d, "onValue") ELSE Field(d, "offValue")
       /\ Fallthrough(b, ctx.unitId).value = IF bucket < high THEN Field(d, "onValue") ELSE Field(d, "offValue")
  BY <1>3, <1>6 DEF Fallthrough, Result
<1>12. bucket < low => bucket < high
  <2>1. \A n \in 0 .. TotalBuckets - 1 : n < low => n < high
    <3>1. low \in Nat /\ high \in Nat /\ low < high
      BY <1>2
    <3> HIDE DEF bucket
    <3> QED BY <3>1 DEF TotalBuckets
  <2> HIDE DEF bucket
  <2> QED BY <1>2, <2>1
<1> QED BY <1>3, <1>10, <1>11, <1>12 DEF a, b

LEMMA NobodyAtZeroAllAtFullHolds ==
  ASSUME NEW d, IsDefinition(d)
  PROVE  NobodyAtZeroAllAtFull(d)
<1> SUFFICES ASSUME NEW ctx \in Contexts,
                    evaluate(WithRollout(d, 0), ctx).reason = <<"FALLTHROUGH_ROLLOUT">>
             PROVE  /\ evaluate(WithRollout(d, 0), ctx).value = Field(d, "offValue")
                    /\ evaluate(WithRollout(d, FullRollout), ctx).value = Field(d, "onValue")
  BY DEF NobodyAtZeroAllAtFull
<1> DEFINE a == WithRollout(d, 0)
           b == WithRollout(d, FullRollout)
           bucket == Bucket(Field(d, "key"), Field(d, "salt"), ctx.unitId)
<1>1. a # Undefined /\ b # Undefined /\ FullRollout # Undefined
  BY DEF IsDefinition
<1>2. bucket \in 0 .. TotalBuckets - 1
  BY DEF IsDefinition
<1>3. /\ SameButRules(a, d) /\ SameButRules(b, d)
      /\ Field(a, "rollout") = 0 /\ Field(b, "rollout") = FullRollout
      /\ Field(a, "offValue") = Field(d, "offValue") /\ Field(b, "onValue") = Field(d, "onValue")
  BY RolledIs
<1>4. Hits(a, ctx.attributes) = Hits(b, ctx.attributes)
  BY RolledRules
<1> HIDE DEF a, b
<1>5. ~Settled(a, ctx) /\ Hits(a, ctx.attributes) = {}
  BY <1>1, SettledReason DEF a
<1>6. SameButRules(a, b)
  BY <1>3 DEF SameButRules
<1>7. ~Settled(b, ctx)
  BY <1>5, <1>6, SettledAlike
<1>8. evaluate(a, ctx) = Fallthrough(a, ctx.unitId) /\ evaluate(b, ctx) = Fallthrough(b, ctx.unitId)
  BY <1>1, <1>4, <1>5, <1>7, Unsettled
<1>9. ~InBucket(a, ctx.unitId, 0) /\ InBucket(b, ctx.unitId, FullRollout)
  <2>1. Field(a, "key") = Field(d, "key") /\ Field(a, "salt") = Field(d, "salt")
        /\ Field(b, "key") = Field(d, "key") /\ Field(b, "salt") = Field(d, "salt")
    BY <1>3 DEF SameButRules
  <2>2. \A n \in 0 .. TotalBuckets - 1 : ~(n < 0) /\ n < FullRollout
    BY DEF FullRollout, TotalBuckets
  <2>3. (InBucket(a, ctx.unitId, 0) => bucket < 0) /\ (bucket < FullRollout => InBucket(b, ctx.unitId, FullRollout))
    BY <1>1, <2>1 DEF InBucket
  <2> HIDE DEF bucket
  <2> QED BY <1>2, <2>2, <2>3
<1>10. Fallthrough(a, ctx.unitId).value = Field(d, "offValue") /\ Fallthrough(b, ctx.unitId).value = Field(d, "onValue")
  BY <1>3, <1>9 DEF Fallthrough, Result
<1> QED BY <1>8, <1>10 DEF a, b

\* The same for a rule's rollout: which rules match does not depend on it.
LEMMA RuleRolledIs ==
  ASSUME NEW d, Field(d, "rules") # Undefined, NEW i \in DOMAIN d.rules, d.rules[i] # Undefined, NEW r,
         WithRollout(d.rules[i], r) # Undefined, NEW a, a = WithRuleRollout(d, i, r), a.rules # Undefined
  PROVE  /\ SameButRules(a, d) /\ Field(a, "rollout") = Field(d, "rollout")
         /\ Field(a, "rules") # Undefined
         /\ a.rules[i] = WithRollout(d.rules[i], r)
         /\ \A j \in DOMAIN d.rules : j # i => a.rules[j] = d.rules[j]
         /\ \A attributes : Hits(a, attributes) = Hits(d, attributes)
<1>1. "rules" \in DOMAIN d /\ Field(d, "rules") = d.rules
  BY DEF Field
<1> DEFINE t == [d.rules EXCEPT ![i] = WithRollout(d.rules[i], r)]
<1>2. a = [d EXCEPT !.rules = t]
  BY DEF WithRuleRollout
<1>3. /\ DOMAIN t = DOMAIN d.rules /\ t[i] = WithRollout(d.rules[i], r)
      /\ \A j \in DOMAIN d.rules : j # i => t[j] = d.rules[j]
  OBVIOUS
<1> HIDE DEF t
<1>4. /\ \A k : k # "rules" => Field(a, k) = Field(d, k)
      /\ a.rules = t /\ Field(a, "rules") = t
  BY <1>1, <1>2 DEF Field
<1>5. ASSUME NEW attributes PROVE Hits(a, attributes) = Hits(d, attributes)
  <2> DEFINE old == d.rules[i]
             new == WithRollout(d.rules[i], r)
  <2>1. /\ Field(new, "attribute") = Field(old, "attribute") /\ Field(new, "operator") = Field(old, "operator")
        /\ Field(new, "values") = Field(old, "values")
    BY RolledIs
  <2>2. old # Undefined /\ new # Undefined
    OBVIOUS
  <2> HIDE DEF old, new
  <2>3. matches(new, attributes) <=> matches(old, attributes)
    BY <2>1, <2>2 DEF matches
  <2>4. \A j \in DOMAIN d.rules : matches(t[j], attributes) <=> matches(d.rules[j], attributes)
    BY <1>3, <2>3 DEF old, new
  <2>5. /\ Hits(a, attributes) = {j \in DOMAIN t : matches(t[j], attributes)}
        /\ Hits(d, attributes) = {j \in DOMAIN d.rules : matches(d.rules[j], attributes)}
    BY <1>1, <1>4 DEF Hits
  <2> QED BY <1>3, <2>4, <2>5
<1>6. SameButRules(a, d) /\ Field(a, "rollout") = Field(d, "rollout")
  BY <1>4 DEF SameButRules
<1> QED BY <1>3, <1>4, <1>5, <1>6

LEMMA FirstHit ==
  ASSUME NEW d, Field(d, "rules") # Undefined, DOMAIN d.rules \subseteq Nat,
         NEW attributes, Hits(d, attributes) # {}
  PROVE  Min(Hits(d, attributes)) \in DOMAIN d.rules
<1>1. Hits(d, attributes) \subseteq DOMAIN d.rules
  BY DEF Hits, Field
<1>2. \E x \in Hits(d, attributes) : \A y \in Hits(d, attributes) : x <= y
  <2>1. Hits(d, attributes) \in SUBSET Nat
    BY <1>1
  <2> QED BY <2>1, LeastOf
<1>3. Min(Hits(d, attributes)) \in Hits(d, attributes)
  BY <1>2 DEF Min
<1> QED BY <1>1, <1>3

\* What a rule with rollout r gives a unit.
LEMMA ByRolledRule ==
  ASSUME NEW a, NEW i, NEW rule, NEW r, a.rules[i] = WithRollout(rule, r), r # Undefined, NEW unit
  PROVE  ByRule(a, i, unit).value =
           IF r >= FullRollout \/ Bucket(Field(a, "key"), Field(a, "salt"), unit) < r
           THEN Field(rule, "serve") ELSE Field(a, "offValue")
<1>1. Field(a.rules[i], "rollout") = r /\ Field(a.rules[i], "serve") = Field(rule, "serve")
  BY RolledIs
<1>2. InBucket(a, unit, r) <=> Bucket(Field(a, "key"), Field(a, "salt"), unit) < r
  BY DEF InBucket
<1>3. ByRule(a, i, unit).value =
        IF r >= FullRollout THEN Field(rule, "serve")
        ELSE IF InBucket(a, unit, r) THEN Field(rule, "serve") ELSE Field(a, "offValue")
  BY <1>1 DEF ByRule, Result
<1> QED BY <1>2, <1>3

LEMMA RuleRolloutKeepsUnits ==
  ASSUME NEW d, IsDefinition(d), Field(d, "rules") # Undefined,
         NEW i \in DOMAIN d.rules, d.rules[i] # Undefined,
         NEW low \in Rollouts, NEW high \in Rollouts, low < high
  PROVE  OnlyIn(WithRuleRollout(d, i, low), WithRuleRollout(d, i, high), Field(d.rules[i], "serve"))
<1> DEFINE a == WithRuleRollout(d, i, low)
           b == WithRuleRollout(d, i, high)
           serve == Field(d.rules[i], "serve")
<1> SUFFICES ASSUME NEW ctx \in Contexts, evaluate(a, ctx).value # evaluate(b, ctx).value
             PROVE  evaluate(a, ctx).value = Field(a, "offValue") /\ evaluate(b, ctx).value = serve
  BY DEF OnlyIn
<1> DEFINE h == Hits(d, ctx.attributes)
           n == Min(h)
           bucket == Bucket(Field(d, "key"), Field(d, "salt"), ctx.unitId)
<1>1. /\ a # Undefined /\ b # Undefined /\ a.rules # Undefined /\ b.rules # Undefined
      /\ low # Undefined /\ high # Undefined
      /\ WithRollout(d.rules[i], low) # Undefined /\ WithRollout(d.rules[i], high) # Undefined
      /\ DOMAIN d.rules \subseteq Nat
  BY DEF IsDefinition
<1>2. bucket \in 0 .. TotalBuckets - 1 /\ low \in Nat /\ high \in Nat
  BY RolloutAssumption DEF IsDefinition, RolloutAssumption
<1>3. /\ SameButRules(a, d) /\ Field(a, "rollout") = Field(d, "rollout")
      /\ a.rules[i] = WithRollout(d.rules[i], low)
      /\ \A j \in DOMAIN d.rules : j # i => a.rules[j] = d.rules[j]
      /\ Hits(a, ctx.attributes) = h
  BY <1>1, RuleRolledIs
<1>4. /\ SameButRules(b, d) /\ Field(b, "rollout") = Field(d, "rollout")
      /\ b.rules[i] = WithRollout(d.rules[i], high)
      /\ \A j \in DOMAIN d.rules : j # i => b.rules[j] = d.rules[j]
      /\ Hits(b, ctx.attributes) = h
  BY <1>1, RuleRolledIs
<1>5. h # {} => n \in DOMAIN d.rules
  BY <1>1, FirstHit
<1> HIDE DEF a, b, h, n
<1>6. SameButRules(a, b)
  BY <1>3, <1>4 DEF SameButRules
<1>7. /\ Field(a, "offValue") = Field(b, "offValue") /\ Field(a, "onValue") = Field(b, "onValue")
      /\ Field(a, "key") = Field(d, "key") /\ Field(a, "salt") = Field(d, "salt")
      /\ Field(b, "key") = Field(d, "key") /\ Field(b, "salt") = Field(d, "salt")
  BY <1>3, <1>4, <1>6 DEF SameButRules
<1>8. \A unit, rollout : InBucket(a, unit, rollout) <=> InBucket(b, unit, rollout)
  BY <1>6, SettledAlike
<1>9. ~Settled(a, ctx) /\ ~Settled(b, ctx)
  BY <1>1, <1>6, SettledAlike
<1>10. h # {}
  <2>1. h = {} => /\ evaluate(a, ctx) = Fallthrough(a, ctx.unitId)
                  /\ evaluate(b, ctx) = Fallthrough(b, ctx.unitId)
    BY <1>1, <1>3, <1>4, <1>9, Unsettled
  <2>2. Fallthrough(a, ctx.unitId) = Fallthrough(b, ctx.unitId)
    BY <1>3, <1>4, <1>7, <1>8 DEF Fallthrough
  <2> QED BY <2>1, <2>2
<1>11. evaluate(a, ctx) = ByRule(a, n, ctx.unitId) /\ evaluate(b, ctx) = ByRule(b, n, ctx.unitId)
  BY <1>1, <1>3, <1>4, <1>9, <1>10, Unsettled DEF n
<1>12. n = i
  <2>1. n # i => a.rules[n] = b.rules[n]
    BY <1>3, <1>4, <1>5, <1>10
  <2>2. a.rules[n] = b.rules[n] => ByRule(a, n, ctx.unitId) = ByRule(b, n, ctx.unitId)
    BY <1>7, <1>8 DEF ByRule
  <2> QED BY <1>11, <2>1, <2>2
<1>13. evaluate(a, ctx).value = IF low >= FullRollout \/ bucket < low THEN serve ELSE Field(a, "offValue")
  BY <1>1, <1>3, <1>7, <1>11, <1>12, ByRolledRule
<1>14. evaluate(b, ctx).value = IF high >= FullRollout \/ bucket < high THEN serve ELSE Field(b, "offValue")
  BY <1>1, <1>4, <1>7, <1>11, <1>12, ByRolledRule
<1>15. low >= FullRollout \/ bucket < low => high >= FullRollout \/ bucket < high
  <2>1. low \in Nat /\ high \in Nat /\ low < high /\ bucket \in 0 .. TotalBuckets - 1
    BY <1>2
  <2> HIDE DEF bucket
  <2> QED BY <2>1 DEF FullRollout, TotalBuckets
<1> HIDE DEF bucket, serve
<1> QED BY <1>7, <1>13, <1>14, <1>15

LEMMA DefinitionsKeepUnits ==
  ASSUME NEW d, IsDefinition(d)
  PROVE  KeepsUnits(d)
  BY NobodyAtZeroAllAtFullHolds, FlagRolloutKeepsUnits, RuleRolloutKeepsUnits DEF KeepsUnits

\* Raising a rollout takes the value away from nobody, in whatever the server sends and in
\* whatever snapshot an SDK starts with.
THEOREM RaisingRolloutKeepsUnitsHolds == Spec => RaisingRolloutKeepsUnits
<1> DEFINE Started == sdk.snapshot # Undefined => \A d \in Range(sdk.snapshot) \ {Undefined} : KeepsUnits(d)
           Sent == sdk' # sdk => \A d \in Meaning(sdk'.snapshot) : KeepsUnits(d)
<1>1. Init => Started
  <2> SUFFICES ASSUME Init, sdk.snapshot # Undefined, NEW d \in Range(sdk.snapshot) \ {Undefined}
               PROVE  KeepsUnits(d)
    OBVIOUS
  <2>1. sdk.snapshot \in Bootstraps \ {Undefined}
    BY DEF Init
  <2> QED BY <2>1, RolloutAssumption, DefinitionsKeepUnits DEF RolloutAssumption
<1>2. ASSUME DefinitionsInv, [Next]_vars PROVE [Sent]_sdk
  <2>1. CASE Respond
    <3> SUFFICES ASSUME sdk' # sdk, NEW d \in Meaning(sdk'.snapshot) PROVE KeepsUnits(d)
      OBVIOUS
    <3>1. sdk'.snapshot = sortDefinitions(Listed)
      BY <2>1 DEF Respond
    <3>2. Listed \in Seq(Listable) /\ DistinctKeys(Listed)
      BY <1>2, <2>1, ListedType DEF DefinitionsInv, Respond, Answered, Idle
    <3>3. sortDefinitions(Listed) \in Seq(Listable)
      BY <3>2, SortedRange
    <3>4. \E e \in Listable : d = Evaluable(e)
      BY <3>1, <3>3, LenProperties DEF Meaning
    <3> QED BY <3>4, RolloutAssumption, DefinitionsKeepUnits DEF RolloutAssumption
  <2>2. ASSUME NEW f \in Flags, Change(f) PROVE sdk' = sdk
    BY <2>2 DEF Change, Create, Archive, Patch, PutRules, PutOverrides, Write
  <2>3. CASE SelectFlags \/ SelectPiece \/ PushDefinition \/ LoseAnswer \/ UNCHANGED vars
    BY <2>3 DEF SelectFlags, SelectPiece, PushDefinition, LoseAnswer, vars
  <2> QED BY <1>2, <2>1, <2>2, <2>3 DEF Next, Serve
<1>3. DefinitionsInv /\ [Next]_vars => [Sent]_sdk
  BY <1>2
<1> HIDE DEF Started, Sent
<1>4. Spec => Started /\ [][Sent]_sdk
  BY <1>1, <1>3, DefinitionsInvariance, PTL DEF Spec
<1> QED BY <1>4 DEF RaisingRolloutKeepsUnits, Started, Sent
=============================================================================
