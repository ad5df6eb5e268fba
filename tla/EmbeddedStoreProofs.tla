------------------------- MODULE EmbeddedStoreProofs -------------------------
(***************************************************************************)
(* Proofs about the embedded adapters.  Each repository call is described  *)
(* once, by what it does to the tables as the contract sees them (View),   *)
(* first on SQLite's rows, then on the memory adapter's arrays; everything *)
(* after "Either adapter" speaks of views only.  Three inductive           *)
(* invariants follow: FlowInv (whose transaction is open, what a request   *)
(* holds), UseInv (how far last_used_at may lag, in the live store and in  *)
(* the one an open unit of work would restore) and ContractInv (where each *)
(* unit of work stands against the committed tables).  The last section    *)
(* maps every step to one of FlagContract.                                 *)
(***************************************************************************)
EXTENDS EmbeddedStore, SequenceTheorems, FiniteSetTheorems, WellFoundedInduction, TLAPS

-----------------------------------------------------------------------------
(* Numbers, the first match in an array, and what filter() keeps.          *)

LEMMA LeastOf ==
  ASSUME NEW U \in SUBSET Nat, U # {}
  PROVE  \E x \in U : \A y \in U : x <= y
<1>1. PICK x \in U : \A y \in U : ~(<<y, x>> \in OpToRel(<, Nat))
  <2>1. \E x \in U : \A y \in U : ~(<<y, x>> \in OpToRel(<, Nat))
    BY WFMin, NatLessThanWellFounded
  <2> QED BY <2>1
<1>2. ASSUME NEW y \in U PROVE x <= y
  <2>1. x \in Nat /\ y \in Nat
    OBVIOUS
  <2>2. y < x => <<y, x>> \in OpToRel(<, Nat)
    BY <2>1 DEF OpToRel
  <2>3. ~(y < x)
    BY <1>1, <2>2
  <2> QED BY <2>1, <2>3
<1> QED BY <1>2

LEMMA NatSetInduction ==
  ASSUME NEW T \in SUBSET Nat, 0 \in T, \A n \in T : n + 1 \in T
  PROVE  T = Nat
<1> DEFINE U == Nat \ T
<1> SUFFICES ASSUME U # {} PROVE FALSE
  OBVIOUS
<1>1. PICK x \in U : \A y \in U : x <= y
  BY LeastOf
<1>2. x # 0 /\ x - 1 \in Nat /\ x - 1 < x /\ (x - 1) + 1 = x
  OBVIOUS
<1>3. x - 1 \in T
  BY <1>1, <1>2
<1> QED BY <1>2, <1>3

\* i is where a find() over places 1 .. n stops: at the first place in I, or 0.
First(i, I) == IF I = {} THEN i = 0 ELSE i \in I /\ \A j \in I : i <= j

LEMMA MinIsFirst ==
  ASSUME NEW n \in Nat, NEW I \in SUBSET (1 .. n)
  PROVE  First(IF I # {} THEN Memory!Min(I) ELSE 0, I)
<1>1. ASSUME I # {} PROVE Memory!Min(I) \in I /\ \A j \in I : Memory!Min(I) <= j
  <2>1. \E x \in I : \A y \in I : x <= y
    BY <1>1, LeastOf
  <2> QED BY <2>1 DEF Memory!Min
<1> QED BY <1>1 DEF First

LEMMA FirstUnique ==
  ASSUME NEW n \in Nat, NEW I \in SUBSET (1 .. n), NEW i, NEW j, First(i, I), First(j, I)
  PROVE  i = j
<1>1. CASE I = {}
  BY <1>1 DEF First
<1>2. CASE I # {}
  <2>1. i \in 1 .. n /\ j \in 1 .. n /\ i <= j /\ j <= i
    BY <1>2 DEF First
  <2> QED BY <2>1
<1> QED BY <1>1, <1>2

\* The places of a key in an array of rows.
FlagPlaces(rows, f) == {i \in 1 .. Len(rows) : rows[i].key = f}
RefPlaces(rows, x) == {i \in 1 .. Len(rows) : rows[i].ref = x}
IdPlaces(rows, k) == {i \in 1 .. Len(rows) : rows[i].id = k}

LEMMA FindsAreFirst ==
  ASSUME NEW s
  PROVE  /\ Len(s.flags) \in Nat => \A f : First(Memory!FindFlag(s, f), FlagPlaces(s.flags, f))
         /\ Len(s.configs) \in Nat => \A x : First(Memory!FindConfig(s, x), RefPlaces(s.configs, x))
         /\ Len(s.apiKeys) \in Nat => \A k : First(Memory!FindKey(s, k), IdPlaces(s.apiKeys, k))
<1>1. ASSUME Len(s.flags) \in Nat, NEW f PROVE First(Memory!FindFlag(s, f), FlagPlaces(s.flags, f))
  <2>1. FlagPlaces(s.flags, f) \in SUBSET (1 .. Len(s.flags))
    BY DEF FlagPlaces
  <2>2. Memory!FindFlag(s, f) = LET I == FlagPlaces(s.flags, f) IN IF I # {} THEN Memory!Min(I) ELSE 0
    BY DEF Memory!FindFlag, Memory!SelectInSeq, FlagPlaces
  <2> QED BY <1>1, <2>1, <2>2, MinIsFirst
<1>2. ASSUME Len(s.configs) \in Nat, NEW x
      PROVE First(Memory!FindConfig(s, x), RefPlaces(s.configs, x))
  <2>1. RefPlaces(s.configs, x) \in SUBSET (1 .. Len(s.configs))
    BY DEF RefPlaces
  <2>2. Memory!FindConfig(s, x) = LET I == RefPlaces(s.configs, x) IN IF I # {} THEN Memory!Min(I) ELSE 0
    BY DEF Memory!FindConfig, Memory!SelectInSeq, RefPlaces
  <2> QED BY <1>2, <2>1, <2>2, MinIsFirst
<1>3. ASSUME Len(s.apiKeys) \in Nat, NEW k PROVE First(Memory!FindKey(s, k), IdPlaces(s.apiKeys, k))
  <2>1. IdPlaces(s.apiKeys, k) \in SUBSET (1 .. Len(s.apiKeys))
    BY DEF IdPlaces
  <2>2. Memory!FindKey(s, k) = LET I == IdPlaces(s.apiKeys, k) IN IF I # {} THEN Memory!Min(I) ELSE 0
    BY DEF Memory!FindKey, Memory!SelectInSeq, IdPlaces
  <2> QED BY <1>3, <2>1, <2>2, MinIsFirst
<1> QED BY <1>1, <1>2, <1>3

\* kept holds what the filter keeps of the first 0, 1, 2, ... of n rows.
Keeping(kept, rows, x, n) ==
  kept = [k \in 0 .. n |-> IF k = 0 THEN <<>>
                           ELSE IF rows[k].ref = x THEN kept[k - 1] ELSE Append(kept[k - 1], rows[k])]

LEMMA KeepingExists ==
  ASSUME NEW S, NEW rows \in Seq(S), NEW x
  PROVE  \E kept \in [0 .. Len(rows) -> Seq(S)] : Keeping(kept, rows, x, Len(rows))
<1> DEFINE Exist(n) == \E kept \in [0 .. n -> Seq(S)] : Keeping(kept, rows, x, n)
           T == {n \in Nat : n <= Len(rows) => Exist(n)}
<1>0. Len(rows) \in Nat /\ \A i \in 1 .. Len(rows) : rows[i] \in S
  BY LenProperties
<1>1. 0 \in T
  <2>1. [k \in 0 .. 0 |-> <<>>] \in [0 .. 0 -> Seq(S)] /\ Keeping([k \in 0 .. 0 |-> <<>>], rows, x, 0)
    BY DEF Keeping
  <2> QED BY <2>1
<1>2. ASSUME NEW n \in T PROVE n + 1 \in T
  <2> HIDE DEF Exist
  <2>0. n \in Nat /\ n + 1 \in Nat
    OBVIOUS
  <2> SUFFICES ASSUME n + 1 <= Len(rows) PROVE Exist(n + 1)
    BY <2>0
  <2>1. n <= Len(rows) /\ rows[n + 1] \in S
    BY <1>0, <2>0
  <2>2. PICK s \in [0 .. n -> Seq(S)] : Keeping(s, rows, x, n)
    BY <2>1 DEF Exist
  <2> DEFINE last == IF rows[n + 1].ref = x THEN s[n] ELSE Append(s[n], rows[n + 1])
             u == [k \in 0 .. n + 1 |-> IF k <= n THEN s[k] ELSE last]
  <2>3. u \in [0 .. n + 1 -> Seq(S)]
    <3>1. s[n] \in Seq(S)
      BY <2>0, <2>2
    <3>2. last \in Seq(S)
      BY <2>1, <3>1, AppendProperties
    <3>3. \A k \in 0 .. n + 1 : k <= n => s[k] \in Seq(S)
      BY <2>0, <2>2
    <3> QED BY <3>2, <3>3
  <2>4. ASSUME NEW k \in 0 .. n + 1
        PROVE u[k] = IF k = 0 THEN <<>>
                     ELSE IF rows[k].ref = x THEN u[k - 1] ELSE Append(u[k - 1], rows[k])
    <3>1. CASE k <= n
      <4>1. k \in 0 .. n /\ (k # 0 => k - 1 \in 0 .. n + 1 /\ k - 1 <= n)
        BY <2>0, <3>1
      <4>2. s[k] = IF k = 0 THEN <<>>
                   ELSE IF rows[k].ref = x THEN s[k - 1] ELSE Append(s[k - 1], rows[k])
        BY <2>2, <4>1 DEF Keeping
      <4> QED BY <3>1, <4>1, <4>2
    <3>2. CASE k = n + 1
      <4>1. k # 0 /\ k - 1 = n /\ ~(k <= n) /\ n \in 0 .. n + 1 /\ n <= n
        BY <2>0, <3>2
      <4>2. u[k] = last /\ u[k - 1] = s[n]
        BY <4>1
      <4> QED BY <3>2, <4>1, <4>2
    <3> QED BY <2>0, <3>1, <3>2
  <2>5. Keeping(u, rows, x, n + 1)
    BY <2>4 DEF Keeping
  <2> HIDE DEF u
  <2> QED BY <2>3, <2>5 DEF Exist
<1>3. T = Nat
  BY <1>1, <1>2, NatSetInduction
<1> QED BY <1>0, <1>3

\* The rows the array s holds in its places.
Held(s) == {s[i] : i \in 1 .. Len(s)}

LEMMA HeldAppend ==
  ASSUME NEW S, NEW s \in Seq(S), NEW e \in S
  PROVE  Append(s, e) \in Seq(S) /\ Held(Append(s, e)) = Held(s) \cup {e}
<1>1. /\ Len(s) \in Nat /\ Append(s, e) \in Seq(S) /\ Len(Append(s, e)) = Len(s) + 1
      /\ \A i \in 1 .. Len(s) : Append(s, e)[i] = s[i]
      /\ Append(s, e)[Len(s) + 1] = e
  BY AppendProperties, LenProperties
<1>2. 1 .. Len(s) + 1 = (1 .. Len(s)) \cup {Len(s) + 1}
  BY <1>1
<1> HIDE DEF Held
<1>3. ASSUME NEW i \in 1 .. Len(s) + 1 PROVE Append(s, e)[i] \in Held(s) \cup {e}
  BY <1>1, <1>2 DEF Held
<1>4. ASSUME NEW v \in Held(s) \cup {e} PROVE \E i \in 1 .. Len(s) + 1 : v = Append(s, e)[i]
  <2>1. CASE v = e
    BY <1>1, <1>2, <2>1
  <2>2. CASE v \in Held(s)
    BY <1>1, <1>2, <2>2 DEF Held
  <2> QED BY <2>1, <2>2
<1> QED BY <1>1, <1>3, <1>4 DEF Held

LEMMA HeldConcat ==
  ASSUME NEW S, NEW s \in Seq(S), NEW t \in Seq(S)
  PROVE  s \o t \in Seq(S) /\ Held(s \o t) = Held(s) \cup Held(t)
<1>1. /\ Len(s) \in Nat /\ Len(t) \in Nat /\ s \o t \in Seq(S) /\ Len(s \o t) = Len(s) + Len(t)
      /\ \A i \in 1 .. Len(s) + Len(t) : (s \o t)[i] = IF i <= Len(s) THEN s[i] ELSE t[i - Len(s)]
  BY ConcatProperties, LenProperties
<1>2. ASSUME NEW i \in 1 .. Len(s) + Len(t) PROVE (s \o t)[i] \in Held(s) \cup Held(t)
  <2>1. i <= Len(s) => i \in 1 .. Len(s)
    BY <1>1
  <2>2. ~(i <= Len(s)) => i - Len(s) \in 1 .. Len(t)
    BY <1>1
  <2> QED BY <1>1, <2>1, <2>2 DEF Held
<1>3. ASSUME NEW i \in 1 .. Len(s) PROVE s[i] \in Held(s \o t)
  <2>1. i \in 1 .. Len(s) + Len(t) /\ i <= Len(s)
    BY <1>1
  <2> QED BY <1>1, <2>1 DEF Held
<1>4. ASSUME NEW i \in 1 .. Len(t) PROVE t[i] \in Held(s \o t)
  <2>1. i + Len(s) \in 1 .. Len(s) + Len(t) /\ ~(i + Len(s) <= Len(s)) /\ (i + Len(s)) - Len(s) = i
    BY <1>1
  <2>2. (s \o t)[i + Len(s)] = t[i]
    BY <1>1, <2>1
  <2> QED BY <1>1, <2>1, <2>2 DEF Held
<1> QED BY <1>1, <1>2, <1>3, <1>4 DEF Held

LEMMA WithoutKeeps ==
  ASSUME NEW S, NEW rows \in Seq(S), NEW x
  PROVE  /\ Memory!Without(rows, x) \in Seq(S)
         /\ Held(Memory!Without(rows, x)) = {e \in Held(rows) : e.ref # x}
<1>0. Len(rows) \in Nat
  BY LenProperties
<1> DEFINE kept == CHOOSE s : Keeping(s, rows, x, Len(rows))
           Right(n) == kept[n] \in Seq(S) /\ Held(kept[n]) = {rows[i] : i \in {j \in 1 .. n : rows[j].ref # x}}
           T == {n \in Nat : n <= Len(rows) => Right(n)}
<1> HIDE DEF Right
<1>1. Memory!Without(rows, x) = kept[Len(rows)]
  BY DEF Memory!Without, Keeping
<1>2. Keeping(kept, rows, x, Len(rows))
  BY KeepingExists
<1> HIDE DEF kept
<1>3. kept[0] = <<>>
  BY <1>0, <1>2 DEF Keeping
<1>4. ASSUME NEW n \in Nat, n + 1 <= Len(rows)
      PROVE kept[n + 1] = IF rows[n + 1].ref = x THEN kept[n] ELSE Append(kept[n], rows[n + 1])
  <2>1. \A m \in Nat : n + 1 <= m => n + 1 \in 0 .. m
    OBVIOUS
  <2>2. n + 1 \in 0 .. Len(rows) /\ n + 1 # 0 /\ (n + 1) - 1 = n
    BY <1>0, <1>4, <2>1
  <2> QED BY <1>2, <2>2 DEF Keeping
<1>5. 0 \in T
  <2>1. <<>> \in Seq(S) /\ 1 .. 0 = {} /\ Len(<<>>) = 0
    OBVIOUS
  <2>2. Held(kept[0]) = {} /\ {rows[i] : i \in {j \in 1 .. 0 : rows[j].ref # x}} = {}
    BY <1>3, <2>1 DEF Held
  <2> QED BY <1>3, <2>1, <2>2 DEF Right
<1>6. ASSUME NEW n \in T PROVE n + 1 \in T
  <2>0. n \in Nat /\ n + 1 \in Nat
    OBVIOUS
  <2> SUFFICES ASSUME n + 1 <= Len(rows) PROVE Right(n + 1)
    BY <2>0
  <2>1. n <= Len(rows) /\ n + 1 \in 1 .. Len(rows) /\ rows[n + 1] \in S /\ Right(n)
    <3>1. \A m \in Nat : n + 1 <= m => n <= m /\ n + 1 \in 1 .. m
      BY <2>0
    <3>2. n <= Len(rows) /\ n + 1 \in 1 .. Len(rows)
      BY <1>0, <3>1
    <3> QED BY <3>2, ElementOfSeq
  <2>2. 1 .. n + 1 = (1 .. n) \cup {n + 1}
    BY <2>0
  <2>3. CASE rows[n + 1].ref = x
    BY <1>4, <2>0, <2>1, <2>2, <2>3 DEF Right
  <2>4. CASE rows[n + 1].ref # x
    <3>1. kept[n + 1] = Append(kept[n], rows[n + 1])
      BY <1>4, <2>0, <2>4
    <3>2. kept[n + 1] \in Seq(S) /\ Held(kept[n + 1]) = Held(kept[n]) \cup {rows[n + 1]}
      BY <2>1, <3>1, HeldAppend DEF Right
    <3> QED BY <2>1, <2>2, <2>4, <3>2 DEF Right
  <2> QED BY <2>3, <2>4
<1>7. T = Nat
  BY <1>5, <1>6, NatSetInduction
<1>8. Right(Len(rows))
  BY <1>0, <1>7
<1>9. {rows[i] : i \in {j \in 1 .. Len(rows) : rows[j].ref # x}} = {e \in Held(rows) : e.ref # x}
  BY DEF Held
<1> QED BY <1>1, <1>8, <1>9 DEF Right

LEMMA SetToSeqLists ==
  ASSUME NEW S, IsFiniteSet(S)
  PROVE  /\ Memory!SetToSeq(S) \in [1 .. Cardinality(S) -> S] /\ Cardinality(S) \in Nat
         /\ \A e \in S : \E i \in 1 .. Cardinality(S) : Memory!SetToSeq(S)[i] = e
<1> DEFINE n == Cardinality(S)
           f == Memory!SetToSeq(S)
<1>0. Memory!Cardinality(S) = Cardinality(S)
  BY DEF Memory!Cardinality, Cardinality
<1>1. n \in Nat /\ ExistsBijection(1 .. n, S)
  BY FS_CardinalityType
<1> HIDE DEF n
<1>2. \E g \in [1 .. n -> S] : \A i, j \in DOMAIN g : g[i] = g[j] => i = j
  BY <1>1 DEF ExistsBijection, Bijection, Injection, IsInjective
<1>3. f \in [1 .. n -> S] /\ \A i, j \in DOMAIN f : f[i] = f[j] => i = j
  BY <1>0, <1>2 DEF Memory!SetToSeq, Memory!IsInjective, n
<1> HIDE DEF f
<1>4. f \in Injection(1 .. n, S) /\ IsFiniteSet(1 .. n) /\ Cardinality(1 .. n) = n
  <2>1. f \in Injection(1 .. n, S)
    BY <1>3 DEF Injection, IsInjective
  <2>2. 1 \in Int /\ n \in Int /\ (IF 1 > n THEN 0 ELSE n - 1 + 1) = n
    BY <1>1
  <2>3. IsFiniteSet(1 .. n) /\ Cardinality(1 .. n) = IF 1 > n THEN 0 ELSE n - 1 + 1
    BY <2>2, FS_Interval
  <2> QED BY <2>1, <2>2, <2>3
<1>5. f \in Surjection(1 .. n, S)
  BY <1>4, FS_Injection DEF n
<1>6. \A e \in S : \E i \in 1 .. n : f[i] = e
  BY <1>5 DEF Surjection
<1> QED BY <1>1, <1>3, <1>6 DEF f, n

-----------------------------------------------------------------------------
(* The tables of either adapter: their shape, how a key's last use is read, *)
(* and the view of them that FlagContract speaks about.                     *)

KeyRow == [id : Keys, lastUsedAt : Nat \cup {Never}]
SqliteOk(s) ==
  /\ s = [flagRow |-> s.flagRow, configRow |-> s.configRow, child |-> s.child,
          audit |-> s.audit, exposures |-> s.exposures, lastUsed |-> s.lastUsed]
  /\ s.flagRow \in [Flags -> FlagRow \cup {None}]
  /\ s.configRow \in [Refs -> ConfigRow \cup {None}]
  /\ s.child \in [Tables -> [Refs -> SUBSET Row]]
  /\ s.lastUsed \in [Keys -> Nat \cup {Never}]
  /\ \A x \in Refs : s.flagRow[x[1]] = None <=> s.configRow[x] = None

ChildRow == [ref : Refs, key : ChildKeys, val : ChildVals, by : Reqs]
MemoryOk(s) ==
  /\ s = [flags |-> s.flags, configs |-> s.configs, rules |-> s.rules, overrides |-> s.overrides,
          auditLog |-> s.auditLog, exposures |-> s.exposures, apiKeys |-> s.apiKeys]
  /\ s.flags \in Seq([key : Flags, archivedAt : Reqs \cup {None}])
  /\ s.configs \in Seq([ref : Refs, cols : [Columns -> Values], version : Nat \ {0}])
  /\ s.rules \in Seq(ChildRow) /\ s.overrides \in Seq(ChildRow)
  /\ s.apiKeys \in Seq(KeyRow) /\ \A k \in Keys : \E i \in DOMAIN s.apiKeys : s.apiKeys[i].id = k
  /\ \A x \in Refs : Memory!FindFlag(s, x[1]) = 0 <=> Memory!FindConfig(s, x) = 0
StoreOk(s) == IF adapter = "sqlite" THEN SqliteOk(s) ELSE MemoryOk(s)

Labels == {"idle", "mutate", "after", "record", "commit", "abort", "answered", "closed"}
Replies == [status : Status \cup {"forbidden", "unauthorized"}, version : Nat]
TypesInv ==
  /\ adapter \in {"sqlite", "memory"}
  /\ pc \in [Reqs -> Labels]
  /\ op \in [Reqs -> Op \cup BatchOp \cup {None}]
  /\ reply \in [Reqs -> Replies] /\ result \in [Reqs -> Reply]
  /\ DOMAIN before = Reqs /\ DOMAIN after = Reqs /\ DOMAIN draft = Reqs
  /\ clock \in Nat
  /\ lastTouch \in [Keys -> Nat \cup {Never}] /\ used \in [Keys -> Nat \cup {Never}]
  /\ touched \in [Reqs -> [key : Keys \cup {None}, failed : BOOLEAN]]
  /\ during \in [Reqs -> SUBSET (Reqs \X {"batch", "commit", "touch"})]
  /\ StoreOk(db)

RequestInv(r) ==
  /\ pc[r] = "idle" => /\ op[r] = None /\ reply[r] = NoReply /\ before[r] = NothingRead
                       /\ touched[r].key = None /\ during[r] = {}
  /\ pc[r] \notin {"idle", "closed"} => touched[r].key \in Keys
  /\ pc[r] # "closed" => ~touched[r].failed /\ \A s \in Reqs : <<r, "touch">> \notin during[s]
  /\ Open(r) => /\ op[r] \in Op /\ Mutates(op[r]) /\ reply[r] = NoReply
                /\ IF adapter = "sqlite" THEN inTx = r /\ StoreOk(saved) ELSE StoreOk(draft[r])
                /\ pc[r] = "abort" => result[r].status # "ok"
TransactionInv ==
  IF adapter = "sqlite" THEN inTx # None => inTx \in Reqs /\ Open(inTx)
  ELSE inTx = None /\ saved = None
FlowInv == TypesInv /\ TransactionInv /\ \A r \in Reqs : RequestInv(r)

UseIn(s, k) == IF adapter = "sqlite" THEN Sqlite!LastUsed(s, k) ELSE Memory!LastUsed(s, k)
Excused(k) == \E r \in Reqs : touched[r].key = k /\ (touched[r].failed \/ r \in Undone("touch"))
MissedBy(r, k) == \E q \in Reqs : touched[q].key = k /\ <<q, "touch">> \in during[r]
Other(r) == IF adapter = "sqlite" THEN saved ELSE draft[r]
UseInv ==
  /\ \A k \in Keys : Excused(k) \/
       /\ used[k] # Never => UseIn(db, k) # Never /\ used[k] - UseIn(db, k) < 2 * Throttle
       /\ lastTouch[k] # Never => UseIn(db, k) # Never /\ lastTouch[k] - UseIn(db, k) <= Throttle
  /\ \A r \in Reqs : Open(r) =>
       \A k \in Keys : UseIn(Other(r), k) = UseIn(db, k) \/ MissedBy(r, k) \/ Excused(k)

View(s) == [flag |-> FlagRows(s), config |-> ConfigRows(s), child |-> ChildRows(s), audit |-> AuditRows(s)]
Snap(v, f, X) ==
  [flag |-> [g \in Flags |-> IF g = f THEN v.flag[f] ELSE None],
   config |-> [x \in Refs |-> IF x \in X THEN v.config[x] ELSE None],
   rules |-> [x \in Refs |-> IF x \in X THEN v.child["rules"][x] ELSE None],
   overrides |-> [x \in Refs |-> IF x \in X THEN v.child["overrides"][x] ELSE None]]
Area(o) == IF OnConfig(o) \/ o.kind = "find" THEN {RefOf(o)} ELSE {<<o.flag, e>> : e \in Envs}
SnapOf(v, o) == IF v.flag[o.flag] = None THEN NothingRead ELSE Snap(v, o.flag, Area(o))

Effect(r, o, v, w) ==
  \/ /\ o.kind = "create" /\ v.flag[o.flag] = None
     /\ w.flag = [v.flag EXCEPT ![o.flag] = NewFlagRow]
     /\ w.config = [x \in Refs |-> IF x[1] = o.flag THEN NewConfigRow ELSE v.config[x]]
     /\ w.child = v.child
  \/ /\ o.kind = "archive" /\ v.flag[o.flag] # None
     /\ w.flag = [v.flag EXCEPT ![o.flag] = [archivedAt |-> r]]
     /\ w.config = v.config /\ w.child = v.child
  \/ /\ o.kind = "config" /\ v.config[RefOf(o)] # None /\ v.config[RefOf(o)].version = o.expected
     /\ w.config = [v.config EXCEPT ![RefOf(o)] = [cols |-> Patched(@.cols, o.patch), version |-> @.version + 1]]
     /\ w.flag = v.flag /\ w.child = v.child
  \/ /\ o.kind \in Tables /\ v.config[RefOf(o)] # None /\ v.config[RefOf(o)].version = o.expected
     /\ adapter = "sqlite" => KeysUnique(o.body)
     /\ w.child = [v.child EXCEPT ![o.kind][RefOf(o)] = RowsOf(r, o.body)]
     /\ w.config = [v.config EXCEPT ![RefOf(o)].version = @ + 1]
     /\ w.flag = v.flag
NewVersion(o) == CASE o.kind = "create" -> 1 [] o.kind = "archive" -> 0 [] OTHER -> o.expected + 1
Refused(v, o, status) ==
  \/ status = "notFound" /\ o.kind = "archive" /\ v.flag[o.flag] = None
  \/ status = "notFound" /\ OnConfig(o) /\ v.config[RefOf(o)] = None
  \/ status = "duplicate" /\ o.kind = "create" /\ v.flag[o.flag] # None
  \/ status = "conflict" /\ OnConfig(o) /\ v.config[RefOf(o)] # None /\ v.config[RefOf(o)].version # o.expected
  \/ status = "error"

Overlapped(r) == adapter = "memory" /\ \E q \in Reqs : <<q, "commit">> \in during[r]
AuditEntry(r) == [by |-> r, op |-> op[r], before |-> before[r], after |-> after[r]]

\* Where a unit of work at p stands, from the committed tables C to its own M.
UnitShape(r, p, o, b, res, a, C, M) ==
  /\ p # "abort" => b = SnapOf(C, o)
  /\ p = "mutate" => M = C
  /\ p \in {"after", "record", "commit"} =>
       Effect(r, o, C, M) /\ res = [status |-> "ok", version |-> NewVersion(o)]
  /\ p \in {"after", "record"} => M.audit = C.audit
  /\ p \in {"record", "commit"} => a = SnapOf(M, o)
  /\ p = "commit" => M.audit = Append(C.audit, [by |-> r, op |-> o, before |-> b, after |-> a])
  /\ p = "abort" => Refused(C, o, res.status)
UnitInv(r) ==
  Open(r) /\ ~Overlapped(r) =>
    UnitShape(r, pc[r], op[r], before[r], result[r], after[r], View(Committed), View(Mine(r)))
ContractInv == \A r \in Reqs : UnitInv(r)

LEMMA OpFields ==
  ASSUME NEW o \in Op
  PROVE  /\ o.kind \in {"create", "archive", "config", "rules", "overrides", "get", "find"}
         /\ o.flag \in Flags
         /\ OnConfig(o) \/ o.kind = "find" => o.env \in Envs
         /\ OnConfig(o) => o.expected \in Nat
         /\ o.kind = "config" => o.patch \in Patch
         /\ o.kind \in Tables => o.body \in Seq(Entry)
<1>1. Bodies["rules"] \subseteq Seq(Entry) /\ Bodies["overrides"] \subseteq Seq(Entry)
  BY FlagDataAssumption DEF FlagDataAssumption, Tables
<1>2. CASE o \in CreateOp \cup ArchiveOp \cup GetOp
  BY <1>2 DEF CreateOp, ArchiveOp, GetOp, OnConfig, Tables
<1>3. CASE o \in ConfigOp \cup FindOp
  BY <1>3 DEF ConfigOp, FindOp, OnConfig, Tables
<1>4. CASE o \in ReplaceOp("rules") \cup ReplaceOp("overrides")
  BY <1>1, <1>4 DEF ReplaceOp, OnConfig, Tables
<1> QED BY <1>2, <1>3, <1>4 DEF Op

LEMMA Kinds ==
  ASSUME NEW o \in Op
  PROVE  /\ Mutates(o) => o.kind \in {"create", "archive", "config", "rules", "overrides"}
         /\ o.kind \in {"config", "rules", "overrides"} <=> OnConfig(o)
         /\ o.kind \in {"create", "archive", "config", "rules", "overrides"} => Mutates(o)
         /\ o.kind \in Tables <=> o.kind \in {"rules", "overrides"}
         /\ OnConfig(o) \/ o.kind = "find" => RefOf(o) \in Refs /\ RefOf(o)[1] = o.flag
  BY OpFields DEF Mutates, OnConfig, Tables, RefOf, Refs

LEMMA Rowless ==
  /\ NewFlagRow \in FlagRow /\ NewConfigRow \in ConfigRow
  /\ None \notin FlagRow /\ None \notin ConfigRow /\ None \notin Reqs
  /\ \A r \in Reqs : [archivedAt |-> r] \in FlagRow
  BY FlagDataAssumption DEF FlagDataAssumption, NewFlagRow, FlagRow, NewConfigRow, ConfigRow

LEMMA PatchedType ==
  ASSUME NEW cols \in [Columns -> Values], NEW patch \in Patch
  PROVE  Patched(cols, patch) \in [Columns -> Values]
  BY DEF Patched, Patch

LEMMA RowsOfType ==
  ASSUME NEW r \in Reqs, NEW body \in Seq(Entry)
  PROVE  RowsOf(r, body) \subseteq Row
<1>1. \A i \in DOMAIN body : body[i] \in Entry
  BY ElementOfSeq, LenProperties
<1>2. \A e \in Entry : [key |-> e.key, val |-> e.val, by |-> r] \in Row
  BY DEF Row, Entry
<1> QED BY <1>1, <1>2 DEF RowsOf

\* The instances of the adapters speak about the same data.
LEMMA SqliteData ==
  /\ Sqlite!Envs = Envs /\ Sqlite!Refs = Refs /\ Sqlite!Tables = Tables /\ Sqlite!Never = Never
  /\ Sqlite!NewFlagRow = NewFlagRow /\ Sqlite!NewConfigRow = NewConfigRow
  /\ Sqlite!NothingRead = NothingRead
  /\ \A o : Sqlite!RefOf(o) = RefOf(o)
  /\ \A s, v : Sqlite!Returned(s, v) = [status |-> "ok", store |-> s, version |-> v]
  /\ \A s, m : Sqlite!Thrown(s, m) = [status |-> m, store |-> s, version |-> 0]
  /\ \A r, body : Sqlite!RowsOf(r, body) = RowsOf(r, body)
  /\ \A body : Sqlite!KeysUnique(body) = KeysUnique(body)
  /\ \A cols, patch : Sqlite!Patched(cols, patch) = Patched(cols, patch)
<1>1. Sqlite!Envs = Envs /\ Sqlite!Tables = Tables /\ Sqlite!Never = Never
  BY DEF Sqlite!Envs, Envs, Sqlite!Tables, Tables, Sqlite!Never, Never
<1>2. Sqlite!Refs = Refs
  BY <1>1 DEF Sqlite!Refs, Refs
<1>3. /\ Sqlite!NewFlagRow = NewFlagRow /\ Sqlite!NewConfigRow = NewConfigRow
      /\ Sqlite!NothingRead = NothingRead
  BY <1>2 DEF Sqlite!NewFlagRow, NewFlagRow, Sqlite!NewConfigRow, NewConfigRow, Sqlite!NothingRead, NothingRead
<1>4. /\ \A o : Sqlite!RefOf(o) = RefOf(o)
      /\ \A s, v : Sqlite!Returned(s, v) = [status |-> "ok", store |-> s, version |-> v]
      /\ \A s, m : Sqlite!Thrown(s, m) = [status |-> m, store |-> s, version |-> 0]
  BY DEF Sqlite!RefOf, RefOf, Sqlite!Returned, Sqlite!Thrown
<1>5. /\ \A r, body : Sqlite!RowsOf(r, body) = RowsOf(r, body)
      /\ \A body : Sqlite!KeysUnique(body) = KeysUnique(body)
      /\ \A cols, patch : Sqlite!Patched(cols, patch) = Patched(cols, patch)
  BY DEF Sqlite!RowsOf, RowsOf, Sqlite!KeysUnique, KeysUnique, Sqlite!Patched, Patched
<1> QED BY <1>1, <1>2, <1>3, <1>4, <1>5

LEMMA MemoryData ==
  /\ Memory!Envs = Envs /\ Memory!Refs = Refs /\ Memory!Tables = Tables /\ Memory!Never = Never
  /\ Memory!NothingRead = NothingRead
  /\ \A o : Memory!RefOf(o) = RefOf(o)
  /\ \A s, v : Memory!Returned(s, v) = [status |-> "ok", store |-> s, version |-> v]
  /\ \A s, m : Memory!Thrown(s, m) = [status |-> m, store |-> s, version |-> 0]
  /\ \A cols, patch : Memory!Patched(cols, patch) = Patched(cols, patch)
<1>1. Memory!Envs = Envs /\ Memory!Tables = Tables /\ Memory!Never = Never
  BY DEF Memory!Envs, Envs, Memory!Tables, Tables, Memory!Never, Never
<1>2. Memory!Refs = Refs
  BY <1>1 DEF Memory!Refs, Refs
<1>3. Memory!NothingRead = NothingRead
  BY <1>2 DEF Memory!NothingRead, NothingRead
<1>4. /\ \A o : Memory!RefOf(o) = RefOf(o)
      /\ \A s, v : Memory!Returned(s, v) = [status |-> "ok", store |-> s, version |-> v]
      /\ \A s, m : Memory!Thrown(s, m) = [status |-> m, store |-> s, version |-> 0]
  BY DEF Memory!RefOf, RefOf, Memory!Returned, Memory!Thrown
<1>5. \A cols, patch : Memory!Patched(cols, patch) = Patched(cols, patch)
  BY DEF Memory!Patched, Patched
<1> QED BY <1>1, <1>2, <1>3, <1>4, <1>5

-----------------------------------------------------------------------------
(* The SQLite adapter: each repository call, on the tables it is given.    *)

\* What a mutating call did to the tables s: its effect, or a reason not to.
Outcome(r, o, s, d) ==
  /\ StoreOk(d.store)
  /\ d.status \in Status /\ d.version \in Nat
  /\ \A k \in Keys : UseIn(d.store, k) = UseIn(s, k)
  /\ IF d.status = "ok"
     THEN /\ Effect(r, o, View(s), View(d.store)) /\ View(d.store).audit = View(s).audit
          /\ d.version = NewVersion(o)
     ELSE Refused(View(s), o, d.status)

LEMMA SqliteView ==
  ASSUME adapter = "sqlite", NEW s
  PROVE  /\ View(s).flag = s.flagRow /\ View(s).config = s.configRow
         /\ View(s).child = s.child /\ View(s).audit = s.audit
         /\ \A k : UseIn(s, k) = s.lastUsed[k]
  BY DEF View, FlagRows, ConfigRows, ChildRows, AuditRows, Sqlite!AuditOf, UseIn, Sqlite!LastUsed

\* The INSERTs of a body succeed up to the first repeated key.
Longest(body, n) ==
  KeysUnique(SubSeq(body, 1, n)) /\ (n = Len(body) \/ ~KeysUnique(SubSeq(body, 1, n + 1)))

LEMMA LongestUnique ==
  ASSUME NEW body \in Seq(Entry)
  PROVE  \E n \in 0 .. Len(body) : Longest(body, n)
<1> DEFINE U == {n \in 0 .. Len(body) : ~KeysUnique(SubSeq(body, 1, n))}
<1>0. Len(body) \in Nat /\ U \in SUBSET Nat
  BY LenProperties
<1>1. CASE U = {}
  <2>1. Len(body) \in 0 .. Len(body)
    BY <1>0
  <2> QED BY <1>1, <2>1 DEF Longest
<1>2. CASE U # {}
  <2>1. PICK m \in U : \A n \in U : m <= n
    BY <1>0, <1>2, LeastOf
  <2>2. m # 0
    <3>1. SubSeq(body, 1, 0) = <<>>
      BY SubSeqProperties
    <3>2. KeysUnique(<<>>)
      BY DEF KeysUnique
    <3> QED BY <2>1, <3>1, <3>2
  <2>3. m - 1 \in 0 .. Len(body) /\ (m - 1) + 1 = m /\ ~(m <= m - 1)
    BY <1>0, <2>1, <2>2
  <2>4. m - 1 \notin U
    BY <2>1, <2>3
  <2> QED BY <2>1, <2>3, <2>4 DEF Longest
<1> QED BY <1>1, <1>2

LEMMA LongestAll ==
  ASSUME NEW body \in Seq(Entry), NEW n \in 0 .. Len(body), Longest(body, n), ~(n < Len(body))
  PROVE  SubSeq(body, 1, n) = body /\ KeysUnique(body)
<1>1. Len(body) \in Nat /\ n = Len(body)
  BY LenProperties
<1>2. SubSeq(body, 1, n) = body
  BY <1>1
<1> QED BY <1>1, <1>2 DEF Longest

LEMMA SqliteRefusal ==
  ASSUME adapter = "sqlite", NEW s, SqliteOk(s), NEW o \in Op, OnConfig(o)
  PROVE  /\ Sqlite!Refusal(s, o) = "ok" =>
              s.configRow[RefOf(o)] \in ConfigRow /\ s.configRow[RefOf(o)].version = o.expected
         /\ Sqlite!Refusal(s, o) # "ok" =>
              Refused(View(s), o, Sqlite!Refusal(s, o)) /\ Sqlite!Refusal(s, o) \in Status
<1>1. RefOf(o) \in Refs /\ s.configRow[RefOf(o)] \in ConfigRow \cup {None}
  BY Kinds DEF SqliteOk
<1>2. Sqlite!Found(s, RefOf(o)) <=> s.configRow[RefOf(o)] # None
  BY <1>1 DEF Sqlite!Found, SqliteOk
<1>3. Sqlite!Refusal(s, o) = CASE s.configRow[RefOf(o)] = None -> "notFound"
                              [] /\ s.configRow[RefOf(o)] # None
                                 /\ s.configRow[RefOf(o)].version # o.expected -> "conflict"
                              [] OTHER -> "ok"
  BY <1>2, SqliteData DEF Sqlite!Refusal
<1> QED BY <1>1, <1>3, SqliteView DEF Refused, Status

LEMMA SqliteCreates ==
  ASSUME adapter = "sqlite", NEW s, SqliteOk(s), NEW r \in Reqs, NEW o \in Op, o.kind = "create"
  PROVE  Outcome(r, o, s, Sqlite!CreateFlag(s, o))
<1> DEFINE d == Sqlite!CreateFlag(s, o)
<1>0. o.flag \in Flags
  BY OpFields
<1>1. CASE s.flagRow[o.flag] # None
  <2>1. d.store = s /\ d.status = "duplicate" /\ d.version = 0
    BY <1>1, SqliteData DEF Sqlite!CreateFlag
  <2> HIDE DEF d
  <2>2. Refused(View(s), o, "duplicate")
    BY <1>1, SqliteView DEF Refused
  <2> QED BY <2>1, <2>2 DEF Outcome, StoreOk, Status, d
<1>2. CASE s.flagRow[o.flag] = None
  <2>1. d.status = "ok" /\ d.version = 1
    BY <1>2, SqliteData DEF Sqlite!CreateFlag
  <2>2. d.store = [s EXCEPT !.flagRow[o.flag] = NewFlagRow,
                            !.configRow = [x \in Refs |-> IF x[1] = o.flag THEN NewConfigRow ELSE @[x]]]
    BY <1>2, SqliteData DEF Sqlite!CreateFlag
  <2>3. /\ d.store = [flagRow |-> d.store.flagRow, configRow |-> d.store.configRow, child |-> s.child,
                      audit |-> s.audit, exposures |-> s.exposures, lastUsed |-> s.lastUsed]
        /\ d.store.flagRow = [s.flagRow EXCEPT ![o.flag] = NewFlagRow]
        /\ d.store.configRow = [x \in Refs |-> IF x[1] = o.flag THEN NewConfigRow ELSE s.configRow[x]]
    BY <2>2 DEF SqliteOk
  <2> HIDE DEF d
  <2>4. SqliteOk(d.store)
    <3>1. /\ d.store.flagRow \in [Flags -> FlagRow \cup {None}]
          /\ d.store.configRow \in [Refs -> ConfigRow \cup {None}]
      BY <1>0, <2>3, Rowless DEF SqliteOk
    <3>2. ASSUME NEW x \in Refs PROVE d.store.flagRow[x[1]] = None <=> d.store.configRow[x] = None
      <4>1. x[1] \in Flags
        BY DEF Refs
      <4> QED BY <1>0, <2>3, <4>1, Rowless DEF SqliteOk
    <3> QED BY <2>3, <3>1, <3>2 DEF SqliteOk
  <2>5. /\ d.store.child = s.child /\ d.store.audit = s.audit /\ d.store.lastUsed = s.lastUsed
    BY <2>3
  <2>6. Effect(r, o, View(s), View(d.store))
    BY <1>2, <2>3, <2>5, SqliteView DEF Effect
  <2>7. NewVersion(o) = 1 /\ 1 \in Nat /\ "ok" \in Status
    BY DEF NewVersion, Status
  <2> QED BY <2>1, <2>4, <2>5, <2>6, <2>7, SqliteView DEF Outcome, StoreOk, d
<1> QED BY <1>1, <1>2

LEMMA SqliteArchives ==
  ASSUME adapter = "sqlite", NEW s, SqliteOk(s), NEW r \in Reqs, NEW o \in Op, o.kind = "archive"
  PROVE  Outcome(r, o, s, Sqlite!ArchiveFlag(s, r, o))
<1> DEFINE d == Sqlite!ArchiveFlag(s, r, o)
<1>0. o.flag \in Flags
  BY OpFields
<1>1. CASE s.flagRow[o.flag] = None
  <2>1. d.store = s /\ d.status = "notFound" /\ d.version = 0
    BY <1>1, SqliteData DEF Sqlite!ArchiveFlag
  <2> HIDE DEF d
  <2>2. Refused(View(s), o, "notFound")
    BY <1>1, SqliteView DEF Refused
  <2> QED BY <2>1, <2>2 DEF Outcome, StoreOk, Status, d
<1>2. CASE s.flagRow[o.flag] # None
  <2>1. d.status = "ok" /\ d.version = 0
    BY <1>2, SqliteData DEF Sqlite!ArchiveFlag
  <2>2. d.store = [s EXCEPT !.flagRow[o.flag] = [archivedAt |-> r]]
    BY <1>2, SqliteData DEF Sqlite!ArchiveFlag
  <2>3. /\ d.store = [flagRow |-> d.store.flagRow, configRow |-> s.configRow, child |-> s.child,
                      audit |-> s.audit, exposures |-> s.exposures, lastUsed |-> s.lastUsed]
        /\ d.store.flagRow = [s.flagRow EXCEPT ![o.flag] = [archivedAt |-> r]]
    BY <2>2 DEF SqliteOk
  <2> HIDE DEF d
  <2>4. SqliteOk(d.store)
    <3>1. d.store.flagRow \in [Flags -> FlagRow \cup {None}]
      BY <1>0, <2>3, Rowless DEF SqliteOk
    <3>2. ASSUME NEW x \in Refs PROVE d.store.flagRow[x[1]] = None <=> s.configRow[x] = None
      <4>1. x[1] \in Flags
        BY DEF Refs
      <4> QED BY <1>0, <1>2, <2>3, <4>1, Rowless DEF SqliteOk
    <3> QED BY <2>3, <3>1, <3>2 DEF SqliteOk
  <2>5. /\ d.store.configRow = s.configRow /\ d.store.child = s.child /\ d.store.audit = s.audit
        /\ d.store.lastUsed = s.lastUsed
    BY <2>3
  <2>6. Effect(r, o, View(s), View(d.store))
    BY <1>2, <2>3, <2>5, SqliteView DEF Effect
  <2>7. NewVersion(o) = 0 /\ 0 \in Nat /\ "ok" \in Status
    BY DEF NewVersion, Status
  <2> QED BY <2>1, <2>4, <2>5, <2>6, <2>7, SqliteView DEF Outcome, StoreOk, d
<1> QED BY <1>1, <1>2

LEMMA SqliteUpdates ==
  ASSUME adapter = "sqlite", NEW s, SqliteOk(s), NEW r \in Reqs, NEW o \in Op, o.kind = "config"
  PROVE  Outcome(r, o, s, Sqlite!UpdateConfig(s, o))
<1> DEFINE d == Sqlite!UpdateConfig(s, o)
           x0 == RefOf(o)
           row == [cols |-> Patched(s.configRow[x0].cols, o.patch), version |-> s.configRow[x0].version + 1]
<1>0. OnConfig(o) /\ x0 \in Refs /\ o.expected \in Nat /\ o.patch \in Patch
  BY OpFields, Kinds
<1>1. CASE Sqlite!Refusal(s, o) # "ok"
  <2>1. d.store = s /\ d.status = Sqlite!Refusal(s, o) /\ d.version = 0
    BY <1>1, SqliteData DEF Sqlite!UpdateConfig
  <2> HIDE DEF d
  <2>2. Refused(View(s), o, d.status) /\ d.status \in Status
    BY <1>0, <1>1, <2>1, SqliteRefusal
  <2> QED BY <1>1, <2>1, <2>2 DEF Outcome, StoreOk, d
<1>2. CASE Sqlite!Refusal(s, o) = "ok"
  <2>0. s.configRow[x0] \in ConfigRow /\ s.configRow[x0].version = o.expected
    BY <1>0, <1>2, SqliteRefusal
  <2>1. d.status = "ok" /\ d.version = o.expected + 1
    BY <1>2, SqliteData DEF Sqlite!UpdateConfig
  <2>2. d.store = [s EXCEPT !.configRow[x0] =
                     [cols |-> Patched(@.cols, o.patch), version |-> @.version + 1]]
    BY <1>2, SqliteData DEF Sqlite!UpdateConfig
  <2>3. /\ d.store = [flagRow |-> s.flagRow, configRow |-> d.store.configRow, child |-> s.child,
                      audit |-> s.audit, exposures |-> s.exposures, lastUsed |-> s.lastUsed]
        /\ d.store.configRow = [s.configRow EXCEPT ![x0] = row]
    BY <2>2 DEF SqliteOk
  <2> HIDE DEF d
  <2>4. row \in ConfigRow
    <3>1. s.configRow[x0].cols \in [Columns -> Values] /\ s.configRow[x0].version \in Nat \ {0}
      BY <2>0 DEF ConfigRow
    <3>2. \A n \in Nat \ {0} : n + 1 \in Nat \ {0}
      OBVIOUS
    <3>3. s.configRow[x0].version + 1 \in Nat \ {0}
      BY <3>1, <3>2
    <3>4. Patched(s.configRow[x0].cols, o.patch) \in [Columns -> Values]
      BY <1>0, <3>1, PatchedType
    <3> QED BY <3>3, <3>4 DEF ConfigRow
  <2>5. [s.configRow EXCEPT ![x0] = row] =
          [s.configRow EXCEPT ![x0] = [cols |-> Patched(@.cols, o.patch), version |-> @.version + 1]]
    OBVIOUS
  <2> HIDE DEF row
  <2>6. /\ d.store.flagRow = s.flagRow /\ d.store.child = s.child /\ d.store.audit = s.audit
        /\ d.store.lastUsed = s.lastUsed
    BY <2>3
  <2>7. SqliteOk(d.store)
    <3>1. d.store.configRow \in [Refs -> ConfigRow \cup {None}]
      BY <1>0, <2>3, <2>4 DEF SqliteOk
    <3>2. \A x \in Refs : s.flagRow[x[1]] = None <=> d.store.configRow[x] = None
      BY <1>0, <2>0, <2>3, <2>4, Rowless DEF SqliteOk
    <3> QED BY <2>3, <2>6, <3>1, <3>2 DEF SqliteOk
  <2>8. Effect(r, o, View(s), View(d.store))
    BY <2>0, <2>3, <2>5, <2>6, SqliteView, Rowless DEF Effect
  <2>9. NewVersion(o) = o.expected + 1 /\ o.expected + 1 \in Nat /\ "ok" \in Status
    BY <1>0 DEF NewVersion, Status
  <2> QED BY <2>1, <2>6, <2>7, <2>8, <2>9, SqliteView DEF Outcome, StoreOk, d
<1> QED BY <1>1, <1>2

LEMMA SqliteReplaces ==
  ASSUME adapter = "sqlite", NEW s, SqliteOk(s), NEW r \in Reqs, NEW o \in Op, o.kind \in Tables
  PROVE  Outcome(r, o, s, Sqlite!Replace(s, r, o))
<1> DEFINE d == Sqlite!Replace(s, r, o)
           x0 == RefOf(o)
           good == CHOOSE n \in 0 .. Len(o.body) : Longest(o.body, n)
           put == RowsOf(r, SubSeq(o.body, 1, good))
<1>0. /\ OnConfig(o) /\ x0 \in Refs /\ o.expected \in Nat /\ o.body \in Seq(Entry)
      /\ o.kind # "create" /\ o.kind # "archive"
  BY OpFields, Kinds
<1>1. good \in 0 .. Len(o.body) /\ Longest(o.body, good)
  BY <1>0, LongestUnique
<1>2. d = CASE Sqlite!Refusal(s, o) # "ok" ->
                 [status |-> Sqlite!Refusal(s, o), store |-> s, version |-> 0]
            [] Sqlite!Refusal(s, o) = "ok" /\ good < Len(o.body) ->
                 [status |-> "error", store |-> [s EXCEPT !.child[o.kind][x0] = put], version |-> 0]
            [] OTHER ->
                 [status |-> "ok",
                  store |-> [[s EXCEPT !.child[o.kind][x0] = put] EXCEPT !.configRow[x0].version = @ + 1],
                  version |-> o.expected + 1]
  BY SqliteData DEF Sqlite!Replace, Longest
<1> HIDE DEF good, d
<1>3. put \subseteq Row
  <2>1. SubSeq(o.body, 1, good) \in Seq(Entry)
    <3>1. Len(o.body) \in Nat /\ \A i \in 1 .. Len(o.body) : o.body[i] \in Entry
      BY <1>0, LenProperties, ElementOfSeq
    <3>2. good \in Int /\ \A i \in 1 .. good : o.body[i] \in Entry
      BY <1>1, <3>1
    <3> QED BY <3>2, SubSeqProperties
  <2> QED BY <2>1, RowsOfType
<1> HIDE DEF put
<1>4. CASE Sqlite!Refusal(s, o) # "ok"
  <2>1. d.store = s /\ d.status = Sqlite!Refusal(s, o) /\ d.version = 0
    BY <1>2, <1>4
  <2>2. Refused(View(s), o, d.status) /\ d.status \in Status
    BY <1>0, <1>4, <2>1, SqliteRefusal
  <2> QED BY <1>4, <2>1, <2>2 DEF Outcome, StoreOk, d
<1>5. CASE Sqlite!Refusal(s, o) = "ok" /\ good < Len(o.body)
  <2>1. d.status = "error" /\ d.version = 0 /\ d.store = [s EXCEPT !.child[o.kind][x0] = put]
    BY <1>2, <1>5
  <2>2. /\ d.store = [flagRow |-> s.flagRow, configRow |-> s.configRow, child |-> d.store.child,
                      audit |-> s.audit, exposures |-> s.exposures, lastUsed |-> s.lastUsed]
        /\ d.store.child = [s.child EXCEPT ![o.kind][x0] = put]
    BY <2>1 DEF SqliteOk
  <2>3. /\ d.store.child \in [Tables -> [Refs -> SUBSET Row]] /\ d.store.lastUsed = s.lastUsed
        /\ d.store.flagRow = s.flagRow /\ d.store.configRow = s.configRow
    BY <1>0, <1>3, <2>2 DEF SqliteOk
  <2>4. SqliteOk(d.store)
    BY <2>2, <2>3 DEF SqliteOk
  <2>5. \A k \in Keys : UseIn(d.store, k) = UseIn(s, k)
    BY <2>3, SqliteView
  <2>6. Refused(View(s), o, d.status) /\ d.status \in Status /\ d.version \in Nat /\ d.status # "ok"
    BY <2>1 DEF Refused, Status
  <2> QED BY <2>4, <2>5, <2>6 DEF Outcome, StoreOk, d
<1>6. CASE Sqlite!Refusal(s, o) = "ok" /\ ~(good < Len(o.body))
  <2>0. s.configRow[x0] \in ConfigRow /\ s.configRow[x0].version = o.expected
    BY <1>0, <1>6, SqliteRefusal
  <2>1. /\ d.status = "ok" /\ d.version = o.expected + 1
        /\ d.store = [[s EXCEPT !.child[o.kind][x0] = put] EXCEPT !.configRow[x0].version = @ + 1]
    BY <1>2, <1>6
  <2>2. /\ d.store = [flagRow |-> s.flagRow, configRow |-> d.store.configRow, child |-> d.store.child,
                      audit |-> s.audit, exposures |-> s.exposures, lastUsed |-> s.lastUsed]
        /\ d.store.child = [s.child EXCEPT ![o.kind][x0] = put]
        /\ d.store.configRow = [s.configRow EXCEPT ![x0].version = @ + 1]
    BY <2>1 DEF SqliteOk
  <2>3. /\ d.store.child \in [Tables -> [Refs -> SUBSET Row]] /\ d.store.lastUsed = s.lastUsed
        /\ d.store.flagRow = s.flagRow /\ d.store.audit = s.audit
    BY <1>0, <1>3, <2>2 DEF SqliteOk
  <2>4. /\ d.store.configRow \in [Refs -> ConfigRow \cup {None}]
        /\ \A x \in Refs : d.store.configRow[x] = None <=> s.configRow[x] = None
    <3>1. [s.configRow[x0] EXCEPT !.version = @ + 1] \in ConfigRow
      BY <2>0 DEF ConfigRow
    <3>2. d.store.configRow = [s.configRow EXCEPT ![x0] = [s.configRow[x0] EXCEPT !.version = @ + 1]]
      BY <2>2
    <3> QED BY <1>0, <2>0, <3>1, <3>2, Rowless DEF SqliteOk
  <2>5. SqliteOk(d.store)
    BY <2>2, <2>3, <2>4 DEF SqliteOk
  <2>6. SubSeq(o.body, 1, good) = o.body /\ KeysUnique(o.body)
    BY <1>0, <1>1, <1>6, LongestAll
  <2>7. Effect(r, o, View(s), View(d.store))
    <3>1. put = RowsOf(r, o.body)
      BY <2>6 DEF put
    <3>2. View(d.store).child = [View(s).child EXCEPT ![o.kind][x0] = RowsOf(r, o.body)]
      BY <2>2, <3>1, SqliteView
    <3>3. View(d.store).config = [View(s).config EXCEPT ![x0].version = @ + 1]
      BY <2>2, SqliteView
    <3>4. View(d.store).flag = View(s).flag
      BY <2>3, SqliteView
    <3>5. View(s).config[x0] # None /\ View(s).config[x0].version = o.expected
      BY <2>0, SqliteView, Rowless
    <3> QED BY <2>6, <3>2, <3>3, <3>4, <3>5 DEF Effect
  <2>8. NewVersion(o) = o.expected + 1 /\ o.expected + 1 \in Nat /\ "ok" \in Status
    BY <1>0 DEF NewVersion, Status
  <2>9. (\A k \in Keys : UseIn(d.store, k) = UseIn(s, k)) /\ View(d.store).audit = View(s).audit
    BY <2>3, SqliteView
  <2> QED BY <2>1, <2>5, <2>7, <2>8, <2>9 DEF Outcome, StoreOk, d
<1> QED BY <1>4, <1>5, <1>6

LEMMA SqliteMutates ==
  ASSUME adapter = "sqlite", NEW s, SqliteOk(s), NEW r \in Reqs, NEW o \in Op, Mutates(o)
  PROVE  Outcome(r, o, s, Mutated(s, r, o))
<1>1. Mutated(s, r, o) = MutateSqlite(s, r, o)
  BY DEF Mutated
<1>2. CASE o.kind \in Tables
  BY <1>1, <1>2, Kinds, SqliteReplaces DEF MutateSqlite
<1>3. CASE o.kind = "create"
  BY <1>1, <1>3, SqliteCreates DEF MutateSqlite
<1>4. CASE o.kind = "archive"
  BY <1>1, <1>4, SqliteArchives DEF MutateSqlite
<1>5. CASE o.kind = "config"
  BY <1>1, <1>5, SqliteUpdates DEF MutateSqlite
<1> QED BY <1>2, <1>3, <1>4, <1>5, Kinds

LEMMA SqliteAudits ==
  ASSUME adapter = "sqlite", NEW s, SqliteOk(s), NEW entry
  PROVE  /\ SqliteOk(Sqlite!RecordAudit(s, entry))
         /\ Sqlite!RecordAudit(s, entry).flagRow = s.flagRow
         /\ Sqlite!RecordAudit(s, entry).configRow = s.configRow
         /\ Sqlite!RecordAudit(s, entry).child = s.child
         /\ Sqlite!RecordAudit(s, entry).audit = Append(s.audit, entry)
         /\ Sqlite!RecordAudit(s, entry).lastUsed = s.lastUsed
<1>0. s = [flagRow |-> s.flagRow, configRow |-> s.configRow, child |-> s.child,
           audit |-> s.audit, exposures |-> s.exposures, lastUsed |-> s.lastUsed]
  BY DEF SqliteOk
<1>1. Sqlite!RecordAudit(s, entry) =
        [flagRow |-> s.flagRow, configRow |-> s.configRow, child |-> s.child,
         audit |-> Append(s.audit, entry), exposures |-> s.exposures, lastUsed |-> s.lastUsed]
  BY <1>0 DEF Sqlite!RecordAudit
<1> QED BY <1>1 DEF SqliteOk

LEMMA SqliteBatches ==
  ASSUME adapter = "sqlite", NEW s, SqliteOk(s), NEW rows
  PROVE  /\ SqliteOk(Sqlite!RecordBatch(s, rows))
         /\ Sqlite!RecordBatch(s, rows).flagRow = s.flagRow
         /\ Sqlite!RecordBatch(s, rows).configRow = s.configRow
         /\ Sqlite!RecordBatch(s, rows).child = s.child
         /\ Sqlite!RecordBatch(s, rows).audit = s.audit
         /\ Sqlite!RecordBatch(s, rows).lastUsed = s.lastUsed
<1>1. \E e : Sqlite!RecordBatch(s, rows) = [s EXCEPT !.exposures = e]
  BY DEF Sqlite!RecordBatch
<1>2. PICK e : Sqlite!RecordBatch(s, rows) = [s EXCEPT !.exposures = e]
  BY <1>1
<1>3. Sqlite!RecordBatch(s, rows) =
        [flagRow |-> s.flagRow, configRow |-> s.configRow, child |-> s.child,
         audit |-> s.audit, exposures |-> e, lastUsed |-> s.lastUsed]
  BY <1>2 DEF SqliteOk
<1> QED BY <1>3 DEF SqliteOk

UseAfter(s, k, now, limit, j) ==
  IF j = k /\ (s.lastUsed[k] = Never \/ s.lastUsed[k] < limit) THEN now ELSE s.lastUsed[j]

LEMMA SqliteTouches ==
  ASSUME adapter = "sqlite", NEW s, SqliteOk(s), NEW k \in Keys, NEW now \in Nat, NEW limit,
         NEW t, t = Sqlite!Touch(s, k, now, limit)
  PROVE  /\ SqliteOk(t)
         /\ t.flagRow = s.flagRow /\ t.configRow = s.configRow /\ t.child = s.child
         /\ t.audit = s.audit
         /\ \A j \in Keys : t.lastUsed[j] = UseAfter(s, k, now, limit, j)
<1>1. CASE s.lastUsed[k] = Never \/ s.lastUsed[k] < limit
  <2>1. t = [s EXCEPT !.lastUsed[k] = now]
    BY <1>1, SqliteData DEF Sqlite!Touch
  <2>2. t = [flagRow |-> s.flagRow, configRow |-> s.configRow, child |-> s.child,
             audit |-> s.audit, exposures |-> s.exposures, lastUsed |-> [s.lastUsed EXCEPT ![k] = now]]
    BY <2>1 DEF SqliteOk
  <2>3. t.lastUsed \in [Keys -> Nat \cup {Never}]
    BY <2>2 DEF SqliteOk
  <2>4. \A j \in Keys : t.lastUsed[j] = UseAfter(s, k, now, limit, j)
    BY <1>1, <2>2 DEF UseAfter, SqliteOk
  <2> QED BY <2>2, <2>3, <2>4 DEF SqliteOk
<1>2. CASE ~(s.lastUsed[k] = Never \/ s.lastUsed[k] < limit)
  <2>1. t = s
    BY <1>2, SqliteData DEF Sqlite!Touch
  <2> QED BY <1>2, <2>1 DEF UseAfter
<1> QED BY <1>1, <1>2

LEMMA NothingReadIs ==
  NothingRead = [flag |-> [f \in Flags |-> None], config |-> [x \in Refs |-> None],
                 rules |-> [x \in Refs |-> None], overrides |-> [x \in Refs |-> None]]
  BY DEF NothingRead

\* A read of existing configurations of a flag is the view's snapshot of them.
LEMMA SqliteAssembles ==
  ASSUME adapter = "sqlite", NEW s, SqliteOk(s), NEW f \in Flags, NEW X \in SUBSET Refs,
         \A x \in X : s.configRow[x] # None
  PROVE  Sqlite!Assemble(s, f, X) = Snap(View(s), f, X)
<1> DEFINE a == Sqlite!Assemble(s, f, X)
<1>1. a = [flag |-> [NothingRead.flag EXCEPT ![f] = s.flagRow[f]],
           config |-> [x \in Refs |-> IF x \in X THEN s.configRow[x] ELSE None],
           rules |-> [x \in Refs |-> IF x \in X THEN s.child["rules"][x] ELSE None],
           overrides |-> [x \in Refs |-> IF x \in X THEN s.child["overrides"][x] ELSE None]]
  BY SqliteData DEF Sqlite!Assemble, Sqlite!Load
<1>2. [NothingRead.flag EXCEPT ![f] = s.flagRow[f]] = [g \in Flags |-> IF g = f THEN s.flagRow[f] ELSE None]
  BY NothingReadIs
<1> QED BY <1>1, <1>2, SqliteView DEF Snap

LEMMA SqliteReads ==
  ASSUME adapter = "sqlite", NEW s, SqliteOk(s), NEW o \in Op
  PROVE  Snapshot0(s, o) = SnapOf(View(s), o)
<1>0. o.flag \in Flags
  BY OpFields
<1>1. CASE OnConfig(o) \/ o.kind = "find"
  <2>1. /\ RefOf(o) \in Refs /\ RefOf(o)[1] = o.flag
        /\ Snapshot0(s, o) = Sqlite!FindByKey(s, RefOf(o))
        /\ Area(o) = {RefOf(o)}
    BY <1>1, Kinds DEF Snapshot0, FindByKey, Area
  <2>2. Sqlite!Found(s, RefOf(o)) <=> s.flagRow[o.flag] # None
    BY <2>1 DEF Sqlite!Found, SqliteOk
  <2>3. CASE s.flagRow[o.flag] = None
    BY <2>1, <2>2, <2>3, SqliteView, SqliteData DEF Sqlite!FindByKey, SnapOf
  <2>4. CASE s.flagRow[o.flag] # None
    <3>1. s.configRow[RefOf(o)] # None
      BY <2>1, <2>4 DEF SqliteOk
    <3>2. Sqlite!FindByKey(s, RefOf(o)) = Sqlite!Assemble(s, o.flag, {RefOf(o)})
      BY <2>1, <2>2, <2>4 DEF Sqlite!FindByKey
    <3> QED BY <1>0, <2>1, <2>4, <3>1, <3>2, SqliteAssembles, SqliteView DEF SnapOf
  <2> QED BY <2>3, <2>4
<1>2. CASE o.kind \in {"get", "archive", "create"}
  <2>1. /\ Snapshot0(s, o) = Sqlite!FindAllEnvironmentsByKey(s, o.flag)
        /\ Area(o) = {<<o.flag, e>> : e \in Envs}
    BY <1>2, Kinds DEF Snapshot0, FindAllEnvironmentsByKey, Area
  <2>2. CASE s.flagRow[o.flag] = None
    BY <2>1, <2>2, SqliteView, SqliteData DEF Sqlite!FindAllEnvironmentsByKey, SnapOf
  <2>3. CASE s.flagRow[o.flag] # None
    <3>1. Area(o) \subseteq Refs /\ \A x \in Area(o) : s.configRow[x] # None
      BY <1>0, <2>1, <2>3 DEF Refs, SqliteOk
    <3>2. Sqlite!FindAllEnvironmentsByKey(s, o.flag) = Sqlite!Assemble(s, o.flag, Area(o))
      BY <2>1, <2>3, SqliteData DEF Sqlite!FindAllEnvironmentsByKey
    <3> QED BY <1>0, <2>1, <2>3, <3>1, <3>2, SqliteAssembles, SqliteView DEF SnapOf
  <2> QED BY <2>2, <2>3
<1> QED BY <1>1, <1>2, OpFields, Kinds

-----------------------------------------------------------------------------
(* The memory adapter.                                                     *)

MFlag(s, f) ==
  IF Memory!FindFlag(s, f) = 0 THEN None
  ELSE [archivedAt |-> s.flags[Memory!FindFlag(s, f)].archivedAt]
MConfig(s, x) ==
  IF Memory!FindConfig(s, x) = 0 THEN None
  ELSE [cols |-> s.configs[Memory!FindConfig(s, x)].cols,
        version |-> s.configs[Memory!FindConfig(s, x)].version]
MChild(s, t) == IF t = "rules" THEN s.rules ELSE s.overrides

LEMMA MemoryFinds ==
  ASSUME NEW s, MemoryOk(s)
  PROVE  /\ Len(s.flags) \in Nat /\ Len(s.configs) \in Nat /\ Len(s.apiKeys) \in Nat
         /\ \A f : /\ First(Memory!FindFlag(s, f), FlagPlaces(s.flags, f))
                   /\ FlagPlaces(s.flags, f) \subseteq 1 .. Len(s.flags)
                   /\ Memory!FindFlag(s, f) = 0 <=> FlagPlaces(s.flags, f) = {}
         /\ \A x : /\ First(Memory!FindConfig(s, x), RefPlaces(s.configs, x))
                   /\ RefPlaces(s.configs, x) \subseteq 1 .. Len(s.configs)
                   /\ Memory!FindConfig(s, x) = 0 <=> RefPlaces(s.configs, x) = {}
         /\ \A k : /\ First(Memory!FindKey(s, k), IdPlaces(s.apiKeys, k))
                   /\ IdPlaces(s.apiKeys, k) \subseteq 1 .. Len(s.apiKeys)
<1>1. Len(s.flags) \in Nat /\ Len(s.configs) \in Nat /\ Len(s.apiKeys) \in Nat
  BY LenProperties DEF MemoryOk
<1>2. /\ \A f : First(Memory!FindFlag(s, f), FlagPlaces(s.flags, f))
      /\ \A x : First(Memory!FindConfig(s, x), RefPlaces(s.configs, x))
      /\ \A k : First(Memory!FindKey(s, k), IdPlaces(s.apiKeys, k))
  BY <1>1, FindsAreFirst
<1>3. /\ \A f : FlagPlaces(s.flags, f) \subseteq 1 .. Len(s.flags)
      /\ \A x : RefPlaces(s.configs, x) \subseteq 1 .. Len(s.configs)
      /\ \A k : IdPlaces(s.apiKeys, k) \subseteq 1 .. Len(s.apiKeys)
  BY DEF FlagPlaces, RefPlaces, IdPlaces
<1>4. \A n \in Nat : \A I \in SUBSET (1 .. n) : \A i : First(i, I) => (i = 0 <=> I = {})
  BY DEF First
<1>5. \A f : Memory!FindFlag(s, f) = 0 <=> FlagPlaces(s.flags, f) = {}
  BY <1>1, <1>2, <1>3, <1>4
<1>6. \A x : Memory!FindConfig(s, x) = 0 <=> RefPlaces(s.configs, x) = {}
  BY <1>1, <1>2, <1>3, <1>4
<1> QED BY <1>1, <1>2, <1>3, <1>5, <1>6

LEMMA FoundConfig ==
  ASSUME NEW s, MemoryOk(s), NEW x, Memory!FindConfig(s, x) # 0
  PROVE  /\ Memory!FindConfig(s, x) \in 1 .. Len(s.configs)
         /\ s.configs[Memory!FindConfig(s, x)].ref = x
         /\ MConfig(s, x) = [cols |-> s.configs[Memory!FindConfig(s, x)].cols,
                             version |-> s.configs[Memory!FindConfig(s, x)].version]
         /\ MConfig(s, x) \in ConfigRow
<1>1. Memory!FindConfig(s, x) \in RefPlaces(s.configs, x)
  BY MemoryFinds DEF First
<1>2. /\ Memory!FindConfig(s, x) \in 1 .. Len(s.configs)
      /\ s.configs[Memory!FindConfig(s, x)].ref = x
  BY <1>1 DEF RefPlaces
<1>3. s.configs[Memory!FindConfig(s, x)] \in [ref : Refs, cols : [Columns -> Values], version : Nat \ {0}]
  BY <1>2, ElementOfSeq DEF MemoryOk
<1> QED BY <1>2, <1>3 DEF MConfig, ConfigRow

LEMMA FoundFlag ==
  ASSUME NEW s, MemoryOk(s), NEW f, Memory!FindFlag(s, f) # 0
  PROVE  /\ Memory!FindFlag(s, f) \in 1 .. Len(s.flags)
         /\ s.flags[Memory!FindFlag(s, f)].key = f
         /\ MFlag(s, f) \in FlagRow
<1>1. Memory!FindFlag(s, f) \in FlagPlaces(s.flags, f)
  BY MemoryFinds DEF First
<1>2. /\ Memory!FindFlag(s, f) \in 1 .. Len(s.flags)
      /\ s.flags[Memory!FindFlag(s, f)].key = f
  BY <1>1 DEF FlagPlaces
<1>3. s.flags[Memory!FindFlag(s, f)] \in [key : Flags, archivedAt : Reqs \cup {None}]
  BY <1>2, ElementOfSeq DEF MemoryOk
<1> QED BY <1>2, <1>3 DEF MFlag, FlagRow

LEMMA MNothing ==
  ASSUME NEW s, MemoryOk(s)
  PROVE  /\ \A f : MFlag(s, f) = None <=> Memory!FindFlag(s, f) = 0
         /\ \A x : MConfig(s, x) = None <=> Memory!FindConfig(s, x) = 0
         /\ \A x \in Refs : MFlag(s, x[1]) = None <=> MConfig(s, x) = None
<1>1. \A f : MFlag(s, f) = None <=> Memory!FindFlag(s, f) = 0
  BY FoundFlag, Rowless DEF MFlag
<1>2. \A x : MConfig(s, x) = None <=> Memory!FindConfig(s, x) = 0
  BY FoundConfig, Rowless DEF MConfig
<1> QED BY <1>1, <1>2 DEF MemoryOk

\* What the arrays hold of a flag and the configurations X of it.
Collected(s, f, X, a) ==
  /\ a = [flag |-> a.flag, config |-> a.config, rules |-> a.rules, overrides |-> a.overrides]
  /\ a.flag = [g \in Flags |-> IF g = f THEN MFlag(s, f) ELSE None]
  /\ a.config = [x \in Refs |-> IF x \in X THEN MConfig(s, x) ELSE None]
  /\ a.rules = [x \in Refs |-> IF x \in X THEN Memory!RowsAt(s.rules, x) ELSE None]
  /\ a.overrides = [x \in Refs |-> IF x \in X THEN Memory!RowsAt(s.overrides, x) ELSE None]

LEMMA MemoryAssembles ==
  ASSUME adapter = "memory", NEW s, MemoryOk(s), NEW f \in Flags, NEW X \in SUBSET Refs,
         Memory!FindFlag(s, f) # 0, \A x \in X : Memory!FindConfig(s, x) # 0
  PROVE  Collected(s, f, X, Memory!Assemble(s, f, X))
<1> DEFINE a == Memory!Assemble(s, f, X)
           there == {x \in X : Memory!FindConfig(s, x) # 0}
<1>0. there = X
  OBVIOUS
<1>1. a = [flag |-> [NothingRead.flag EXCEPT ![f] = [archivedAt |-> s.flags[Memory!FindFlag(s, f)].archivedAt]],
           config |-> [x \in Refs |-> IF x \in there
                          THEN [cols |-> s.configs[Memory!FindConfig(s, x)].cols,
                                version |-> s.configs[Memory!FindConfig(s, x)].version] ELSE None],
           rules |-> [x \in Refs |-> IF x \in there THEN Memory!RowsAt(s.rules, x) ELSE None],
           overrides |-> [x \in Refs |-> IF x \in there THEN Memory!RowsAt(s.overrides, x) ELSE None]]
  BY MemoryData DEF Memory!Assemble
<1> HIDE DEF a, there
<1>2. a.flag = [g \in Flags |-> IF g = f THEN MFlag(s, f) ELSE None]
  BY <1>1, NothingReadIs DEF MFlag
<1>3. a.config = [x \in Refs |-> IF x \in X THEN MConfig(s, x) ELSE None]
  BY <1>0, <1>1, FoundConfig
<1> QED BY <1>0, <1>1, <1>2, <1>3 DEF a, Collected

\* The view of the arrays, row by row.
Shown(s) ==
  /\ View(s).flag = [f \in Flags |-> MFlag(s, f)]
  /\ View(s).config = [x \in Refs |-> MConfig(s, x)]
  /\ View(s).child = [t \in Tables |-> [x \in Refs |-> Memory!RowsAt(MChild(s, t), x)]]
  /\ View(s).audit = s.auditLog
  /\ \A k : UseIn(s, k) = s.apiKeys[Memory!FindKey(s, k)].lastUsedAt

LEMMA MemoryView ==
  ASSUME adapter = "memory", NEW s, MemoryOk(s)
  PROVE  Shown(s)
<1>1. /\ View(s).flag = [f \in Flags |-> MFlag(s, f)]
      /\ View(s).child = [t \in Tables |-> [x \in Refs |-> Memory!RowsAt(MChild(s, t), x)]]
      /\ View(s).audit = s.auditLog
      /\ \A k : UseIn(s, k) = s.apiKeys[Memory!FindKey(s, k)].lastUsedAt
  BY DEF View, FlagRows, ChildRows, AuditRows, Memory!AuditOf, UseIn, Memory!LastUsed, MFlag, MChild
<1>2. View(s).config = [x \in Refs |-> Memory!FindByKey(s, x).config[x]]
  BY DEF View, ConfigRows, FindByKey
<1>3. ASSUME NEW x \in Refs PROVE Memory!FindByKey(s, x).config[x] = MConfig(s, x)
  <2>1. x[1] \in Flags
    BY DEF Refs
  <2>2. Memory!Found(s, x) <=> Memory!FindConfig(s, x) # 0
    BY DEF Memory!Found, MemoryOk
  <2>3. CASE Memory!FindConfig(s, x) = 0
    BY <2>2, <2>3, MemoryData, NothingReadIs DEF Memory!FindByKey, MConfig
  <2>4. CASE Memory!FindConfig(s, x) # 0
    <3>1. Memory!FindByKey(s, x) = Memory!Assemble(s, x[1], {x}) /\ Memory!FindFlag(s, x[1]) # 0
      BY <2>2, <2>4 DEF Memory!FindByKey, MemoryOk
    <3>2. Collected(s, x[1], {x}, Memory!Assemble(s, x[1], {x}))
      <4>1. {x} \in SUBSET Refs /\ \A y \in {x} : Memory!FindConfig(s, y) # 0
        BY <2>4
      <4> QED BY <2>1, <3>1, <4>1, MemoryAssembles
    <3>3. Memory!Assemble(s, x[1], {x}).config[x] = MConfig(s, x)
      BY <3>2 DEF Collected
    <3> QED BY <3>1, <3>3
  <2> QED BY <2>3, <2>4
<1> QED BY <1>1, <1>2, <1>3 DEF Shown

LEMMA MemoryReads ==
  ASSUME adapter = "memory", NEW s, MemoryOk(s), NEW o \in Op
  PROVE  Snapshot0(s, o) = SnapOf(View(s), o)
<1>0. o.flag \in Flags
  BY OpFields
<1>1. View(s).flag[o.flag] = None <=> Memory!FindFlag(s, o.flag) = 0
  <2>1. View(s).flag = [f \in Flags |-> MFlag(s, f)]
    BY MemoryView DEF Shown
  <2> QED BY <1>0, <2>1, MNothing
<1>2. ASSUME Memory!FindFlag(s, o.flag) # 0, NEW X \in SUBSET Refs,
             \A x \in X : Memory!FindConfig(s, x) # 0
      PROVE  Memory!Assemble(s, o.flag, X) = Snap(View(s), o.flag, X)
  <2>1. /\ View(s).flag[o.flag] = MFlag(s, o.flag)
        /\ \A x \in X : View(s).config[x] = MConfig(s, x)
        /\ \A x \in X : View(s).child["rules"][x] = Memory!RowsAt(s.rules, x)
        /\ \A x \in X : View(s).child["overrides"][x] = Memory!RowsAt(s.overrides, x)
    <3>1. /\ View(s).flag = [f \in Flags |-> MFlag(s, f)]
          /\ View(s).config = [x \in Refs |-> MConfig(s, x)]
          /\ View(s).child = [t \in Tables |-> [x \in Refs |-> Memory!RowsAt(MChild(s, t), x)]]
      BY MemoryView DEF Shown
    <3>2. \A t \in Tables : \A x \in X : View(s).child[t][x] = Memory!RowsAt(MChild(s, t), x)
      BY <3>1
    <3>3. /\ "rules" \in Tables /\ "overrides" \in Tables
          /\ MChild(s, "rules") = s.rules /\ MChild(s, "overrides") = s.overrides
      BY DEF MChild, Tables
    <3> QED BY <1>0, <3>1, <3>2, <3>3
  <2>2. Collected(s, o.flag, X, Memory!Assemble(s, o.flag, X))
    BY <1>0, <1>2, MemoryAssembles
  <2> QED BY <2>1, <2>2 DEF Snap, Collected
<1>3. CASE OnConfig(o) \/ o.kind = "find"
  <2>1. /\ RefOf(o) \in Refs /\ RefOf(o)[1] = o.flag
        /\ Snapshot0(s, o) = Memory!FindByKey(s, RefOf(o))
        /\ Area(o) = {RefOf(o)}
    BY <1>3, Kinds DEF Snapshot0, FindByKey, Area
  <2>2. /\ Memory!Found(s, RefOf(o)) <=> Memory!FindFlag(s, o.flag) # 0
        /\ Memory!FindFlag(s, o.flag) # 0 => Memory!FindConfig(s, RefOf(o)) # 0
    BY <2>1 DEF Memory!Found, MemoryOk
  <2>3. CASE Memory!FindFlag(s, o.flag) = 0
    BY <1>1, <2>1, <2>2, <2>3, MemoryData DEF Memory!FindByKey, SnapOf
  <2>4. CASE Memory!FindFlag(s, o.flag) # 0
    <3>1. Memory!FindByKey(s, RefOf(o)) = Memory!Assemble(s, o.flag, {RefOf(o)})
      BY <2>1, <2>2, <2>4 DEF Memory!FindByKey
    <3> QED BY <1>1, <1>2, <2>1, <2>2, <2>4, <3>1 DEF SnapOf
  <2> QED BY <2>3, <2>4
<1>4. CASE o.kind \in {"get", "archive", "create"}
  <2>1. /\ Snapshot0(s, o) = Memory!FindAllEnvironmentsByKey(s, o.flag)
        /\ Area(o) = {<<o.flag, e>> : e \in Envs}
    BY <1>4, Kinds DEF Snapshot0, FindAllEnvironmentsByKey, Area
  <2>2. CASE Memory!FindFlag(s, o.flag) = 0
    BY <1>1, <2>1, <2>2, MemoryData DEF Memory!FindAllEnvironmentsByKey, SnapOf
  <2>3. CASE Memory!FindFlag(s, o.flag) # 0
    <3>1. Area(o) \subseteq Refs /\ \A x \in Area(o) : Memory!FindConfig(s, x) # 0
      BY <1>0, <2>1, <2>3 DEF Refs, MemoryOk
    <3>2. Memory!FindAllEnvironmentsByKey(s, o.flag) = Memory!Assemble(s, o.flag, Area(o))
      BY <2>1, <2>3, MemoryData DEF Memory!FindAllEnvironmentsByKey
    <3> QED BY <1>1, <1>2, <2>1, <2>3, <3>1, <3>2 DEF SnapOf
  <2> QED BY <2>2, <2>3
<1> QED BY <1>3, <1>4, OpFields, Kinds

LEMMA SameFinds ==
  ASSUME NEW s, NEW t
  PROVE  /\ t.flags = s.flags =>
              \A f : Memory!FindFlag(t, f) = Memory!FindFlag(s, f) /\ MFlag(t, f) = MFlag(s, f)
         /\ t.configs = s.configs =>
              \A x : Memory!FindConfig(t, x) = Memory!FindConfig(s, x) /\ MConfig(t, x) = MConfig(s, x)
         /\ t.apiKeys = s.apiKeys => \A k : Memory!FindKey(t, k) = Memory!FindKey(s, k)
  BY DEF Memory!FindFlag, Memory!FindConfig, Memory!FindKey, MFlag, MConfig

LEMMA MemoryRefusal ==
  ASSUME adapter = "memory", NEW s, MemoryOk(s), NEW o \in Op, OnConfig(o)
  PROVE  /\ Memory!Refusal(s, o) = "ok" =>
              /\ Memory!FindConfig(s, RefOf(o)) # 0
              /\ s.configs[Memory!FindConfig(s, RefOf(o))].version = o.expected
         /\ Memory!Refusal(s, o) # "ok" =>
              Refused(View(s), o, Memory!Refusal(s, o)) /\ Memory!Refusal(s, o) \in Status
<1>1. RefOf(o) \in Refs
  BY Kinds
<1>2. Memory!Found(s, RefOf(o)) <=> Memory!FindConfig(s, RefOf(o)) # 0
  BY <1>1 DEF Memory!Found, MemoryOk
<1>3. Memory!Refusal(s, o) = CASE Memory!FindConfig(s, RefOf(o)) = 0 -> "notFound"
                              [] /\ Memory!FindConfig(s, RefOf(o)) # 0
                                 /\ s.configs[Memory!FindConfig(s, RefOf(o))].version # o.expected -> "conflict"
                              [] OTHER -> "ok"
  BY <1>2, MemoryData DEF Memory!Refusal
<1>4. View(s).config[RefOf(o)] = MConfig(s, RefOf(o))
  <2>1. Shown(s)
    BY MemoryView
  <2> QED BY <1>1, <2>1 DEF Shown
<1>5. CASE Memory!FindConfig(s, RefOf(o)) = 0
  BY <1>3, <1>4, <1>5, MNothing DEF Refused, Status
<1>6. CASE Memory!FindConfig(s, RefOf(o)) # 0
  <2>1. /\ View(s).config[RefOf(o)] # None
        /\ View(s).config[RefOf(o)].version = s.configs[Memory!FindConfig(s, RefOf(o))].version
    BY <1>4, <1>6, FoundConfig, MNothing
  <2> QED BY <1>3, <1>6, <2>1 DEF Refused, Status
<1> QED BY <1>5, <1>6

\* The rows of x come from new, if there are any there.
NewPlaces(rows, new, x) ==
  /\ \A i \in RefPlaces(rows, x) : \E j \in 1 .. Len(new) : rows[i] = new[j]
  /\ \A j \in 1 .. Len(new) : new[j].ref = x => RefPlaces(rows, x) # {}

LEMMA PlacesConcat ==
  ASSUME NEW S, NEW rows \in Seq(S), NEW new \in Seq(S), NEW x
  PROVE  /\ (\A i \in 1 .. Len(new) : new[i].ref # x) => RefPlaces(rows \o new, x) = RefPlaces(rows, x)
         /\ \A i \in 1 .. Len(rows) : (rows \o new)[i] = rows[i]
         /\ RefPlaces(rows, x) = {} => NewPlaces(rows \o new, new, x)
<1>1. /\ Len(rows) \in Nat /\ Len(new) \in Nat /\ Len(rows \o new) = Len(rows) + Len(new)
      /\ \A i \in 1 .. Len(rows) + Len(new) :
           (rows \o new)[i] = IF i <= Len(rows) THEN rows[i] ELSE new[i - Len(rows)]
  BY ConcatProperties, LenProperties
<1>2. \A i \in 1 .. Len(rows) : i \in 1 .. Len(rows) + Len(new) /\ (rows \o new)[i] = rows[i]
  BY <1>1
<1>3. \A j \in 1 .. Len(new) : /\ j + Len(rows) \in 1 .. Len(rows) + Len(new)
                               /\ (rows \o new)[j + Len(rows)] = new[j]
  BY <1>1
<1>4. \A i \in 1 .. Len(rows) + Len(new) : i \in 1 .. Len(rows)
        \/ (i - Len(rows) \in 1 .. Len(new) /\ (rows \o new)[i] = new[i - Len(rows)])
  BY <1>1
<1>5. RefPlaces(rows \o new, x) = {i \in 1 .. Len(rows) + Len(new) : (rows \o new)[i].ref = x}
  BY <1>1 DEF RefPlaces
<1>6. ASSUME \A i \in 1 .. Len(new) : new[i].ref # x PROVE RefPlaces(rows \o new, x) = RefPlaces(rows, x)
  BY <1>2, <1>4, <1>5, <1>6 DEF RefPlaces
<1>7. ASSUME RefPlaces(rows, x) = {}, NEW i \in RefPlaces(rows \o new, x)
      PROVE  \E j \in 1 .. Len(new) : (rows \o new)[i] = new[j]
  BY <1>2, <1>4, <1>5, <1>7 DEF RefPlaces
<1>8. ASSUME NEW j \in 1 .. Len(new), new[j].ref = x PROVE RefPlaces(rows \o new, x) # {}
  BY <1>3, <1>5, <1>8
<1> QED BY <1>2, <1>6, <1>7, <1>8 DEF NewPlaces

LEMMA MemoryCreates ==
  ASSUME adapter = "memory", NEW s, MemoryOk(s), NEW r \in Reqs, NEW o \in Op, o.kind = "create"
  PROVE  Outcome(r, o, s, Memory!CreateFlag(s, o))
<1> DEFINE d == Memory!CreateFlag(s, o)
           t == d.store
           flagRow == [key |-> o.flag, archivedAt |-> None]
           rows == [i \in DOMAIN EnvSeq |-> [ref |-> <<o.flag, EnvSeq[i]>>, cols |-> DefaultCols, version |-> 1]]
           C == [ref : Refs, cols : [Columns -> Values], version : Nat \ {0}]
<1>0. o.flag \in Flags
  BY OpFields
<1>1. Shown(s)
  BY MemoryView
<1>2. CASE Memory!FindFlag(s, o.flag) # 0
  <2>1. d.store = s /\ d.status = "duplicate" /\ d.version = 0
    BY <1>2, MemoryData DEF Memory!CreateFlag
  <2> HIDE DEF d
  <2>2. View(s).flag[o.flag] # None
    BY <1>0, <1>1, <1>2, MNothing DEF Shown
  <2>3. Refused(View(s), o, "duplicate") /\ "duplicate" \in Status /\ 0 \in Nat
    BY <2>2 DEF Refused, Status
  <2>4. StoreOk(s)
    BY DEF StoreOk
  <2> QED BY <2>1, <2>3, <2>4 DEF Outcome, d
<1>3. CASE Memory!FindFlag(s, o.flag) = 0
  <2>1. /\ d.status = "ok" /\ d.version = 1
        /\ d.store = [s EXCEPT !.flags = Append(@, flagRow), !.configs = @ \o rows]
    BY <1>3, MemoryData DEF Memory!CreateFlag
  <2>2. /\ t = [flags |-> t.flags, configs |-> t.configs, rules |-> s.rules, overrides |-> s.overrides,
                auditLog |-> s.auditLog, exposures |-> s.exposures, apiKeys |-> s.apiKeys]
        /\ t.flags = Append(s.flags, flagRow) /\ t.configs = s.configs \o rows
    BY <2>1 DEF MemoryOk
  <2> HIDE DEF d, t, flagRow
  <2>3. rows \in Seq(C) /\ Len(rows) = Len(EnvSeq) /\ Len(EnvSeq) \in Nat
        /\ \A i \in 1 .. Len(rows) :
             rows[i].ref = <<o.flag, EnvSeq[i]>> /\ rows[i].cols = DefaultCols /\ rows[i].version = 1
    <3>1. EnvSeq \in Seq(Envs) /\ DefaultCols \in [Columns -> Values]
      BY FlagDataAssumption DEF FlagDataAssumption
    <3>2. Len(EnvSeq) \in Nat /\ DOMAIN EnvSeq = 1 .. Len(EnvSeq) /\ \A i \in 1 .. Len(EnvSeq) : EnvSeq[i] \in Envs
      BY <3>1, LenProperties, ElementOfSeq
    <3>3. rows \in [1 .. Len(EnvSeq) -> C]
      BY <1>0, <3>1, <3>2 DEF Refs
    <3>4. rows \in Seq(C) /\ Len(rows) = Len(EnvSeq)
      BY <3>2, <3>3
    <3> QED BY <3>2, <3>4
  <2> HIDE DEF rows, C
  <2>4. /\ s.flags \in Seq([key : Flags, archivedAt : Reqs \cup {None}])
        /\ s.configs \in Seq(C)
        /\ flagRow \in [key : Flags, archivedAt : Reqs \cup {None}] /\ flagRow.key = o.flag
    BY <1>0 DEF MemoryOk, flagRow, C
  <2>5. /\ Len(s.flags) \in Nat /\ Len(t.flags) = Len(s.flags) + 1
        /\ t.flags \in Seq([key : Flags, archivedAt : Reqs \cup {None}])
        /\ \A i \in 1 .. Len(s.flags) : t.flags[i] = s.flags[i]
        /\ t.flags[Len(s.flags) + 1] = flagRow
        /\ t.configs \in Seq(C) /\ Len(s.configs) \in Nat
    BY <2>2, <2>3, <2>4, AppendProperties, ConcatProperties, LenProperties
  <2>6. 1 .. Len(s.flags) + 1 = (1 .. Len(s.flags)) \cup {Len(s.flags) + 1}
    BY <2>5
  <2>7. First(Memory!FindFlag(t, o.flag), {Len(s.flags) + 1})
    <3>1. FlagPlaces(s.flags, o.flag) = {}
      BY <1>3, MemoryFinds
    <3>2. FlagPlaces(t.flags, o.flag) = {Len(s.flags) + 1}
      BY <2>4, <2>5, <2>6, <3>1 DEF FlagPlaces
    <3>3. Len(t.flags) \in Nat
      BY <2>5
    <3>4. First(Memory!FindFlag(t, o.flag), FlagPlaces(t.flags, o.flag))
      BY <3>3, FindsAreFirst
    <3> QED BY <3>2, <3>4
  <2>8. Memory!FindFlag(t, o.flag) # 0 /\ MFlag(t, o.flag) = NewFlagRow
    <3>1. Memory!FindFlag(t, o.flag) = Len(s.flags) + 1
      BY <2>7 DEF First
    <3>2. Memory!FindFlag(t, o.flag) # 0 /\ t.flags[Memory!FindFlag(t, o.flag)] = flagRow
      BY <2>5, <3>1
    <3> QED BY <3>2 DEF MFlag, NewFlagRow, flagRow
  <2>9. ASSUME NEW f, f # o.flag
        PROVE  Memory!FindFlag(t, f) = Memory!FindFlag(s, f) /\ MFlag(t, f) = MFlag(s, f)
    <3>1. FlagPlaces(t.flags, f) = FlagPlaces(s.flags, f)
      BY <2>4, <2>5, <2>6, <2>9 DEF FlagPlaces
    <3>2. First(Memory!FindFlag(t, f), FlagPlaces(s.flags, f)) /\ First(Memory!FindFlag(s, f), FlagPlaces(s.flags, f))
      BY <2>5, <3>1, MemoryFinds, FindsAreFirst
    <3>3. FlagPlaces(s.flags, f) \in SUBSET (1 .. Len(s.flags))
      BY DEF FlagPlaces
    <3>4. Memory!FindFlag(t, f) = Memory!FindFlag(s, f)
      BY <2>5, <3>2, <3>3, FirstUnique
    <3>5. Memory!FindFlag(s, f) # 0 => Memory!FindFlag(s, f) \in 1 .. Len(s.flags)
      BY FoundFlag
    <3> QED BY <2>5, <3>4, <3>5 DEF MFlag
  <2>10. Len(t.configs) \in Nat /\ \A x : First(Memory!FindConfig(t, x), RefPlaces(t.configs, x))
    BY <2>5, FindsAreFirst, LenProperties
  <2>11. ASSUME NEW x \in Refs, x[1] # o.flag
         PROVE  Memory!FindConfig(t, x) = Memory!FindConfig(s, x) /\ MConfig(t, x) = MConfig(s, x)
    <3>1. \A i \in 1 .. Len(rows) : rows[i].ref # x
      <4>1. \A e : <<o.flag, e>> # x
        BY <2>11
      <4> QED BY <2>3, <4>1
    <3>2. RefPlaces(t.configs, x) = RefPlaces(s.configs, x)
      BY <2>2, <2>3, <2>4, <3>1, PlacesConcat
    <3>3. First(Memory!FindConfig(s, x), RefPlaces(s.configs, x))
      BY MemoryFinds
    <3>4. RefPlaces(s.configs, x) \in SUBSET (1 .. Len(s.configs))
      BY DEF RefPlaces
    <3>5. Memory!FindConfig(t, x) = Memory!FindConfig(s, x)
      BY <2>5, <2>10, <3>2, <3>3, <3>4, FirstUnique
    <3>6. Memory!FindConfig(s, x) # 0 => Memory!FindConfig(s, x) \in 1 .. Len(s.configs)
      BY FoundConfig
    <3>7. \A i \in 1 .. Len(s.configs) : t.configs[i] = s.configs[i]
      BY <2>2, <2>3, <2>4, PlacesConcat
    <3> QED BY <3>5, <3>6, <3>7 DEF MConfig
  <2>12. ASSUME NEW x \in Refs, x[1] = o.flag
         PROVE  Memory!FindConfig(t, x) # 0 /\ MConfig(t, x) = NewConfigRow
    <3>1. RefPlaces(s.configs, x) = {}
      BY <1>3, <2>12, MemoryFinds DEF MemoryOk
    <3>2. \E j \in 1 .. Len(rows) : rows[j].ref = x
      <4>1. PICK i \in DOMAIN EnvSeq : x[2] = EnvSeq[i]
        BY DEF Refs, Envs
      <4>2. EnvSeq \in Seq(Envs)
        BY FlagDataAssumption DEF FlagDataAssumption
      <4>3. i \in 1 .. Len(rows)
        BY <2>3, <4>1, <4>2, LenProperties
      <4>4. x = <<o.flag, EnvSeq[i]>>
        BY <2>12, <4>1 DEF Refs
      <4>5. rows[i].ref = x
        BY <2>3, <4>3, <4>4
      <4> QED BY <4>3, <4>5
    <3>3. /\ RefPlaces(t.configs, x) # {}
          /\ \A i \in RefPlaces(t.configs, x) : \E j \in 1 .. Len(rows) : t.configs[i] = rows[j]
      <4>1. /\ \A i \in RefPlaces(s.configs \o rows, x) :
                 \E j \in 1 .. Len(rows) : (s.configs \o rows)[i] = rows[j]
            /\ \A j \in 1 .. Len(rows) : rows[j].ref = x => RefPlaces(s.configs \o rows, x) # {}
        <5>1. NewPlaces(s.configs \o rows, rows, x)
          BY <2>3, <2>4, <3>1, PlacesConcat
        <5> QED BY <5>1 DEF NewPlaces
      <4> QED BY <2>2, <3>2, <4>1
    <3>4. Memory!FindConfig(t, x) \in RefPlaces(t.configs, x)
      BY <2>10, <3>3 DEF First
    <3>5. Memory!FindConfig(t, x) # 0
      BY <2>10, <3>4 DEF RefPlaces
    <3>6. PICK j \in 1 .. Len(rows) : t.configs[Memory!FindConfig(t, x)] = rows[j]
      BY <3>3, <3>4
    <3>7. rows[j].cols = DefaultCols /\ rows[j].version = 1
      BY <2>3, <3>6
    <3> QED BY <3>5, <3>6, <3>7 DEF MConfig, NewConfigRow
  <2>13. MemoryOk(t)
    <3>1. \A x \in Refs : Memory!FindFlag(t, x[1]) = 0 <=> Memory!FindConfig(t, x) = 0
      BY <2>8, <2>9, <2>11, <2>12 DEF MemoryOk
    <3>2. /\ t.rules = s.rules /\ t.overrides = s.overrides /\ t.apiKeys = s.apiKeys
          /\ t.auditLog = s.auditLog /\ t.exposures = s.exposures
      BY <2>2
    <3> QED BY <2>2, <2>5, <3>1, <3>2 DEF MemoryOk, C
  <2>14. Shown(t) /\ t.rules = s.rules /\ t.overrides = s.overrides /\ t.apiKeys = s.apiKeys
         /\ t.auditLog = s.auditLog
    BY <2>2, <2>13, MemoryView
  <2>15. View(s).flag[o.flag] = None
    BY <1>0, <1>1, <1>3, MNothing DEF Shown
  <2>16. View(t).flag = [View(s).flag EXCEPT ![o.flag] = NewFlagRow]
    BY <1>0, <1>1, <2>8, <2>9, <2>14 DEF Shown
  <2>17. View(t).config = [x \in Refs |-> IF x[1] = o.flag THEN NewConfigRow ELSE View(s).config[x]]
    BY <1>1, <2>11, <2>12, <2>14 DEF Shown
  <2>18. View(t).child = View(s).child /\ View(t).audit = View(s).audit
    BY <1>1, <2>14 DEF Shown, MChild
  <2>19. \A k \in Keys : UseIn(t, k) = UseIn(s, k)
    BY <1>1, <2>14, SameFinds DEF Shown
  <2>20. Effect(r, o, View(s), View(t))
    BY <2>15, <2>16, <2>17, <2>18 DEF Effect
  <2>21. NewVersion(o) = 1 /\ 1 \in Nat /\ "ok" \in Status /\ StoreOk(t)
    BY <2>13 DEF NewVersion, Status, StoreOk
  <2> QED BY <2>1, <2>18, <2>19, <2>20, <2>21 DEF Outcome, d, t
<1> QED BY <1>2, <1>3

LEMMA MemoryArchives ==
  ASSUME adapter = "memory", NEW s, MemoryOk(s), NEW r \in Reqs, NEW o \in Op, o.kind = "archive"
  PROVE  Outcome(r, o, s, Memory!ArchiveFlag(s, r, o))
<1> DEFINE d == Memory!ArchiveFlag(s, r, o)
           t == d.store
           i == Memory!FindFlag(s, o.flag)
<1>0. o.flag \in Flags
  BY OpFields
<1>1. Shown(s)
  BY MemoryView
<1>2. CASE i = 0
  <2>1. d.store = s /\ d.status = "notFound" /\ d.version = 0
    BY <1>2, MemoryData DEF Memory!ArchiveFlag
  <2> HIDE DEF d
  <2>2. View(s).flag[o.flag] = None
    BY <1>0, <1>1, <1>2, MNothing DEF Shown
  <2>3. Refused(View(s), o, "notFound") /\ "notFound" \in Status /\ 0 \in Nat
    BY <2>2 DEF Refused, Status
  <2>4. StoreOk(s)
    BY DEF StoreOk
  <2> QED BY <2>1, <2>3, <2>4 DEF Outcome, d
<1>3. CASE i # 0
  <2>1. /\ d.status = "ok" /\ d.version = 0
        /\ d.store = [s EXCEPT !.flags[i].archivedAt = r]
    BY <1>3, MemoryData DEF Memory!ArchiveFlag
  <2>2. /\ t = [flags |-> t.flags, configs |-> s.configs, rules |-> s.rules, overrides |-> s.overrides,
                auditLog |-> s.auditLog, exposures |-> s.exposures, apiKeys |-> s.apiKeys]
        /\ t.flags = [s.flags EXCEPT ![i].archivedAt = r]
    BY <2>1 DEF MemoryOk
  <2> HIDE DEF d, t
  <2>3. i \in 1 .. Len(s.flags) /\ s.flags[i].key = o.flag
    BY <1>3, FoundFlag
  <2>4. /\ t.flags \in Seq([key : Flags, archivedAt : Reqs \cup {None}])
        /\ Len(t.flags) = Len(s.flags) /\ Len(s.flags) \in Nat
        /\ t.flags[i].key = o.flag /\ t.flags[i].archivedAt = r
        /\ \A j \in 1 .. Len(s.flags) : j # i => t.flags[j] = s.flags[j]
    <3> DEFINE F == [key : Flags, archivedAt : Reqs \cup {None}]
    <3>1. s.flags \in Seq(F) /\ s.flags[i] \in F
      BY <2>3, ElementOfSeq DEF MemoryOk
    <3>2. [s.flags[i] EXCEPT !.archivedAt = r] \in F
      BY <3>1
    <3>3. t.flags = [s.flags EXCEPT ![i] = [s.flags[i] EXCEPT !.archivedAt = r]]
      BY <2>2
    <3>4. /\ [s.flags[i] EXCEPT !.archivedAt = r].key = o.flag
          /\ [s.flags[i] EXCEPT !.archivedAt = r].archivedAt = r
      BY <2>3, <3>1
    <3> HIDE DEF F
    <3>5. t.flags \in Seq(F) /\ Len(t.flags) = Len(s.flags) /\ Len(s.flags) \in Nat
      BY <2>3, <3>1, <3>2, <3>3, ExceptSeq, LenProperties
    <3>6. /\ t.flags[i] = [s.flags[i] EXCEPT !.archivedAt = r]
          /\ \A j \in 1 .. Len(s.flags) : j # i => t.flags[j] = s.flags[j]
      BY <2>3, <3>1, <3>3, <3>5, LenProperties
    <3> QED BY <3>4, <3>5, <3>6 DEF F
  <2>5. \A f : FlagPlaces(t.flags, f) = FlagPlaces(s.flags, f)
    BY <2>3, <2>4 DEF FlagPlaces
  <2>6. \A f : Memory!FindFlag(t, f) = Memory!FindFlag(s, f)
    BY <2>5 DEF Memory!FindFlag, Memory!SelectInSeq, FlagPlaces
  <2>7. MFlag(t, o.flag) = [archivedAt |-> r]
    BY <1>3, <2>4, <2>6 DEF MFlag
  <2>8. ASSUME NEW f, f # o.flag PROVE MFlag(t, f) = MFlag(s, f)
    <3>1. Memory!FindFlag(s, f) # 0 => /\ Memory!FindFlag(s, f) \in 1 .. Len(s.flags)
                                       /\ s.flags[Memory!FindFlag(s, f)].key = f
      BY FoundFlag
    <3>2. Memory!FindFlag(s, f) # 0 => t.flags[Memory!FindFlag(s, f)] = s.flags[Memory!FindFlag(s, f)]
      BY <2>3, <2>4, <2>8, <3>1
    <3> QED BY <2>6, <3>2 DEF MFlag
  <2>9. /\ t.configs = s.configs /\ t.rules = s.rules /\ t.overrides = s.overrides
        /\ t.apiKeys = s.apiKeys /\ t.auditLog = s.auditLog
    BY <2>2
  <2>10. \A x : Memory!FindConfig(t, x) = Memory!FindConfig(s, x) /\ MConfig(t, x) = MConfig(s, x)
    BY <2>9, SameFinds
  <2>11. MemoryOk(t)
    BY <2>2, <2>4, <2>6, <2>9, <2>10 DEF MemoryOk
  <2>12. Shown(t)
    BY <2>11, MemoryView
  <2>13. View(s).flag[o.flag] # None
    BY <1>0, <1>1, <1>3, MNothing DEF Shown
  <2>14. View(t).flag = [View(s).flag EXCEPT ![o.flag] = [archivedAt |-> r]]
    BY <1>0, <1>1, <2>7, <2>8, <2>12 DEF Shown
  <2>15. View(t).config = View(s).config
    BY <1>1, <2>10, <2>12 DEF Shown
  <2>16. View(t).child = View(s).child /\ View(t).audit = View(s).audit
    BY <1>1, <2>9, <2>12 DEF Shown, MChild
  <2>17. \A k \in Keys : UseIn(t, k) = UseIn(s, k)
    BY <1>1, <2>9, <2>12, SameFinds DEF Shown
  <2>18. Effect(r, o, View(s), View(t))
    BY <2>13, <2>14, <2>15, <2>16 DEF Effect
  <2>19. NewVersion(o) = 0 /\ 0 \in Nat /\ "ok" \in Status /\ StoreOk(t)
    BY <2>11 DEF NewVersion, Status, StoreOk
  <2> QED BY <2>1, <2>16, <2>17, <2>18, <2>19 DEF Outcome, d, t
<1> QED BY <1>2, <1>3

\* t holds the configurations of s, but for that of x0, which is c.
ConfigSet(s, t, x0, c) ==
  /\ t.configs \in Seq([ref : Refs, cols : [Columns -> Values], version : Nat \ {0}])
  /\ \A x : Memory!FindConfig(t, x) = Memory!FindConfig(s, x)
  /\ MConfig(t, x0) = c
  /\ \A x : x # x0 => MConfig(t, x) = MConfig(s, x)

LEMMA ConfigSets ==
  ASSUME NEW s, MemoryOk(s), NEW x0 \in Refs, Memory!FindConfig(s, x0) # 0, NEW c \in ConfigRow, NEW t, NEW row,
         row = [ref |-> x0, cols |-> c.cols, version |-> c.version],
         t.configs = [s.configs EXCEPT ![Memory!FindConfig(s, x0)] = row]
  PROVE  ConfigSet(s, t, x0, c)
<1> DEFINE C == [ref : Refs, cols : [Columns -> Values], version : Nat \ {0}]
           i == Memory!FindConfig(s, x0)
<1>1. s.configs \in Seq(C) /\ i \in 1 .. Len(s.configs) /\ s.configs[i].ref = x0
  BY FoundConfig DEF MemoryOk
<1>2. row \in C /\ row.ref = x0 /\ c = [cols |-> row.cols, version |-> row.version]
  BY DEF ConfigRow
<1> HIDE DEF C
<1>3. /\ t.configs \in Seq(C) /\ Len(t.configs) = Len(s.configs) /\ Len(s.configs) \in Nat
      /\ \A j \in 1 .. Len(s.configs) : t.configs[j] = IF j = i THEN row ELSE s.configs[j]
  BY <1>1, <1>2, ExceptSeq, LenProperties
<1>4. \A x : RefPlaces(t.configs, x) = RefPlaces(s.configs, x)
  BY <1>1, <1>2, <1>3 DEF RefPlaces
<1>5. \A x : Memory!FindConfig(t, x) = Memory!FindConfig(s, x)
  BY <1>4 DEF Memory!FindConfig, Memory!SelectInSeq, RefPlaces
<1>6. MConfig(t, x0) = c
  BY <1>1, <1>2, <1>3, <1>5 DEF MConfig
<1>7. ASSUME NEW x, x # x0 PROVE MConfig(t, x) = MConfig(s, x)
  <2>1. Memory!FindConfig(s, x) # 0 => /\ Memory!FindConfig(s, x) \in 1 .. Len(s.configs)
                                       /\ s.configs[Memory!FindConfig(s, x)].ref = x
    BY FoundConfig
  <2>2. Memory!FindConfig(s, x) # 0 => t.configs[Memory!FindConfig(s, x)] = s.configs[Memory!FindConfig(s, x)]
    BY <1>1, <1>3, <1>7, <2>1
  <2> QED BY <1>5, <2>2 DEF MConfig
<1> QED BY <1>3, <1>5, <1>6, <1>7 DEF ConfigSet, C

LEMMA MemoryUpdates ==
  ASSUME adapter = "memory", NEW s, MemoryOk(s), NEW r \in Reqs, NEW o \in Op, o.kind = "config"
  PROVE  Outcome(r, o, s, Memory!UpdateConfig(s, o))
<1> DEFINE d == Memory!UpdateConfig(s, o)
           t == d.store
           x0 == RefOf(o)
           i == Memory!FindConfig(s, x0)
           c == [cols |-> Patched(MConfig(s, x0).cols, o.patch), version |-> MConfig(s, x0).version + 1]
           row == [ref |-> x0, cols |-> c.cols, version |-> c.version]
<1>0. OnConfig(o) /\ x0 \in Refs /\ o.expected \in Nat /\ o.patch \in Patch
  BY OpFields, Kinds
<1>1. Shown(s)
  BY MemoryView
<1>2. CASE Memory!Refusal(s, o) # "ok"
  <2>1. d.store = s /\ d.status = Memory!Refusal(s, o) /\ d.version = 0
    BY <1>2, MemoryData DEF Memory!UpdateConfig
  <2> HIDE DEF d
  <2>2. Refused(View(s), o, d.status) /\ d.status \in Status /\ 0 \in Nat
    BY <1>0, <1>2, <2>1, MemoryRefusal
  <2>3. StoreOk(s)
    BY DEF StoreOk
  <2> QED BY <1>2, <2>1, <2>2, <2>3 DEF Outcome, d
<1>3. CASE Memory!Refusal(s, o) = "ok"
  <2>0. i # 0 /\ s.configs[i].version = o.expected
    BY <1>0, <1>3, MemoryRefusal
  <2>1. /\ d.status = "ok" /\ d.version = o.expected + 1
        /\ d.store = [s EXCEPT !.configs[i].cols = Patched(@, o.patch), !.configs[i].version = @ + 1]
    BY <1>3, MemoryData DEF Memory!UpdateConfig
  <2>2. /\ t = [flags |-> s.flags, configs |-> t.configs, rules |-> s.rules, overrides |-> s.overrides,
                auditLog |-> s.auditLog, exposures |-> s.exposures, apiKeys |-> s.apiKeys]
        /\ t.configs = [s.configs EXCEPT ![i].cols = Patched(@, o.patch), ![i].version = @ + 1]
    BY <2>1 DEF MemoryOk
  <2> HIDE DEF d, t
  <2>3. /\ i \in 1 .. Len(s.configs) /\ s.configs[i].ref = x0
        /\ MConfig(s, x0) = [cols |-> s.configs[i].cols, version |-> s.configs[i].version]
        /\ MConfig(s, x0) \in ConfigRow
    BY <2>0, FoundConfig
  <2>4. c \in ConfigRow
    <3>1. MConfig(s, x0).cols \in [Columns -> Values] /\ MConfig(s, x0).version \in Nat \ {0}
      BY <2>3 DEF ConfigRow
    <3>2. \A n \in Nat \ {0} : n + 1 \in Nat \ {0}
      OBVIOUS
    <3>3. MConfig(s, x0).version + 1 \in Nat \ {0}
      BY <3>1, <3>2
    <3>4. Patched(MConfig(s, x0).cols, o.patch) \in [Columns -> Values]
      BY <1>0, <3>1, PatchedType
    <3> QED BY <3>3, <3>4 DEF ConfigRow
  <2>5. t.configs = [s.configs EXCEPT ![i] = row]
    <3>1. s.configs[i] \in [ref : Refs, cols : [Columns -> Values], version : Nat \ {0}]
      BY <2>3, ElementOfSeq DEF MemoryOk
    <3>2. s.configs \in [1 .. Len(s.configs) -> [ref : Refs, cols : [Columns -> Values], version : Nat \ {0}]]
      BY LenProperties DEF MemoryOk
    <3>3. [s.configs[i] EXCEPT !.cols = Patched(@, o.patch), !.version = @ + 1] = row
      <4>1. \A e \in [ref : Refs, cols : [Columns -> Values], version : Nat \ {0}] :
              [e EXCEPT !.cols = Patched(@, o.patch), !.version = @ + 1] =
                [ref |-> e.ref, cols |-> Patched(e.cols, o.patch), version |-> e.version + 1]
        <5> TAKE e \in [ref : Refs, cols : [Columns -> Values], version : Nat \ {0}]
        <5> DEFINE g == [e EXCEPT !.cols = Patched(@, o.patch), !.version = @ + 1]
        <5>1. /\ Patched(e.cols, o.patch) \in [Columns -> Values] /\ e.version + 1 \in Nat \ {0}
          <6>1. \A n \in Nat \ {0} : n + 1 \in Nat \ {0}
            OBVIOUS
          <6> QED BY <1>0, <6>1, PatchedType
        <5>2. g \in [ref : Refs, cols : [Columns -> Values], version : Nat \ {0}]
          BY <5>1
        <5>3. g.ref = e.ref /\ g.cols = Patched(e.cols, o.patch) /\ g.version = e.version + 1
          OBVIOUS
        <5> HIDE DEF g
        <5>4. g = [ref |-> g.ref, cols |-> g.cols, version |-> g.version]
          BY <5>2
        <5>5. g = [ref |-> e.ref, cols |-> Patched(e.cols, o.patch), version |-> e.version + 1]
          BY <5>3, <5>4
        <5> QED BY <5>5 DEF g
      <4>2. MConfig(s, x0).cols = s.configs[i].cols /\ MConfig(s, x0).version = s.configs[i].version
        BY <2>3
      <4>3. row = [ref |-> s.configs[i].ref, cols |-> Patched(s.configs[i].cols, o.patch),
                   version |-> s.configs[i].version + 1]
        BY <2>3, <4>2
      <4> QED BY <3>1, <4>1, <4>3
    <3>4. t.configs = [s.configs EXCEPT ![i] = [s.configs[i] EXCEPT !.cols = Patched(@, o.patch), !.version = @ + 1]]
      BY <2>2, <2>3, <3>2
    <3> QED BY <3>3, <3>4
  <2>6. ConfigSet(s, t, x0, c)
    BY <1>0, <2>0, <2>4, <2>5, ConfigSets
  <2>7. /\ t.flags = s.flags /\ t.rules = s.rules /\ t.overrides = s.overrides
        /\ t.apiKeys = s.apiKeys /\ t.auditLog = s.auditLog
    BY <2>2
  <2>8. \A f : Memory!FindFlag(t, f) = Memory!FindFlag(s, f) /\ MFlag(t, f) = MFlag(s, f)
    BY <2>7, SameFinds
  <2>9. MemoryOk(t)
    BY <2>2, <2>6, <2>7, <2>8 DEF MemoryOk, ConfigSet
  <2>10. Shown(t)
    BY <2>9, MemoryView
  <2>11. View(s).config[x0] = MConfig(s, x0) /\ View(s).config[x0] # None /\ View(s).config[x0].version = o.expected
    BY <1>0, <1>1, <2>0, <2>3, Rowless DEF Shown
  <2>12. View(t).config = [View(s).config EXCEPT ![x0] =
                             [cols |-> Patched(@.cols, o.patch), version |-> @.version + 1]]
    <3>1. View(t).config = [View(s).config EXCEPT ![x0] = c]
      <4> HIDE DEF c
      <4> QED BY <1>0, <1>1, <2>6, <2>10 DEF Shown, ConfigSet
    <3>2. c = [cols |-> Patched(View(s).config[x0].cols, o.patch), version |-> View(s).config[x0].version + 1]
      BY <2>11
    <3> HIDE DEF c
    <3> QED BY <3>1, <3>2
  <2>13. View(t).flag = View(s).flag
    BY <1>1, <2>8, <2>10 DEF Shown
  <2>14. View(t).child = View(s).child /\ View(t).audit = View(s).audit
    BY <1>1, <2>7, <2>10 DEF Shown, MChild
  <2>15. \A k \in Keys : UseIn(t, k) = UseIn(s, k)
    BY <1>1, <2>7, <2>10, SameFinds DEF Shown
  <2>16. Effect(r, o, View(s), View(t))
    BY <2>11, <2>12, <2>13, <2>14 DEF Effect
  <2>17. NewVersion(o) = o.expected + 1 /\ o.expected + 1 \in Nat /\ "ok" \in Status /\ StoreOk(t)
    BY <1>0, <2>9 DEF NewVersion, Status, StoreOk
  <2> QED BY <2>1, <2>14, <2>15, <2>16, <2>17 DEF Outcome, d, t
<1> QED BY <1>2, <1>3

Bare(e) == [key |-> e.key, val |-> e.val, by |-> e.by]

LEMMA RowsAtHeld ==
  ASSUME NEW S, NEW rows \in Seq(S), NEW x
  PROVE  Memory!RowsAt(rows, x) = {Bare(e) : e \in {g \in Held(rows) : g.ref = x}}
<1>1. DOMAIN rows = 1 .. Len(rows)
  BY LenProperties
<1>2. Memory!RowsAt(rows, x) = {Bare(rows[i]) : i \in {j \in 1 .. Len(rows) : rows[j].ref = x}}
  BY <1>1 DEF Memory!RowsAt, Bare
<1> HIDE DEF Bare
<1>3. {g \in Held(rows) : g.ref = x} = {rows[i] : i \in {j \in 1 .. Len(rows) : rows[j].ref = x}}
  BY DEF Held
<1> QED BY <1>2, <1>3

\* What a PUT leaves of the array of its table.
LEMMA ReplacedRows ==
  ASSUME NEW rows \in Seq(ChildRow), NEW r \in Reqs, NEW o \in Op, o.kind \in Tables
  PROVE  /\ Memory!Replaced(rows, r, o) \in Seq(ChildRow)
         /\ \A x : Memory!RowsAt(Memory!Replaced(rows, r, o), x) =
                     IF x = RefOf(o) THEN RowsOf(r, o.body) ELSE Memory!RowsAt(rows, x)
<1> DEFINE x0 == RefOf(o)
           kept == Memory!Without(rows, x0)
           new == [i \in DOMAIN o.body |-> [ref |-> x0, key |-> o.body[i].key, val |-> o.body[i].val, by |-> r]]
<1>0. x0 \in Refs /\ o.body \in Seq(Entry)
  BY OpFields, Kinds
<1>1. Memory!Replaced(rows, r, o) = kept \o new
  BY MemoryData DEF Memory!Replaced
<1>2. kept \in Seq(ChildRow) /\ Held(kept) = {e \in Held(rows) : e.ref # x0}
  BY WithoutKeeps
<1>3. DOMAIN o.body = 1 .. Len(o.body) /\ Len(o.body) \in Nat /\ \A i \in 1 .. Len(o.body) : o.body[i] \in Entry
  BY <1>0, LenProperties, ElementOfSeq
<1>4. new \in Seq(ChildRow) /\ Len(new) = Len(o.body)
  <2>1. \A e \in Entry : [ref |-> x0, key |-> e.key, val |-> e.val, by |-> r] \in ChildRow
    BY <1>0 DEF Entry, ChildRow
  <2>2. new \in [1 .. Len(o.body) -> ChildRow]
    BY <1>3, <2>1
  <2> QED BY <1>3, <2>2
<1>5. \A i \in 1 .. Len(o.body) : new[i].ref = x0 /\ Bare(new[i]) = [key |-> o.body[i].key, val |-> o.body[i].val, by |-> r]
  BY <1>3 DEF Bare
<1> HIDE DEF kept, new
<1>6. kept \o new \in Seq(ChildRow) /\ Held(kept \o new) = Held(kept) \cup Held(new)
  BY <1>2, <1>4, HeldConcat
<1>7. /\ \A e \in Held(kept) : e.ref # x0
      /\ \A e \in Held(new) : e.ref = x0
  BY <1>2, <1>4, <1>5 DEF Held
<1>8. {g \in Held(kept \o new) : g.ref = x0} = Held(new)
  BY <1>6, <1>7
<1>9. {Bare(e) : e \in Held(new)} = RowsOf(r, o.body)
  <2>1. {Bare(e) : e \in Held(new)} = {Bare(new[i]) : i \in 1 .. Len(o.body)}
    <3> HIDE DEF Bare
    <3> QED BY <1>4 DEF Held
  <2> QED BY <1>3, <1>5, <2>1 DEF RowsOf
<1>10. Memory!RowsAt(kept \o new, x0) = RowsOf(r, o.body)
  <2>1. Memory!RowsAt(kept \o new, x0) = {Bare(e) : e \in {g \in Held(kept \o new) : g.ref = x0}}
    BY <1>6, RowsAtHeld
  <2> QED BY <1>8, <1>9, <2>1
<1>11. ASSUME NEW x, x # x0 PROVE Memory!RowsAt(kept \o new, x) = Memory!RowsAt(rows, x)
  <2>1. {g \in Held(kept \o new) : g.ref = x} = {g \in Held(rows) : g.ref = x}
    BY <1>2, <1>6, <1>7, <1>11
  <2>2. Memory!RowsAt(kept \o new, x) = {Bare(e) : e \in {g \in Held(kept \o new) : g.ref = x}}
    BY <1>6, RowsAtHeld
  <2>3. Memory!RowsAt(rows, x) = {Bare(e) : e \in {g \in Held(rows) : g.ref = x}}
    BY RowsAtHeld
  <2> QED BY <2>1, <2>2, <2>3
<1> QED BY <1>1, <1>6, <1>10, <1>11

\* t is s with the rows of table in place of rows.
ChildSet(s, t, table, rows) ==
  IF table = "rules" THEN t.rules = rows /\ t.overrides = s.overrides
  ELSE t.overrides = rows /\ t.rules = s.rules

LEMMA MemoryReplaces ==
  ASSUME adapter = "memory", NEW s, MemoryOk(s), NEW r \in Reqs, NEW o \in Op, o.kind \in Tables
  PROVE  Outcome(r, o, s, Memory!Replace(s, r, o))
<1> DEFINE d == Memory!Replace(s, r, o)
           t == d.store
           x0 == RefOf(o)
           i == Memory!FindConfig(s, x0)
           c == [cols |-> MConfig(s, x0).cols, version |-> MConfig(s, x0).version + 1]
           row == [ref |-> x0, cols |-> c.cols, version |-> c.version]
           old == MChild(s, o.kind)
           put == Memory!Replaced(old, r, o)
<1>0. /\ OnConfig(o) /\ x0 \in Refs /\ o.expected \in Nat /\ o.kind \in {"rules", "overrides"}
      /\ o.kind # "create" /\ o.kind # "archive"
  BY OpFields, Kinds
<1>1. Shown(s)
  BY MemoryView
<1>2. CASE Memory!Refusal(s, o) # "ok"
  <2>1. d.store = s /\ d.status = Memory!Refusal(s, o) /\ d.version = 0
    BY <1>2, MemoryData DEF Memory!Replace
  <2> HIDE DEF d
  <2>2. Refused(View(s), o, d.status) /\ d.status \in Status /\ 0 \in Nat
    BY <1>0, <1>2, <2>1, MemoryRefusal
  <2>3. StoreOk(s)
    BY DEF StoreOk
  <2> QED BY <1>2, <2>1, <2>2, <2>3 DEF Outcome, d
<1>3. CASE Memory!Refusal(s, o) = "ok"
  <2>0. i # 0 /\ s.configs[i].version = o.expected
    BY <1>0, <1>3, MemoryRefusal
  <2>1. /\ d.status = "ok" /\ d.version = o.expected + 1
        /\ d.store = IF o.kind = "rules"
                     THEN [[s EXCEPT !.configs[i].version = @ + 1] EXCEPT !.rules = Memory!Replaced(@, r, o)]
                     ELSE [[s EXCEPT !.configs[i].version = @ + 1] EXCEPT !.overrides = Memory!Replaced(@, r, o)]
    BY <1>0, <1>3, MemoryData DEF Memory!Replace
  <2>2. /\ t = [flags |-> s.flags, configs |-> t.configs, rules |-> t.rules, overrides |-> t.overrides,
                auditLog |-> s.auditLog, exposures |-> s.exposures, apiKeys |-> s.apiKeys]
        /\ t.configs = [s.configs EXCEPT ![i].version = @ + 1]
        /\ ChildSet(s, t, o.kind, put)
    BY <1>0, <2>1 DEF MemoryOk, ChildSet, MChild
  <2> HIDE DEF d, t, put
  <2>3. /\ i \in 1 .. Len(s.configs) /\ s.configs[i].ref = x0
        /\ MConfig(s, x0) = [cols |-> s.configs[i].cols, version |-> s.configs[i].version]
        /\ MConfig(s, x0) \in ConfigRow
    BY <2>0, FoundConfig
  <2>4. c \in ConfigRow
    <3>1. MConfig(s, x0).cols \in [Columns -> Values] /\ MConfig(s, x0).version \in Nat \ {0}
      BY <2>3 DEF ConfigRow
    <3>2. \A n \in Nat \ {0} : n + 1 \in Nat \ {0}
      OBVIOUS
    <3> QED BY <3>1, <3>2 DEF ConfigRow
  <2>5. t.configs = [s.configs EXCEPT ![i] = row]
    <3> DEFINE C == [ref : Refs, cols : [Columns -> Values], version : Nat \ {0}]
    <3>1. s.configs[i] \in C /\ s.configs \in [1 .. Len(s.configs) -> C]
      BY <2>3, ElementOfSeq, LenProperties DEF MemoryOk
    <3>2. \A e \in C : [e EXCEPT !.version = @ + 1] = [ref |-> e.ref, cols |-> e.cols, version |-> e.version + 1]
      OBVIOUS
    <3>3. row = [ref |-> s.configs[i].ref, cols |-> s.configs[i].cols, version |-> s.configs[i].version + 1]
      BY <2>3
    <3> HIDE DEF C, row
    <3>4. t.configs = [s.configs EXCEPT ![i] = [s.configs[i] EXCEPT !.version = @ + 1]]
      BY <2>2, <2>3, <3>1
    <3> QED BY <3>1, <3>2, <3>3, <3>4
  <2>6. ConfigSet(s, t, x0, c)
    BY <1>0, <2>0, <2>4, <2>5, ConfigSets
  <2>7. /\ old \in Seq(ChildRow) /\ put \in Seq(ChildRow)
        /\ \A x : Memory!RowsAt(put, x) = IF x = x0 THEN RowsOf(r, o.body) ELSE Memory!RowsAt(old, x)
    <3>1. old \in Seq(ChildRow)
      BY <1>0 DEF MChild, MemoryOk
    <3> QED BY <3>1, ReplacedRows DEF put
  <2>8. /\ t.flags = s.flags /\ t.apiKeys = s.apiKeys /\ t.auditLog = s.auditLog
        /\ t.rules \in Seq(ChildRow) /\ t.overrides \in Seq(ChildRow)
        /\ MChild(t, o.kind) = put
        /\ \A u \in Tables : u # o.kind => MChild(t, u) = MChild(s, u)
    <3>1. t.flags = s.flags /\ t.apiKeys = s.apiKeys /\ t.auditLog = s.auditLog
      BY <2>2
    <3>2. s.rules \in Seq(ChildRow) /\ s.overrides \in Seq(ChildRow)
      BY DEF MemoryOk
    <3> QED BY <1>0, <2>2, <2>7, <3>1, <3>2 DEF ChildSet, MChild, Tables
  <2>9. \A f : Memory!FindFlag(t, f) = Memory!FindFlag(s, f) /\ MFlag(t, f) = MFlag(s, f)
    BY <2>8, SameFinds
  <2>10. MemoryOk(t)
    BY <2>2, <2>6, <2>8, <2>9 DEF MemoryOk, ConfigSet
  <2>11. Shown(t)
    BY <2>10, MemoryView
  <2>12. View(s).config[x0] = MConfig(s, x0) /\ View(s).config[x0] # None /\ View(s).config[x0].version = o.expected
    BY <1>0, <1>1, <2>0, <2>3, Rowless DEF Shown
  <2>13. View(t).config = [View(s).config EXCEPT ![x0].version = @ + 1]
    <3>1. View(t).config = [View(s).config EXCEPT ![x0] = c]
      <4> HIDE DEF c
      <4> QED BY <1>0, <1>1, <2>6, <2>11 DEF Shown, ConfigSet
    <3>2. \A g \in ConfigRow : [g EXCEPT !.version = @ + 1] = [cols |-> g.cols, version |-> g.version + 1]
      BY DEF ConfigRow
    <3>3. c = [View(s).config[x0] EXCEPT !.version = @ + 1]
      BY <2>3, <2>12, <3>2
    <3> HIDE DEF c
    <3> QED BY <3>1, <3>3
  <2>14. View(t).child = [View(s).child EXCEPT ![o.kind][x0] = RowsOf(r, o.body)]
    <3>1. /\ View(s).child = [u \in Tables |-> [x \in Refs |-> Memory!RowsAt(MChild(s, u), x)]]
          /\ View(t).child = [u \in Tables |-> [x \in Refs |-> Memory!RowsAt(MChild(t, u), x)]]
      BY <1>1, <2>11 DEF Shown
    <3>2. [x \in Refs |-> Memory!RowsAt(put, x)] = [[x \in Refs |-> Memory!RowsAt(old, x)] EXCEPT ![x0] = RowsOf(r, o.body)]
      BY <1>0, <2>7
    <3>3. View(t).child[o.kind] = [View(s).child[o.kind] EXCEPT ![x0] = RowsOf(r, o.body)]
      BY <2>8, <3>1, <3>2
    <3>4. \A u \in Tables : u # o.kind => View(t).child[u] = View(s).child[u]
      BY <2>8, <3>1
    <3>5. View(t).child = [u \in Tables |-> IF u = o.kind THEN [View(s).child[o.kind] EXCEPT ![x0] = RowsOf(r, o.body)]
                                                          ELSE View(s).child[u]]
      BY <3>1, <3>3, <3>4
    <3>6. View(s).child = [u \in Tables |-> View(s).child[u]]
      BY <3>1
    <3> QED BY <3>5, <3>6
  <2>15. View(t).flag = View(s).flag /\ View(t).audit = View(s).audit
    BY <1>1, <2>8, <2>9, <2>11 DEF Shown
  <2>16. \A k \in Keys : UseIn(t, k) = UseIn(s, k)
    BY <1>1, <2>8, <2>11, SameFinds DEF Shown
  <2>17. Effect(r, o, View(s), View(t))
    BY <2>12, <2>13, <2>14, <2>15 DEF Effect
  <2>18. NewVersion(o) = o.expected + 1 /\ o.expected + 1 \in Nat /\ "ok" \in Status /\ StoreOk(t)
    BY <1>0, <2>10 DEF NewVersion, Status, StoreOk
  <2> QED BY <2>1, <2>15, <2>16, <2>17, <2>18 DEF Outcome, d, t
<1> QED BY <1>2, <1>3

LEMMA MemoryMutates ==
  ASSUME adapter = "memory", NEW s, MemoryOk(s), NEW r \in Reqs, NEW o \in Op, Mutates(o)
  PROVE  Outcome(r, o, s, Mutated(s, r, o))
<1>1. Mutated(s, r, o) = MutateMemory(s, r, o)
  BY DEF Mutated
<1>2. CASE o.kind \in Tables
  BY <1>1, <1>2, Kinds, MemoryReplaces DEF MutateMemory
<1>3. CASE o.kind = "create"
  BY <1>1, <1>3, MemoryCreates DEF MutateMemory
<1>4. CASE o.kind = "archive"
  BY <1>1, <1>4, MemoryArchives DEF MutateMemory
<1>5. CASE o.kind = "config"
  BY <1>1, <1>5, MemoryUpdates DEF MutateMemory
<1> QED BY <1>2, <1>3, <1>4, <1>5, Kinds

\* t is s but for what the contract does not speak about.
SameRows(s, t) ==
  /\ View(t).flag = View(s).flag /\ View(t).config = View(s).config /\ View(t).child = View(s).child

LEMMA MemoryOther ==
  ASSUME adapter = "memory", NEW s, MemoryOk(s), NEW t,
         t = [flags |-> t.flags, configs |-> t.configs, rules |-> t.rules, overrides |-> t.overrides,
              auditLog |-> t.auditLog, exposures |-> t.exposures, apiKeys |-> t.apiKeys],
         t.flags = s.flags, t.configs = s.configs, t.rules = s.rules, t.overrides = s.overrides,
         t.apiKeys = s.apiKeys
  PROVE  /\ MemoryOk(t) /\ SameRows(s, t) /\ View(t).audit = t.auditLog /\ View(s).audit = s.auditLog
         /\ \A k \in Keys : UseIn(t, k) = UseIn(s, k)
<1>1. /\ \A f : Memory!FindFlag(t, f) = Memory!FindFlag(s, f) /\ MFlag(t, f) = MFlag(s, f)
      /\ \A x : Memory!FindConfig(t, x) = Memory!FindConfig(s, x) /\ MConfig(t, x) = MConfig(s, x)
      /\ \A k : Memory!FindKey(t, k) = Memory!FindKey(s, k)
  BY SameFinds
<1>2. MemoryOk(t)
  BY <1>1 DEF MemoryOk
<1>3. Shown(s) /\ Shown(t)
  BY <1>2, MemoryView
<1>4. \A k \in Keys : UseIn(t, k) = UseIn(s, k)
  BY <1>1, <1>3 DEF Shown
<1>5. MChild(t, "rules") = MChild(s, "rules") /\ \A u : MChild(t, u) = MChild(s, u)
  BY DEF MChild
<1>6. View(t).flag = View(s).flag /\ View(t).config = View(s).config
  BY <1>1, <1>3 DEF Shown
<1>7. View(t).child = View(s).child
  BY <1>3, <1>5 DEF Shown
<1>8. View(t).audit = t.auditLog /\ View(s).audit = s.auditLog
  BY <1>3 DEF Shown
<1> QED BY <1>2, <1>4, <1>6, <1>7, <1>8 DEF SameRows

LEMMA MemoryAudits ==
  ASSUME adapter = "memory", NEW s, MemoryOk(s), NEW entry, NEW t, t = Memory!RecordAudit(s, entry)
  PROVE  /\ MemoryOk(t) /\ SameRows(s, t) /\ View(t).audit = Append(View(s).audit, entry)
         /\ \A k \in Keys : UseIn(t, k) = UseIn(s, k)
<1>1. /\ t = [flags |-> s.flags, configs |-> s.configs, rules |-> s.rules, overrides |-> s.overrides,
              auditLog |-> Append(s.auditLog, entry), exposures |-> s.exposures, apiKeys |-> s.apiKeys]
  BY DEF Memory!RecordAudit, MemoryOk
<1>2. /\ t.flags = s.flags /\ t.configs = s.configs /\ t.rules = s.rules /\ t.overrides = s.overrides
      /\ t.auditLog = Append(s.auditLog, entry) /\ t.apiKeys = s.apiKeys /\ t.exposures = s.exposures
  BY <1>1
<1> QED BY <1>1, <1>2, MemoryOther

LEMMA MemoryBatches ==
  ASSUME adapter = "memory", NEW s, MemoryOk(s), NEW rows, NEW t, t = Memory!RecordBatch(s, rows)
  PROVE  /\ MemoryOk(t) /\ SameRows(s, t) /\ View(t).audit = View(s).audit
         /\ \A k \in Keys : UseIn(t, k) = UseIn(s, k)
<1>0. \E e : t = [s EXCEPT !.exposures = e]
  BY DEF Memory!RecordBatch
<1>1. PICK e : t = [flags |-> s.flags, configs |-> s.configs, rules |-> s.rules, overrides |-> s.overrides,
                    auditLog |-> s.auditLog, exposures |-> e, apiKeys |-> s.apiKeys]
  BY <1>0 DEF MemoryOk
<1>2. /\ t.flags = s.flags /\ t.configs = s.configs /\ t.rules = s.rules /\ t.overrides = s.overrides
      /\ t.auditLog = s.auditLog /\ t.apiKeys = s.apiKeys /\ t.exposures = e
  BY <1>1
<1> QED BY <1>1, <1>2, MemoryOther

LEMMA FoundKey ==
  ASSUME NEW s, MemoryOk(s), NEW k \in Keys
  PROVE  /\ Memory!FindKey(s, k) \in 1 .. Len(s.apiKeys)
         /\ s.apiKeys[Memory!FindKey(s, k)] \in KeyRow /\ s.apiKeys[Memory!FindKey(s, k)].id = k
<1>1. s.apiKeys \in Seq(KeyRow) /\ DOMAIN s.apiKeys = 1 .. Len(s.apiKeys)
  BY LenProperties DEF MemoryOk
<1>2. \E i \in 1 .. Len(s.apiKeys) : s.apiKeys[i].id = k
  BY <1>1 DEF MemoryOk
<1>3. Memory!FindKey(s, k) \in IdPlaces(s.apiKeys, k)
  <2>1. IdPlaces(s.apiKeys, k) # {}
    BY <1>2 DEF IdPlaces
  <2> QED BY <2>1, MemoryFinds DEF First
<1> QED BY <1>1, <1>3, ElementOfSeq DEF IdPlaces

LEMMA MemoryTouches ==
  ASSUME adapter = "memory", NEW s, MemoryOk(s), NEW k \in Keys, NEW now \in Nat, NEW limit,
         NEW t, t = Memory!Touch(s, k, now, limit)
  PROVE  /\ MemoryOk(t) /\ SameRows(s, t) /\ View(t).audit = View(s).audit
         /\ \A j \in Keys : UseIn(t, j) =
              IF j = k /\ (UseIn(s, k) = Never \/ UseIn(s, k) < limit) THEN now ELSE UseIn(s, j)
<1> DEFINE i == Memory!FindKey(s, k)
           row == [s.apiKeys[i] EXCEPT !.lastUsedAt = now]
<1>0. Shown(s) /\ UseIn(s, k) = Memory!LastUsed(s, k)
  BY MemoryView DEF UseIn
<1>1. CASE UseIn(s, k) = Never \/ UseIn(s, k) < limit
  <2>1. t = [s EXCEPT !.apiKeys[i].lastUsedAt = now]
    BY <1>0, <1>1, MemoryData DEF Memory!Touch
  <2>2. /\ t = [flags |-> s.flags, configs |-> s.configs, rules |-> s.rules, overrides |-> s.overrides,
                auditLog |-> s.auditLog, exposures |-> s.exposures, apiKeys |-> t.apiKeys]
        /\ t.apiKeys = [s.apiKeys EXCEPT ![i].lastUsedAt = now]
    BY <2>1 DEF MemoryOk
  <2>3. i \in 1 .. Len(s.apiKeys) /\ s.apiKeys[i] \in KeyRow /\ s.apiKeys[i].id = k /\ s.apiKeys \in Seq(KeyRow)
    BY FoundKey DEF MemoryOk
  <2>4. row \in KeyRow /\ row.id = k /\ row.lastUsedAt = now
    BY <2>3 DEF KeyRow
  <2>5. t.apiKeys = [s.apiKeys EXCEPT ![i] = row]
    BY <2>2
  <2> HIDE DEF row
  <2>6. /\ t.apiKeys \in Seq(KeyRow) /\ Len(t.apiKeys) = Len(s.apiKeys) /\ Len(s.apiKeys) \in Nat
        /\ \A j \in 1 .. Len(s.apiKeys) : t.apiKeys[j] = IF j = i THEN row ELSE s.apiKeys[j]
        /\ DOMAIN t.apiKeys = 1 .. Len(s.apiKeys) /\ DOMAIN s.apiKeys = 1 .. Len(s.apiKeys)
    BY <2>3, <2>4, <2>5, ExceptSeq, LenProperties
  <2>7. \A j \in 1 .. Len(s.apiKeys) : t.apiKeys[j].id = s.apiKeys[j].id
    BY <2>3, <2>4, <2>6
  <2>8. \A j : IdPlaces(t.apiKeys, j) = IdPlaces(s.apiKeys, j)
    BY <2>6, <2>7 DEF IdPlaces
  <2>9. \A j : Memory!FindKey(t, j) = Memory!FindKey(s, j)
    BY <2>8 DEF Memory!FindKey, Memory!SelectInSeq, IdPlaces
  <2>10. /\ t.flags = s.flags /\ t.configs = s.configs /\ t.rules = s.rules /\ t.overrides = s.overrides
         /\ t.auditLog = s.auditLog
    BY <2>2
  <2>11. MemoryOk(t)
    <3>1. \A j \in Keys : \E n \in DOMAIN t.apiKeys : t.apiKeys[n].id = j
      BY <2>6, <2>7 DEF MemoryOk
    <3> QED BY <2>2, <2>6, <2>10, <3>1, SameFinds DEF MemoryOk
  <2>12. Shown(t)
    BY <2>11, MemoryView
  <2>13. ASSUME NEW j \in Keys PROVE UseIn(t, j) = IF j = k THEN now ELSE UseIn(s, j)
    <3>1. Memory!FindKey(s, j) \in 1 .. Len(s.apiKeys) /\ s.apiKeys[Memory!FindKey(s, j)].id = j
      BY FoundKey
    <3>2. /\ UseIn(t, j) = t.apiKeys[Memory!FindKey(s, j)].lastUsedAt
          /\ UseIn(s, j) = s.apiKeys[Memory!FindKey(s, j)].lastUsedAt
      BY <1>0, <2>9, <2>12 DEF Shown
    <3>3. j # k => Memory!FindKey(s, j) # i
      BY <2>3, <3>1
    <3> QED BY <2>4, <2>6, <3>1, <3>2, <3>3
  <2>14. SameRows(s, t) /\ View(t).audit = View(s).audit
    BY <1>0, <2>10, <2>12, SameFinds DEF Shown, SameRows, MChild
  <2> QED BY <1>1, <2>11, <2>13, <2>14
<1>2. CASE ~(UseIn(s, k) = Never \/ UseIn(s, k) < limit)
  <2>1. t = s
    BY <1>0, <1>2, MemoryData DEF Memory!Touch
  <2> QED BY <1>2, <2>1 DEF SameRows
<1> QED BY <1>1, <1>2

LEMMA SeededRefs == IsFiniteSet({x \in Refs : x[1] \in Existing})
<1>1. IsFiniteSet(Envs)
  <2>1. EnvSeq \in Seq(Envs)
    BY FlagDataAssumption DEF FlagDataAssumption
  <2>2. Len(EnvSeq) \in Nat /\ DOMAIN EnvSeq = 1 .. Len(EnvSeq)
    BY <2>1, LenProperties
  <2>3. IsFiniteSet(1 .. Len(EnvSeq))
    BY <2>2, FS_Interval
  <2>4. EnvSeq \in Surjection(1 .. Len(EnvSeq), Envs)
    BY <2>1, <2>2 DEF Surjection, Envs
  <2> QED BY <2>3, <2>4, FS_Surjection
<1>2. IsFiniteSet(Existing \X Envs)
  BY <1>1, EmbeddedAssumption, FS_Product DEF EmbeddedAssumption
<1>3. {x \in Refs : x[1] \in Existing} \subseteq Existing \X Envs
  BY DEF Refs
<1> QED BY <1>2, <1>3, FS_Subset

LEMMA MemoryStarts ==
  ASSUME adapter = "memory", NEW t, t = Memory!Fresh(Existing)
  PROVE  /\ MemoryOk(t) /\ View(t).audit = <<>>
         /\ View(t).flag = [f \in Flags |-> IF f \in Existing THEN NewFlagRow ELSE None]
         /\ View(t).config = [x \in Refs |-> IF x[1] \in Existing THEN NewConfigRow ELSE None]
         /\ View(t).child = [u \in Tables |-> [x \in Refs |-> {}]]
         /\ \A k \in Keys : UseIn(t, k) = Never
<1> DEFINE X == {x \in Refs : x[1] \in Existing}
           flags == Memory!SetToSeq(Existing)
           refs == Memory!SetToSeq(X)
           keys == Memory!SetToSeq(Keys)
           F == [key : Flags, archivedAt : Reqs \cup {None}]
           C == [ref : Refs, cols : [Columns -> Values], version : Nat \ {0}]
<1>0. /\ Existing \subseteq Flags /\ DefaultCols \in [Columns -> Values]
      /\ IsFiniteSet(Existing) /\ IsFiniteSet(Keys) /\ IsFiniteSet(X)
      /\ Memory!Cardinality(Keys) = Cardinality(Keys)
  BY FlagDataAssumption, EmbeddedAssumption, SeededRefs
     DEF FlagDataAssumption, EmbeddedAssumption, Memory!Cardinality, Cardinality
<1> HIDE DEF X
<1>1. /\ flags \in [1 .. Cardinality(Existing) -> Existing] /\ Cardinality(Existing) \in Nat
      /\ \A e \in Existing : \E i \in 1 .. Cardinality(Existing) : flags[i] = e
  BY <1>0, SetToSeqLists
<1>2. /\ refs \in [1 .. Cardinality(X) -> X] /\ Cardinality(X) \in Nat
      /\ \A e \in X : \E i \in 1 .. Cardinality(X) : refs[i] = e
  BY <1>0, SetToSeqLists
<1>3. /\ keys \in [1 .. Cardinality(Keys) -> Keys] /\ Cardinality(Keys) \in Nat
      /\ \A e \in Keys : \E i \in 1 .. Cardinality(Keys) : keys[i] = e
  BY <1>0, SetToSeqLists
<1>4. t = [flags |-> [i \in DOMAIN flags |-> [key |-> flags[i], archivedAt |-> None]],
           configs |-> [i \in DOMAIN refs |-> [ref |-> refs[i], cols |-> DefaultCols, version |-> 1]],
           rules |-> <<>>, overrides |-> <<>>, auditLog |-> <<>>, exposures |-> <<>>,
           apiKeys |-> [i \in 1 .. Cardinality(Keys) |-> [id |-> keys[i], lastUsedAt |-> Never]]]
  BY <1>0, MemoryData DEF Memory!Fresh, X
<1> HIDE DEF flags, refs, keys
<1>5. /\ t.flags = [i \in 1 .. Cardinality(Existing) |-> [key |-> flags[i], archivedAt |-> None]]
      /\ t.configs = [i \in 1 .. Cardinality(X) |-> [ref |-> refs[i], cols |-> DefaultCols, version |-> 1]]
      /\ t.rules = <<>> /\ t.overrides = <<>> /\ t.auditLog = <<>> /\ t.exposures = <<>>
      /\ t.apiKeys = [i \in 1 .. Cardinality(Keys) |-> [id |-> keys[i], lastUsedAt |-> Never]]
  BY <1>1, <1>2, <1>4
<1>6. /\ t.flags \in Seq(F) /\ Len(t.flags) = Cardinality(Existing)
      /\ \A i \in 1 .. Len(t.flags) : t.flags[i].key = flags[i] /\ t.flags[i].archivedAt = None
  <2>1. t.flags \in [1 .. Cardinality(Existing) -> F]
    BY <1>0, <1>1, <1>5
  <2> HIDE DEF F
  <2>2. t.flags \in Seq(F) /\ Len(t.flags) = Cardinality(Existing)
    BY <1>1, <2>1
  <2>3. \A i \in 1 .. Cardinality(Existing) : t.flags[i].key = flags[i] /\ t.flags[i].archivedAt = None
    BY <1>5
  <2> QED BY <2>2, <2>3
<1>7. /\ t.configs \in Seq(C) /\ Len(t.configs) = Cardinality(X)
      /\ \A i \in 1 .. Len(t.configs) :
           t.configs[i].ref = refs[i] /\ t.configs[i].cols = DefaultCols /\ t.configs[i].version = 1
  <2>1. t.configs \in [1 .. Cardinality(X) -> C]
    BY <1>0, <1>2, <1>5 DEF X
  <2> HIDE DEF C
  <2>2. t.configs \in Seq(C) /\ Len(t.configs) = Cardinality(X)
    BY <1>2, <2>1
  <2>3. \A i \in 1 .. Cardinality(X) :
           t.configs[i].ref = refs[i] /\ t.configs[i].cols = DefaultCols /\ t.configs[i].version = 1
    BY <1>5
  <2> QED BY <2>2, <2>3
<1>8. /\ t.apiKeys \in Seq(KeyRow) /\ Len(t.apiKeys) = Cardinality(Keys)
      /\ \A i \in 1 .. Len(t.apiKeys) : t.apiKeys[i].id = keys[i] /\ t.apiKeys[i].lastUsedAt = Never
  <2>1. t.apiKeys \in [1 .. Cardinality(Keys) -> KeyRow]
    BY <1>3, <1>5 DEF KeyRow
  <2> QED BY <1>3, <1>5, <2>1
<1> HIDE DEF F, C
<1>9. \A f : FlagPlaces(t.flags, f) # {} <=> f \in Existing
  BY <1>1, <1>6 DEF FlagPlaces
<1>10. \A x : RefPlaces(t.configs, x) # {} <=> x \in X
  BY <1>2, <1>7 DEF RefPlaces
<1>11. Len(t.flags) \in Nat /\ Len(t.configs) \in Nat
  BY <1>1, <1>2, <1>6, <1>7
<1>12. ASSUME NEW f PROVE /\ Memory!FindFlag(t, f) # 0 <=> f \in Existing
                          /\ MFlag(t, f) = IF f \in Existing THEN NewFlagRow ELSE None
  <2>1. First(Memory!FindFlag(t, f), FlagPlaces(t.flags, f))
    BY <1>11, FindsAreFirst
  <2>2. f \in Existing => Memory!FindFlag(t, f) \in 1 .. Len(t.flags)
    BY <1>9, <2>1 DEF First, FlagPlaces
  <2>3. f \notin Existing => Memory!FindFlag(t, f) = 0
    BY <1>9, <2>1 DEF First
  <2>4. f \in Existing => Memory!FindFlag(t, f) # 0
    BY <1>11, <2>2
  <2> QED BY <1>6, <2>2, <2>3, <2>4 DEF MFlag, NewFlagRow
<1>13. ASSUME NEW x \in Refs PROVE /\ Memory!FindConfig(t, x) # 0 <=> x[1] \in Existing
                                   /\ MConfig(t, x) = IF x[1] \in Existing THEN NewConfigRow ELSE None
  <2>1. First(Memory!FindConfig(t, x), RefPlaces(t.configs, x)) /\ (x \in X <=> x[1] \in Existing)
    BY <1>11, FindsAreFirst DEF X
  <2>2. x \in X => Memory!FindConfig(t, x) \in 1 .. Len(t.configs)
    BY <1>10, <2>1 DEF First, RefPlaces
  <2>3. x \notin X => Memory!FindConfig(t, x) = 0
    BY <1>10, <2>1 DEF First
  <2>4. x \in X => Memory!FindConfig(t, x) # 0
    BY <1>11, <2>2
  <2> QED BY <1>7, <2>1, <2>2, <2>3, <2>4 DEF MConfig, NewConfigRow
<1>14. MemoryOk(t)
  <2>1. <<>> \in Seq(ChildRow)
    OBVIOUS
  <2>2. \A k \in Keys : \E i \in DOMAIN t.apiKeys : t.apiKeys[i].id = k
    BY <1>3, <1>5, <1>8
  <2>3. t = [flags |-> t.flags, configs |-> t.configs, rules |-> t.rules, overrides |-> t.overrides,
             auditLog |-> t.auditLog, exposures |-> t.exposures, apiKeys |-> t.apiKeys]
    BY <1>4
  <2>4. \A x \in Refs : Memory!FindFlag(t, x[1]) = 0 <=> Memory!FindConfig(t, x) = 0
    BY <1>12, <1>13
  <2> QED BY <1>5, <1>6, <1>7, <1>8, <2>1, <2>2, <2>3, <2>4 DEF MemoryOk, F, C
<1>15. Shown(t)
  BY <1>14, MemoryView
<1>16. \A u \in Tables : \A x \in Refs : Memory!RowsAt(MChild(t, u), x) = {}
  BY <1>5 DEF MChild, Memory!RowsAt
<1>17. \A k \in Keys : UseIn(t, k) = Never
  BY <1>8, <1>14, <1>15, FoundKey DEF Shown
<1> QED BY <1>5, <1>12, <1>13, <1>14, <1>15, <1>16, <1>17 DEF Shown

-----------------------------------------------------------------------------
(* Either adapter.                                                         *)

ViewOf(v) == [flag |-> v.flag, config |-> v.config, child |-> v.child, audit |-> v.audit]

LEMMA ViewIs == \A s : View(s) = ViewOf(View(s))
  BY DEF View, ViewOf

LEMMA Rigid ==
  ASSUME adapter' = adapter
  PROVE  /\ \A s : View(s)' = View(s) /\ (StoreOk(s)' <=> StoreOk(s)) /\ \A k : UseIn(s, k)' = UseIn(s, k)
         /\ \A r, o, v, w : Effect(r, o, v, w)' <=> Effect(r, o, v, w)
<1>1. \A s : View(s)' = View(s)
  BY DEF View, FlagRows, ConfigRows, ChildRows, AuditRows, FindByKey
<1>2. \A s : StoreOk(s)' <=> StoreOk(s)
  BY DEF StoreOk
<1>3. \A s, k : UseIn(s, k)' = UseIn(s, k)
  BY DEF UseIn
<1>4. \A r, o, v, w : Effect(r, o, v, w)' <=> Effect(r, o, v, w)
  BY DEF Effect
<1> QED BY <1>1, <1>2, <1>3, <1>4

LEMMA StoreMutates ==
  ASSUME adapter \in {"sqlite", "memory"}, NEW s, StoreOk(s), NEW r \in Reqs, NEW o \in Op, Mutates(o)
  PROVE  Outcome(r, o, s, Mutated(s, r, o))
<1>1. CASE adapter = "sqlite"
  BY <1>1, SqliteMutates DEF StoreOk
<1>2. CASE adapter = "memory"
  BY <1>2, MemoryMutates DEF StoreOk
<1> QED BY <1>1, <1>2

LEMMA StoreReads ==
  ASSUME adapter \in {"sqlite", "memory"}, NEW s, StoreOk(s), NEW o \in Op
  PROVE  Snapshot0(s, o) = SnapOf(View(s), o)
<1>1. CASE adapter = "sqlite"
  BY <1>1, SqliteReads DEF StoreOk
<1>2. CASE adapter = "memory"
  BY <1>2, MemoryReads DEF StoreOk
<1> QED BY <1>1, <1>2

\* t is s with another audit log, or with other exposures.
Audited(s, t, audit) ==
  /\ StoreOk(t) /\ View(t) = [View(s) EXCEPT !.audit = audit]
  /\ \A k \in Keys : UseIn(t, k) = UseIn(s, k)

LEMMA AuditedIf ==
  ASSUME NEW s, NEW t, NEW audit, SameRows(s, t), View(t).audit = audit
  PROVE  View(t) = [View(s) EXCEPT !.audit = audit]
  BY ViewIs DEF ViewOf, SameRows

LEMMA StoreAudits ==
  ASSUME adapter \in {"sqlite", "memory"}, NEW s, StoreOk(s), NEW entry, NEW t, t = WithAudit(s, entry)
  PROVE  Audited(s, t, Append(View(s).audit, entry))
<1>1. CASE adapter = "sqlite"
  <2>1. t = Sqlite!RecordAudit(s, entry) /\ SqliteOk(s)
    BY <1>1 DEF WithAudit, StoreOk
  <2>2. /\ SqliteOk(t) /\ t.flagRow = s.flagRow /\ t.configRow = s.configRow /\ t.child = s.child
        /\ t.audit = Append(s.audit, entry) /\ t.lastUsed = s.lastUsed
    BY <1>1, <2>1, SqliteAudits
  <2>3. SameRows(s, t) /\ View(t).audit = Append(View(s).audit, entry) /\ \A k \in Keys : UseIn(t, k) = UseIn(s, k)
    BY <1>1, <2>2, SqliteView DEF SameRows
  <2> QED BY <1>1, <2>2, <2>3, AuditedIf DEF Audited, StoreOk
<1>2. CASE adapter = "memory"
  BY <1>2, MemoryAudits, AuditedIf DEF Audited, StoreOk, WithAudit
<1> QED BY <1>1, <1>2

LEMMA StoreBatches ==
  ASSUME adapter \in {"sqlite", "memory"}, NEW s, StoreOk(s), NEW rows, NEW t, t = WithBatch(s, rows)
  PROVE  /\ StoreOk(t) /\ View(t) = View(s)
         /\ \A k \in Keys : UseIn(t, k) = UseIn(s, k)
<1>1. CASE adapter = "sqlite"
  <2>1. t = Sqlite!RecordBatch(s, rows) /\ SqliteOk(s)
    BY <1>1 DEF WithBatch, StoreOk
  <2>2. /\ SqliteOk(t) /\ t.flagRow = s.flagRow /\ t.configRow = s.configRow /\ t.child = s.child
        /\ t.audit = s.audit /\ t.lastUsed = s.lastUsed
    BY <1>1, <2>1, SqliteBatches
  <2>3. SameRows(s, t) /\ View(t).audit = View(s).audit /\ \A k \in Keys : UseIn(t, k) = UseIn(s, k)
    BY <1>1, <2>2, SqliteView DEF SameRows
  <2> QED BY <1>1, <2>2, <2>3, ViewIs DEF StoreOk, SameRows, ViewOf
<1>2. CASE adapter = "memory"
  <2>1. t = Memory!RecordBatch(s, rows) /\ MemoryOk(s)
    BY <1>2 DEF WithBatch, StoreOk
  <2>2. /\ MemoryOk(t) /\ SameRows(s, t) /\ View(t).audit = View(s).audit
        /\ \A k \in Keys : UseIn(t, k) = UseIn(s, k)
    BY <1>2, <2>1, MemoryBatches
  <2> QED BY <1>2, <2>2, ViewIs DEF StoreOk, SameRows, ViewOf
<1> QED BY <1>1, <1>2

LEMMA StoreTouches ==
  ASSUME adapter \in {"sqlite", "memory"}, NEW s, StoreOk(s), NEW k \in Keys, NEW now \in Nat, NEW limit,
         NEW t, t = Touch(s, k, now, limit)
  PROVE  /\ StoreOk(t) /\ View(t) = View(s)
         /\ \A j \in Keys : UseIn(t, j) =
              IF j = k /\ (UseIn(s, k) = Never \/ UseIn(s, k) < limit) THEN now ELSE UseIn(s, j)
<1>1. CASE adapter = "sqlite"
  <2>1. t = Sqlite!Touch(s, k, now, limit) /\ SqliteOk(s)
    BY <1>1 DEF Touch, StoreOk
  <2>2. /\ SqliteOk(t) /\ t.flagRow = s.flagRow /\ t.configRow = s.configRow /\ t.child = s.child
        /\ t.audit = s.audit
        /\ \A j \in Keys : t.lastUsed[j] = UseAfter(s, k, now, limit, j)
    BY <1>1, <2>1, SqliteTouches
  <2>3. SameRows(s, t) /\ View(t).audit = View(s).audit
    BY <1>1, <2>2, SqliteView DEF SameRows
  <2>4. \A j \in Keys : UseIn(t, j) =
          IF j = k /\ (UseIn(s, k) = Never \/ UseIn(s, k) < limit) THEN now ELSE UseIn(s, j)
    BY <1>1, <2>2, SqliteView DEF UseAfter
  <2> QED BY <1>1, <2>2, <2>3, <2>4, ViewIs DEF StoreOk, SameRows, ViewOf
<1>2. CASE adapter = "memory"
  <2>1. t = Memory!Touch(s, k, now, limit) /\ MemoryOk(s)
    BY <1>2 DEF Touch, StoreOk
  <2>2. /\ MemoryOk(t) /\ SameRows(s, t) /\ View(t).audit = View(s).audit
        /\ \A j \in Keys : UseIn(t, j) =
             IF j = k /\ (UseIn(s, k) = Never \/ UseIn(s, k) < limit) THEN now ELSE UseIn(s, j)
    BY <1>2, <2>1, MemoryTouches
  <2> QED BY <1>2, <2>2, ViewIs DEF StoreOk, SameRows, ViewOf
<1> QED BY <1>1, <1>2

LEMMA StoreUse ==
  ASSUME adapter \in {"sqlite", "memory"}, NEW s, StoreOk(s), NEW k \in Keys
  PROVE  UseIn(s, k) \in Nat \cup {Never}
<1>1. CASE adapter = "sqlite"
  BY <1>1, SqliteView DEF StoreOk, SqliteOk
<1>2. CASE adapter = "memory"
  <2>1. MemoryOk(s)
    BY <1>2 DEF StoreOk
  <2>2. Shown(s)
    BY <1>2, <2>1, MemoryView
  <2>3. s.apiKeys[Memory!FindKey(s, k)] \in KeyRow
    BY <2>1, FoundKey
  <2> QED BY <2>2, <2>3 DEF Shown, KeyRow
<1> QED BY <1>1, <1>2

LEMMA StoreStarts ==
  ASSUME Init
  PROVE  /\ adapter \in {"sqlite", "memory"} /\ StoreOk(db)
         /\ View(db).flag = [f \in Flags |-> IF f \in Existing THEN NewFlagRow ELSE None]
         /\ View(db).config = [x \in Refs |-> IF x[1] \in Existing THEN NewConfigRow ELSE None]
         /\ View(db).child = [u \in Tables |-> [x \in Refs |-> {}]]
         /\ View(db).audit = <<>>
         /\ \A k \in Keys : UseIn(db, k) = Never
<1>0. adapter \in {"sqlite", "memory"}
  BY EmbeddedAssumption DEF Init, EmbeddedAssumption
<1>1. CASE adapter = "memory"
  <2>1. db = Memory!Fresh(Existing)
    BY <1>1 DEF Init
  <2> QED BY <1>1, <2>1, MemoryStarts DEF StoreOk
<1>2. CASE adapter = "sqlite"
  <2>1. db = Sqlite!Fresh(Existing)
    BY <1>2 DEF Init
  <2>2. db = [flagRow |-> [f \in Flags |-> IF f \in Existing THEN NewFlagRow ELSE None],
              configRow |-> [x \in Refs |-> IF x[1] \in Existing THEN NewConfigRow ELSE None],
              child |-> [t \in Tables |-> [x \in Refs |-> {}]],
              audit |-> <<>>, exposures |-> {}, lastUsed |-> [k \in Keys |-> Never]]
    BY <2>1, SqliteData DEF Sqlite!Fresh
  <2>3. /\ db.flagRow = [f \in Flags |-> IF f \in Existing THEN NewFlagRow ELSE None]
        /\ db.configRow = [x \in Refs |-> IF x[1] \in Existing THEN NewConfigRow ELSE None]
        /\ db.child = [t \in Tables |-> [x \in Refs |-> {}]]
        /\ db.audit = <<>> /\ db.lastUsed = [k \in Keys |-> Never]
    BY <2>2
  <2>4. SqliteOk(db)
    <3>1. \A x \in Refs : db.flagRow[x[1]] = None <=> db.configRow[x] = None
      BY <2>3, Rowless DEF Refs
    <3>2. /\ db.flagRow \in [Flags -> FlagRow \cup {None}] /\ db.configRow \in [Refs -> ConfigRow \cup {None}]
          /\ db.child \in [Tables -> [Refs -> SUBSET Row]] /\ db.lastUsed \in [Keys -> Nat \cup {Never}]
      BY <2>3, Rowless
    <3>3. db = [flagRow |-> db.flagRow, configRow |-> db.configRow, child |-> db.child,
                audit |-> db.audit, exposures |-> db.exposures, lastUsed |-> db.lastUsed]
      BY <2>2
    <3> QED BY <3>1, <3>2, <3>3 DEF SqliteOk
  <2> QED BY <1>2, <2>3, <2>4, SqliteView DEF StoreOk
<1> QED BY <1>0, <1>1, <1>2

-----------------------------------------------------------------------------
(* One request's step, and what it leaves of the others.                   *)

\* What joins the overlaps of the open units of work, all of it r's doing.
Additions(r) ==
  \A q \in Reqs :
    /\ during[q] \subseteq during'[q]
    /\ \A x \in during'[q] : x \in during[q] \/ (x[1] = r /\ q # r /\ Open(q))

Untouched(q) ==
  /\ pc'[q] = pc[q] /\ op'[q] = op[q] /\ reply'[q] = reply[q] /\ result'[q] = result[q]
  /\ before'[q] = before[q] /\ after'[q] = after[q] /\ draft'[q] = draft[q] /\ touched'[q] = touched[q]
  /\ adapter = "sqlite" /\ Open(q) => inTx' = inTx /\ saved' = saved

\* A step of request r, which was not over.
StepOf(r) ==
  /\ adapter' = adapter
  /\ pc[r] # "closed" /\ (pc[r] = "answered" => pc'[r] = "closed" /\ reply'[r] = reply[r])
  /\ \A q \in Reqs : q # r => Untouched(q)
  /\ Additions(r)

LEMMA SameAdditions ==
  ASSUME during' = during, NEW r
  PROVE  Additions(r)
<1>1. \A q \in Reqs : during[q] \subseteq during'[q]
  OBVIOUS
<1>2. \A q \in Reqs : \A x \in during'[q] : x \in during[q]
  OBVIOUS
<1> QED BY <1>1, <1>2 DEF Additions, Open

LEMMA WroteAdds ==
  ASSUME during \in [Reqs -> SUBSET (Reqs \X {"batch", "commit", "touch"})],
         NEW r \in Reqs, NEW what \in {"batch", "commit", "touch"}, Wrote(r, what)
  PROVE  /\ during' \in [Reqs -> SUBSET (Reqs \X {"batch", "commit", "touch"})]
         /\ Additions(r) /\ during'[r] = during[r]
         /\ \A q \in Reqs : q # r /\ Open(q) => <<r, what>> \in during'[q]
         /\ \A q \in Reqs : \A x : x \in during'[q] => x \in during[q] \/ x = <<r, what>>
<1>1. \A q \in Reqs : during'[q] = IF Open(q) /\ q # r THEN during[q] \cup {<<r, what>>} ELSE during[q]
  BY DEF Wrote
<1>2. \A q \in Reqs : during'[q] \in SUBSET (Reqs \X {"batch", "commit", "touch"})
  <2>1. <<r, what>> \in Reqs \X {"batch", "commit", "touch"}
    OBVIOUS
  <2>2. \A q \in Reqs : during[q] \subseteq Reqs \X {"batch", "commit", "touch"}
    OBVIOUS
  <2> SUFFICES ASSUME NEW q \in Reqs PROVE during'[q] \in SUBSET (Reqs \X {"batch", "commit", "touch"})
    OBVIOUS
  <2>3. during'[q] = during[q] \/ during'[q] = during[q] \cup {<<r, what>>}
    BY <1>1
  <2> QED BY <2>1, <2>2, <2>3
<1>3. during' \in [Reqs -> SUBSET (Reqs \X {"batch", "commit", "touch"})]
  BY <1>2 DEF Wrote
<1>4. \A q \in Reqs : \A x : x \in during'[q] => x \in during[q] \/ (x = <<r, what>> /\ q # r /\ Open(q))
  BY <1>1 DEF Open
<1>5. Additions(r)
  <2>1. \A q \in Reqs : during[q] \subseteq during'[q]
    BY <1>1
  <2>2. \A q \in Reqs : \A x \in during'[q] : x \in during[q] \/ (x[1] = r /\ q # r /\ Open(q))
    BY <1>4
  <2> QED BY <2>1, <2>2 DEF Additions
<1> QED BY <1>1, <1>3, <1>4, <1>5

LEMMA OthersKeep ==
  ASSUME FlowInv, NEW r \in Reqs, StepOf(r), NEW q \in Reqs, q # r
  PROVE  RequestInv(q)' /\ (Open(q)' <=> Open(q))
<1>1. /\ RequestInv(q) /\ Untouched(q) /\ adapter' = adapter
      /\ pc[r] # "closed" => \A s \in Reqs : <<r, "touch">> \notin during[s]
  BY DEF FlowInv, StepOf, RequestInv
<1>2. Open(q)' <=> Open(q)
  BY <1>1 DEF Untouched, Open
<1>3. pc[q] = "idle" => during'[q] = {}
  BY <1>1 DEF RequestInv, StepOf, Additions, Open
<1>4. pc[q] # "closed" => \A s \in Reqs : <<q, "touch">> \notin during'[s]
  <2>1. \A s \in Reqs : <<q, "touch">> \in during'[s] => <<q, "touch">> \in during[s]
    BY DEF StepOf, Additions
  <2> QED BY <1>1, <2>1 DEF RequestInv
<1>5. Open(q) => IF adapter' = "sqlite" THEN inTx' = q /\ StoreOk(saved)' ELSE StoreOk(draft[q])'
  <2> SUFFICES ASSUME Open(q) PROVE IF adapter' = "sqlite" THEN inTx' = q /\ StoreOk(saved)' ELSE StoreOk(draft[q])'
    OBVIOUS
  <2>1. IF adapter = "sqlite" THEN inTx = q /\ StoreOk(saved) ELSE StoreOk(draft[q])
    BY <1>1 DEF RequestInv
  <2>2. \A s : StoreOk(s)' <=> StoreOk(s)
    BY <1>1, Rigid
  <2>3. CASE adapter = "sqlite"
    <3>1. inTx' = q /\ saved' = saved
      BY <1>1, <2>1, <2>3 DEF Untouched
    <3>2. StoreOk(saved)'
      BY <2>1, <2>2, <2>3, <3>1
    <3> QED BY <1>1, <2>3, <3>1, <3>2
  <2>4. CASE adapter # "sqlite"
    <3>1. draft'[q] = draft[q]
      BY <1>1 DEF Untouched
    <3>2. StoreOk(draft[q])'
      BY <2>1, <2>2, <2>4, <3>1
    <3> QED BY <1>1, <2>4, <3>2
  <2> QED BY <2>3, <2>4
<1> HIDE DEF NothingRead, NoReply
<1>6. /\ pc'[q] = pc[q] /\ op'[q] = op[q] /\ reply'[q] = reply[q] /\ result'[q] = result[q]
      /\ before'[q] = before[q] /\ touched'[q] = touched[q]
  BY <1>1 DEF Untouched
<1>7. pc'[q] = "idle" => /\ op'[q] = None /\ reply'[q] = NoReply /\ before'[q] = NothingRead
                         /\ touched'[q].key = None /\ during'[q] = {}
  BY <1>1, <1>3, <1>6 DEF RequestInv
<1>8. /\ pc'[q] \notin {"idle", "closed"} => touched'[q].key \in Keys
      /\ pc'[q] # "closed" => ~touched'[q].failed /\ \A s \in Reqs : <<q, "touch">> \notin during'[s]
  BY <1>1, <1>4, <1>6 DEF RequestInv
<1>9. Open(q)' => /\ op'[q] \in Op /\ Mutates(op'[q]) /\ reply'[q] = NoReply
                  /\ pc'[q] = "abort" => result'[q].status # "ok"
  BY <1>1, <1>2, <1>6 DEF RequestInv
<1> QED BY <1>2, <1>5, <1>7, <1>8, <1>9 DEF RequestInv

LEMMA TransactionKeeps ==
  ASSUME FlowInv, NEW r \in Reqs, StepOf(r), inTx' = inTx, saved' = saved, Open(r) => Open(r)'
  PROVE  TransactionInv'
<1>1. adapter' = adapter /\ TransactionInv
  BY DEF FlowInv, StepOf
<1>2. CASE adapter = "sqlite" /\ inTx # None
  <2>1. inTx \in Reqs /\ Open(inTx)
    BY <1>1, <1>2 DEF TransactionInv
  <2>2. pc'[inTx] \in {"mutate", "after", "record", "commit", "abort"}
    <3>1. CASE inTx = r
      BY <2>1, <3>1 DEF Open
    <3>2. CASE inTx # r
      BY <2>1, <3>2, OthersKeep DEF Open
    <3> QED BY <3>1, <3>2
  <2> QED BY <1>1, <1>2, <2>1, <2>2 DEF TransactionInv, Open
<1>3. CASE ~(adapter = "sqlite" /\ inTx # None)
  BY <1>1, <1>3 DEF TransactionInv
<1> QED BY <1>2, <1>3

\* The parts of FlowInv a step of r must still show.
LEMMA FlowFrom ==
  ASSUME FlowInv, NEW r \in Reqs, StepOf(r), TypesInv', TransactionInv', RequestInv(r)'
  PROVE  FlowInv'
  BY OthersKeep DEF FlowInv

LEMMA SameStore ==
  ASSUME adapter' = adapter, StoreOk(db')
  PROVE  StoreOk(db)'
<1>1. \A s : StoreOk(s)' <=> StoreOk(s)
  BY Rigid
<1> QED BY <1>1

LEMMA Requested ==
  ASSUME NEW r \in Reqs, NEW o \in Workload[r] \cup Batches[r]
  PROVE  /\ o \in Op \cup BatchOp
         /\ o.kind # "exposures" \/ Mutates(o) => o \in Op /\ o \in Workload[r] /\ o.kind # "exposures"
<1>1. o \in Workload[r] => o \in Op
  BY FlagDataAssumption DEF FlagDataAssumption
<1>2. o \in Batches[r] => o \in BatchOp
  BY EmbeddedAssumption DEF EmbeddedAssumption
<1>3. o \in BatchOp => o.kind = "exposures" /\ ~Mutates(o)
  BY DEF BatchOp, Mutates, OnConfig, Tables
<1>4. o \in Op => o.kind # "exposures"
  BY OpFields
<1> QED BY <1>1, <1>2, <1>3, <1>4

LEMMA Arrives ==
  ASSUME FlowInv, NEW r \in Reqs, NEW c, NEW o, Admit(r, c, o)
  PROVE  /\ pc[r] = "idle" /\ ~Open(r) /\ op[r] = None /\ reply[r] = NoReply /\ before[r] = NothingRead
         /\ during[r] = {} /\ \A s \in Reqs : <<r, "touch">> \notin during[s]
         /\ c \in Keys /\ touched'[r].key = c /\ ~touched'[r].failed
         /\ touched' \in [Reqs -> [key : Keys \cup {None}, failed : BOOLEAN]]
         /\ \A q \in Reqs : q # r => touched'[q] = touched[q]
         /\ adapter' = adapter /\ clock' = clock /\ lastTouch' = lastTouch /\ used' = used
<1>1. RequestInv(r) /\ touched \in [Reqs -> [key : Keys \cup {None}, failed : BOOLEAN]]
  BY DEF FlowInv, TypesInv
<1>2. pc[r] = "idle" /\ c \in Keys /\ touched' = [touched EXCEPT ![r].key = c]
  BY DEF Admit, Admitted
<1> DEFINE new == [key |-> c, failed |-> touched[r].failed]
<1>3. touched' = [touched EXCEPT ![r] = new]
  <2>1. touched[r] \in [key : Keys \cup {None}, failed : BOOLEAN]
    BY <1>1
  <2>2. [touched[r] EXCEPT !.key = c] = new
    BY <2>1
  <2>3. touched' = [touched EXCEPT ![r] = [touched[r] EXCEPT !.key = c]]
    BY <1>1, <1>2
  <2> QED BY <2>2, <2>3
<1>4. new \in [key : Keys \cup {None}, failed : BOOLEAN] /\ new.key = c /\ new.failed = touched[r].failed
  BY <1>1, <1>2
<1> HIDE DEF new
<1>5. touched' \in [Reqs -> [key : Keys \cup {None}, failed : BOOLEAN]]
  BY <1>1, <1>3, <1>4
<1>6. touched'[r] = new /\ \A q \in Reqs : q # r => touched'[q] = touched[q]
  BY <1>1, <1>3
<1>7. ~touched[r].failed /\ ~Open(r)
  BY <1>1, <1>2 DEF RequestInv, Open
<1> QED BY <1>1, <1>2, <1>4, <1>5, <1>6, <1>7 DEF RequestInv, Admit

LEMMA Answers ==
  ASSUME TypesInv, NEW r \in Reqs, NEW status \in Status, NEW version \in Nat, Answer(r, status, version)
  PROVE  /\ pc' \in [Reqs -> Labels] /\ reply' \in [Reqs -> Replies]
         /\ pc'[r] = "answered" /\ reply'[r] = [status |-> status, version |-> version]
         /\ \A q \in Reqs : q # r => pc'[q] = pc[q] /\ reply'[q] = reply[q]
<1>1. pc \in [Reqs -> Labels] /\ reply \in [Reqs -> Replies]
  BY DEF TypesInv
<1>2. [status |-> status, version |-> version] \in Replies
  BY DEF Replies
<1>3. "answered" \in Labels
  BY DEF Labels
<1> QED BY <1>1, <1>2, <1>3 DEF Answer

LEMMA TurnAwayFlow ==
  ASSUME FlowInv, NEW r \in Reqs, NEW c, NEW o, TurnAway(r, c, o)
  PROVE  FlowInv' /\ StepOf(r)
<1>1. /\ pc[r] = "idle" /\ RequestInv(r) /\ TypesInv /\ ~Open(r)
  BY DEF FlowInv, TurnAway, Open
<1> DEFINE answer == [status |-> IF c \in Keys THEN "forbidden" ELSE "unauthorized", version |-> 0]
<1>2. answer \in Replies
  BY DEF Replies
<1>3. reply' = [reply EXCEPT ![r] = answer] /\ pc' = [pc EXCEPT ![r] = "closed"]
  BY DEF TurnAway
<1>4. pc \in [Reqs -> Labels] /\ reply \in [Reqs -> Replies] /\ "closed" \in Labels
  BY <1>1 DEF TypesInv, Labels
<1> HIDE DEF answer
<1>5. /\ pc' \in [Reqs -> Labels] /\ reply' \in [Reqs -> Replies] /\ pc'[r] = "closed"
      /\ \A q \in Reqs : q # r => pc'[q] = pc[q] /\ reply'[q] = reply[q]
  BY <1>2, <1>3, <1>4
<1>6. adapter' = adapter /\ db' = db /\ during' = during /\ inTx' = inTx /\ saved' = saved
  BY DEF TurnAway
<1>7. StepOf(r)
  BY <1>1, <1>5, <1>6, SameAdditions DEF StepOf, Untouched, TurnAway, hook
<1>8. StoreOk(db)'
  BY <1>1, <1>6, SameStore DEF TypesInv
<1>9. TypesInv'
  BY <1>1, <1>5, <1>8 DEF TypesInv, TurnAway, hook
<1>10. RequestInv(r)'
  BY <1>5 DEF RequestInv, Open
<1>11. TransactionInv'
  BY <1>1, <1>6, <1>7, TransactionKeeps
<1> QED BY <1>7, <1>9, <1>10, <1>11, FlowFrom

LEMMA ReadFlow ==
  ASSUME FlowInv, NEW r \in Reqs, NEW c, NEW o \in Workload[r] \cup Batches[r], Read(r, c, o)
  PROVE  FlowInv' /\ StepOf(r)
<1>1. TypesInv /\ Admit(r, c, o) /\ o \in Op \cup BatchOp
  BY Requested DEF FlowInv, Read
<1>2. /\ pc[r] = "idle" /\ ~Open(r) /\ c \in Keys /\ touched'[r].key = c /\ ~touched'[r].failed
      /\ touched' \in [Reqs -> [key : Keys \cup {None}, failed : BOOLEAN]]
      /\ \A q \in Reqs : q # r => touched'[q] = touched[q]
      /\ \A s \in Reqs : <<r, "touch">> \notin during[s]
      /\ adapter' = adapter /\ clock' = clock /\ lastTouch' = lastTouch /\ used' = used
  BY <1>1, Arrives
<1>3. /\ pc' \in [Reqs -> Labels] /\ reply' \in [Reqs -> Replies] /\ pc'[r] = "answered"
      /\ \A q \in Reqs : q # r => pc'[q] = pc[q] /\ reply'[q] = reply[q]
  <2>1. ReadStatus(o) \in Status /\ 0 \in Nat /\ Answer(r, ReadStatus(o), 0)
    BY DEF Read, ReadStatus, Status
  <2> QED BY <1>1, <2>1, Answers
<1>4. op' \in [Reqs -> Op \cup BatchOp \cup {None}] /\ \A q \in Reqs : q # r => op'[q] = op[q]
  BY <1>1 DEF Read, TypesInv
<1>5. db' = db /\ during' = during /\ inTx' = inTx /\ saved' = saved
  BY DEF Read
<1>6. StepOf(r)
  BY <1>2, <1>3, <1>4, <1>5, SameAdditions DEF StepOf, Untouched, Read
<1>7. StoreOk(db)'
  BY <1>1, <1>2, <1>5, SameStore DEF TypesInv
<1>8. TypesInv'
  BY <1>1, <1>2, <1>3, <1>4, <1>7 DEF TypesInv, Read
<1>9. RequestInv(r)'
  BY <1>2, <1>3, <1>5 DEF RequestInv, Open
<1>10. TransactionInv'
  BY <1>2, <1>5, <1>6, TransactionKeeps
<1> QED BY <1>6, <1>8, <1>9, <1>10, FlowFrom

LEMMA RecordExposuresFlow ==
  ASSUME FlowInv, NEW r \in Reqs, NEW c, NEW o \in Workload[r] \cup Batches[r], RecordExposures(r, c, o)
  PROVE  /\ FlowInv' /\ StepOf(r)
         /\ View(db') = View(db) /\ \A k \in Keys : UseIn(db', k) = UseIn(db, k)
<1>1. TypesInv /\ Admit(r, c, o) /\ o \in Op \cup BatchOp
  BY Requested DEF FlowInv, RecordExposures
<1>2. /\ pc[r] = "idle" /\ ~Open(r) /\ c \in Keys /\ touched'[r].key = c /\ ~touched'[r].failed
      /\ touched' \in [Reqs -> [key : Keys \cup {None}, failed : BOOLEAN]]
      /\ \A q \in Reqs : q # r => touched'[q] = touched[q]
      /\ \A s \in Reqs : <<r, "touch">> \notin during[s]
      /\ adapter' = adapter /\ clock' = clock /\ lastTouch' = lastTouch /\ used' = used
  BY <1>1, Arrives
<1>3. /\ pc' \in [Reqs -> Labels] /\ reply' \in [Reqs -> Replies] /\ pc'[r] = "answered"
      /\ \A q \in Reqs : q # r => pc'[q] = pc[q] /\ reply'[q] = reply[q]
  <2>1. "ok" \in Status /\ 0 \in Nat /\ Answer(r, "ok", 0)
    BY DEF RecordExposures, Status
  <2> QED BY <1>1, <2>1, Answers
<1>4. op' \in [Reqs -> Op \cup BatchOp \cup {None}] /\ \A q \in Reqs : q # r => op'[q] = op[q]
  BY <1>1 DEF RecordExposures, TypesInv
<1>5. inTx' = inTx /\ saved' = saved /\ draft' = draft /\ before' = before /\ result' = result /\ after' = after
  BY DEF RecordExposures
<1>6. /\ during' \in [Reqs -> SUBSET (Reqs \X {"batch", "commit", "touch"})] /\ Additions(r)
      /\ \A q \in Reqs : \A x : x \in during'[q] => x \in during[q] \/ x = <<r, "batch">>
  <2>1. Wrote(r, "batch") /\ during \in [Reqs -> SUBSET (Reqs \X {"batch", "commit", "touch"})]
    BY <1>1 DEF RecordExposures, TypesInv
  <2> QED BY <2>1, WroteAdds
<1>7. StepOf(r)
  BY <1>2, <1>3, <1>4, <1>5, <1>6 DEF StepOf, Untouched
<1>8. StoreOk(db') /\ View(db') = View(db) /\ \A k \in Keys : UseIn(db', k) = UseIn(db, k)
  <2>1. adapter \in {"sqlite", "memory"} /\ StoreOk(db)
    BY <1>1 DEF TypesInv
  <2>2. \E rows : db' = WithBatch(db, rows)
    BY DEF RecordExposures
  <2>3. PICK rows : db' = WithBatch(db, rows)
    BY <2>2
  <2> QED BY <2>1, <2>3, StoreBatches
<1>9. TypesInv'
  <2>1. StoreOk(db)'
    BY <1>2, <1>8, SameStore
  <2> QED BY <1>1, <1>2, <1>3, <1>4, <1>5, <1>6, <2>1 DEF TypesInv
<1>10. RequestInv(r)'
  <2>1. \A s \in Reqs : <<r, "touch">> \notin during'[s]
    BY <1>2, <1>6
  <2> QED BY <1>2, <1>3, <2>1 DEF RequestInv, Open
<1>11. TransactionInv'
  BY <1>2, <1>5, <1>7, TransactionKeeps
<1> QED BY <1>7, <1>8, <1>9, <1>10, <1>11, FlowFrom

LEMMA BeginWithinFlow ==
  ASSUME FlowInv, NEW r \in Reqs, NEW c, NEW o, BeginWithin(r, c, o)
  PROVE  FlowInv' /\ StepOf(r)
<1>1. TypesInv /\ Admit(r, c, o)
  BY DEF FlowInv, BeginWithin
<1>2. /\ pc[r] = "idle" /\ ~Open(r) /\ c \in Keys /\ touched'[r].key = c /\ ~touched'[r].failed
      /\ touched' \in [Reqs -> [key : Keys \cup {None}, failed : BOOLEAN]]
      /\ \A q \in Reqs : q # r => touched'[q] = touched[q]
      /\ \A s \in Reqs : <<r, "touch">> \notin during[s]
      /\ adapter' = adapter /\ clock' = clock /\ lastTouch' = lastTouch /\ used' = used
  BY <1>1, Arrives
<1>3. /\ pc' \in [Reqs -> Labels] /\ reply' \in [Reqs -> Replies] /\ pc'[r] = "answered"
      /\ \A q \in Reqs : q # r => pc'[q] = pc[q] /\ reply'[q] = reply[q]
  <2>1. "error" \in Status /\ 0 \in Nat /\ Answer(r, "error", 0)
    BY DEF BeginWithin, Status
  <2> QED BY <1>1, <2>1, Answers
<1>5. db' = db /\ during' = during /\ inTx' = inTx /\ saved' = saved
  BY DEF BeginWithin
<1>6. StepOf(r)
  BY <1>2, <1>3, <1>5, SameAdditions DEF StepOf, Untouched, BeginWithin
<1>7. StoreOk(db)'
  BY <1>1, <1>2, <1>5, SameStore DEF TypesInv
<1>8. TypesInv'
  BY <1>1, <1>2, <1>3, <1>7 DEF TypesInv, BeginWithin
<1>9. RequestInv(r)'
  BY <1>2, <1>3, <1>5 DEF RequestInv, Open
<1>10. TransactionInv'
  BY <1>2, <1>5, <1>6, TransactionKeeps
<1> QED BY <1>6, <1>8, <1>9, <1>10, FlowFrom

\* BEGIN finds no other transaction open; the clone does not care.
LEMMA Opens ==
  ASSUME FlowInv, NEW r \in Reqs, NEW c, NEW o \in Workload[r] \cup Batches[r], OpenUnit(r, c, o)
  PROVE  /\ o \in Op /\ Mutates(o) /\ o \in Workload[r]
         /\ op' \in [Reqs -> Op \cup BatchOp \cup {None}] /\ op'[r] = o
         /\ \A q \in Reqs : q # r => op'[q] = op[q]
         /\ reply' = reply /\ during' = during
         /\ IF adapter = "sqlite" THEN inTx = None /\ inTx' = r /\ saved' = db
            ELSE inTx' = None /\ saved' = None /\ inTx = None /\ saved = None
         /\ adapter = "sqlite" => \A q \in Reqs : ~Open(q)
<1>1. o \in Op /\ Mutates(o) /\ o \in Workload[r]
  BY Requested DEF OpenUnit
<1>2. op' \in [Reqs -> Op \cup BatchOp \cup {None}] /\ op'[r] = o /\ \A q \in Reqs : q # r => op'[q] = op[q]
  BY <1>1 DEF OpenUnit, FlowInv, TypesInv
<1>3. adapter = "sqlite" => \A q \in Reqs : ~Open(q)
  <2>1. \A q \in Reqs : q # None
    BY Rowless
  <2> QED BY <2>1 DEF OpenUnit, FlowInv, RequestInv
<1>4. IF adapter = "sqlite" THEN inTx = None /\ inTx' = r /\ saved' = db
      ELSE inTx' = None /\ saved' = None /\ inTx = None /\ saved = None
  BY DEF OpenUnit, FlowInv, TransactionInv
<1> QED BY <1>1, <1>2, <1>3, <1>4 DEF OpenUnit

\* The mutating call: what it leaves in r's store, and where r goes from there.
LEMMA Applies ==
  ASSUME TypesInv, NEW r \in Reqs, NEW s, StoreOk(s), NEW o \in Op, Mutates(o),
         NEW next \in {"after", "record"}, Apply(r, s, o, next), NEW d, d = Mutated(s, r, o)
  PROVE  /\ Outcome(r, o, s, d)
         /\ IF adapter = "sqlite" THEN db' = d.store /\ draft' = draft
            ELSE db' = db /\ draft'[r] = d.store /\ \A q \in Reqs : q # r => draft'[q] = draft[q]
         /\ DOMAIN draft' = Reqs /\ DOMAIN after' = Reqs
         /\ result' \in [Reqs -> Reply] /\ result'[r] = [status |-> d.status, version |-> d.version]
         /\ pc' \in [Reqs -> Labels] /\ pc'[r] = IF d.status = "ok" THEN next ELSE "abort"
         /\ after'[r] = IF o.kind = "create" /\ d.status = "ok" THEN Snapshot0(d.store, o) ELSE after[r]
         /\ \A q \in Reqs : q # r => pc'[q] = pc[q] /\ result'[q] = result[q] /\ after'[q] = after[q]
<1>1. adapter \in {"sqlite", "memory"} /\ Outcome(r, o, s, d)
  BY StoreMutates DEF TypesInv
<1>2. IF adapter = "sqlite" THEN db' = d.store /\ draft' = draft
      ELSE db' = db /\ draft' = [draft EXCEPT ![r] = d.store]
  BY DEF Apply
<1>3. DOMAIN draft = Reqs /\ DOMAIN after = Reqs
  BY DEF TypesInv
<1>4. /\ IF adapter = "sqlite" THEN db' = d.store /\ draft' = draft
         ELSE db' = db /\ draft'[r] = d.store /\ \A q \in Reqs : q # r => draft'[q] = draft[q]
      /\ DOMAIN draft' = Reqs
  BY <1>2, <1>3
<1> DEFINE answer == [status |-> d.status, version |-> d.version]
           go == IF d.status = "ok" THEN next ELSE "abort"
           seen == IF o.kind = "create" /\ d.status = "ok" THEN Snapshot0(d.store, o) ELSE after[r]
<1>5. answer \in Reply
  BY <1>1 DEF Outcome, Reply
<1>6. go \in Labels
  BY DEF Labels
<1>7. /\ result' = [result EXCEPT ![r] = answer] /\ pc' = [pc EXCEPT ![r] = go]
      /\ after' = [after EXCEPT ![r] = seen]
  BY <1>3 DEF Apply
<1>8. result \in [Reqs -> Reply] /\ pc \in [Reqs -> Labels]
  BY DEF TypesInv
<1> HIDE DEF answer, go, seen
<1>9. /\ result' \in [Reqs -> Reply] /\ result'[r] = answer /\ pc' \in [Reqs -> Labels] /\ pc'[r] = go
      /\ DOMAIN after' = Reqs /\ after'[r] = seen
      /\ \A q \in Reqs : q # r => pc'[q] = pc[q] /\ result'[q] = result[q] /\ after'[q] = after[q]
  BY <1>3, <1>5, <1>6, <1>7, <1>8
<1> QED BY <1>1, <1>4, <1>9 DEF answer, go, seen

LEMMA BeginFlow ==
  ASSUME FlowInv, NEW r \in Reqs, NEW c, NEW o \in Workload[r] \cup Batches[r], Begin(r, c, o)
  PROVE  FlowInv' /\ StepOf(r)
<1>1. TypesInv /\ Admit(r, c, o) /\ OpenUnit(r, c, o) /\ adapter \in {"sqlite", "memory"}
  BY DEF FlowInv, Begin, OpenUnit, TypesInv
<1>2. /\ pc[r] = "idle" /\ ~Open(r) /\ c \in Keys /\ touched'[r].key = c /\ ~touched'[r].failed
      /\ reply[r] = NoReply
      /\ touched' \in [Reqs -> [key : Keys \cup {None}, failed : BOOLEAN]]
      /\ \A q \in Reqs : q # r => touched'[q] = touched[q]
      /\ \A s \in Reqs : <<r, "touch">> \notin during[s]
      /\ adapter' = adapter /\ clock' = clock /\ lastTouch' = lastTouch /\ used' = used
  BY <1>1, Arrives
<1>3. /\ o \in Op /\ Mutates(o)
      /\ op' \in [Reqs -> Op \cup BatchOp \cup {None}] /\ op'[r] = o
      /\ \A q \in Reqs : q # r => op'[q] = op[q]
      /\ reply' = reply /\ during' = during
      /\ IF adapter = "sqlite" THEN inTx' = r /\ saved' = db ELSE inTx' = None /\ saved' = None
      /\ adapter = "sqlite" => \A q \in Reqs : ~Open(q)
  BY <1>1, Opens
<1>4. /\ pc' \in [Reqs -> Labels] /\ pc'[r] = "mutate" /\ \A q \in Reqs : q # r => pc'[q] = pc[q]
  <2>1. pc \in [Reqs -> Labels] /\ "mutate" \in Labels /\ pc' = [pc EXCEPT ![r] = "mutate"]
    BY <1>1 DEF TypesInv, Labels, Begin
  <2> QED BY <2>1
<1>5. /\ DOMAIN before' = Reqs /\ DOMAIN draft' = Reqs /\ before'[r] = Snapshot0(db, o)
      /\ \A q \in Reqs : q # r => before'[q] = before[q] /\ draft'[q] = draft[q]
      /\ adapter = "memory" => draft'[r] = db
      /\ db' = db /\ result' = result /\ after' = after
  <2>1. DOMAIN before = Reqs /\ DOMAIN draft = Reqs
    BY <1>1 DEF TypesInv
  <2>2. /\ before' = [before EXCEPT ![r] = Snapshot0(db, o)] /\ db' = db /\ result' = result /\ after' = after
        /\ draft' = IF adapter = "sqlite" THEN draft ELSE [draft EXCEPT ![r] = db]
    BY DEF Begin
  <2> QED BY <1>1, <2>1, <2>2
<1>6. StepOf(r)
  BY <1>2, <1>3, <1>4, <1>5, SameAdditions DEF StepOf, Untouched
<1>7. StoreOk(db) /\ StoreOk(db)' /\ StoreOk(db') /\ \A s : StoreOk(s)' <=> StoreOk(s)
  BY <1>1, <1>2, <1>5, SameStore, Rigid DEF TypesInv
<1>8. TypesInv'
  BY <1>1, <1>2, <1>3, <1>4, <1>5, <1>7 DEF TypesInv
<1>9. RequestInv(r)'
  <2>1. CASE adapter = "sqlite"
    <3>1. StoreOk(saved)'
      BY <1>3, <1>7, <2>1
    <3> QED BY <1>2, <1>3, <1>4, <2>1, <3>1 DEF RequestInv, Open
  <2>2. CASE adapter = "memory"
    <3>1. StoreOk(draft[r])'
      BY <1>5, <1>7, <2>2
    <3> QED BY <1>2, <1>3, <1>4, <2>2, <3>1 DEF RequestInv, Open
  <2> QED BY <1>1, <2>1, <2>2
<1>10. TransactionInv'
  BY <1>2, <1>3, <1>4 DEF TransactionInv, Open
<1> QED BY <1>6, <1>8, <1>9, <1>10, FlowFrom

LEMMA BeginCreateFlow ==
  ASSUME FlowInv, NEW r \in Reqs, NEW c, NEW o \in Workload[r] \cup Batches[r], BeginCreate(r, c, o)
  PROVE  FlowInv' /\ StepOf(r)
<1>1. /\ TypesInv /\ Admit(r, c, o) /\ OpenUnit(r, c, o) /\ adapter \in {"sqlite", "memory"} /\ StoreOk(db)
      /\ Apply(r, db, o, "record") /\ before' = before
  BY DEF FlowInv, BeginCreate, OpenUnit, TypesInv
<1>2. /\ pc[r] = "idle" /\ ~Open(r) /\ c \in Keys /\ touched'[r].key = c /\ ~touched'[r].failed
      /\ reply[r] = NoReply
      /\ touched' \in [Reqs -> [key : Keys \cup {None}, failed : BOOLEAN]]
      /\ \A q \in Reqs : q # r => touched'[q] = touched[q]
      /\ \A s \in Reqs : <<r, "touch">> \notin during[s]
      /\ adapter' = adapter /\ clock' = clock /\ lastTouch' = lastTouch /\ used' = used
  BY <1>1, Arrives
<1>3. /\ o \in Op /\ Mutates(o)
      /\ op' \in [Reqs -> Op \cup BatchOp \cup {None}] /\ op'[r] = o
      /\ \A q \in Reqs : q # r => op'[q] = op[q]
      /\ reply' = reply /\ during' = during
      /\ IF adapter = "sqlite" THEN inTx' = r /\ saved' = db ELSE inTx' = None /\ saved' = None
      /\ adapter = "sqlite" => \A q \in Reqs : ~Open(q)
  BY <1>1, Opens
<1>4. PICK d : d = Mutated(db, r, o)
  OBVIOUS
<1>5. /\ Outcome(r, o, db, d)
      /\ IF adapter = "sqlite" THEN db' = d.store /\ draft' = draft
         ELSE db' = db /\ draft'[r] = d.store /\ \A q \in Reqs : q # r => draft'[q] = draft[q]
      /\ DOMAIN draft' = Reqs /\ DOMAIN after' = Reqs
      /\ result' \in [Reqs -> Reply] /\ result'[r] = [status |-> d.status, version |-> d.version]
      /\ pc' \in [Reqs -> Labels] /\ pc'[r] = IF d.status = "ok" THEN "record" ELSE "abort"
      /\ \A q \in Reqs : q # r => pc'[q] = pc[q] /\ result'[q] = result[q] /\ after'[q] = after[q]
  BY <1>1, <1>3, <1>4, Applies
<1>6. StepOf(r)
  BY <1>1, <1>2, <1>3, <1>5, SameAdditions DEF StepOf, Untouched
<1>7. StoreOk(db)' /\ StoreOk(d.store) /\ \A s : StoreOk(s)' <=> StoreOk(s)
  BY <1>1, <1>2, <1>5, SameStore, Rigid DEF Outcome
<1>8. TypesInv'
  BY <1>1, <1>2, <1>3, <1>5, <1>7 DEF TypesInv
<1>9. RequestInv(r)'
  <2>0. pc'[r] = "abort" => result'[r].status # "ok"
    BY <1>5
  <2>1. CASE adapter = "sqlite"
    <3>1. StoreOk(saved)'
      BY <1>1, <1>3, <1>7, <2>1
    <3> QED BY <1>2, <1>3, <1>5, <2>0, <2>1, <3>1 DEF RequestInv, Open
  <2>2. CASE adapter = "memory"
    <3>1. StoreOk(draft[r])'
      BY <1>5, <1>7, <2>2
    <3> QED BY <1>2, <1>3, <1>5, <2>0, <2>2, <3>1 DEF RequestInv, Open
  <2> QED BY <1>1, <2>1, <2>2
<1>10. TransactionInv'
  BY <1>2, <1>3, <1>5 DEF TransactionInv, Open
<1> QED BY <1>6, <1>8, <1>9, <1>10, FlowFrom

\* What the flow invariant says of an open unit of work.
LEMMA Unit ==
  ASSUME FlowInv, NEW r \in Reqs, Open(r)
  PROVE  /\ TypesInv /\ TransactionInv /\ adapter \in {"sqlite", "memory"} /\ StoreOk(db)
         /\ op[r] \in Op /\ Mutates(op[r]) /\ reply[r] = NoReply /\ ~touched[r].failed /\ touched[r].key \in Keys
         /\ \A s \in Reqs : <<r, "touch">> \notin during[s]
         /\ IF adapter = "sqlite" THEN inTx = r /\ StoreOk(saved) /\ Mine(r) = db /\ Committed = saved
            ELSE StoreOk(draft[r]) /\ Mine(r) = draft[r] /\ Committed = db /\ inTx = None /\ saved = None
         /\ StoreOk(Mine(r)) /\ StoreOk(Committed)
         /\ result[r] \in Reply /\ (pc[r] = "abort" => result[r].status # "ok")
         /\ adapter = "sqlite" => \A q \in Reqs : q # r => ~Open(q)
<1>1. RequestInv(r) /\ TypesInv /\ TransactionInv /\ \A q \in Reqs : RequestInv(q)
  BY DEF FlowInv
<1>2. adapter \in {"sqlite", "memory"} /\ StoreOk(db) /\ result[r] \in Reply
  BY <1>1 DEF TypesInv
<1>3. /\ op[r] \in Op /\ Mutates(op[r]) /\ reply[r] = NoReply /\ ~touched[r].failed /\ touched[r].key \in Keys
      /\ \A s \in Reqs : <<r, "touch">> \notin during[s]
      /\ pc[r] = "abort" => result[r].status # "ok"
      /\ IF adapter = "sqlite" THEN inTx = r /\ StoreOk(saved) ELSE StoreOk(draft[r])
  BY <1>1 DEF RequestInv, Open
<1>4. adapter = "sqlite" => \A q \in Reqs : q # r => ~Open(q)
  BY <1>1, <1>3 DEF RequestInv
<1>5. r # None
  BY Rowless
<1> QED BY <1>1, <1>2, <1>3, <1>4, <1>5 DEF Mine, Committed, TransactionInv

LEMMA MutateFlow ==
  ASSUME FlowInv, NEW r \in Reqs, Mutate(r)
  PROVE  FlowInv' /\ StepOf(r)
<1>1. Open(r) /\ pc[r] = "mutate" /\ Apply(r, Mine(r), op[r], "after")
  BY DEF Mutate, Open
<1>2. /\ TypesInv /\ adapter \in {"sqlite", "memory"} /\ StoreOk(db) /\ StoreOk(Mine(r))
      /\ op[r] \in Op /\ Mutates(op[r]) /\ reply[r] = NoReply /\ ~touched[r].failed /\ touched[r].key \in Keys
      /\ \A s \in Reqs : <<r, "touch">> \notin during[s]
      /\ IF adapter = "sqlite" THEN inTx = r /\ StoreOk(saved) ELSE StoreOk(draft[r])
      /\ adapter = "sqlite" => \A q \in Reqs : q # r => ~Open(q)
  BY <1>1, Unit
<1>3. /\ adapter' = adapter /\ saved' = saved /\ inTx' = inTx /\ op' = op /\ reply' = reply /\ before' = before
      /\ clock' = clock /\ lastTouch' = lastTouch /\ touched' = touched /\ used' = used /\ during' = during
  BY DEF Mutate, hook
<1>4. PICK d : d = Mutated(Mine(r), r, op[r])
  OBVIOUS
<1>5. /\ Outcome(r, op[r], Mine(r), d)
      /\ IF adapter = "sqlite" THEN db' = d.store /\ draft' = draft
         ELSE db' = db /\ draft'[r] = d.store /\ \A q \in Reqs : q # r => draft'[q] = draft[q]
      /\ DOMAIN draft' = Reqs /\ DOMAIN after' = Reqs
      /\ result' \in [Reqs -> Reply] /\ result'[r] = [status |-> d.status, version |-> d.version]
      /\ pc' \in [Reqs -> Labels] /\ pc'[r] = IF d.status = "ok" THEN "after" ELSE "abort"
      /\ \A q \in Reqs : q # r => pc'[q] = pc[q] /\ result'[q] = result[q] /\ after'[q] = after[q]
  BY <1>1, <1>2, <1>4, Applies
<1>6. StepOf(r)
  BY <1>1, <1>3, <1>5, SameAdditions DEF StepOf, Untouched
<1>7. StoreOk(db)' /\ StoreOk(d.store) /\ \A s : StoreOk(s)' <=> StoreOk(s)
  BY <1>2, <1>3, <1>5, SameStore, Rigid DEF Outcome
<1>8. TypesInv'
  BY <1>2, <1>3, <1>5, <1>7 DEF TypesInv
<1>9. RequestInv(r)'
  <2>0. pc'[r] = "abort" => result'[r].status # "ok"
    BY <1>5
  <2>1. CASE adapter = "sqlite"
    <3>1. StoreOk(saved)'
      BY <1>2, <1>3, <1>7, <2>1
    <3> QED BY <1>2, <1>3, <1>5, <2>0, <2>1, <3>1 DEF RequestInv, Open
  <2>2. CASE adapter = "memory"
    <3>1. StoreOk(draft[r])'
      BY <1>5, <1>7, <2>2
    <3> QED BY <1>2, <1>3, <1>5, <2>0, <2>2, <3>1 DEF RequestInv, Open
  <2> QED BY <1>2, <2>1, <2>2
<1>10. TransactionInv'
  <2>1. Open(r)'
    BY <1>5 DEF Open
  <2> QED BY <1>3, <1>6, <2>1, TransactionKeeps
<1> QED BY <1>6, <1>8, <1>9, <1>10, FlowFrom

LEMMA ReadAfterFlow ==
  ASSUME FlowInv, NEW r \in Reqs, ReadAfter(r)
  PROVE  FlowInv' /\ StepOf(r)
<1>1. Open(r) /\ pc[r] = "after"
  BY DEF ReadAfter, Open
<1>2. /\ TypesInv /\ adapter \in {"sqlite", "memory"} /\ StoreOk(db) /\ StoreOk(Mine(r))
      /\ op[r] \in Op /\ Mutates(op[r]) /\ reply[r] = NoReply /\ ~touched[r].failed /\ touched[r].key \in Keys
      /\ \A s \in Reqs : <<r, "touch">> \notin during[s]
      /\ IF adapter = "sqlite" THEN inTx = r /\ StoreOk(saved) ELSE StoreOk(draft[r])
  BY <1>1, Unit
<1>3. /\ adapter' = adapter /\ db' = db /\ saved' = saved /\ inTx' = inTx /\ draft' = draft /\ op' = op
      /\ reply' = reply /\ before' = before /\ result' = result
      /\ clock' = clock /\ lastTouch' = lastTouch /\ touched' = touched /\ used' = used /\ during' = during
  BY DEF ReadAfter, hook
<1>4. /\ pc' \in [Reqs -> Labels] /\ pc'[r] = "record" /\ \A q \in Reqs : q # r => pc'[q] = pc[q]
      /\ DOMAIN after' = Reqs /\ \A q \in Reqs : q # r => after'[q] = after[q]
  <2>1. pc \in [Reqs -> Labels] /\ DOMAIN after = Reqs /\ "record" \in Labels
    BY <1>2 DEF TypesInv, Labels
  <2> QED BY <2>1 DEF ReadAfter
<1>5. StepOf(r)
  BY <1>1, <1>3, <1>4, SameAdditions DEF StepOf, Untouched
<1>6. StoreOk(db)' /\ \A s : StoreOk(s)' <=> StoreOk(s)
  BY <1>2, <1>3, SameStore, Rigid
<1>7. TypesInv'
  BY <1>2, <1>3, <1>4, <1>6 DEF TypesInv
<1>8. RequestInv(r)'
  <2>1. CASE adapter = "sqlite"
    <3>1. StoreOk(saved)'
      BY <1>2, <1>3, <1>6, <2>1
    <3> QED BY <1>2, <1>3, <1>4, <2>1, <3>1 DEF RequestInv, Open
  <2>2. CASE adapter = "memory"
    <3>1. StoreOk(draft[r])'
      BY <1>2, <1>3, <1>6, <2>2
    <3> QED BY <1>2, <1>3, <1>4, <2>2, <3>1 DEF RequestInv, Open
  <2> QED BY <1>2, <2>1, <2>2
<1>9. TransactionInv'
  <2>1. Open(r)'
    BY <1>4 DEF Open
  <2> QED BY <1>3, <1>5, <2>1, TransactionKeeps
<1> QED BY <1>5, <1>7, <1>8, <1>9, FlowFrom

LEMMA RecordAuditFlow ==
  ASSUME FlowInv, NEW r \in Reqs, RecordAudit(r)
  PROVE  /\ FlowInv' /\ StepOf(r)
         /\ Audited(Mine(r), IF adapter = "sqlite" THEN db' ELSE draft'[r],
                    Append(View(Mine(r)).audit, AuditEntry(r)))
         /\ adapter = "memory" => db' = db
<1>1. Open(r) /\ pc[r] = "record"
  BY DEF RecordAudit, Open
<1>2. /\ TypesInv /\ adapter \in {"sqlite", "memory"} /\ StoreOk(db) /\ StoreOk(Mine(r))
      /\ op[r] \in Op /\ Mutates(op[r]) /\ reply[r] = NoReply /\ ~touched[r].failed /\ touched[r].key \in Keys
      /\ \A s \in Reqs : <<r, "touch">> \notin during[s]
      /\ IF adapter = "sqlite" THEN inTx = r /\ StoreOk(saved) ELSE StoreOk(draft[r])
      /\ adapter = "sqlite" => \A q \in Reqs : q # r => ~Open(q)
  BY <1>1, Unit
<1>3. /\ adapter' = adapter /\ saved' = saved /\ inTx' = inTx /\ op' = op
      /\ reply' = reply /\ before' = before /\ result' = result /\ after' = after
      /\ clock' = clock /\ lastTouch' = lastTouch /\ touched' = touched /\ used' = used /\ during' = during
  BY DEF RecordAudit, hook
<1>4. /\ pc' \in [Reqs -> Labels] /\ pc'[r] = "commit" /\ \A q \in Reqs : q # r => pc'[q] = pc[q]
  <2>1. pc \in [Reqs -> Labels] /\ "commit" \in Labels
    BY <1>2 DEF TypesInv, Labels
  <2> QED BY <2>1 DEF RecordAudit
<1>5. PICK t : t = WithAudit(Mine(r), AuditEntry(r))
  OBVIOUS
<1>6. Audited(Mine(r), t, Append(View(Mine(r)).audit, AuditEntry(r)))
  BY <1>2, <1>5, StoreAudits
<1>7. /\ IF adapter = "sqlite" THEN db' = t /\ draft' = draft
         ELSE db' = db /\ draft'[r] = t /\ \A q \in Reqs : q # r => draft'[q] = draft[q]
      /\ DOMAIN draft' = Reqs
  <2>1. SetMine(r, t) /\ DOMAIN draft = Reqs
    BY <1>2, <1>5 DEF RecordAudit, AuditEntry, TypesInv
  <2> QED BY <2>1 DEF SetMine
<1>8. StepOf(r)
  BY <1>1, <1>3, <1>4, <1>7, SameAdditions DEF StepOf, Untouched
<1>9. StoreOk(t) /\ StoreOk(db)' /\ \A s : StoreOk(s)' <=> StoreOk(s)
  BY <1>2, <1>3, <1>6, <1>7, SameStore, Rigid DEF Audited
<1>10. TypesInv'
  BY <1>2, <1>3, <1>4, <1>7, <1>9 DEF TypesInv
<1>11. RequestInv(r)'
  <2>1. CASE adapter = "sqlite"
    <3>1. StoreOk(saved)'
      BY <1>2, <1>3, <1>9, <2>1
    <3> QED BY <1>2, <1>3, <1>4, <2>1, <3>1 DEF RequestInv, Open
  <2>2. CASE adapter = "memory"
    <3>1. StoreOk(draft[r])'
      BY <1>7, <1>9, <2>2
    <3> QED BY <1>2, <1>3, <1>4, <2>2, <3>1 DEF RequestInv, Open
  <2> QED BY <1>2, <2>1, <2>2
<1>12. TransactionInv'
  <2>1. Open(r)'
    BY <1>4 DEF Open
  <2> QED BY <1>3, <1>8, <2>1, TransactionKeeps
<1>13. FlowInv'
  BY <1>8, <1>10, <1>11, <1>12, FlowFrom
<1> QED BY <1>2, <1>6, <1>7, <1>8, <1>13

LEMMA FailFlow ==
  ASSUME FlowInv, NEW r \in Reqs, Fail(r)
  PROVE  FlowInv' /\ StepOf(r)
<1>1. Open(r) /\ adapter = "sqlite" /\ pc[r] \notin {"answered", "closed"}
  BY DEF Fail, Open
<1>2. /\ TypesInv /\ StoreOk(db) /\ op[r] \in Op /\ Mutates(op[r]) /\ reply[r] = NoReply
      /\ ~touched[r].failed /\ touched[r].key \in Keys
      /\ \A s \in Reqs : <<r, "touch">> \notin during[s]
      /\ inTx = r /\ StoreOk(saved)
  BY <1>1, Unit
<1>3. /\ adapter' = adapter /\ db' = db /\ saved' = saved /\ inTx' = inTx /\ draft' = draft /\ op' = op
      /\ reply' = reply /\ before' = before /\ after' = after
      /\ clock' = clock /\ lastTouch' = lastTouch /\ touched' = touched /\ used' = used /\ during' = during
  BY DEF Fail, hook
<1>4. /\ pc' \in [Reqs -> Labels] /\ pc'[r] = "abort" /\ \A q \in Reqs : q # r => pc'[q] = pc[q]
      /\ result' \in [Reqs -> Reply] /\ result'[r].status = "error" /\ \A q \in Reqs : q # r => result'[q] = result[q]
  <2>1. pc \in [Reqs -> Labels] /\ result \in [Reqs -> Reply] /\ "abort" \in Labels
    BY <1>2 DEF TypesInv, Labels
  <2>2. [status |-> "error", version |-> 0] \in Reply
    BY DEF Reply, Status
  <2> QED BY <2>1, <2>2 DEF Fail
<1>5. StepOf(r)
  BY <1>1, <1>3, <1>4, SameAdditions DEF StepOf, Untouched
<1>6. StoreOk(db)' /\ StoreOk(saved)'
  BY <1>2, <1>3, SameStore, Rigid
<1>7. TypesInv'
  BY <1>2, <1>3, <1>4, <1>6 DEF TypesInv
<1>8. RequestInv(r)'
  BY <1>1, <1>2, <1>3, <1>4, <1>6 DEF RequestInv, Open
<1>9. TransactionInv'
  <2>1. Open(r)'
    BY <1>4 DEF Open
  <2> QED BY <1>3, <1>5, <2>1, TransactionKeeps
<1> QED BY <1>5, <1>7, <1>8, <1>9, FlowFrom

LEMMA Forgets ==
  ASSUME TypesInv, NEW r \in Reqs, Forget(r)
  PROVE  /\ DOMAIN draft' = Reqs /\ DOMAIN before' = Reqs /\ DOMAIN after' = Reqs /\ result' \in [Reqs -> Reply]
         /\ \A q \in Reqs : q # r => /\ draft'[q] = draft[q] /\ before'[q] = before[q] /\ after'[q] = after[q]
                                     /\ result'[q] = result[q]
         /\ adapter' = adapter /\ op' = op
         /\ clock' = clock /\ lastTouch' = lastTouch /\ touched' = touched /\ used' = used
<1>1. NoReply \in Reply
  BY DEF NoReply, Reply, Status
<1>2. DOMAIN draft = Reqs /\ DOMAIN before = Reqs /\ DOMAIN after = Reqs /\ result \in [Reqs -> Reply]
  BY DEF TypesInv
<1> HIDE DEF NoReply, NothingRead
<1>3. /\ draft' = [draft EXCEPT ![r] = None] /\ before' = [before EXCEPT ![r] = NothingRead]
      /\ after' = [after EXCEPT ![r] = NothingRead] /\ result' = [result EXCEPT ![r] = NoReply]
  BY DEF Forget
<1> QED BY <1>1, <1>2, <1>3 DEF Forget, hook

LEMMA CommitFlow ==
  ASSUME FlowInv, NEW r \in Reqs, Commit(r)
  PROVE  FlowInv' /\ StepOf(r)
<1>1. Open(r) /\ pc[r] = "commit" /\ Wrote(r, "commit") /\ Forget(r) /\ Answer(r, "ok", result[r].version)
  BY DEF Commit, Open
<1>2. /\ TypesInv /\ adapter \in {"sqlite", "memory"} /\ StoreOk(db)
      /\ ~touched[r].failed /\ touched[r].key \in Keys /\ result[r] \in Reply
      /\ \A s \in Reqs : <<r, "touch">> \notin during[s]
      /\ IF adapter = "sqlite" THEN inTx = r ELSE StoreOk(draft[r]) /\ inTx = None /\ saved = None
      /\ adapter = "sqlite" => \A q \in Reqs : q # r => ~Open(q)
  BY <1>1, Unit
<1>3. /\ DOMAIN draft' = Reqs /\ DOMAIN before' = Reqs /\ DOMAIN after' = Reqs /\ result' \in [Reqs -> Reply]
      /\ \A q \in Reqs : q # r => /\ draft'[q] = draft[q] /\ before'[q] = before[q] /\ after'[q] = after[q]
                                  /\ result'[q] = result[q]
      /\ adapter' = adapter /\ op' = op
      /\ clock' = clock /\ lastTouch' = lastTouch /\ touched' = touched /\ used' = used
  BY <1>1, <1>2, Forgets
<1>4. /\ pc' \in [Reqs -> Labels] /\ reply' \in [Reqs -> Replies] /\ pc'[r] = "answered"
      /\ \A q \in Reqs : q # r => pc'[q] = pc[q] /\ reply'[q] = reply[q]
  <2>1. "ok" \in Status /\ result[r].version \in Nat
    BY <1>2 DEF Status, Reply
  <2> QED BY <1>1, <1>2, <2>1, Answers
<1>5. /\ during' \in [Reqs -> SUBSET (Reqs \X {"batch", "commit", "touch"})] /\ Additions(r)
      /\ \A q \in Reqs : \A x : x \in during'[q] => x \in during[q] \/ x = <<r, "commit">>
  <2>1. during \in [Reqs -> SUBSET (Reqs \X {"batch", "commit", "touch"})]
    BY <1>2 DEF TypesInv
  <2> QED BY <1>1, <2>1, WroteAdds
<1>6. IF adapter = "sqlite" THEN inTx' = None /\ saved' = None /\ db' = db
      ELSE db' = draft[r] /\ inTx' = inTx /\ saved' = saved
  BY DEF Commit
<1>7. StepOf(r)
  BY <1>1, <1>2, <1>3, <1>4, <1>5 DEF StepOf, Untouched
<1>8. StoreOk(db)'
  <2>1. StoreOk(db')
    BY <1>2, <1>6
  <2> QED BY <1>3, <2>1, SameStore
<1>9. TypesInv'
  BY <1>2, <1>3, <1>4, <1>5, <1>8 DEF TypesInv
<1>10. RequestInv(r)'
  <2>1. \A s \in Reqs : <<r, "touch">> \notin during'[s]
    BY <1>2, <1>5
  <2> QED BY <1>2, <1>3, <1>4, <2>1 DEF RequestInv, Open
<1>11. TransactionInv'
  BY <1>2, <1>3, <1>6 DEF TransactionInv
<1> QED BY <1>7, <1>9, <1>10, <1>11, FlowFrom

LEMMA AbortFlow ==
  ASSUME FlowInv, NEW r \in Reqs, Abort(r)
  PROVE  FlowInv' /\ StepOf(r)
<1>1. Open(r) /\ pc[r] = "abort" /\ during' = during /\ Forget(r) /\ Answer(r, result[r].status, 0)
  BY DEF Abort, Open
<1>2. /\ TypesInv /\ adapter \in {"sqlite", "memory"} /\ StoreOk(db)
      /\ ~touched[r].failed /\ touched[r].key \in Keys /\ result[r] \in Reply
      /\ \A s \in Reqs : <<r, "touch">> \notin during[s]
      /\ IF adapter = "sqlite" THEN inTx = r /\ StoreOk(saved) ELSE inTx = None /\ saved = None
      /\ adapter = "sqlite" => \A q \in Reqs : q # r => ~Open(q)
  BY <1>1, Unit
<1>3. /\ DOMAIN draft' = Reqs /\ DOMAIN before' = Reqs /\ DOMAIN after' = Reqs /\ result' \in [Reqs -> Reply]
      /\ \A q \in Reqs : q # r => /\ draft'[q] = draft[q] /\ before'[q] = before[q] /\ after'[q] = after[q]
                                  /\ result'[q] = result[q]
      /\ adapter' = adapter /\ op' = op
      /\ clock' = clock /\ lastTouch' = lastTouch /\ touched' = touched /\ used' = used
  BY <1>1, <1>2, Forgets
<1>4. /\ pc' \in [Reqs -> Labels] /\ reply' \in [Reqs -> Replies] /\ pc'[r] = "answered"
      /\ \A q \in Reqs : q # r => pc'[q] = pc[q] /\ reply'[q] = reply[q]
  <2>1. result[r].status \in Status /\ 0 \in Nat
    BY <1>2 DEF Reply
  <2> QED BY <1>1, <1>2, <2>1, Answers
<1>5. IF adapter = "sqlite" THEN db' = saved /\ inTx' = None /\ saved' = None
      ELSE db' = db /\ inTx' = inTx /\ saved' = saved
  BY DEF Abort
<1>6. StepOf(r)
  BY <1>1, <1>2, <1>3, <1>4, <1>5, SameAdditions DEF StepOf, Untouched
<1>7. StoreOk(db)'
  <2>1. StoreOk(db')
    BY <1>2, <1>5
  <2> QED BY <1>3, <2>1, SameStore
<1>8. TypesInv'
  BY <1>1, <1>2, <1>3, <1>4, <1>7 DEF TypesInv
<1>9. RequestInv(r)'
  BY <1>1, <1>2, <1>3, <1>4 DEF RequestInv, Open
<1>10. TransactionInv'
  BY <1>2, <1>3, <1>5 DEF TransactionInv
<1> QED BY <1>6, <1>8, <1>9, <1>10, FlowFrom

LEMMA TouchKeyFlow ==
  ASSUME FlowInv, NEW r \in Reqs, NEW write \in {"done", "failed", "skipped"}, TouchKey(r, write),
         NEW k, k = touched[r].key
  PROVE  /\ FlowInv' /\ StepOf(r)
         /\ k \in Keys /\ View(db') = View(db)
         /\ \A j \in Keys : UseIn(db', j) =
              IF write = "done" /\ j = k /\ (UseIn(db, k) = Never \/ UseIn(db, k) < StaleBefore(clock))
              THEN clock ELSE UseIn(db, j)
         /\ write = "skipped" <=> Throttled(k)
         /\ used'[k] = clock /\ lastTouch'[k] = IF write = "skipped" THEN lastTouch[k] ELSE clock
         /\ \A j \in Keys : j # k => used'[j] = used[j] /\ lastTouch'[j] = lastTouch[j]
         /\ clock' = clock
         /\ touched'[r].key = k /\ (touched'[r].failed <=> write = "failed")
         /\ write = "done" => \A q \in Reqs : q # r /\ Open(q) => <<r, "touch">> \in during'[q]
<1>1. pc[r] = "answered" /\ ~Open(r) /\ TypesInv /\ adapter \in {"sqlite", "memory"} /\ StoreOk(db)
  BY DEF TouchKey, Open, FlowInv, TypesInv
<1>2. k \in Keys /\ touched[r] \in [key : Keys \cup {None}, failed : BOOLEAN] /\ clock \in Nat
  BY <1>1 DEF FlowInv, RequestInv, TypesInv
<1>3. /\ adapter' = adapter /\ saved' = saved /\ inTx' = inTx /\ draft' = draft /\ op' = op /\ reply' = reply
      /\ before' = before /\ result' = result /\ after' = after /\ clock' = clock
  BY DEF TouchKey
<1>4. /\ used' = [used EXCEPT ![k] = clock] /\ (write = "skipped" <=> Throttled(k))
      /\ lastTouch' = IF Throttled(k) THEN lastTouch ELSE [lastTouch EXCEPT ![k] = clock]
      /\ db' = IF write = "done" THEN Touch(db, k, clock, StaleBefore(clock)) ELSE db
  BY DEF TouchKey
<1>5. /\ used' \in [Keys -> Nat \cup {Never}] /\ lastTouch' \in [Keys -> Nat \cup {Never}]
      /\ used'[k] = clock /\ lastTouch'[k] = IF write = "skipped" THEN lastTouch[k] ELSE clock
      /\ \A j \in Keys : j # k => used'[j] = used[j] /\ lastTouch'[j] = lastTouch[j]
  <2>1. used \in [Keys -> Nat \cup {Never}] /\ lastTouch \in [Keys -> Nat \cup {Never}]
    BY <1>1 DEF TypesInv
  <2> QED BY <1>2, <1>4, <2>1
<1>6. /\ touched' \in [Reqs -> [key : Keys \cup {None}, failed : BOOLEAN]]
      /\ touched'[r].key = k /\ (touched'[r].failed <=> write = "failed")
      /\ \A q \in Reqs : q # r => touched'[q] = touched[q]
  <2> DEFINE new == [key |-> k, failed |-> (write = "failed")]
  <2>1. touched \in [Reqs -> [key : Keys \cup {None}, failed : BOOLEAN]]
    BY <1>1 DEF TypesInv
  <2>2. [touched[r] EXCEPT !.failed = (write = "failed")] = new
    BY <1>2
  <2>3. touched' = [touched EXCEPT ![r] = [touched[r] EXCEPT !.failed = (write = "failed")]]
    BY <2>1 DEF TouchKey
  <2>4. new \in [key : Keys \cup {None}, failed : BOOLEAN] /\ new.key = k /\ (new.failed <=> write = "failed")
    BY <1>2
  <2> HIDE DEF new
  <2>5. touched' = [touched EXCEPT ![r] = new]
    BY <2>2, <2>3
  <2> QED BY <2>1, <2>4, <2>5
<1>7. /\ pc' \in [Reqs -> Labels] /\ pc'[r] = "closed" /\ \A q \in Reqs : q # r => pc'[q] = pc[q]
  <2>1. pc \in [Reqs -> Labels] /\ "closed" \in Labels /\ pc' = [pc EXCEPT ![r] = "closed"]
    BY <1>1 DEF TypesInv, Labels, TouchKey
  <2> QED BY <2>1
<1>8. /\ during' \in [Reqs -> SUBSET (Reqs \X {"batch", "commit", "touch"})] /\ Additions(r)
      /\ write = "done" => \A q \in Reqs : q # r /\ Open(q) => <<r, "touch">> \in during'[q]
  <2>1. during \in [Reqs -> SUBSET (Reqs \X {"batch", "commit", "touch"})]
    BY <1>1 DEF TypesInv
  <2>2. CASE write = "done"
    <3>1. Wrote(r, "touch")
      BY <2>2 DEF TouchKey
    <3> QED BY <2>1, <3>1, WroteAdds
  <2>3. CASE write # "done"
    <3>1. during' = during
      BY <2>3 DEF TouchKey
    <3> QED BY <2>1, <2>3, <3>1, SameAdditions
  <2> QED BY <2>2, <2>3
<1>9. StepOf(r)
  BY <1>1, <1>3, <1>6, <1>7, <1>8 DEF StepOf, Untouched
<1>10. /\ StoreOk(db') /\ View(db') = View(db)
       /\ \A j \in Keys : UseIn(db', j) =
            IF write = "done" /\ j = k /\ (UseIn(db, k) = Never \/ UseIn(db, k) < StaleBefore(clock))
            THEN clock ELSE UseIn(db, j)
  <2>1. CASE write = "done"
    <3>1. db' = Touch(db, k, clock, StaleBefore(clock))
      BY <1>4, <2>1
    <3> QED BY <1>1, <1>2, <2>1, <3>1, StoreTouches
  <2>2. CASE write # "done"
    <3>1. db' = db
      BY <1>4, <2>2
    <3> QED BY <1>1, <2>2, <3>1
  <2> QED BY <2>1, <2>2
<1>11. StoreOk(db)'
  BY <1>3, <1>10, SameStore
<1>12. TypesInv'
  BY <1>1, <1>3, <1>5, <1>6, <1>7, <1>8, <1>11 DEF TypesInv
<1>13. RequestInv(r)'
  BY <1>7 DEF RequestInv, Open
<1>14. TransactionInv'
  BY <1>1, <1>3, <1>9, TransactionKeeps
<1>15. FlowInv'
  BY <1>9, <1>12, <1>13, <1>14, FlowFrom
<1> QED BY <1>2, <1>3, <1>4, <1>5, <1>6, <1>8, <1>9, <1>10, <1>15

LEMMA TickFlow ==
  ASSUME FlowInv, Tick
  PROVE  FlowInv'
<1>1. /\ adapter' = adapter /\ db' = db /\ saved' = saved /\ inTx' = inTx /\ draft' = draft /\ op' = op /\ pc' = pc
      /\ reply' = reply /\ before' = before /\ result' = result /\ after' = after
      /\ lastTouch' = lastTouch /\ touched' = touched /\ used' = used /\ during' = during /\ clock' = clock + 1
      /\ \A r \in Reqs : pc[r] \in {"idle", "closed"}
  BY DEF Tick, flow
<1>2. TypesInv /\ TransactionInv /\ \A r \in Reqs : RequestInv(r)
  BY DEF FlowInv
<1>3. StoreOk(db)'
  BY <1>1, <1>2, SameStore DEF TypesInv
<1>4. TypesInv'
  BY <1>1, <1>2, <1>3 DEF TypesInv
<1>5. TransactionInv'
  BY <1>1, <1>2 DEF TransactionInv, Open
<1>6. ASSUME NEW r \in Reqs PROVE RequestInv(r)'
  BY <1>1, <1>2 DEF RequestInv, Open
<1> QED BY <1>4, <1>5, <1>6 DEF FlowInv

\* A restart of the process on the file: requests in it are over, the others untouched.
LEMMA CrashFlow ==
  ASSUME FlowInv, Crash
  PROVE  FlowInv' /\ StoreOk(Committed) /\ db' = Committed /\ adapter = "sqlite" /\ adapter' = adapter
<1>1. /\ TypesInv /\ TransactionInv /\ adapter = "sqlite" /\ StoreOk(db)
      /\ \A r \in Reqs : RequestInv(r)
  BY DEF FlowInv, Crash, TypesInv
<1>2. db' = Committed /\ saved' = None /\ inTx' = None
  BY DEF Crash, Committed
<1>3. /\ adapter' = adapter /\ draft' = draft /\ op' = op /\ clock' = clock /\ touched' = touched /\ used' = used
      /\ during' = during
  BY DEF Crash
<1>4. StoreOk(Committed)
  <2>1. CASE inTx = None
    BY <1>1, <2>1 DEF Committed
  <2>2. CASE inTx # None
    <3>1. inTx \in Reqs /\ Open(inTx)
      BY <1>1, <2>2 DEF TransactionInv
    <3>2. StoreOk(saved)
      BY <1>1, <3>1, Unit
    <3> QED BY <2>2, <3>2 DEF Committed
  <2> QED BY <2>1, <2>2
<1>5. /\ reply' = [r \in Reqs |-> IF Open(r) THEN [status |-> "error", version |-> 0] ELSE reply[r]]
      /\ pc' = [r \in Reqs |-> IF pc[r] = "idle" THEN "idle" ELSE "closed"]
      /\ before' = [r \in Reqs |-> IF Open(r) THEN NothingRead ELSE before[r]]
      /\ after' = [r \in Reqs |-> NothingRead] /\ result' = [r \in Reqs |-> NoReply]
      /\ lastTouch' = [k \in Keys |-> Never]
  BY DEF Crash
<1>6. pc' \in [Reqs -> Labels] /\ lastTouch' \in [Keys -> Nat \cup {Never}]
  BY <1>5 DEF Labels
<1>7. reply' \in [Reqs -> Replies]
  <2>1. [status |-> "error", version |-> 0] \in Replies
    BY DEF Replies, Status
  <2> HIDE DEF Replies
  <2>2. reply \in [Reqs -> Replies]
    BY <1>1 DEF TypesInv
  <2> QED BY <1>5, <2>1, <2>2
<1>8. result' \in [Reqs -> Reply]
  <2>1. NoReply \in Reply
    BY DEF NoReply, Reply, Status
  <2> QED BY <1>5, <2>1
<1>9. DOMAIN before' = Reqs /\ DOMAIN after' = Reqs
  BY <1>5
<1>10. StoreOk(db)'
  BY <1>2, <1>3, <1>4, SameStore
<1>11. TypesInv'
  BY <1>1, <1>3, <1>6, <1>7, <1>8, <1>9, <1>10 DEF TypesInv
<1>12. TransactionInv'
  BY <1>1, <1>2, <1>3 DEF TransactionInv
<1>13. ASSUME NEW r \in Reqs PROVE RequestInv(r)'
  <2> HIDE DEF NothingRead, NoReply
  <2>1. pc'[r] = "idle" => pc[r] = "idle" /\ ~Open(r)
    BY <1>5 DEF Open
  <2>2. pc'[r] = "idle" => reply'[r] = reply[r] /\ before'[r] = before[r]
    BY <1>5, <2>1
  <2>3. pc'[r] \in {"idle", "closed"} /\ ~Open(r)'
    BY <1>5 DEF Open
  <2> QED BY <1>1, <1>3, <2>1, <2>2, <2>3 DEF RequestInv
<1>14. FlowInv'
  BY <1>11, <1>12, <1>13 DEF FlowInv
<1> QED BY <1>1, <1>2, <1>3, <1>4, <1>14

LEMMA InitFlow ==
  ASSUME Init
  PROVE  FlowInv
<1>1. adapter \in {"sqlite", "memory"} /\ StoreOk(db)
  BY StoreStarts
<1>2. /\ "idle" \in Labels /\ NoReply \in Replies /\ NoReply \in Reply
  BY DEF Labels, Replies, Reply, NoReply, Status
<1> HIDE DEF NothingRead, NoReply, Labels, Replies, Reply
<1>3. TypesInv
  <2>1. pc \in [Reqs -> Labels] /\ reply \in [Reqs -> Replies] /\ result \in [Reqs -> Reply]
    BY <1>2 DEF Init
  <2>2. touched \in [Reqs -> [key : Keys \cup {None}, failed : BOOLEAN]]
    BY DEF Init
  <2>3. during \in [Reqs -> SUBSET (Reqs \X {"batch", "commit", "touch"})]
    BY DEF Init
  <2>4. /\ op \in [Reqs -> Op \cup BatchOp \cup {None}] /\ clock \in Nat
        /\ lastTouch \in [Keys -> Nat \cup {Never}] /\ used \in [Keys -> Nat \cup {Never}]
        /\ DOMAIN before = Reqs /\ DOMAIN after = Reqs /\ DOMAIN draft = Reqs
    BY DEF Init
  <2> QED BY <1>1, <2>1, <2>2, <2>3, <2>4 DEF TypesInv
<1>4. TransactionInv
  BY DEF Init, TransactionInv
<1>5. ASSUME NEW r \in Reqs PROVE RequestInv(r)
  BY DEF Init, RequestInv, Open
<1> QED BY <1>3, <1>4, <1>5 DEF FlowInv

LEMMA FlowStep ==
  ASSUME FlowInv, [Next]_vars
  PROVE  FlowInv'
<1>1. ASSUME NEW r \in Reqs, Receive(r) PROVE FlowInv'
  <2>1. PICK c \in Creds[r], o \in Workload[r] \cup Batches[r] :
          \/ TurnAway(r, c, o)
          \/ Read(r, c, o)
          \/ RecordExposures(r, c, o)
          \/ BeginCreate(r, c, o)
          \/ Begin(r, c, o)
          \/ BeginWithin(r, c, o)
    BY <1>1 DEF Receive
  <2> QED BY <2>1, TurnAwayFlow, ReadFlow, RecordExposuresFlow, BeginCreateFlow, BeginFlow, BeginWithinFlow
<1>2. ASSUME NEW r \in Reqs, Work(r) PROVE FlowInv'
  BY <1>2, MutateFlow, ReadAfterFlow, RecordAuditFlow, FailFlow, CommitFlow, AbortFlow DEF Work
<1>3. ASSUME NEW r \in Reqs, Hook(r) PROVE FlowInv'
  BY <1>3, TouchKeyFlow DEF Hook
<1>4. CASE Tick
  BY <1>4, TickFlow
<1>5. CASE Crash
  BY <1>5, CrashFlow
<1>6. CASE UNCHANGED vars
  <2>1. /\ adapter' = adapter /\ db' = db /\ saved' = saved /\ inTx' = inTx /\ draft' = draft /\ op' = op /\ pc' = pc
        /\ reply' = reply /\ before' = before /\ result' = result /\ after' = after /\ clock' = clock
        /\ lastTouch' = lastTouch /\ touched' = touched /\ used' = used /\ during' = during
    BY <1>6 DEF vars
  <2>2. TypesInv /\ TransactionInv /\ \A r \in Reqs : RequestInv(r)
    BY DEF FlowInv
  <2>3. \A s : StoreOk(s)' <=> StoreOk(s)
    BY <2>1, Rigid
  <2>4. TypesInv'
    BY <2>1, <2>2, <2>3 DEF TypesInv
  <2>5. TransactionInv'
    BY <2>1, <2>2 DEF TransactionInv, Open
  <2>6. ASSUME NEW r \in Reqs PROVE RequestInv(r)'
    <3>1. RequestInv(r)
      BY <2>2
    <3>2. Open(r)' <=> Open(r)
      BY <2>1 DEF Open
    <3>3. (StoreOk(saved)' <=> StoreOk(saved)) /\ (StoreOk(draft[r])' <=> StoreOk(draft[r]))
      BY <2>1, <2>3
    <3> HIDE DEF NothingRead, NoReply
    <3> QED BY <2>1, <3>1, <3>2, <3>3 DEF RequestInv
  <2> QED BY <2>4, <2>5, <2>6 DEF FlowInv
<1> QED BY <1>1, <1>2, <1>3, <1>4, <1>5, <1>6 DEF Next

-----------------------------------------------------------------------------
(* The last use of a key.                                                  *)

\* What a request's step does not undo: a touch that failed or was undone stays so.
LEMMA ExcusesStay ==
  ASSUME FlowInv, NEW r \in Reqs, StepOf(r), NEW k
  PROVE  /\ Excused(k) => Excused(k)'
         /\ \A q \in Reqs : MissedBy(q, k) => MissedBy(q, k)'
<1>1. /\ adapter' = adapter /\ pc[r] # "closed"
      /\ pc[r] = "answered" => pc'[r] = "closed" /\ reply'[r] = reply[r]
      /\ \A q \in Reqs : during[q] \subseteq during'[q]
      /\ \A q \in Reqs : q # r => pc'[q] = pc[q] /\ reply'[q] = reply[q] /\ touched'[q] = touched[q]
  BY DEF StepOf, Untouched, Additions
<1>2. /\ ~touched[r].failed
      /\ \A s \in Reqs : <<r, "touch">> \notin during[s]
  BY <1>1 DEF FlowInv, RequestInv
<1>3. ASSUME NEW q \in Reqs, MissedBy(q, k) PROVE MissedBy(q, k)'
  <2>1. PICK p \in Reqs : touched[p].key = k /\ <<p, "touch">> \in during[q]
    BY <1>3 DEF MissedBy
  <2>2. p # r
    BY <1>2, <2>1
  <2>3. touched'[p].key = k /\ <<p, "touch">> \in during'[q]
    BY <1>1, <2>1, <2>2
  <2> QED BY <2>3 DEF MissedBy
<1>4. ASSUME NEW s \in Reqs, Undid(s) PROVE Undid(s)'
  BY <1>1, <1>4 DEF Undid
<1>5. ASSUME Excused(k) PROVE Excused(k)'
  <2>1. PICK p \in Reqs : touched[p].key = k /\ (touched[p].failed \/ p \in Undone("touch"))
    BY <1>5 DEF Excused
  <2>2. p \in Undone("touch") => p # r /\ p \in Undone("touch")'
    <3> SUFFICES ASSUME p \in Undone("touch") PROVE p # r /\ p \in Undone("touch")'
      OBVIOUS
    <3>1. PICK s \in Reqs : Undid(s) /\ <<p, "touch">> \in during[s]
      BY DEF Undone
    <3>2. p # r /\ <<p, "touch">> \in during'[s] /\ Undid(s)'
      BY <1>1, <1>2, <1>4, <3>1
    <3> QED BY <3>2 DEF Undone
  <2>3. p # r
    BY <1>2, <2>1, <2>2
  <2>4. touched'[p] = touched[p]
    BY <1>1, <2>3
  <2> QED BY <2>1, <2>2, <2>4 DEF Excused
<1> QED BY <1>3, <1>5

LEMMA ShownUse ==
  ASSUME adapter' = adapter, NEW k
  PROVE  UseIn(db, k)' = UseIn(db', k) /\ \A r \in Reqs : UseIn(Other(r), k)' = UseIn(Other(r)', k)
<1>1. \A s : UseIn(s, k)' = UseIn(s, k)
  BY Rigid
<1> QED BY <1>1

\* A step of r that leaves the stored uses alone, or excuses what it loses of them.
LEMMA UseKeeps ==
  ASSUME FlowInv, UseInv, NEW r \in Reqs, StepOf(r), used' = used, lastTouch' = lastTouch,
         \A k \in Keys : UseIn(db', k) = UseIn(db, k) \/ Excused(k)',
         Open(r)' => \A k \in Keys : \/ Open(r) /\ UseIn(Other(r)', k) = UseIn(Other(r), k)
                                     \/ UseIn(Other(r)', k) = UseIn(db', k)
  PROVE  UseInv'
<1>1. adapter' = adapter
  BY DEF StepOf
<1>2. ASSUME NEW k \in Keys
      PROVE  Excused(k)' \/
               /\ used'[k] # Never => UseIn(db', k) # Never /\ used'[k] - UseIn(db', k) < 2 * Throttle
               /\ lastTouch'[k] # Never => UseIn(db', k) # Never /\ lastTouch'[k] - UseIn(db', k) <= Throttle
  <2>1. Excused(k) => Excused(k)'
    BY ExcusesStay
  <2>2. CASE ~Excused(k)'
    <3>1. UseIn(db', k) = UseIn(db, k) /\ ~Excused(k)
      BY <2>1, <2>2
    <3> QED BY <3>1 DEF UseInv
  <2> QED BY <2>2
<1>3. ASSUME NEW q \in Reqs, Open(q)', NEW k \in Keys
      PROVE  UseIn(Other(q)', k) = UseIn(db', k) \/ MissedBy(q, k)' \/ Excused(k)'
  <2> SUFFICES ASSUME ~Excused(k)', ~MissedBy(q, k)' PROVE UseIn(Other(q)', k) = UseIn(db', k)
    OBVIOUS
  <2>1. ~Excused(k) /\ ~MissedBy(q, k) /\ UseIn(db', k) = UseIn(db, k)
    BY ExcusesStay
  <2>2. Open(q) => UseIn(Other(q), k) = UseIn(db, k)
    BY <2>1 DEF UseInv
  <2>3. CASE q = r
    BY <1>3, <2>1, <2>2, <2>3
  <2>4. CASE q # r
    <3>1. Open(q)
      BY <1>3, <2>4, OthersKeep
    <3>2. Other(q)' = Other(q)
      BY <1>1, <2>4, <3>1 DEF Other, StepOf, Untouched
    <3> QED BY <2>1, <2>2, <3>1, <3>2
  <2> QED BY <2>3, <2>4
<1>4. \A k : UseIn(db, k)' = UseIn(db', k) /\ \A q \in Reqs : UseIn(Other(q), k)' = UseIn(Other(q)', k)
  BY <1>1, ShownUse
<1> QED BY <1>2, <1>3, <1>4 DEF UseInv

\* A step that ends or leaves no unit of its own and writes no use.
LEMMA PlainUse ==
  ASSUME FlowInv, UseInv, NEW r \in Reqs, StepOf(r), used' = used, lastTouch' = lastTouch, db' = db, ~Open(r)'
  PROVE  UseInv'
  BY UseKeeps

LEMMA ReceiveUse ==
  ASSUME FlowInv, UseInv, NEW r \in Reqs, Receive(r)
  PROVE  UseInv'
<1>1. PICK c \in Creds[r], o \in Workload[r] \cup Batches[r] :
        \/ TurnAway(r, c, o)
        \/ Read(r, c, o)
        \/ RecordExposures(r, c, o)
        \/ BeginCreate(r, c, o)
        \/ Begin(r, c, o)
        \/ BeginWithin(r, c, o)
  BY DEF Receive
<1>2. TypesInv /\ adapter \in {"sqlite", "memory"} /\ StoreOk(db)
  BY DEF FlowInv, TypesInv
<1>3. CASE TurnAway(r, c, o)
  <2>1. StepOf(r) /\ used' = used /\ lastTouch' = lastTouch /\ db' = db
    BY <1>3, TurnAwayFlow DEF TurnAway, hook
  <2>2. ~Open(r)'
    BY <1>2, <1>3 DEF TurnAway, TypesInv, Open
  <2> QED BY <2>1, <2>2, PlainUse
<1>4. CASE Read(r, c, o) \/ BeginWithin(r, c, o)
  <2>1. StepOf(r) /\ used' = used /\ lastTouch' = lastTouch /\ db' = db
    BY <1>4, ReadFlow, BeginWithinFlow DEF Read, BeginWithin, Admit
  <2>2. ~Open(r)'
    BY <1>2, <1>4 DEF Read, BeginWithin, Answer, TypesInv, Open
  <2> QED BY <2>1, <2>2, PlainUse
<1>5. CASE RecordExposures(r, c, o)
  <2>1. StepOf(r) /\ used' = used /\ lastTouch' = lastTouch /\ \A k \in Keys : UseIn(db', k) = UseIn(db, k)
    BY <1>5, RecordExposuresFlow DEF RecordExposures, Admit
  <2>2. ~Open(r)'
    BY <1>2, <1>5 DEF RecordExposures, Answer, TypesInv, Open
  <2> QED BY <2>1, <2>2, UseKeeps
<1>6. CASE Begin(r, c, o)
  <2>1. StepOf(r) /\ used' = used /\ lastTouch' = lastTouch /\ db' = db /\ adapter' = adapter
    BY <1>6, BeginFlow DEF Begin, OpenUnit, Admit
  <2>2. Other(r)' = db
    BY <1>2, <1>6, <2>1 DEF Begin, OpenUnit, Other, TypesInv
  <2> QED BY <2>1, <2>2, UseKeeps
<1>7. CASE BeginCreate(r, c, o)
  <2>1. StepOf(r) /\ used' = used /\ lastTouch' = lastTouch /\ adapter' = adapter
    BY <1>7, BeginCreateFlow DEF BeginCreate, OpenUnit, Admit
  <2>2. OpenUnit(r, c, o) /\ Apply(r, db, o, "record")
    BY <1>7 DEF BeginCreate
  <2>3. /\ o \in Op /\ Mutates(o)
        /\ adapter = "sqlite" => saved' = db
    BY <2>2, Opens
  <2>4. PICK d : d = Mutated(db, r, o)
    OBVIOUS
  <2>5. /\ Outcome(r, o, db, d)
        /\ IF adapter = "sqlite" THEN db' = d.store /\ draft' = draft
           ELSE db' = db /\ draft'[r] = d.store /\ \A q \in Reqs : q # r => draft'[q] = draft[q]
    <3>1. TypesInv /\ StoreOk(db) /\ Apply(r, db, o, "record") /\ "record" \in {"after", "record"}
      BY <1>2, <2>2
    <3>2. /\ Outcome(r, o, db, d)
          /\ IF adapter = "sqlite" THEN db' = d.store /\ draft' = draft
             ELSE db' = db /\ draft'[r] = d.store /\ \A q \in Reqs : q # r => draft'[q] = draft[q]
          /\ DOMAIN draft' = Reqs /\ DOMAIN after' = Reqs
          /\ result' \in [Reqs -> Reply] /\ result'[r] = [status |-> d.status, version |-> d.version]
          /\ pc' \in [Reqs -> Labels] /\ pc'[r] = IF d.status = "ok" THEN "record" ELSE "abort"
          /\ \A q \in Reqs : q # r => pc'[q] = pc[q] /\ result'[q] = result[q] /\ after'[q] = after[q]
      BY <2>3, <2>4, <3>1, Applies
    <3> QED BY <3>2
  <2>6. \A k \in Keys : UseIn(d.store, k) = UseIn(db, k)
    BY <2>5 DEF Outcome
  <2>7. \A k \in Keys : UseIn(db', k) = UseIn(db, k) /\ UseIn(Other(r)', k) = UseIn(db, k)
    <3>1. CASE adapter = "sqlite"
      <4>1. db' = d.store /\ Other(r)' = db
        BY <2>1, <2>3, <2>5, <3>1 DEF Other
      <4> QED BY <2>6, <4>1
    <3>2. CASE adapter = "memory"
      <4>1. db' = db /\ Other(r)' = d.store
        BY <2>1, <2>5, <3>2 DEF Other
      <4> QED BY <2>6, <4>1
    <3> QED BY <1>2, <3>1, <3>2
  <2> QED BY <2>1, <2>7, UseKeeps
<1> QED BY <1>1, <1>3, <1>4, <1>5, <1>6, <1>7

LEMMA WorkUse ==
  ASSUME FlowInv, UseInv, NEW r \in Reqs, Work(r)
  PROVE  UseInv'
<1>1. Open(r) /\ used' = used /\ lastTouch' = lastTouch
  BY DEF Work, Mutate, ReadAfter, RecordAudit, Fail, Commit, Abort, Forget, Open, hook
<1>2. /\ TypesInv /\ adapter \in {"sqlite", "memory"} /\ StoreOk(db) /\ StoreOk(Mine(r))
      /\ op[r] \in Op /\ Mutates(op[r])
      /\ IF adapter = "sqlite" THEN inTx = r /\ StoreOk(saved) /\ Mine(r) = db
         ELSE StoreOk(draft[r]) /\ Mine(r) = draft[r]
  BY <1>1, Unit
<1>3. StepOf(r) /\ adapter' = adapter
  BY MutateFlow, ReadAfterFlow, RecordAuditFlow, FailFlow, CommitFlow, AbortFlow DEF Work, StepOf
<1>4. \A k \in Keys : UseIn(Other(r), k) = UseIn(db, k) \/ MissedBy(r, k) \/ Excused(k)
  BY <1>1 DEF UseInv
<1>5. CASE Mutate(r)
  <2>1. PICK d : d = Mutated(Mine(r), r, op[r])
    OBVIOUS
  <2>2. /\ Outcome(r, op[r], Mine(r), d)
        /\ IF adapter = "sqlite" THEN db' = d.store /\ draft' = draft
           ELSE db' = db /\ draft'[r] = d.store /\ \A q \in Reqs : q # r => draft'[q] = draft[q]
    BY <1>2, <1>5, <2>1, Applies DEF Mutate
  <2>3. \A k \in Keys : UseIn(d.store, k) = UseIn(Mine(r), k)
    BY <2>2 DEF Outcome
  <2>4. \A k \in Keys : UseIn(db', k) = UseIn(db, k) /\ UseIn(Other(r)', k) = UseIn(Other(r), k)
    <3>1. CASE adapter = "sqlite"
      <4>1. db' = d.store /\ Other(r)' = Other(r) /\ Mine(r) = db
        BY <1>2, <1>3, <1>5, <2>2, <3>1 DEF Other, Mutate
      <4> QED BY <2>3, <4>1
    <3>2. CASE adapter = "memory"
      <4>1. db' = db /\ Other(r)' = d.store /\ Other(r) = draft[r] /\ Mine(r) = draft[r]
        BY <1>2, <1>3, <2>2, <3>2 DEF Other
      <4> QED BY <2>3, <4>1
    <3> QED BY <1>2, <3>1, <3>2
  <2> QED BY <1>1, <1>3, <2>4, UseKeeps
<1>6. CASE ReadAfter(r)
  <2>1. db' = db /\ Other(r)' = Other(r)
    BY <1>3, <1>6 DEF ReadAfter, Other
  <2> QED BY <1>1, <1>3, <2>1, UseKeeps
<1>7. CASE Fail(r)
  <2>1. db' = db /\ Other(r)' = Other(r)
    BY <1>3, <1>7 DEF Fail, Other
  <2> QED BY <1>1, <1>3, <2>1, UseKeeps
<1>8. CASE RecordAudit(r)
  <2>1. PICK t : t = IF adapter = "sqlite" THEN db' ELSE draft'[r]
    OBVIOUS
  <2>2. /\ \A k \in Keys : UseIn(t, k) = UseIn(Mine(r), k)
        /\ adapter = "memory" => db' = db
    BY <1>8, <2>1, RecordAuditFlow DEF Audited
  <2>3. \A k \in Keys : UseIn(db', k) = UseIn(db, k) /\ UseIn(Other(r)', k) = UseIn(Other(r), k)
    <3>1. CASE adapter = "sqlite"
      <4>1. db' = t /\ Other(r)' = Other(r) /\ Mine(r) = db
        BY <1>2, <1>3, <1>8, <2>1, <3>1 DEF Other, RecordAudit
      <4> QED BY <2>2, <4>1
    <3>2. CASE adapter = "memory"
      <4>1. db' = db /\ Other(r)' = t /\ Other(r) = draft[r] /\ Mine(r) = draft[r]
        BY <1>2, <1>3, <2>1, <2>2, <3>2 DEF Other
      <4> QED BY <2>2, <4>1
    <3> QED BY <1>2, <3>1, <3>2
  <2> QED BY <1>1, <1>3, <2>3, UseKeeps
<1>9. CASE Commit(r) \/ Abort(r)
  <2>1. pc'[r] = "answered" /\ ~Open(r)'
    BY <1>2, <1>9 DEF Commit, Abort, Answer, TypesInv, Open
  <2>2. db' = db \/ (db' = Other(r) /\ Undid(r)')
    <3>1. CASE adapter = "sqlite" /\ Commit(r)
      BY <3>1 DEF Commit
    <3>2. CASE adapter = "memory" /\ Abort(r)
      BY <3>2 DEF Abort
    <3>3. CASE adapter = "sqlite" /\ Abort(r)
      <4>1. result[r].status # "ok"
        BY <1>1, <3>3, Unit DEF Abort
      <4>2. reply'[r].status # "ok"
        BY <1>2, <3>3, <4>1 DEF Abort, Answer, TypesInv
      <4> QED BY <1>3, <2>1, <3>3, <4>2 DEF Abort, Other, Undid
    <3>4. CASE adapter = "memory" /\ Commit(r)
      <4>1. reply'[r].status = "ok"
        BY <1>2, <3>4 DEF Commit, Answer, TypesInv
      <4> QED BY <1>3, <2>1, <3>4, <4>1 DEF Commit, Other, Undid
    <3> QED BY <1>2, <1>9, <3>1, <3>2, <3>3, <3>4
  <2>3. ASSUME NEW k \in Keys PROVE UseIn(db', k) = UseIn(db, k) \/ Excused(k)'
    <3>1. (Excused(k) => Excused(k)') /\ (MissedBy(r, k) => MissedBy(r, k)')
      BY <1>3, ExcusesStay
    <3>2. Undid(r)' /\ MissedBy(r, k)' => Excused(k)'
      BY DEF Undid, MissedBy, Excused, Undone
    <3> QED BY <1>4, <2>2, <3>1, <3>2
  <2> QED BY <1>1, <1>3, <2>1, <2>3, UseKeeps
<1> QED BY <1>5, <1>6, <1>7, <1>8, <1>9 DEF Work

LEMMA HookUse ==
  ASSUME FlowInv, UseInv, NEW r \in Reqs, NEW write \in {"done", "failed", "skipped"}, TouchKey(r, write)
  PROVE  UseInv'
<1>1. PICK k : k = touched[r].key
  OBVIOUS
<1>2. /\ StepOf(r) /\ k \in Keys
      /\ \A j \in Keys : UseIn(db', j) =
           IF write = "done" /\ j = k /\ (UseIn(db, k) = Never \/ UseIn(db, k) < StaleBefore(clock))
           THEN clock ELSE UseIn(db, j)
      /\ write = "skipped" <=> Throttled(k)
      /\ used'[k] = clock /\ lastTouch'[k] = IF write = "skipped" THEN lastTouch[k] ELSE clock
      /\ \A j \in Keys : j # k => used'[j] = used[j] /\ lastTouch'[j] = lastTouch[j]
      /\ touched'[r].key = k /\ (touched'[r].failed <=> write = "failed")
      /\ write = "done" => \A q \in Reqs : q # r /\ Open(q) => <<r, "touch">> \in during'[q]
  BY <1>1, TouchKeyFlow
<1>3. pc'[r] = "closed" /\ adapter' = adapter
  BY <1>2 DEF TouchKey, StepOf
<1>4. Throttle \in Nat \ {0} /\ Never \notin Nat
  BY EmbeddedAssumption DEF EmbeddedAssumption, Never
<1>5. TypesInv /\ clock \in Nat /\ \A j \in Keys : UseIn(db, j) \in Nat \cup {Never} /\ lastTouch[j] \in Nat \cup {Never}
  BY StoreUse DEF FlowInv, TypesInv
<1>6. (Excused(k) => Excused(k)') /\ (write = "failed" => Excused(k)')
  BY <1>2, ExcusesStay DEF Excused
<1>7. ASSUME ~Excused(k)'
      PROVE  /\ UseIn(db', k) # Never /\ used'[k] - UseIn(db', k) < 2 * Throttle
             /\ lastTouch'[k] # Never => lastTouch'[k] - UseIn(db', k) <= Throttle
  <2>1. ~Excused(k) /\ write \in {"done", "skipped"}
    BY <1>6, <1>7
  <2>2. lastTouch[k] # Never => UseIn(db, k) # Never /\ lastTouch[k] - UseIn(db, k) <= Throttle
    BY <1>2, <2>1 DEF UseInv
  <2>3. CASE write = "skipped"
    <3>1. lastTouch[k] # Never /\ clock - lastTouch[k] < Throttle
      BY <1>2, <2>3 DEF Throttled
    <3>2. UseIn(db', k) = UseIn(db, k) /\ lastTouch'[k] = lastTouch[k] /\ used'[k] = clock
      BY <1>2, <2>3
    <3>3. UseIn(db, k) \in Nat /\ lastTouch[k] \in Nat /\ lastTouch[k] - UseIn(db, k) <= Throttle
      BY <1>2, <1>5, <2>2, <3>1
    <3> QED BY <1>4, <1>5, <3>1, <3>2, <3>3
  <2>4. CASE write = "done"
    <3>1. used'[k] = clock /\ lastTouch'[k] = clock
      BY <1>2, <2>4
    <3>2. CASE UseIn(db, k) = Never \/ UseIn(db, k) < StaleBefore(clock)
      <4>1. UseIn(db', k) = clock
        BY <1>2, <2>4, <3>2
      <4> QED BY <1>4, <1>5, <3>1, <4>1
    <3>3. CASE ~(UseIn(db, k) = Never \/ UseIn(db, k) < StaleBefore(clock))
      <4>1. UseIn(db', k) = UseIn(db, k) /\ UseIn(db, k) \in Nat
        BY <1>2, <1>5, <3>3
      <4>2. UseIn(db, k) >= clock - Throttle
        BY <1>4, <1>5, <3>3, <4>1 DEF StaleBefore
      <4> QED BY <1>4, <1>5, <3>1, <4>1, <4>2
    <3> QED BY <3>2, <3>3
  <2> QED BY <2>1, <2>3, <2>4
<1>8. ASSUME NEW j \in Keys
      PROVE  Excused(j)' \/
               /\ used'[j] # Never => UseIn(db', j) # Never /\ used'[j] - UseIn(db', j) < 2 * Throttle
               /\ lastTouch'[j] # Never => UseIn(db', j) # Never /\ lastTouch'[j] - UseIn(db', j) <= Throttle
  <2>1. CASE j = k
    BY <1>7, <2>1
  <2>2. CASE j # k
    <3>1. UseIn(db', j) = UseIn(db, j) /\ used'[j] = used[j] /\ lastTouch'[j] = lastTouch[j]
      BY <1>2, <2>2
    <3>2. Excused(j) => Excused(j)'
      BY <1>2, ExcusesStay
    <3> QED BY <3>1, <3>2 DEF UseInv
  <2> QED BY <2>1, <2>2
<1>9. ASSUME NEW q \in Reqs, Open(q)', NEW j \in Keys
      PROVE  UseIn(Other(q)', j) = UseIn(db', j) \/ MissedBy(q, j)' \/ Excused(j)'
  <2>1. q # r
    BY <1>3, <1>9 DEF Open
  <2>2. Open(q)
    BY <1>2, <1>9, <2>1, OthersKeep
  <2>3. Other(q)' = Other(q)
    <3>1. Untouched(q)
      BY <1>2, <2>1 DEF StepOf
    <3> QED BY <1>3, <2>2, <3>1 DEF Other, Untouched
  <2>4. UseIn(Other(q), j) = UseIn(db, j) \/ MissedBy(q, j) \/ Excused(j)
    BY <2>2 DEF UseInv
  <2>5. (MissedBy(q, j) => MissedBy(q, j)') /\ (Excused(j) => Excused(j)')
    BY <1>2, ExcusesStay
  <2>6. UseIn(db', j) = UseIn(db, j) \/ MissedBy(q, j)'
    <3>1. write = "done" /\ j = k => MissedBy(q, j)'
      BY <1>2, <2>1, <2>2 DEF MissedBy
    <3> QED BY <1>2, <3>1
  <2> QED BY <2>3, <2>4, <2>5, <2>6
<1>10. \A j : UseIn(db, j)' = UseIn(db', j) /\ \A q \in Reqs : UseIn(Other(q), j)' = UseIn(Other(q)', j)
  BY <1>3, ShownUse
<1> QED BY <1>8, <1>9, <1>10 DEF UseInv

LEMMA SameExcuses ==
  ASSUME adapter' = adapter, touched' = touched, during' = during,
         \A r \in Reqs : Undid(r) => Undid(r)', NEW k
  PROVE  Excused(k) => Excused(k)'
  BY DEF Excused, Undone

LEMMA TickUse ==
  ASSUME UseInv, Tick
  PROVE  UseInv'
<1>1. /\ adapter' = adapter /\ db' = db /\ pc' = pc /\ reply' = reply /\ touched' = touched /\ during' = during
      /\ used' = used /\ lastTouch' = lastTouch
      /\ \A r \in Reqs : pc[r] \in {"idle", "closed"}
  BY DEF Tick, flow
<1>2. \A k : UseIn(db, k)' = UseIn(db, k)
  BY <1>1, ShownUse
<1>3. \A k : Excused(k) => Excused(k)'
  BY <1>1, SameExcuses DEF Undid
<1>4. \A r \in Reqs : ~Open(r)'
  BY <1>1 DEF Open
<1> QED BY <1>1, <1>2, <1>3, <1>4 DEF UseInv

LEMMA CrashUse ==
  ASSUME FlowInv, UseInv, Crash
  PROVE  UseInv'
<1>1. /\ adapter' = adapter /\ adapter = "sqlite" /\ db' = Committed /\ touched' = touched /\ during' = during
      /\ used' = used /\ lastTouch' = [k \in Keys |-> Never]
      /\ pc' = [r \in Reqs |-> IF pc[r] = "idle" THEN "idle" ELSE "closed"]
      /\ reply' = [r \in Reqs |-> IF Open(r) THEN [status |-> "error", version |-> 0] ELSE reply[r]]
  BY CrashFlow DEF Crash
<1>2. \A r \in Reqs : ~Open(r)'
  BY <1>1 DEF Open
<1>3. \A r \in Reqs : (Undid(r) => Undid(r)') /\ (Open(r) => Undid(r)')
  BY <1>1 DEF Undid, Open
<1>4. \A k : Excused(k) => Excused(k)'
  BY <1>1, <1>3, SameExcuses
<1>5. ASSUME NEW k \in Keys PROVE UseIn(db', k) = UseIn(db, k) \/ Excused(k)'
  <2>1. CASE inTx = None
    BY <1>1, <2>1 DEF Committed
  <2>2. CASE inTx # None
    <3>1. inTx \in Reqs /\ Open(inTx) /\ db' = Other(inTx)
      BY <1>1, <2>2 DEF FlowInv, TransactionInv, Committed, Other
    <3>2. UseIn(Other(inTx), k) = UseIn(db, k) \/ MissedBy(inTx, k) \/ Excused(k)
      BY <3>1 DEF UseInv
    <3>3. MissedBy(inTx, k) => Excused(k)'
      BY <1>1, <1>3, <3>1 DEF MissedBy, Excused, Undone
    <3> QED BY <1>4, <3>1, <3>2, <3>3
  <2> QED BY <2>1, <2>2
<1>6. \A k : UseIn(db, k)' = UseIn(db', k)
  BY <1>1, ShownUse
<1> QED BY <1>1, <1>2, <1>4, <1>5, <1>6 DEF UseInv

LEMMA UseStep ==
  ASSUME FlowInv, UseInv, [Next]_vars
  PROVE  UseInv'
<1>1. CASE UNCHANGED vars
  <2>1. /\ adapter' = adapter /\ db' = db /\ pc' = pc /\ reply' = reply /\ touched' = touched /\ during' = during
        /\ used' = used /\ lastTouch' = lastTouch /\ saved' = saved /\ draft' = draft
    BY <1>1 DEF vars
  <2>2. \A k : UseIn(db, k)' = UseIn(db, k) /\ \A r \in Reqs : UseIn(Other(r), k)' = UseIn(Other(r), k)
    BY <2>1, ShownUse DEF Other
  <2>3. \A k : Excused(k) => Excused(k)'
    BY <2>1, SameExcuses DEF Undid
  <2>4. \A r \in Reqs : (Open(r)' <=> Open(r)) /\ \A k : MissedBy(r, k)' <=> MissedBy(r, k)
    BY <2>1 DEF Open, MissedBy
  <2> QED BY <2>1, <2>2, <2>3, <2>4 DEF UseInv
<1> QED BY <1>1, ReceiveUse, WorkUse, HookUse, TickUse, CrashUse DEF Next, Hook

LEMMA UseBound == UseInv => LastUsedFollows
<1> SUFFICES ASSUME UseInv PROVE LastUsedFollows
  OBVIOUS
<1>1. \A k : StoredUse(k) = UseIn(db, k)
  BY DEF StoredUse, UseIn
<1> QED BY <1>1 DEF UseInv, LastUsedFollows, Excused

LEMMA InitUse ==
  ASSUME Init
  PROVE  UseInv
  BY DEF Init, UseInv, Open

\* The use cases' units of work, the reads and the last-use writes keep their state in
\* step: a transaction belongs to the request that opened it, and every request holds
\* what it needs to go on.
THEOREM EmbeddedInvariance == Spec => []FlowInv
<1>1. Init => FlowInv
  BY InitFlow
<1>2. FlowInv /\ [Next]_vars => FlowInv'
  BY FlowStep
<1> QED BY <1>1, <1>2, PTL DEF Spec

\* last_used_at lags the last answered request of a key by less than two throttle
\* windows, unless the hook's write failed or was undone with a unit of work.
THEOREM LastUsedFollowsHolds == Spec => []LastUsedFollows
<1>1. Init => FlowInv /\ UseInv
  BY InitFlow, InitUse
<1>2. FlowInv /\ UseInv /\ [Next]_vars => (FlowInv /\ UseInv)'
  BY FlowStep, UseStep
<1>3. FlowInv /\ UseInv => LastUsedFollows
  BY UseBound
<1> QED BY <1>1, <1>2, <1>3, PTL DEF Spec

-----------------------------------------------------------------------------
(* Where every unit of work stands, against the committed tables.          *)

LEMMA UnitShows ==
  ASSUME adapter' = adapter, NEW r \in Reqs, NEW C, NEW M, C = View(Committed'), M = View(Mine(r)'),
         UnitShape(r, pc'[r], op'[r], before'[r], result'[r], after'[r], C, M)
  PROVE  UnitInv(r)'
<1>1. View(Committed)' = C /\ View(Mine(r))' = M
  <2>1. \A s : View(s)' = View(s)
    BY Rigid
  <2> QED BY <2>1
<1>2. \A p, o, b, res, a, v, w : UnitShape(r, p, o, b, res, a, v, w)' <=> UnitShape(r, p, o, b, res, a, v, w)
  BY Rigid DEF UnitShape
<1> QED BY <1>1, <1>2 DEF UnitInv

LEMMA MemoryCommitted == FlowInv /\ adapter = "memory" => Committed = db
  BY DEF FlowInv, TransactionInv, Committed

\* A unit of work stands where it stood while another request takes a step that leaves
\* the live tables as they look, or ends by committing.
LEMMA OthersUnit ==
  ASSUME FlowInv, FlowInv', ContractInv, NEW r \in Reqs, StepOf(r), NEW q \in Reqs, q # r,
         View(db') = View(db) \/ (Open(q) => Overlapped(q)')
  PROVE  UnitInv(q)'
<1>1. /\ adapter' = adapter /\ Untouched(q) /\ during[q] \subseteq during'[q] /\ UnitInv(q)
      /\ Open(q)' <=> Open(q)
  BY OthersKeep DEF StepOf, Additions, ContractInv
<1>2. CASE ~Open(q) \/ Overlapped(q)'
  BY <1>1, <1>2 DEF UnitInv
<1>3. CASE Open(q) /\ ~Overlapped(q)'
  <2>1. /\ adapter \in {"sqlite", "memory"}
        /\ IF adapter = "sqlite" THEN inTx = q /\ Mine(q) = db /\ Committed = saved
           ELSE Mine(q) = draft[q] /\ Committed = db
    BY <1>3, Unit
  <2>2. View(db') = View(db) /\ ~Overlapped(q)
    BY <1>1, <1>3 DEF Overlapped
  <2>3. View(Committed') = View(Committed) /\ View(Mine(q)') = View(Mine(q))
    <3>1. CASE adapter = "sqlite"
      <4>1. inTx' = inTx /\ saved' = saved /\ q # None
        BY <1>1, <1>3, <3>1, Rowless DEF Untouched
      <4>2. Committed' = saved /\ Mine(q)' = db'
        BY <1>1, <2>1, <3>1, <4>1 DEF Committed, Mine
      <4> QED BY <2>1, <2>2, <3>1, <4>2
    <3>2. CASE adapter = "memory"
      <4>1. Committed' = db' /\ Mine(q)' = draft[q]
        BY <1>1, <3>2, MemoryCommitted DEF Mine, Untouched, FlowInv, TransactionInv, Committed
      <4> QED BY <2>1, <2>2, <3>2, <4>1
    <3> QED BY <2>1, <3>1, <3>2
  <2>4. UnitShape(q, pc[q], op[q], before[q], result[q], after[q], View(Committed), View(Mine(q)))
    BY <1>1, <1>3, <2>2 DEF UnitInv
  <2>5. /\ pc'[q] = pc[q] /\ op'[q] = op[q] /\ before'[q] = before[q] /\ result'[q] = result[q]
        /\ after'[q] = after[q]
    BY <1>1 DEF Untouched
  <2>6. PICK C, M : C = View(Committed') /\ M = View(Mine(q)')
    OBVIOUS
  <2>7. UnitShape(q, pc'[q], op'[q], before'[q], result'[q], after'[q], C, M)
    BY <2>3, <2>4, <2>5, <2>6
  <2> QED BY <1>1, <2>6, <2>7, UnitShows
<1> QED BY <1>2, <1>3

\* The same of all of them, and of r itself.
LEMMA ContractFrom ==
  ASSUME FlowInv, FlowInv', ContractInv, NEW r \in Reqs, StepOf(r), UnitInv(r)',
         \/ View(db') = View(db)
         \/ \A q \in Reqs : q # r /\ Open(q) => Overlapped(q)'
  PROVE  ContractInv'
<1>1. ASSUME NEW q \in Reqs PROVE UnitInv(q)'
  BY <1>1, OthersUnit
<1> QED BY <1>1 DEF ContractInv

LEMMA ReceiveContract ==
  ASSUME FlowInv, ContractInv, NEW r \in Reqs, Receive(r)
  PROVE  ContractInv'
<1>1. PICK c \in Creds[r], o \in Workload[r] \cup Batches[r] :
        \/ TurnAway(r, c, o)
        \/ Read(r, c, o)
        \/ RecordExposures(r, c, o)
        \/ BeginCreate(r, c, o)
        \/ Begin(r, c, o)
        \/ BeginWithin(r, c, o)
  BY DEF Receive
<1>2. TypesInv /\ adapter \in {"sqlite", "memory"} /\ StoreOk(db) /\ \A q \in Reqs : q # None
  BY Rowless DEF FlowInv, TypesInv
<1>3. CASE TurnAway(r, c, o) \/ Read(r, c, o) \/ BeginWithin(r, c, o) \/ RecordExposures(r, c, o)
  <2>1. FlowInv' /\ StepOf(r) /\ View(db') = View(db)
    BY <1>3, TurnAwayFlow, ReadFlow, BeginWithinFlow, RecordExposuresFlow DEF TurnAway, Read, BeginWithin
  <2>2. ~Open(r)'
    BY <1>2, <1>3 DEF TurnAway, Read, BeginWithin, RecordExposures, Answer, TypesInv, Open
  <2> QED BY <2>1, <2>2, ContractFrom DEF UnitInv
<1>4. CASE Begin(r, c, o)
  <2>1. FlowInv' /\ StepOf(r) /\ db' = db /\ adapter' = adapter /\ OpenUnit(r, c, o)
    BY <1>4, BeginFlow DEF Begin, StepOf
  <2>2. o \in Op /\ op'[r] = o /\ IF adapter = "sqlite" THEN inTx' = r /\ saved' = db ELSE inTx' = None
    BY <2>1, Opens
  <2>3. Committed' = db /\ Mine(r)' = db
    <3>1. adapter # "sqlite" => draft'[r] = db
      BY <1>2, <1>4 DEF Begin, TypesInv
    <3> QED BY <1>2, <2>1, <2>2, <3>1 DEF Committed, Mine
  <2>4. pc'[r] = "mutate" /\ before'[r] = Snapshot0(db, o)
    BY <1>2, <1>4 DEF Begin, TypesInv
  <2>5. before'[r] = SnapOf(View(db), o)
    BY <1>2, <2>2, <2>4, StoreReads
  <2>6. PICK C, M : C = View(Committed') /\ M = View(Mine(r)')
    OBVIOUS
  <2>7. UnitShape(r, pc'[r], op'[r], before'[r], result'[r], after'[r], C, M)
    BY <2>2, <2>3, <2>4, <2>5, <2>6 DEF UnitShape
  <2>8. UnitInv(r)'
    BY <2>1, <2>6, <2>7, UnitShows
  <2> QED BY <2>1, <2>8, ContractFrom
<1>5. CASE BeginCreate(r, c, o)
  <2>1. /\ FlowInv' /\ StepOf(r) /\ adapter' = adapter /\ OpenUnit(r, c, o) /\ Apply(r, db, o, "record")
        /\ before' = before /\ o.kind = "create"
    BY <1>5, BeginCreateFlow DEF BeginCreate, StepOf
  <2>2. /\ o \in Op /\ Mutates(o) /\ op'[r] = o
        /\ IF adapter = "sqlite" THEN inTx' = r /\ saved' = db ELSE inTx' = None
        /\ adapter = "sqlite" => \A q \in Reqs : ~Open(q)
    BY <2>1, Opens
  <2>3. before'[r] = NothingRead
    <3>1. Admit(r, c, o)
      BY <2>1 DEF OpenUnit
    <3> QED BY <2>1, <3>1, Arrives
  <2>4. PICK d : d = Mutated(db, r, o)
    OBVIOUS
  <2>5. /\ Outcome(r, o, db, d)
        /\ IF adapter = "sqlite" THEN db' = d.store /\ draft' = draft
           ELSE db' = db /\ draft'[r] = d.store /\ \A q \in Reqs : q # r => draft'[q] = draft[q]
        /\ DOMAIN draft' = Reqs /\ DOMAIN after' = Reqs
        /\ result' \in [Reqs -> Reply] /\ result'[r] = [status |-> d.status, version |-> d.version]
        /\ pc' \in [Reqs -> Labels] /\ pc'[r] = IF d.status = "ok" THEN "record" ELSE "abort"
        /\ after'[r] = IF o.kind = "create" /\ d.status = "ok" THEN Snapshot0(d.store, o) ELSE after[r]
        /\ \A q \in Reqs : q # r => pc'[q] = pc[q] /\ result'[q] = result[q] /\ after'[q] = after[q]
    BY <1>2, <2>1, <2>2, <2>4, Applies
  <2>6. Committed' = db /\ Mine(r)' = d.store
    BY <1>2, <2>1, <2>2, <2>5 DEF Committed, Mine
  <2>7. PICK C, M : C = View(Committed') /\ M = View(Mine(r)')
    OBVIOUS
  <2>8. C = View(db) /\ M = View(d.store)
    BY <2>6, <2>7
  <2>9. UnitShape(r, pc'[r], op'[r], before'[r], result'[r], after'[r], C, M)
    <3>1. CASE d.status = "ok"
      <4>1. Effect(r, o, C, M) /\ M.audit = C.audit /\ d.version = NewVersion(o) /\ StoreOk(d.store)
        BY <2>5, <2>8, <3>1 DEF Outcome
      <4>2. C.flag[o.flag] = None
        BY <2>1, <4>1 DEF Effect, Tables
      <4>3. before'[r] = SnapOf(C, o)
        BY <2>3, <4>2 DEF SnapOf
      <4>4. after'[r] = SnapOf(M, o)
        BY <1>2, <2>1, <2>2, <2>5, <2>8, <3>1, <4>1, StoreReads
      <4> QED BY <2>2, <2>5, <3>1, <4>1, <4>3, <4>4 DEF UnitShape
    <3>2. CASE d.status # "ok"
      <4>1. Refused(C, o, d.status) /\ pc'[r] = "abort" /\ result'[r].status = d.status
        BY <2>5, <2>8, <3>2 DEF Outcome
      <4> QED BY <2>2, <4>1 DEF UnitShape
    <3> QED BY <3>1, <3>2
  <2>10. UnitInv(r)'
    BY <2>1, <2>7, <2>9, UnitShows
  <2> QED BY <1>2, <2>1, <2>2, <2>5, <2>10, ContractFrom
<1> QED BY <1>1, <1>3, <1>4, <1>5

\* r's own store and the committed one, when r's step may write only its own.
LEMMA OwnStore ==
  ASSUME FlowInv, NEW r \in Reqs, Open(r), adapter' = adapter, inTx' = inTx, saved' = saved,
         adapter = "memory" => db' = db
  PROVE  /\ Committed' = Committed
         /\ Mine(r)' = IF adapter = "sqlite" THEN db' ELSE draft'[r]
         /\ View(db') = View(db) \/ \A q \in Reqs : q # r => ~Open(q)
<1>1. /\ adapter \in {"sqlite", "memory"}
      /\ IF adapter = "sqlite" THEN inTx = r /\ Committed = saved ELSE Committed = db /\ inTx = None
      /\ adapter = "sqlite" => \A q \in Reqs : q # r => ~Open(q)
  BY Unit
<1>2. r # None
  BY Rowless
<1> QED BY <1>1, <1>2 DEF Committed, Mine

LEMMA WorkContract ==
  ASSUME FlowInv, ContractInv, NEW r \in Reqs, Work(r)
  PROVE  ContractInv'
<1>1. Open(r)
  BY DEF Work, Mutate, ReadAfter, RecordAudit, Fail, Commit, Abort, Open
<1>2. /\ TypesInv /\ adapter \in {"sqlite", "memory"} /\ StoreOk(db) /\ StoreOk(Mine(r))
      /\ op[r] \in Op /\ Mutates(op[r])
      /\ IF adapter = "sqlite" THEN inTx = r /\ Mine(r) = db ELSE Mine(r) = draft[r]
      /\ adapter = "sqlite" => \A q \in Reqs : q # r => ~Open(q)
  BY <1>1, Unit
<1>3. FlowInv' /\ StepOf(r) /\ adapter' = adapter
  BY MutateFlow, ReadAfterFlow, RecordAuditFlow, FailFlow, CommitFlow, AbortFlow DEF Work, StepOf
<1>4. PICK C, M : C = View(Committed) /\ M = View(Mine(r))
  OBVIOUS
<1>5. ~Overlapped(r) => UnitShape(r, pc[r], op[r], before[r], result[r], after[r], C, M)
  BY <1>1, <1>4 DEF ContractInv, UnitInv
<1>6. Overlapped(r) => Overlapped(r)'
  BY <1>3 DEF Overlapped, StepOf, Additions
<1>7. Overlapped(r)' => UnitInv(r)'
  BY DEF UnitInv
<1>8. CASE Mutate(r)
  <2>1. PICK d : d = Mutated(Mine(r), r, op[r])
    OBVIOUS
  <2>2. /\ Outcome(r, op[r], Mine(r), d)
        /\ IF adapter = "sqlite" THEN db' = d.store /\ draft' = draft
           ELSE db' = db /\ draft'[r] = d.store /\ \A q \in Reqs : q # r => draft'[q] = draft[q]
        /\ DOMAIN draft' = Reqs /\ DOMAIN after' = Reqs
        /\ result' \in [Reqs -> Reply] /\ result'[r] = [status |-> d.status, version |-> d.version]
        /\ pc' \in [Reqs -> Labels] /\ pc'[r] = IF d.status = "ok" THEN "after" ELSE "abort"
    BY <1>2, <1>8, <2>1, Applies DEF Mutate
  <2>3. pc[r] = "mutate" /\ op' = op /\ before' = before /\ inTx' = inTx /\ saved' = saved
    BY <1>8 DEF Mutate
  <2>4. /\ Committed' = Committed /\ Mine(r)' = d.store
        /\ View(db') = View(db) \/ \A q \in Reqs : q # r => ~Open(q)
    BY <1>1, <1>2, <1>3, <2>2, <2>3, OwnStore
  <2>5. ASSUME ~Overlapped(r) PROVE UnitInv(r)'
    <3>1. PICK N : N = View(Mine(r)')
      OBVIOUS
    <3>2. M = C /\ before[r] = SnapOf(C, op[r])
      BY <1>5, <2>3, <2>5 DEF UnitShape
    <3>3. UnitShape(r, pc'[r], op'[r], before'[r], result'[r], after'[r], C, N)
      <4>1. CASE d.status = "ok"
        <5>1. Effect(r, op[r], C, N) /\ N.audit = C.audit /\ d.version = NewVersion(op[r])
          BY <1>4, <2>2, <2>4, <3>1, <3>2, <4>1 DEF Outcome
        <5> QED BY <2>2, <2>3, <3>2, <4>1, <5>1 DEF UnitShape
      <4>2. CASE d.status # "ok"
        <5>1. Refused(C, op[r], d.status) /\ pc'[r] = "abort" /\ result'[r].status = d.status
          BY <1>4, <2>2, <3>2, <4>2 DEF Outcome
        <5> QED BY <2>3, <5>1 DEF UnitShape
      <4> QED BY <4>1, <4>2
    <3>4. C = View(Committed')
      BY <1>4, <2>4
    <3> QED BY <1>3, <3>1, <3>3, <3>4, UnitShows
  <2> QED BY <1>3, <1>6, <1>7, <2>4, <2>5, ContractFrom
<1>9. CASE ReadAfter(r)
  <2>1. /\ pc[r] = "after" /\ op' = op /\ before' = before /\ result' = result
        /\ inTx' = inTx /\ saved' = saved /\ db' = db /\ draft' = draft
    BY <1>9 DEF ReadAfter
  <2>2. Committed' = Committed /\ Mine(r)' = Mine(r)
    BY <1>1, <1>2, <1>3, <2>1, OwnStore
  <2>3. pc'[r] = "record" /\ after'[r] = Snapshot0(Mine(r), op[r])
    BY <1>2, <1>9 DEF ReadAfter, TypesInv
  <2>4. after'[r] = SnapOf(M, op[r])
    BY <1>2, <1>4, <2>3, StoreReads
  <2>5. ASSUME ~Overlapped(r) PROVE UnitInv(r)'
    <3>1. UnitShape(r, pc'[r], op'[r], before'[r], result'[r], after'[r], C, M)
      BY <1>5, <2>1, <2>3, <2>4, <2>5 DEF UnitShape
    <3>2. C = View(Committed') /\ M = View(Mine(r)')
      BY <1>4, <2>2
    <3> QED BY <1>3, <3>1, <3>2, UnitShows
  <2> QED BY <1>3, <1>6, <1>7, <2>1, <2>5, ContractFrom
<1>10. CASE Fail(r)
  <2>1. /\ op' = op /\ before' = before /\ after' = after /\ inTx' = inTx /\ saved' = saved /\ db' = db
        /\ draft' = draft
    BY <1>10 DEF Fail
  <2>2. Committed' = Committed /\ Mine(r)' = Mine(r)
    BY <1>1, <1>2, <1>3, <2>1, OwnStore
  <2>3. pc'[r] = "abort" /\ result'[r] = [status |-> "error", version |-> 0]
    BY <1>2, <1>10 DEF Fail, TypesInv
  <2>4. UnitInv(r)'
    <3>1. Refused(C, op[r], "error")
      BY DEF Refused
    <3>2. UnitShape(r, pc'[r], op'[r], before'[r], result'[r], after'[r], C, M)
      BY <2>1, <2>3, <3>1 DEF UnitShape
    <3>3. C = View(Committed') /\ M = View(Mine(r)')
      BY <1>4, <2>2
    <3> QED BY <1>3, <3>2, <3>3, UnitShows
  <2> QED BY <1>3, <2>1, <2>4, ContractFrom
<1>11. CASE RecordAudit(r)
  <2>1. PICK t : t = IF adapter = "sqlite" THEN db' ELSE draft'[r]
    OBVIOUS
  <2>2. /\ View(t) = [M EXCEPT !.audit = Append(M.audit, AuditEntry(r))]
        /\ adapter = "memory" => db' = db
    BY <1>4, <1>11, <2>1, RecordAuditFlow DEF Audited
  <2>3. /\ pc[r] = "record" /\ op' = op /\ before' = before /\ result' = result /\ after' = after
        /\ inTx' = inTx /\ saved' = saved
    BY <1>11 DEF RecordAudit
  <2>4. /\ Committed' = Committed /\ Mine(r)' = t
        /\ View(db') = View(db) \/ \A q \in Reqs : q # r => ~Open(q)
    BY <1>1, <1>2, <1>3, <2>1, <2>2, <2>3, OwnStore
  <2>5. pc'[r] = "commit"
    BY <1>2, <1>11 DEF RecordAudit, TypesInv
  <2>6. ASSUME ~Overlapped(r) PROVE UnitInv(r)'
    <3>1. PICK N : N = View(Mine(r)')
      OBVIOUS
    <3>2. N.flag = M.flag /\ N.config = M.config /\ N.child = M.child /\ N.audit = Append(M.audit, AuditEntry(r))
      BY <1>4, <2>2, <2>4, <3>1 DEF View
    <3>3. /\ before[r] = SnapOf(C, op[r]) /\ Effect(r, op[r], C, M) /\ M.audit = C.audit
          /\ result[r] = [status |-> "ok", version |-> NewVersion(op[r])] /\ after[r] = SnapOf(M, op[r])
      BY <1>5, <2>3, <2>6 DEF UnitShape
    <3>4. Effect(r, op[r], C, N)
      BY <3>2, <3>3 DEF Effect
    <3>5. SnapOf(N, op[r]) = SnapOf(M, op[r])
      BY <3>2 DEF SnapOf, Snap
    <3>6. UnitShape(r, pc'[r], op'[r], before'[r], result'[r], after'[r], C, N)
      BY <2>3, <2>5, <3>2, <3>3, <3>4, <3>5 DEF UnitShape, AuditEntry
    <3>7. C = View(Committed')
      BY <1>4, <2>4
    <3> QED BY <1>3, <3>1, <3>6, <3>7, UnitShows
  <2> QED BY <1>3, <1>6, <1>7, <2>4, <2>6, ContractFrom
<1>12. CASE Commit(r) \/ Abort(r)
  <2>1. ~Open(r)'
    BY <1>2, <1>12 DEF Commit, Abort, Answer, TypesInv, Open
  <2>2. View(db') = View(db) \/ \A q \in Reqs : q # r /\ Open(q) => Overlapped(q)'
    <3>1. CASE adapter = "sqlite" \/ Abort(r)
      BY <1>2, <1>12, <3>1 DEF Abort
    <3>2. CASE adapter = "memory" /\ Commit(r)
      <4>1. Wrote(r, "commit") /\ during \in [Reqs -> SUBSET (Reqs \X {"batch", "commit", "touch"})]
        BY <1>2, <3>2 DEF Commit, TypesInv
      <4>2. \A q \in Reqs : q # r /\ Open(q) => <<r, "commit">> \in during'[q]
        BY <4>1, WroteAdds
      <4> QED BY <1>3, <3>2, <4>2 DEF Overlapped
    <3> QED BY <1>2, <1>12, <3>1, <3>2
  <2> QED BY <1>3, <2>1, <2>2, ContractFrom DEF UnitInv
<1> QED BY <1>8, <1>9, <1>10, <1>11, <1>12 DEF Work

LEMMA ContractStep ==
  ASSUME FlowInv, ContractInv, [Next]_vars
  PROVE  ContractInv'
<1>1. ASSUME NEW r \in Reqs, NEW write \in {"done", "failed", "skipped"}, TouchKey(r, write) PROVE ContractInv'
  <2>1. FlowInv' /\ StepOf(r) /\ View(db') = View(db)
    BY <1>1, TouchKeyFlow
  <2>2. ~Open(r)'
    BY <1>1 DEF TouchKey, FlowInv, TypesInv, Open
  <2> QED BY <2>1, <2>2, ContractFrom DEF UnitInv
<1>2. CASE Tick \/ Crash
  <2>1. ASSUME NEW r \in Reqs PROVE ~Open(r)'
    BY <1>2 DEF Tick, Crash, flow, Open
  <2> QED BY <2>1 DEF ContractInv, UnitInv
<1>3. CASE UNCHANGED vars
  <2>1. /\ adapter' = adapter /\ db' = db /\ saved' = saved /\ inTx' = inTx /\ draft' = draft /\ op' = op /\ pc' = pc
        /\ before' = before /\ result' = result /\ after' = after /\ during' = during
    BY <1>3 DEF vars
  <2>2. ASSUME NEW r \in Reqs PROVE UnitInv(r)'
    <3>1. UnitInv(r) /\ (Open(r)' <=> Open(r)) /\ (Overlapped(r)' <=> Overlapped(r))
      BY <2>1 DEF ContractInv, Open, Overlapped
    <3>2. CASE ~Open(r) \/ Overlapped(r)
      BY <3>1, <3>2 DEF UnitInv
    <3>3. CASE Open(r) /\ ~Overlapped(r)
      <4>1. PICK C, M : C = View(Committed') /\ M = View(Mine(r)')
        OBVIOUS
      <4>2. Committed' = Committed /\ Mine(r)' = Mine(r)
        BY <2>1 DEF Committed, Mine
      <4>3. UnitShape(r, pc'[r], op'[r], before'[r], result'[r], after'[r], C, M)
        BY <2>1, <3>1, <3>3, <4>1, <4>2 DEF UnitInv
      <4> QED BY <2>1, <4>1, <4>3, UnitShows
    <3> QED BY <3>2, <3>3
  <2> QED BY <2>2 DEF ContractInv
<1> QED BY <1>1, <1>2, <1>3, ReceiveContract, WorkContract DEF Next, Hook

LEMMA InitContract ==
  ASSUME Init
  PROVE  ContractInv
  BY DEF Init, ContractInv, UnitInv, Open

-----------------------------------------------------------------------------
(* Every step is one of the contract, a stutter, or of a unit of work that *)
(* is outdated.                                                            *)

(* The instance of the contract speaks of the same data. *)
LEMMA ContractData ==
  /\ \A f : Contract!FlagQuery(f) = FlagQuery(f)
  /\ \A f, e : Contract!ConfigQueries(f, e) = ConfigQueries(f, e)
  /\ Contract!Refs = Refs /\ Contract!Envs = Envs /\ Contract!Tables = Tables
  /\ Contract!NewFlagRow = NewFlagRow /\ Contract!NewConfigRow = NewConfigRow
  /\ Contract!NoReply = NoReply /\ Contract!Status = Status
  /\ \A o : Contract!OnConfig(o) = OnConfig(o) /\ Contract!Mutates(o) = Mutates(o)
  /\ \A r, body : Contract!RowsOf(r, body) = RowsOf(r, body)
  /\ \A body : Contract!KeysUnique(body) = KeysUnique(body)
  /\ \A c, patch : Contract!Patched(c, patch) = Patched(c, patch)
<1>1. Contract!Envs = Envs /\ Contract!Tables = Tables /\ Contract!Details = Details
  BY DEF Contract!Envs, Envs, Contract!Tables, Tables, Contract!Details, Details
<1>2. Contract!Refs = Refs
  BY <1>1 DEF Contract!Refs, Refs
<1>3. /\ \A f : Contract!FlagQuery(f) = FlagQuery(f)
      /\ \A f, e : Contract!ConfigQueries(f, e) = ConfigQueries(f, e)
  BY <1>1 DEF Contract!FlagQuery, FlagQuery, Contract!ConfigQueries, ConfigQueries
<1>4. /\ Contract!NewFlagRow = NewFlagRow /\ Contract!NewConfigRow = NewConfigRow
      /\ Contract!NoReply = NoReply /\ Contract!Status = Status
  BY DEF Contract!NewFlagRow, NewFlagRow, Contract!NewConfigRow, NewConfigRow, Contract!NoReply,
     NoReply, Contract!Status, Status
<1>5. \A o : Contract!OnConfig(o) = OnConfig(o)
  BY <1>1 DEF Contract!OnConfig, OnConfig
<1>6. \A o : Contract!Mutates(o) = Mutates(o)
  BY <1>5 DEF Contract!Mutates, Mutates
<1>7. /\ \A r, body : Contract!RowsOf(r, body) = RowsOf(r, body)
      /\ \A body : Contract!KeysUnique(body) = KeysUnique(body)
      /\ \A c, patch : Contract!Patched(c, patch) = Patched(c, patch)
  BY DEF Contract!RowsOf, RowsOf, Contract!KeysUnique, KeysUnique, Contract!Patched, Patched
<1> QED BY <1>1, <1>2, <1>3, <1>4, <1>5, <1>6, <1>7

\* What the contract calls op and reply.
Asked == [r \in Reqs |-> IF r \in Mutators THEN op[r] ELSE None]
Answered == [r \in Reqs |-> IF r \in Mutators THEN reply[r] ELSE NoReply]

\* A step whose committed view goes from C to N.
From(C) == C = View(Committed)
To(N) == N = View(Committed')

LEMMA ContractSees ==
  ASSUME adapter' = adapter, NEW C, NEW N, From(C), To(N)
  PROVE  /\ FlagRows(Committed) = C.flag /\ ConfigRows(Committed) = C.config
         /\ ChildRows(Committed) = C.child /\ AuditRows(Committed) = C.audit
         /\ FlagRows(Committed)' = N.flag /\ ConfigRows(Committed)' = N.config
         /\ ChildRows(Committed)' = N.child /\ AuditRows(Committed)' = N.audit
<1>1. \A s : View(s)' = View(s)
  BY Rigid
<1>2. View(Committed)' = N
  BY <1>1 DEF To
<1>3. View(Committed)' = [flag |-> FlagRows(Committed)', config |-> ConfigRows(Committed)',
                          child |-> ChildRows(Committed)', audit |-> AuditRows(Committed)']
  BY DEF View
<1> QED BY <1>2, <1>3 DEF From, View

LEMMA Stutters ==
  ASSUME adapter' = adapter, View(Committed') = View(Committed), Asked' = Asked, Answered' = Answered
  PROVE  UNCHANGED Contract!vars
<1>1. PICK C : From(C) /\ To(C)
  BY DEF From, To
<1>2. /\ FlagRows(Committed)' = FlagRows(Committed) /\ ConfigRows(Committed)' = ConfigRows(Committed)
      /\ ChildRows(Committed)' = ChildRows(Committed) /\ AuditRows(Committed)' = AuditRows(Committed)
  BY <1>1, ContractSees
<1> QED BY <1>2 DEF Contract!vars, Asked, Answered

\* A snapshot as the contract takes it.
StoredOf(v, Q) ==
  [flag |-> [f \in Flags |-> IF FlagQuery(f) \in Q THEN v.flag[f] ELSE None],
   config |-> [x \in Refs |-> IF <<"config", x>> \in Q THEN v.config[x] ELSE None],
   rules |-> [x \in Refs |-> IF <<"rules", x>> \in Q THEN v.child["rules"][x] ELSE None],
   overrides |-> [x \in Refs |-> IF <<"overrides", x>> \in Q THEN v.child["overrides"][x] ELSE None]]
ScopeOf(v, o) ==
  CASE o.kind \in {"create", "archive"} ->
         IF v.flag[o.flag] = None THEN {}
         ELSE {FlagQuery(o.flag)} \cup UNION {ConfigQueries(o.flag, e) : e \in Envs}
    [] OTHER -> {FlagQuery(o.flag)} \cup ConfigQueries(o.flag, o.env)

LEMMA ContractReads ==
  ASSUME adapter' = adapter, NEW C, NEW N, From(C), To(N)
  PROVE  /\ \A Q : Contract!Stored(Q) = StoredOf(C, Q) /\ Contract!Stored(Q)' = StoredOf(N, Q)
         /\ \A o : Contract!Scope(o) = ScopeOf(C, o) /\ Contract!Scope(o)' = ScopeOf(N, o)
  BY ContractSees, ContractData DEF Contract!Stored, StoredOf, Contract!Scope, ScopeOf

LEMMA ConfigQueriesAre ==
  ASSUME NEW f, NEW e
  PROVE  ConfigQueries(f, e) = {<<"config", <<f, e>>>>, <<"rules", <<f, e>>>>, <<"overrides", <<f, e>>>>}
<1>1. DOMAIN Details = {1, 2, 3}
  BY DEF Details
<1> QED BY <1>1 DEF ConfigQueries, Details

\* The queries a snapshot of the configurations X of a flag asks.
LEMMA StoredIsSnap ==
  ASSUME NEW v, NEW f \in Flags, NEW X \in SUBSET Refs, NEW Q,
         \A q : q \in Q <=> \/ q = FlagQuery(f)
                            \/ \E x \in X, t \in {"config", "rules", "overrides"} : q = <<t, x>>
  PROVE  StoredOf(v, Q) = Snap(v, f, X)
<1>1. \A g \in Flags : FlagQuery(g) \in Q <=> g = f
  BY DEF FlagQuery
<1>2. \A x \in Refs, t \in {"config", "rules", "overrides"} : <<t, x>> \in Q <=> x \in X
  BY DEF FlagQuery
<1> QED BY <1>1, <1>2 DEF StoredOf, Snap

LEMMA ScopeIs ==
  ASSUME NEW v, NEW o \in Op, Mutates(o), OnConfig(o) => v.flag[o.flag] # None
  PROVE  StoredOf(v, ScopeOf(v, o)) = SnapOf(v, o)
<1>1. /\ o.flag \in Flags /\ (OnConfig(o) <=> o.kind \notin {"create", "archive"})
      /\ OnConfig(o) => o.env \in Envs /\ o.kind # "find"
  BY OpFields, Kinds DEF OnConfig, Tables
<1>2. CASE v.flag[o.flag] = None
  <2>1. ScopeOf(v, o) = {}
    BY <1>1, <1>2 DEF ScopeOf
  <2>2. StoredOf(v, {}) = NothingRead
    BY DEF StoredOf, NothingRead
  <2> QED BY <1>2, <2>1, <2>2 DEF SnapOf
<1>3. CASE v.flag[o.flag] # None /\ OnConfig(o)
  <2>1. PICK X : X = {<<o.flag, o.env>>}
    OBVIOUS
  <2>2. X \in SUBSET Refs /\ Area(o) = X
    BY <1>1, <1>3, <2>1 DEF Refs, Area, RefOf
  <2>3. ScopeOf(v, o) = {FlagQuery(o.flag)} \cup ConfigQueries(o.flag, o.env)
    BY <1>1, <1>3 DEF ScopeOf
  <2>4. \A q : q \in ScopeOf(v, o) <=> \/ q = FlagQuery(o.flag)
                                       \/ \E x \in X, t \in {"config", "rules", "overrides"} : q = <<t, x>>
    BY <2>1, <2>3, ConfigQueriesAre
  <2>5. StoredOf(v, ScopeOf(v, o)) = Snap(v, o.flag, X)
    BY <1>1, <2>2, <2>4, StoredIsSnap
  <2> QED BY <1>3, <2>2, <2>5 DEF SnapOf
<1>4. CASE v.flag[o.flag] # None /\ ~OnConfig(o)
  <2>1. PICK X : X = {<<o.flag, e>> : e \in Envs}
    OBVIOUS
  <2>2. X \in SUBSET Refs /\ Area(o) = X
    BY <1>1, <1>4, <2>1 DEF Refs, Area
  <2>3. ScopeOf(v, o) = {FlagQuery(o.flag)} \cup UNION {ConfigQueries(o.flag, e) : e \in Envs}
    BY <1>1, <1>4 DEF ScopeOf
  <2>4. \A q : q \in ScopeOf(v, o) <=> \/ q = FlagQuery(o.flag)
                                       \/ \E x \in X, t \in {"config", "rules", "overrides"} : q = <<t, x>>
    BY <2>1, <2>3, ConfigQueriesAre
  <2>5. StoredOf(v, ScopeOf(v, o)) = Snap(v, o.flag, X)
    BY <1>1, <2>2, <2>4, StoredIsSnap
  <2> QED BY <1>4, <2>2, <2>5 DEF SnapOf
<1> QED BY <1>2, <1>3, <1>4

LEMMA NoneAsked ==
  /\ \A o \in Op : o # None
  /\ NoReply = [status |-> "none", version |-> 0]
  BY FlagDataAssumption DEF FlagDataAssumption, NoReply

\* What a step of r changes of the contract's requests.
LEMMA SameAsked ==
  ASSUME NEW r \in Reqs, StepOf(r), r \notin Mutators, r \notin Mutators'
  PROVE  Asked' = Asked /\ Answered' = Answered
<1>1. \A q \in Reqs : (q \in Mutators' <=> q \in Mutators) /\ (q # r => op'[q] = op[q] /\ reply'[q] = reply[q])
  BY DEF StepOf, Untouched, Mutators
<1> QED BY <1>1 DEF Asked, Answered

LEMMA SameOps ==
  ASSUME NEW r \in Reqs, StepOf(r), op' = op
  PROVE  /\ Asked' = Asked
         /\ r \in Mutators => Answered' = [Answered EXCEPT ![r] = reply'[r]] /\ Asked[r] = op[r]
                              /\ Answered[r] = reply[r]
         /\ reply'[r] = reply[r] => Answered' = Answered
<1>1. Mutators' = Mutators
  BY DEF Mutators
<1>2. \A q \in Reqs : q # r => reply'[q] = reply[q]
  BY DEF StepOf, Untouched
<1>3. Asked' = Asked
  BY <1>1 DEF Asked
<1> HIDE DEF NoReply
<1>4. r \in Mutators => Answered' = [Answered EXCEPT ![r] = reply'[r]] /\ Asked[r] = op[r] /\ Answered[r] = reply[r]
  BY <1>1, <1>2 DEF Answered, Asked
<1>5. reply'[r] = reply[r] => Answered' = Answered
  BY <1>1, <1>2 DEF Answered
<1> QED BY <1>3, <1>4, <1>5

\* The audit row and the answer of a commit are those of the contract.
LEMMA IsDone ==
  ASSUME adapter' = adapter, NEW C, NEW N, From(C), To(N), NEW r \in Reqs, NEW o \in Op, Mutates(o),
         Asked[r] = o, Asked' = Asked, NEW version,
         OnConfig(o) => C.flag[o.flag] # None /\ N.flag[o.flag] # None,
         N.audit = Append(C.audit, [by |-> r, op |-> o, before |-> SnapOf(C, o), after |-> SnapOf(N, o)]),
         Answered' = [Answered EXCEPT ![r] = [status |-> "ok", version |-> version]]
  PROVE  Contract!Done(r, version)
<1>1. AuditRows(Committed) = C.audit /\ AuditRows(Committed)' = N.audit
  BY ContractSees
<1>2. Contract!Stored(Contract!Scope(Asked[r])) = SnapOf(C, o)
  <2>1. Contract!Stored(Contract!Scope(o)) = StoredOf(C, ScopeOf(C, o))
    BY ContractReads
  <2>2. StoredOf(C, ScopeOf(C, o)) = SnapOf(C, o)
    BY ScopeIs
  <2> QED BY <2>1, <2>2
<1>3. Contract!Stored(Contract!Scope(Asked[r]))' = SnapOf(N, o)
  <2>1. Asked'[r] = o
    OBVIOUS
  <2>2. \A Q : Contract!Stored(Q)' = StoredOf(N, Q)
    BY ContractReads
  <2>3. Contract!Scope(o)' = ScopeOf(N, o)
    BY ContractReads
  <2>4. StoredOf(N, ScopeOf(N, o)) = SnapOf(N, o)
    BY ScopeIs
  <2> QED BY <2>1, <2>2, <2>3, <2>4
<1> QED BY <1>1, <1>2, <1>3 DEF Contract!Done, Asked, Answered

LEMMA IsOpen ==
  ASSUME NEW r \in Reqs, NEW o \in Op, Asked[r] = o, Answered[r] = NoReply
  PROVE  Contract!Open(r)
  BY NoneAsked, ContractData DEF Contract!Open, Asked, Answered

LEMMA IsVersion ==
  ASSUME adapter' = adapter, NEW C, NEW N, From(C), To(N), NEW o
  PROVE  Contract!CurrentVersion(o) <=> C.config[RefOf(o)] # None /\ C.config[RefOf(o)].version = o.expected
  BY ContractSees DEF Contract!CurrentVersion, RefOf

LEMMA CommitIs ==
  ASSUME adapter' = adapter, NEW C, NEW N, From(C), To(N), NEW r \in Reqs, NEW o \in Op, Mutates(o),
         Asked[r] = o, Asked' = Asked, Answered[r] = NoReply,
         OnConfig(o) => C.flag[o.flag] # None /\ N.flag[o.flag] # None,
         N.audit = Append(C.audit, [by |-> r, op |-> o, before |-> SnapOf(C, o), after |-> SnapOf(N, o)]),
         Answered' = [Answered EXCEPT ![r] = [status |-> "ok", version |-> NewVersion(o)]],
         Effect(r, o, C, N), o.kind \in Tables => KeysUnique(o.body)
  PROVE  Contract!Next
<1>1. /\ FlagRows(Committed) = C.flag /\ ConfigRows(Committed) = C.config /\ ChildRows(Committed) = C.child
      /\ FlagRows(Committed)' = N.flag /\ ConfigRows(Committed)' = N.config /\ ChildRows(Committed)' = N.child
  BY ContractSees
<1>2. Contract!Open(r) /\ \A version : version = NewVersion(o) => Contract!Done(r, version)
  BY IsOpen, IsDone
<1>3. o.kind \in {"create", "archive", "config", "rules", "overrides"}
  BY Kinds
<1>4. CASE o.kind = "create"
  <2>1. /\ C.flag[o.flag] = None /\ N.flag = [C.flag EXCEPT ![o.flag] = NewFlagRow] /\ N.child = C.child
        /\ N.config = [x \in Refs |-> IF x[1] = o.flag THEN NewConfigRow ELSE C.config[x]]
    BY <1>4 DEF Effect, Tables
  <2>2. Contract!Done(r, 1)
    BY <1>2, <1>4 DEF NewVersion
  <2>3. Contract!Create(r)
    BY <1>1, <1>2, <1>4, <2>1, <2>2, ContractData DEF Contract!Create, Asked
  <2> QED BY <2>3 DEF Contract!Next
<1>5. CASE o.kind = "archive"
  <2>1. /\ C.flag[o.flag] # None /\ N.flag = [C.flag EXCEPT ![o.flag] = [archivedAt |-> r]]
        /\ N.child = C.child /\ N.config = C.config
    BY <1>5 DEF Effect, Tables
  <2>2. Contract!Done(r, 0)
    BY <1>2, <1>5 DEF NewVersion
  <2>3. Contract!Archive(r)
    BY <1>1, <1>2, <1>5, <2>1, <2>2, ContractData DEF Contract!Archive, Asked
  <2> QED BY <2>3 DEF Contract!Next
<1>6. CASE o.kind = "config"
  <2>1. /\ C.config[RefOf(o)] # None /\ C.config[RefOf(o)].version = o.expected
        /\ N.config = [C.config EXCEPT ![RefOf(o)] = [cols |-> Patched(@.cols, o.patch), version |-> @.version + 1]]
        /\ N.child = C.child /\ N.flag = C.flag
    BY <1>6 DEF Effect, Tables
  <2>2. \A version : version = o.expected + 1 => Contract!Done(r, version)
    BY <1>2, <1>6 DEF NewVersion
  <2>3. Contract!CurrentVersion(o)
    BY <2>1, IsVersion
  <2>4. Contract!Update(r)
    <3>1. PICK p : p = Asked[r]
      OBVIOUS
    <3>2. N.config = [C.config EXCEPT ![<<p.flag, p.env>>] =
                        [cols |-> Contract!Patched(@.cols, p.patch), version |-> @.version + 1]]
      <4>1. p = o /\ \A c : Contract!Patched(c, o.patch) = Patched(c, o.patch)
        BY <3>1, ContractData
      <4>2. PICK x : x = RefOf(o) /\ x = <<p.flag, p.env>>
        BY <4>1 DEF RefOf
      <4>3. N.config = [C.config EXCEPT ![x] =
                          [cols |-> Contract!Patched(@.cols, p.patch), version |-> @.version + 1]]
        BY <2>1, <4>1, <4>2
      <4> QED BY <4>2, <4>3
    <3>3. ConfigRows(Committed)' = [ConfigRows(Committed) EXCEPT ![<<p.flag, p.env>>] =
                        [cols |-> Contract!Patched(@.cols, p.patch), version |-> @.version + 1]]
      BY <1>1, <3>2
    <3>4. ConfigRows(Committed)' = [ConfigRows(Committed) EXCEPT ![<<Asked[r].flag, Asked[r].env>>] =
                        [cols |-> Contract!Patched(@.cols, Asked[r].patch), version |-> @.version + 1]]
      BY <3>1, <3>3
    <3>5. /\ Asked[r].kind = "config"
          /\ FlagRows(Committed)' = FlagRows(Committed) /\ ChildRows(Committed)' = ChildRows(Committed)
      BY <1>1, <1>6, <2>1
    <3>6. Contract!CurrentVersion(Asked[r])
      BY <2>3
    <3>7. Contract!Done(r, Asked[r].expected + 1)
      <4>1. PICK version : version = Asked[r].expected + 1
        OBVIOUS
      <4>2. version = o.expected + 1
        BY <4>1
      <4>3. Contract!Done(r, version)
        BY <2>2, <4>2
      <4> QED BY <4>1, <4>3 DEF Contract!Done
    <3> QED BY <1>2, <3>4, <3>5, <3>6, <3>7 DEF Contract!Update, Asked
  <2> QED BY <2>4 DEF Contract!Next
<1>7. CASE o.kind \in {"rules", "overrides"}
  <2>1. /\ C.config[RefOf(o)] # None /\ C.config[RefOf(o)].version = o.expected
        /\ N.config = [C.config EXCEPT ![RefOf(o)].version = @ + 1]
        /\ N.child = [C.child EXCEPT ![o.kind][RefOf(o)] = RowsOf(r, o.body)] /\ N.flag = C.flag
        /\ o.kind \in Tables /\ KeysUnique(o.body)
    BY <1>7 DEF Effect, Tables
  <2>2. \A version : version = o.expected + 1 => Contract!Done(r, version)
    BY <1>2, <1>7 DEF NewVersion
  <2>3. Contract!CurrentVersion(o)
    BY <2>1, IsVersion
  <2>4. Contract!Replace(r)
    <3>1. PICK p : p = Asked[r]
      OBVIOUS
    <3>2. p = o /\ <<p.flag, p.env>> = RefOf(o) /\ Contract!RowsOf(r, p.body) = RowsOf(r, o.body)
      BY <3>1, ContractData DEF RefOf
    <3>3. ConfigRows(Committed)' = [ConfigRows(Committed) EXCEPT ![<<p.flag, p.env>>].version = @ + 1]
      <4>1. ConfigRows(Committed)' = [ConfigRows(Committed) EXCEPT ![RefOf(o)].version = @ + 1]
        BY <1>1, <2>1
      <4> QED BY <3>2, <4>1
    <3>4. ChildRows(Committed)' =
            [ChildRows(Committed) EXCEPT ![p.kind][<<p.flag, p.env>>] = Contract!RowsOf(r, p.body)]
      <4>1. PICK k, x, rows : k = o.kind /\ x = RefOf(o) /\ rows = RowsOf(r, o.body)
        OBVIOUS
      <4>2. ChildRows(Committed)' = [ChildRows(Committed) EXCEPT ![k][x] = rows]
        BY <1>1, <2>1, <4>1
      <4>3. k = p.kind /\ x = <<p.flag, p.env>> /\ rows = Contract!RowsOf(r, p.body)
        BY <3>2, <4>1
      <4> QED BY <4>2, <4>3
    <3>5. /\ Asked[r].kind \in Contract!Tables /\ Contract!KeysUnique(Asked[r].body)
          /\ FlagRows(Committed)' = FlagRows(Committed)
      BY <1>1, <2>1, ContractData
    <3>8. Contract!CurrentVersion(Asked[r])
      BY <2>3
    <3>9. Contract!Done(r, Asked[r].expected + 1)
      <4>1. PICK version : version = Asked[r].expected + 1
        OBVIOUS
      <4>2. version = o.expected + 1
        BY <4>1
      <4>3. Contract!Done(r, version)
        BY <2>2, <4>2
      <4> QED BY <4>1, <4>3 DEF Contract!Done
    <3>6. ConfigRows(Committed)' =
            [ConfigRows(Committed) EXCEPT ![<<Asked[r].flag, Asked[r].env>>].version = @ + 1]
      BY <3>1, <3>3
    <3>7. ChildRows(Committed)' = [ChildRows(Committed) EXCEPT
            ![Asked[r].kind][<<Asked[r].flag, Asked[r].env>>] = Contract!RowsOf(r, Asked[r].body)]
      BY <3>1, <3>4
    <3> QED BY <1>2, <3>5, <3>6, <3>7, <3>8, <3>9 DEF Contract!Replace, Asked
  <2> QED BY <2>4 DEF Contract!Next
<1> QED BY <1>3, <1>4, <1>5, <1>6, <1>7

LEMMA RefusalIs ==
  ASSUME adapter' = adapter, NEW C, From(C), To(C), NEW r \in Reqs, NEW o \in Op, Mutates(o),
         Asked[r] = o, Asked' = Asked, Answered[r] = NoReply, NEW status \in Status,
         Answered' = [Answered EXCEPT ![r] = [status |-> status, version |-> 0]],
         Refused(C, o, status)
  PROVE  Contract!Next
<1>1. /\ FlagRows(Committed) = C.flag /\ ConfigRows(Committed) = C.config
      /\ FlagRows(Committed)' = C.flag /\ ConfigRows(Committed)' = C.config
      /\ ChildRows(Committed)' = C.child /\ ChildRows(Committed) = C.child
      /\ AuditRows(Committed)' = C.audit /\ AuditRows(Committed) = C.audit
  BY ContractSees
<1>2. Contract!Open(r)
  BY IsOpen
<1>3. Contract!CurrentVersion(o) <=> C.config[RefOf(o)] # None /\ C.config[RefOf(o)].version = o.expected
  BY IsVersion
<1>4. Contract!Justified(o, status)
  BY <1>1, <1>3, ContractData DEF Refused, Contract!Justified, RefOf
<1>5. Contract!Refuse(r)
  BY <1>1, <1>2, <1>4, ContractData DEF Contract!Refuse, Contract!store, Asked, Answered
<1> QED BY <1>5 DEF Contract!Next

LEMMA ViewPairs ==
  ASSUME adapter \in {"sqlite", "memory"}, NEW s, StoreOk(s), NEW x \in Refs
  PROVE  View(s).flag[x[1]] = None <=> View(s).config[x] = None
<1>1. CASE adapter = "sqlite"
  BY <1>1, SqliteView DEF StoreOk, SqliteOk
<1>2. CASE adapter = "memory"
  <2>1. MemoryOk(s) /\ x[1] \in Flags
    BY <1>2 DEF StoreOk, Refs
  <2>5. Shown(s)
    BY <1>2, <2>1, MemoryView
  <2>2. View(s).flag[x[1]] = MFlag(s, x[1]) /\ View(s).config[x] = MConfig(s, x)
    BY <2>1, <2>5 DEF Shown
  <2>3. Memory!FindFlag(s, x[1]) # 0 => MFlag(s, x[1]) # None
    BY <2>1, FoundFlag, Rowless
  <2>4. Memory!FindConfig(s, x) # 0 => MConfig(s, x) # None
    BY <2>1, FoundConfig, Rowless
  <2> QED BY <2>1, <2>2, <2>3, <2>4 DEF MemoryOk, MFlag, MConfig
<1> QED BY <1>1, <1>2

\* A request that joins the contract's.
LEMMA NewlyAsked ==
  ASSUME NEW r \in Reqs, StepOf(r), NEW o \in Op, Mutates(o), op[r] = None, op'[r] = o,
         reply[r] = NoReply, reply' = reply
  PROVE  /\ Asked[r] = None /\ Asked' = [Asked EXCEPT ![r] = o] /\ Answered' = Answered
<1>1. r \notin Mutators /\ r \in Mutators'
  BY NoneAsked DEF Mutators
<1>2. \A q \in Reqs : q # r => (q \in Mutators' <=> q \in Mutators) /\ op'[q] = op[q]
  BY DEF StepOf, Untouched, Mutators
<1> HIDE DEF NoReply
<1> QED BY <1>1, <1>2 DEF Asked, Answered

LEMMA ReceiveRefines ==
  ASSUME FlowInv, NEW r \in Reqs, Receive(r)
  PROVE  UNCHANGED Contract!vars \/ Contract!Next
<1>1. PICK c \in Creds[r], o \in Workload[r] \cup Batches[r] :
        \/ TurnAway(r, c, o)
        \/ Read(r, c, o)
        \/ RecordExposures(r, c, o)
        \/ BeginCreate(r, c, o)
        \/ Begin(r, c, o)
        \/ BeginWithin(r, c, o)
  BY DEF Receive
<1>2. TypesInv /\ pc[r] = "idle" /\ op[r] = None /\ reply[r] = NoReply /\ ~Open(r)
  BY <1>1 DEF FlowInv, RequestInv, TurnAway, Read, RecordExposures, BeginCreate, Begin, BeginWithin, OpenUnit, Admit, Open
<1>3. CASE TurnAway(r, c, o) \/ Read(r, c, o) \/ RecordExposures(r, c, o) \/ BeginWithin(r, c, o)
  <2>1. StepOf(r) /\ View(db') = View(db) /\ adapter' = adapter
    BY <1>3, TurnAwayFlow, ReadFlow, BeginWithinFlow, RecordExposuresFlow DEF TurnAway, Read, BeginWithin, StepOf
  <2>2. inTx' = inTx /\ saved' = saved
    BY <1>3 DEF TurnAway, Read, RecordExposures, BeginWithin
  <2>3. r \notin Mutators /\ r \notin Mutators'
    <3>1. op'[r] = None \/ (op'[r] = o /\ o.kind \in {"get", "find", "exposures"})
      BY <1>2, <1>3 DEF TurnAway, Read, RecordExposures, BeginWithin, TypesInv
    <3> QED BY <1>2, <3>1 DEF Mutators, Mutates, OnConfig, Tables
  <2>4. View(Committed') = View(Committed)
    BY <2>1, <2>2 DEF Committed
  <2>5. Asked' = Asked /\ Answered' = Answered
    BY <2>1, <2>3, SameAsked
  <2> QED BY <2>1, <2>4, <2>5, Stutters
<1>4. CASE Begin(r, c, o) \/ BeginCreate(r, c, o)
  <2>1. StepOf(r) /\ adapter' = adapter /\ OpenUnit(r, c, o)
    BY <1>4, BeginFlow, BeginCreateFlow DEF Begin, BeginCreate, StepOf
  <2>2. /\ o \in Op /\ Mutates(o) /\ o \in Workload[r] /\ op'[r] = o /\ reply' = reply
        /\ IF adapter = "sqlite" THEN inTx = None /\ inTx' = r /\ saved' = db
           ELSE inTx' = None /\ saved' = None /\ inTx = None /\ saved = None
    BY <2>1, Opens
  <2>3. adapter # "sqlite" => db' = db
    BY <1>4 DEF Begin, BeginCreate, Apply
  <2>4. Committed' = Committed
    BY <2>2, <2>3, Rowless DEF Committed
  <2>5. Asked[r] = None /\ Asked' = [Asked EXCEPT ![r] = o] /\ Answered' = Answered
    BY <1>2, <2>1, <2>2, NewlyAsked
  <2>6. PICK C : From(C) /\ To(C)
    BY <2>4 DEF From, To
  <2>7. /\ FlagRows(Committed)' = FlagRows(Committed) /\ ConfigRows(Committed)' = ConfigRows(Committed)
        /\ ChildRows(Committed)' = ChildRows(Committed) /\ AuditRows(Committed)' = AuditRows(Committed)
    BY <2>1, <2>6, ContractSees
  <2>8. Contract!Ask(r)
    BY <2>2, <2>5, <2>7, ContractData DEF Contract!Ask, Contract!store, Asked, Answered
  <2> QED BY <2>8 DEF Contract!Next
<1> QED BY <1>1, <1>3, <1>4

LEMMA WorkRefines ==
  ASSUME FlowInv, ContractInv, NEW r \in Reqs, Work(r)
  PROVE  UNCHANGED Contract!vars \/ Contract!Next \/ Outdated(r)
<1>1. Open(r)
  BY DEF Work, Mutate, ReadAfter, RecordAudit, Fail, Commit, Abort, Open
<1>2. /\ TypesInv /\ adapter \in {"sqlite", "memory"} /\ StoreOk(Committed) /\ StoreOk(Mine(r))
      /\ op[r] \in Op /\ Mutates(op[r]) /\ reply[r] = NoReply /\ result[r] \in Reply
      /\ IF adapter = "sqlite" THEN inTx = r /\ Mine(r) = db /\ Committed = saved
         ELSE Mine(r) = draft[r] /\ Committed = db /\ inTx = None
  BY <1>1, Unit
<1>3. FlowInv' /\ StepOf(r) /\ adapter' = adapter
  BY MutateFlow, ReadAfterFlow, RecordAuditFlow, FailFlow, CommitFlow, AbortFlow DEF Work, StepOf
<1>4. op' = op
  BY DEF Work, Mutate, ReadAfter, RecordAudit, Fail, Commit, Abort, Forget
<1>5. PICK o : o = op[r]
  OBVIOUS
<1>6. r \in Mutators
  BY <1>2, NoneAsked DEF Mutators
<1>7. /\ Asked' = Asked /\ Asked[r] = o /\ Answered[r] = NoReply
      /\ Answered' = [Answered EXCEPT ![r] = reply'[r]]
      /\ reply'[r] = reply[r] => Answered' = Answered
  BY <1>2, <1>3, <1>4, <1>5, <1>6, SameOps
<1>8. CASE Mutate(r) \/ ReadAfter(r) \/ RecordAudit(r) \/ Fail(r)
  <2>1. inTx' = inTx /\ saved' = saved /\ reply' = reply
    BY <1>8 DEF Mutate, ReadAfter, RecordAudit, Fail
  <2>2. adapter = "memory" => db' = db
    BY <1>8 DEF Mutate, ReadAfter, RecordAudit, Fail, Apply, SetMine
  <2>3. Committed' = Committed
    BY <1>1, <1>3, <2>1, <2>2, OwnStore
  <2>4. Asked' = Asked /\ Answered' = Answered
    BY <1>7, <2>1
  <2> QED BY <1>3, <2>3, <2>4, Stutters
<1>9. CASE Commit(r) \/ Abort(r)
  <2>1. pc'[r] = "answered"
    BY <1>2, <1>9 DEF Commit, Abort, Answer, TypesInv
  <2>2. CASE Overlapped(r)
    BY <1>1, <2>1, <2>2 DEF Overlapped, Outdated
  <2>3. CASE ~Overlapped(r) /\ Commit(r) /\ adapter = "memory" /\ o.kind \in Tables /\ ~KeysUnique(o.body)
    BY <1>1, <1>5, <2>1, <2>3 DEF Outdated
  <2>4. CASE ~Overlapped(r) /\ Commit(r) /\ ~(adapter = "memory" /\ o.kind \in Tables /\ ~KeysUnique(o.body))
    <3>1. PICK C, N : C = View(Committed) /\ N = View(Mine(r))
      OBVIOUS
    <3>2. Committed' = Mine(r)
      BY <1>2, <2>4 DEF Commit, Committed
    <3>3. From(C) /\ To(N)
      BY <3>1, <3>2 DEF From, To
    <3>4. pc[r] = "commit" /\ UnitShape(r, pc[r], o, before[r], result[r], after[r], C, N)
      BY <1>1, <1>5, <2>4, <3>1 DEF ContractInv, UnitInv, Commit
    <3>5. /\ Effect(r, o, C, N) /\ result[r] = [status |-> "ok", version |-> NewVersion(o)]
          /\ N.audit = Append(C.audit, [by |-> r, op |-> o, before |-> SnapOf(C, o), after |-> SnapOf(N, o)])
      BY <3>4 DEF UnitShape
    <3>6. reply'[r] = [status |-> "ok", version |-> NewVersion(o)]
      BY <1>2, <2>4, <3>5 DEF Commit, Answer, TypesInv
    <3>7. Answered' = [Answered EXCEPT ![r] = [status |-> "ok", version |-> NewVersion(o)]]
      BY <1>7, <3>6
    <3>8. OnConfig(o) => C.flag[o.flag] # None /\ N.flag[o.flag] # None
      <4> SUFFICES ASSUME OnConfig(o) PROVE C.flag[o.flag] # None /\ N.flag[o.flag] # None
        OBVIOUS
      <4>1. o.kind \in {"config", "rules", "overrides"} /\ RefOf(o) \in Refs /\ RefOf(o)[1] = o.flag
        BY <1>2, <1>5, Kinds
      <4>2. C.config[RefOf(o)] # None /\ N.flag = C.flag
        BY <3>5, <4>1 DEF Effect
      <4>3. C.flag[RefOf(o)[1]] = None <=> C.config[RefOf(o)] = None
        BY <1>2, <3>1, <4>1, ViewPairs
      <4> QED BY <4>1, <4>2, <4>3
    <3>9. o.kind \in Tables => KeysUnique(o.body)
      BY <1>2, <2>4, <3>5, Kinds DEF Effect, Tables
    <3>10. o \in Op /\ Mutates(o)
      BY <1>2, <1>5
    <3> QED BY <1>3, <1>7, <3>3, <3>5, <3>7, <3>8, <3>9, <3>10, CommitIs
  <2>5. CASE ~Overlapped(r) /\ Abort(r)
    <3>1. PICK C : C = View(Committed)
      OBVIOUS
    <3>2. Committed' = Committed
      BY <1>2, <2>5, Rowless DEF Abort, Committed
    <3>3. From(C) /\ To(C)
      BY <3>1, <3>2 DEF From, To
    <3>4. pc[r] = "abort" /\ UnitShape(r, pc[r], o, before[r], result[r], after[r], C, View(Mine(r)))
      BY <1>1, <1>5, <2>5, <3>1 DEF ContractInv, UnitInv, Abort
    <3>5. PICK status \in Status : status = result[r].status
      BY <1>2 DEF Reply
    <3>6. Refused(C, o, status)
      BY <3>4, <3>5 DEF UnitShape
    <3>7. reply'[r] = [status |-> status, version |-> 0]
      BY <1>2, <2>5, <3>5 DEF Abort, Answer, TypesInv
    <3>8. Answered' = [Answered EXCEPT ![r] = [status |-> status, version |-> 0]]
      BY <1>7, <3>7
    <3>9. o \in Op /\ Mutates(o)
      BY <1>2, <1>5
    <3> QED BY <1>3, <1>7, <3>3, <3>6, <3>8, <3>9, RefusalIs
  <2> QED BY <1>9, <2>2, <2>3, <2>4, <2>5
<1> QED BY <1>8, <1>9 DEF Work

LEMMA CrashRefines ==
  ASSUME FlowInv, Crash
  PROVE  UNCHANGED Contract!vars \/ Contract!Next
<1>1. db' = Committed /\ adapter = "sqlite" /\ adapter' = adapter
  BY CrashFlow
<1>2. op' = op /\ inTx' = None
  BY DEF Crash
<1>3. Mutators' = Mutators /\ Asked' = Asked
  BY <1>2 DEF Mutators, Asked
<1>4. Committed' = Committed
  BY <1>1, <1>2 DEF Committed
<1>5. \A q \in Reqs : reply'[q] = IF Open(q) THEN [status |-> "error", version |-> 0] ELSE reply[q]
  BY DEF Crash
<1>6. \A q \in Reqs : Open(q) => inTx = q
  BY <1>1 DEF FlowInv, RequestInv
<1> HIDE DEF NoReply
<1>7. CASE inTx = None
  <2>1. \A q \in Reqs : ~Open(q)
    BY <1>6, <1>7, Rowless
  <2>2. \A q \in Reqs : reply'[q] = reply[q]
    BY <1>5, <2>1
  <2>3. Answered' = Answered
    BY <1>3, <2>2 DEF Answered
  <2> QED BY <1>1, <1>3, <1>4, <2>3, Stutters
<1>8. CASE inTx # None
  <2>1. PICK r \in Reqs : r = inTx /\ Open(r)
    BY <1>1, <1>8 DEF FlowInv, TransactionInv
  <2>2. PICK o : o = op[r]
    OBVIOUS
  <2>3. o \in Op /\ Mutates(o) /\ reply[r] = NoReply
    BY <2>1, <2>2, Unit
  <2>4. r \in Mutators
    BY <2>2, <2>3, NoneAsked DEF Mutators
  <2>5. PICK answer : answer = [status |-> "error", version |-> 0]
    OBVIOUS
  <2>6. reply'[r] = answer /\ \A q \in Reqs : q # r => reply'[q] = reply[q]
    BY <1>5, <1>6, <2>1, <2>5
  <2>7. Answered' = [Answered EXCEPT ![r] = answer]
    BY <1>3, <2>4, <2>6 DEF Answered
  <2>8. Asked[r] = o /\ Answered[r] = NoReply
    BY <2>2, <2>3, <2>4 DEF Asked, Answered
  <2>9. PICK C : From(C) /\ To(C)
    BY <1>4 DEF From, To
  <2>10. Refused(C, o, "error") /\ "error" \in Status
    BY DEF Refused, Status
  <2>11. Answered' = [Answered EXCEPT ![r] = [status |-> "error", version |-> 0]]
    BY <2>5, <2>7
  <2> QED BY <1>1, <1>3, <2>3, <2>8, <2>9, <2>10, <2>11, RefusalIs
<1> QED BY <1>7, <1>8

\* Every step of the server is one the contract allows.
LEMMA StepRefines ==
  ASSUME FlowInv, ContractInv, [Next]_vars
  PROVE  UNCHANGED Contract!vars \/ Contract!Next \/ \E r \in Reqs : Outdated(r)
<1>1. ASSUME NEW r \in Reqs, NEW write \in {"done", "failed", "skipped"}, TouchKey(r, write)
      PROVE  UNCHANGED Contract!vars
  <2>1. StepOf(r) /\ View(db') = View(db) /\ adapter' = adapter
    BY <1>1, TouchKeyFlow DEF StepOf
  <2>2. inTx' = inTx /\ saved' = saved /\ op' = op /\ reply' = reply
    BY <1>1 DEF TouchKey
  <2>3. View(Committed') = View(Committed)
    BY <2>1, <2>2 DEF Committed
  <2>4. Asked' = Asked /\ Answered' = Answered
    BY <2>1, <2>2, SameOps
  <2> QED BY <2>1, <2>3, <2>4, Stutters
<1>2. ASSUME Tick \/ UNCHANGED vars PROVE UNCHANGED Contract!vars
  <2>1. adapter' = adapter /\ inTx' = inTx /\ saved' = saved /\ db' = db /\ op' = op /\ reply' = reply
    BY <1>2 DEF Tick, vars, flow
  <2>2. Committed' = Committed /\ Asked' = Asked /\ Answered' = Answered
    BY <2>1 DEF Committed, Asked, Answered, Mutators
  <2> QED BY <2>1, <2>2, Stutters
<1>3. CASE \E r \in Reqs : Receive(r)
  BY <1>3, ReceiveRefines
<1>4. CASE \E r \in Reqs : Work(r)
  BY <1>4, WorkRefines
<1>5. CASE \E r \in Reqs : Hook(r)
  BY <1>1, <1>5 DEF Hook
<1>6. CASE Crash
  BY <1>6, CrashRefines
<1> QED BY <1>2, <1>3, <1>4, <1>5, <1>6 DEF Next

LEMMA StartRefines ==
  ASSUME Init
  PROVE  Contract!Init
<1>1. /\ View(db).flag = [f \in Flags |-> IF f \in Existing THEN NewFlagRow ELSE None]
      /\ View(db).config = [x \in Refs |-> IF x[1] \in Existing THEN NewConfigRow ELSE None]
      /\ View(db).child = [u \in Tables |-> [x \in Refs |-> {}]]
      /\ View(db).audit = <<>>
  BY StoreStarts
<1>2. Committed = db
  BY DEF Init, Committed
<1>3. /\ FlagRows(Committed) = View(db).flag /\ ConfigRows(Committed) = View(db).config
      /\ ChildRows(Committed) = View(db).child /\ AuditRows(Committed) = View(db).audit
  BY <1>2 DEF View
<1>4. Mutators = {}
  BY DEF Init, Mutators
<1>5. Asked = [r \in Reqs |-> None] /\ Answered = [r \in Reqs |-> NoReply]
  BY <1>4 DEF Asked, Answered
<1> QED BY <1>1, <1>3, <1>5, ContractData DEF Contract!Init, Asked, Answered

\* "All three adapters pass one shared contract suite": both embedded adapters keep the
\* flag store's contract under any overlap of requests, touches, ticks and restarts, but
\* for a memory unit of work that ends on an outdated clone or stores one unit twice.
THEOREM ContractUnlessOverlappedHolds == Spec => ContractUnlessOverlapped
<1>1. Init => FlowInv /\ ContractInv
  BY InitFlow, InitContract
<1>2. FlowInv /\ ContractInv /\ [Next]_vars => (FlowInv /\ ContractInv)'
  BY FlowStep, ContractStep
<1>3. FlowInv /\ ContractInv /\ [Next]_vars =>
        [UNCHANGED Contract!vars \/ Contract!Next \/ \E r \in Reqs : Outdated(r)]_vars
  BY StepRefines
<1> QED BY <1>1, <1>2, <1>3, PTL DEF Spec, ContractUnlessOverlapped

\* On SQLite no unit of work is ever outdated: the adapter implements the contract.
THEOREM SqliteImplementsContract ==
  ASSUME Adapters = {"sqlite"}
  PROVE  Spec => Contract!Spec
<1> DEFINE OnSqlite == adapter = "sqlite"
<1>1. Init => FlowInv /\ ContractInv /\ OnSqlite /\ Contract!Init
  BY InitFlow, InitContract, StartRefines DEF Init
<1>2. FlowInv /\ ContractInv /\ OnSqlite /\ [Next]_vars => (FlowInv /\ ContractInv /\ OnSqlite)'
  <2>1. ASSUME NEW r \in Reqs, Receive(r) \/ Work(r) \/ Hook(r) PROVE adapter' = adapter
    <3>1. CASE Receive(r)
      BY <3>1 DEF Receive, TurnAway, Read, RecordExposures, BeginCreate, Begin, BeginWithin, OpenUnit, Admit
    <3>2. CASE Work(r)
      BY <3>2 DEF Work, Mutate, ReadAfter, RecordAudit, Fail, Commit, Abort, Forget
    <3>3. CASE Hook(r)
      BY <3>3 DEF Hook, TouchKey
    <3> QED BY <2>1, <3>1, <3>2, <3>3
  <2>2. Tick \/ Crash \/ UNCHANGED vars => adapter' = adapter
    BY DEF Tick, Crash, vars
  <2>3. [Next]_vars => adapter' = adapter
    BY <2>1, <2>2 DEF Next
  <2> QED BY <2>3, FlowStep, ContractStep
<1>3. FlowInv /\ ContractInv /\ OnSqlite /\ [Next]_vars => [Contract!Next]_(Contract!vars)
  BY StepRefines DEF Outdated
<1> QED BY <1>1, <1>2, <1>3, PTL DEF Spec, Contract!Spec
==============================================================================
