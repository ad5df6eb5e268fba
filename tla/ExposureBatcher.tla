--------------------------- MODULE ExposureBatcher ---------------------------
(***************************************************************************)
(* The SDK's exposure batcher: an aggregating map from exposure tuples to  *)
(* counts, flushed by an interval and by a high-water mark, one send in    *)
(* flight at a time, a failed batch discarded and never retried.           *)
(*                                                                         *)
(* A tuple stands for (flagKey, environment, bucketHour, value, reason).   *)
(* buffer[t] = 0 means that the map has no entry for t.                    *)
(***************************************************************************)
EXTENDS Naturals, FiniteSets

CONSTANTS
  Tuples,        \* exposure tuples the application can produce
  HighWater,     \* highWaterMark (500)
  MaxDistinct,   \* maxDistinctExposures (5000)
  MaxRecords     \* bound on calls of record() per tuple, for model checking

ASSUME BatcherAssumption ==
  /\ HighWater \in Nat \ {0} /\ MaxDistinct \in Nat \ {0}
  /\ MaxRecords \in [Tuples -> Nat]

VARIABLES
  buffer,     \* the aggregating map
  flushing,   \* #flushing
  batch,      \* rows handed to the transport, not yet settled
  scheduled,  \* the flush interval has not been cancelled
  recorded,   \* record() calls per tuple
  dropped,    \* of those, dropped at the bound
  settled     \* counts of the batches whose send has returned or thrown

vars == <<buffer, flushing, batch, scheduled, recorded, dropped, settled>>

Empty == [t \in Tuples |-> 0]
Keys(m) == {t \in Tuples : m[t] > 0}
Plus(m, n) == [t \in Tuples |-> m[t] + n[t]]
One(t) == [u \in Tuples |-> IF u = t THEN 1 ELSE 0]

Init ==
  /\ buffer = Empty /\ batch = Empty
  /\ flushing = FALSE
  /\ scheduled = TRUE
  /\ recorded = Empty /\ dropped = Empty /\ settled = Empty

\* flush() when it does not return early: the rows leave the buffer before the send.
Flushable(m) == ~flushing /\ Keys(m) # {}

\* Mutant: the map is not cleared before the send.
SendKeeping(m) ==
  /\ flushing' = TRUE
  /\ batch' = m
  /\ buffer' = m

Send(m) ==
  /\ flushing' = TRUE
  /\ batch' = m
  /\ buffer' = Empty

\* flush() applied to the map m, which the caller may just have changed.
FlushOf(m) ==
  IF Flushable(m) THEN Send(m) ELSE buffer' = m /\ UNCHANGED <<flushing, batch>>

RecordKnown(t) ==
  /\ buffer[t] > 0
  /\ buffer' = [buffer EXCEPT ![t] = @ + 1]
  /\ UNCHANGED <<flushing, batch, dropped>>

RecordDropped(t) ==
  /\ buffer[t] = 0 /\ Cardinality(Keys(buffer)) >= MaxDistinct
  /\ dropped' = Plus(dropped, One(t))
  /\ UNCHANGED <<buffer, flushing, batch>>

\* Mutant: the bound is off by one.
RecordNewOffByOne(t) ==
  /\ buffer[t] = 0 /\ Cardinality(Keys(buffer)) <= MaxDistinct
  /\ LET m == [buffer EXCEPT ![t] = 1]
     IN IF Cardinality(Keys(m)) >= HighWater
        THEN FlushOf(m)
        ELSE buffer' = m /\ UNCHANGED <<flushing, batch>>
  /\ UNCHANGED dropped

RecordNew(t) ==
  /\ buffer[t] = 0 /\ Cardinality(Keys(buffer)) < MaxDistinct
  /\ LET m == [buffer EXCEPT ![t] = 1]
     IN IF Cardinality(Keys(m)) >= HighWater
        THEN FlushOf(m)
        ELSE buffer' = m /\ UNCHANGED <<flushing, batch>>
  /\ UNCHANGED dropped

Record(t) ==
  /\ recorded[t] < MaxRecords[t]
  /\ recorded' = Plus(recorded, One(t))
  /\ RecordKnown(t) \/ RecordDropped(t) \/ RecordNew(t)
  /\ UNCHANGED <<scheduled, settled>>

\* The interval fires; close() calls flush() directly.
Flush ==
  /\ Flushable(buffer)
  /\ Send(buffer)
  /\ UNCHANGED <<scheduled, recorded, dropped, settled>>

Tick == scheduled /\ Flush

\* Mutant: the rows of a settled send are put back to be sent again.
SettleRetrying ==
  /\ flushing
  /\ flushing' = FALSE
  /\ batch' = Empty
  /\ buffer' = Plus(buffer, batch)
  /\ UNCHANGED <<settled, scheduled, recorded, dropped>>

\* sendExposures returned or threw: either way flush() is over and the rows are
\* forgotten, whatever the server made of them.
Settle ==
  /\ flushing
  /\ flushing' = FALSE
  /\ batch' = Empty
  /\ settled' = Plus(settled, batch)
  /\ UNCHANGED <<buffer, scheduled, recorded, dropped>>

\* close() as the batcher sees it: stop(), then flush().
Close ==
  /\ scheduled
  /\ scheduled' = FALSE
  /\ FlushOf(buffer)
  /\ UNCHANGED <<recorded, dropped, settled>>

Next == (\E t \in Tuples : Record(t)) \/ Tick \/ Settle \/ Close

Spec == Init /\ [][Next]_vars

-----------------------------------------------------------------------------
\* Type invariant.
Counts == [Tuples -> Nat]
TypeOK ==
  /\ buffer \in Counts /\ batch \in Counts
  /\ recorded \in Counts /\ dropped \in Counts /\ settled \in Counts
  /\ flushing \in BOOLEAN /\ scheduled \in BOOLEAN

\* Every call of record() is accounted for exactly once: still buffered, in the
\* send in flight, in a settled send, or dropped at the bound.
Conservation ==
  \A t \in Tuples : recorded[t] = buffer[t] + batch[t] + settled[t] + dropped[t]

\* The map is bounded in distinct tuples, also across a flush that is slow to settle.
DistinctBounded == Cardinality(Keys(buffer)) <= MaxDistinct
=============================================================================
