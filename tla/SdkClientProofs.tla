--------------------------- MODULE SdkClientProofs ---------------------------
(***************************************************************************)
(* For any flags, any history of definition sets on the server and any     *)
(* loss, delay and failure of the fetches: the client evaluates against    *)
(* one content the server really held, never goes back to an earlier one,  *)
(* is quiet after close(), and drives the exposure batcher only in ways    *)
(* the batcher's own specification allows.                                 *)
(***************************************************************************)
EXTENDS SdkClient, TLAPS

(***************************************************************************)
(* The inductive invariant.  What an answer does to the box is decided by  *)
(* the snapshot its request was sent with.  The tick guard keeps at most   *)
(* one request under way, and so that snapshot is still in the box.        *)
(***************************************************************************)

Snapshot == [content : Contents, etag : Contents \cup {None}, asOf : Nat]
Flight == [stage : {"asked", "ok", "notModified"}, current : Snapshot \cup {None},
           content : Contents \cup {None}, at : Nat]

PollerTypes ==
  /\ served \in Seq(Contents) /\ served # <<>>
  /\ box \in Snapshot \cup {None}
  /\ inFlight \in BOOLEAN /\ flights \subseteq Flight

\* The bootstrap payload, or an answer of the server with its ETag.
Known(b) ==
  IF b.asOf = 0 THEN b = Poller!Boot
  ELSE b.asOf <= Len(served) /\ b.content = served[b.asOf] /\ b.etag = b.content

\* What is under way was asked with the present snapshot and answered after it.
UnderWay(x) ==
  /\ x.current = box
  /\ x.stage # "asked" =>
       /\ x.at \in 1 .. Len(served) /\ x.content = served[x.at]
       /\ box # None => box.asOf <= x.at
  /\ x.stage = "notModified" => box # None /\ box.etag = x.content

PollerInv ==
  /\ PollerTypes
  /\ box # None => Known(box)
  /\ ~inFlight => flights = {}
  /\ \A x, y \in flights : x = y
  /\ \A x \in flights : UnderWay(x)

\* close() cancels both intervals in the step in which it begins.
ClosedInv == closing # "open" => ~polling /\ ~scheduled

-----------------------------------------------------------------------------
(* The poller.                                                             *)

LEMMA PollerInit == Init => PollerInv
<1> SUFFICES ASSUME Init PROVE PollerInv
  OBVIOUS
<1>1. PICK c \in Contents : served = <<c>>
  BY DEF Init, Poller!Init
<1>2. box = (IF Bootstrap = None THEN None ELSE Poller!Boot) /\ inFlight = FALSE /\ flights = {}
  BY DEF Init, Poller!Init
<1>3. Bootstrap # None => Poller!Boot \in Snapshot /\ Poller!Boot.asOf = 0
  BY ClientAssumption DEF ClientAssumption, Poller!Boot, Snapshot
<1>4. served \in Seq(Contents) /\ served # <<>>
  BY <1>1
<1>5. box \in Snapshot \cup {None} /\ (box # None => Known(box))
  BY <1>2, <1>3 DEF Known
<1> QED BY <1>2, <1>4, <1>5 DEF PollerInv, PollerTypes

\* The server's history only grows, so that what was known of it stays true.
LEMMA ServedGrows ==
  ASSUME PollerInv, NEW c \in Contents, served' = Append(served, c),
         UNCHANGED <<box, inFlight, flights>>
  PROVE  PollerInv'
<1>1. /\ served' \in Seq(Contents) /\ served' # <<>>
      /\ Len(served) \in Nat /\ Len(served') = Len(served) + 1
      /\ \A n \in 1 .. Len(served) : n \in 1 .. Len(served') /\ served'[n] = served[n]
  BY DEF PollerInv, PollerTypes
<1>2. box # None => box.asOf \in Nat
  BY DEF PollerInv, PollerTypes, Snapshot
<1>3. box # None => Known(box)'
  BY <1>1, <1>2 DEF PollerInv, Known
<1>4. \A x \in flights : UnderWay(x)'
  BY <1>1 DEF PollerInv, UnderWay
<1> QED BY <1>1, <1>3, <1>4 DEF PollerInv, PollerTypes

LEMMA PollerMoves ==
  ASSUME PollerInv, NEW c \in Contents,
         \/ Poller!Change(c) \/ Poller!Tick \/ Poller!Answer \/ Poller!Install
         \/ Poller!KeepCurrent \/ Poller!KeepStale \/ Poller!ReadyTimeout \/ Poller!Cancel
  PROVE  /\ PollerInv'
         /\ box # None => box' # None /\ box'.asOf >= box.asOf
         /\ ~polling => ~polling' /\ (inFlight' => inFlight)
<1>0. Len(served) \in Nat
  BY DEF PollerInv, PollerTypes
<1>1. box' = box => (box # None => box' # None /\ box'.asOf >= box.asOf)
  BY DEF PollerInv, PollerTypes, Snapshot
<1>2. CASE Poller!Change(c)
  BY <1>1, <1>2, ServedGrows DEF Poller!Change
<1>3. CASE Poller!Tick
  <2>1. /\ flights = {} /\ inFlight' = TRUE /\ polling /\ ~inFlight
        /\ UNCHANGED <<served, box, polling>>
        /\ flights' = {[stage |-> "asked", current |-> box, content |-> None, at |-> 0]}
    BY <1>3 DEF Poller!Tick, PollerInv
  <2>2. [stage |-> "asked", current |-> box, content |-> None, at |-> 0] \in Flight
    BY DEF PollerInv, PollerTypes, Flight
  <2>3. PICK x \in Flight : flights' = {x} /\ x.current = box /\ x.stage = "asked"
    BY <2>1, <2>2
  <2>4. UnderWay(x)'
    BY <2>1, <2>3 DEF UnderWay
  <2>5. PollerTypes' /\ (box # None => Known(box)')
    BY <2>1, <2>3 DEF PollerInv, PollerTypes, Known
  <2> QED BY <1>1, <2>1, <2>3, <2>4, <2>5 DEF PollerInv
<1>4. CASE Poller!Answer
  <2>1. PICK x \in flights :
             /\ x.stage = "asked"
             /\ flights' = (flights \ {x}) \cup
                  {[stage |-> IF Poller!Matches(x) THEN "notModified" ELSE "ok",
                    current |-> x.current, content |-> served[Len(served)], at |-> Len(served)]}
    BY <1>4 DEF Poller!Answer, Poller!Now
  <2>2. UNCHANGED <<served, box, inFlight, polling>> /\ flights \ {x} = {} /\ inFlight
    BY <1>4, <2>1 DEF Poller!Answer, PollerInv
  <2>3. Len(served) \in 1 .. Len(served) /\ Len(served) \in Nat /\ served[Len(served)] \in Contents
    BY DEF PollerInv, PollerTypes
  <2>4. x.current = box /\ box \in Snapshot \cup {None}
    BY DEF PollerInv, PollerTypes, UnderWay
  <2>5. PICK y \in Flight :
             /\ flights' = {y} /\ y.current = box
             /\ y.content = served[Len(served)] /\ y.at = Len(served)
             /\ y.stage = IF Poller!Matches(x) THEN "notModified" ELSE "ok"
    <3> DEFINE y == [stage |-> IF Poller!Matches(x) THEN "notModified" ELSE "ok",
                     current |-> x.current, content |-> served[Len(served)], at |-> Len(served)]
    <3>1. y \in Flight
      BY <2>3, <2>4 DEF Flight
    <3>2. flights' = {y}
      BY <2>1, <2>2
    <3> QED BY <2>4, <3>1, <3>2
  <2>6. box # None => box.asOf <= Len(served)
    <3>1. box # None => box.asOf \in Nat /\ Known(box)
      BY DEF PollerInv, PollerTypes, Snapshot
    <3> QED BY <2>3, <3>1 DEF Known
  <2>7. y.stage = "notModified" => box # None /\ box.etag = y.content
    BY <2>4, <2>5 DEF Poller!Matches, Poller!Now
  <2>8. UnderWay(y)'
    BY <2>2, <2>3, <2>5, <2>6, <2>7 DEF UnderWay
  <2>9. PollerTypes' /\ (box # None => Known(box)')
    BY <2>2, <2>5 DEF PollerInv, PollerTypes, Known
  <2> QED BY <1>1, <2>2, <2>5, <2>8, <2>9 DEF PollerInv
<1>5. ASSUME NEW x \in flights, Poller!Over(x)
      PROVE  flights' = {} /\ inFlight' = FALSE /\ UNCHANGED <<served, polling>> /\ inFlight
  BY <1>5 DEF Poller!Over, PollerInv, PollerTypes
<1>6. CASE Poller!Install
  <2>1. PICK x \in flights :
             /\ x.stage = "ok" /\ Poller!Over(x)
             /\ box' = [content |-> x.content, etag |-> x.content, asOf |-> x.at]
    BY <1>6 DEF Poller!Install
  <2>2. UnderWay(x) /\ x.at \in 1 .. Len(served) /\ x.content = served[x.at] /\ x.content \in Contents
    BY <2>1 DEF PollerInv, PollerTypes, UnderWay
  <2>3. box' \in Snapshot /\ box' # None /\ box'.asOf = x.at
    BY <2>1, <2>2, ClientAssumption DEF ClientAssumption, Snapshot
  <2>4. Known(box)'
    <3>1. x.at # 0 /\ x.at <= Len(served)
      BY <1>0, <2>2
    <3> QED BY <1>5, <2>1, <2>2, <3>1 DEF Known
  <2>5. box # None => box'.asOf >= box.asOf
    BY <2>1, <2>2, <2>3 DEF UnderWay, PollerInv, PollerTypes, Snapshot
  <2> QED BY <1>5, <2>1, <2>3, <2>4, <2>5 DEF PollerInv, PollerTypes
<1>7. CASE Poller!KeepCurrent
  <2>1. PICK x \in flights :
             /\ x.stage = "notModified" /\ Poller!Over(x)
             /\ box' = IF x.current = None THEN box ELSE [x.current EXCEPT !.asOf = x.at]
    BY <1>7 DEF Poller!KeepCurrent
  <2>2. /\ UnderWay(x) /\ x.at \in 1 .. Len(served) /\ x.content = served[x.at]
        /\ x.content \in Contents /\ x.current = box /\ box # None /\ box.etag = x.content
    BY <2>1 DEF PollerInv, PollerTypes, UnderWay
  <2>3. box \in Snapshot /\ Known(box)
    BY <2>2 DEF PollerInv, PollerTypes
  <2>4. box.content = x.content
    BY <2>2, <2>3, ClientAssumption DEF ClientAssumption, Known, Poller!Boot
  <2>5. box' = [box EXCEPT !.asOf = x.at] /\ box' \in Snapshot /\ box' # None
    BY <2>1, <2>2, <2>3, ClientAssumption DEF ClientAssumption, Snapshot
  <2>6. box'.asOf = x.at /\ box'.content = x.content /\ box'.etag = x.content
    BY <2>2, <2>3, <2>4, <2>5 DEF Snapshot
  <2>7. Known(box)'
    <3>1. x.at # 0 /\ x.at <= Len(served)
      BY <1>0, <2>2
    <3> QED BY <1>5, <2>1, <2>2, <2>6, <3>1 DEF Known
  <2>8. box'.asOf >= box.asOf
    <3>1. x.at \in Nat /\ box.asOf \in Nat /\ box.asOf <= x.at
      BY <1>0, <2>1, <2>2, <2>3 DEF UnderWay, Snapshot
    <3> QED BY <2>6, <3>1
  <2> QED BY <1>5, <2>1, <2>5, <2>7, <2>8 DEF PollerInv, PollerTypes
<1>8. CASE Poller!KeepStale
  <2>1. flights' = {} /\ inFlight' = FALSE /\ UNCHANGED <<served, box, polling>> /\ inFlight
    BY <1>5, <1>8 DEF Poller!KeepStale
  <2> QED BY <1>1, <2>1 DEF PollerInv, PollerTypes, Known
<1>9. CASE Poller!ReadyTimeout \/ Poller!Cancel
  <2>1. UNCHANGED <<served, box, inFlight, flights>> /\ (polling' = polling \/ polling' = FALSE)
    BY <1>9 DEF Poller!ReadyTimeout, Poller!Cancel
  <2> QED BY <1>1, <2>1 DEF PollerInv, PollerTypes, Known, UnderWay
<1> QED BY <1>2, <1>3, <1>4, <1>6, <1>7, <1>8, <1>9
\* What the client does to the poller in a step of its own.
LEMMA PollerSteps ==
  ASSUME PollerInv, [Next]_vars
  PROVE  /\ PollerInv'
         /\ box # None => box' # None /\ box'.asOf >= box.asOf
         /\ ~polling => ~polling' /\ (inFlight' => inFlight)
<1>1. PICK c : c \in Contents
  BY DEF PollerInv, PollerTypes
<1>2. CASE Close
  BY <1>1, <1>2, PollerMoves DEF Close
<1>3. CASE PollerStep
  BY <1>1, <1>3, PollerMoves DEF PollerStep
<1>4. CASE UNCHANGED pollerVars
  <2>1. UNCHANGED <<served, box, inFlight, flights, polling>>
    BY <1>4 DEF pollerVars
  <2>2. PollerInv'
    BY <2>1 DEF PollerInv, PollerTypes, Known, UnderWay
  <2>3. box # None => box.asOf \in Nat
    BY DEF PollerInv, PollerTypes, Snapshot
  <2> QED BY <2>1, <2>2, <2>3
<1> QED
  BY <1>2, <1>3, <1>4 DEF Next, Evaluate, CloseTimeout, Settle, FlushTick, vars

LEMMA PollerInvHolds == Spec => []PollerInv
<1>1. PollerInv /\ [Next]_vars => PollerInv'
  BY PollerSteps
<1> QED BY <1>1, PollerInit, PTL DEF Spec

-----------------------------------------------------------------------------
(* The batcher, as the client drives it.                                   *)

LEMMA EvaluatedTuple ==
  ASSUME PollerInv, NEW k \in FlagKeys
  PROVE  <<k, IF box = None THEN None ELSE box.content>> \in Tuples
  BY DEF PollerInv, PollerTypes, Snapshot, Tuples

LEMMA BatcherSteps ==
  ASSUME PollerInv, [Next]_vars
  PROVE  [Batcher!Next]_(Batcher!vars)
<1>1. ASSUME NEW k \in FlagKeys, Evaluate(k) PROVE Batcher!Next
  BY <1>1, EvaluatedTuple DEF Evaluate, Batcher!Next
<1>2. CASE Close
  BY <1>2 DEF Close, Batcher!Next
<1>3. CASE Settle
  BY <1>3 DEF Settle, Batcher!Next
<1>4. CASE FlushTick
  BY <1>4 DEF FlushTick, Batcher!Next
<1>5. CASE UNCHANGED batcherVars
  BY <1>5 DEF batcherVars, Batcher!vars
<1> QED
  BY <1>1, <1>2, <1>3, <1>4, <1>5 DEF Next, CloseTimeout, PollerStep, vars

\* The client uses the batcher as its specification says: it evaluates only tuples that
\* the batcher knows, flushes and closes only as the batcher does by itself.
THEOREM ClientImplementsBatcher == Spec => Batcher!Spec
<1>1. Init => Batcher!Init
  BY DEF Init
<1>2. PollerInv /\ [Next]_vars => [Batcher!Next]_(Batcher!vars)
  BY BatcherSteps
<1> QED BY <1>1, <1>2, PollerInvHolds, PTL DEF Spec, Batcher!Spec

-----------------------------------------------------------------------------
(* What it comes to.                                                       *)

\* What isEnabled() evaluates against is the bootstrap payload or, whole, the content
\* the server held when it produced the last answer that was kept.
THEOREM SnapshotWasServedHolds == Spec => []SnapshotWasServed
<1>1. PollerInv => SnapshotWasServed
  BY DEF PollerInv, Known, SnapshotWasServed, Poller!SnapshotWasServed
<1> QED BY <1>1, PollerInvHolds, PTL

\* No answer, however late, takes the client back to an earlier state of the server or
\* blanks its snapshot.
THEOREM NeverBackwardsHolds == Spec => NeverBackwards
<1>1. PollerInv /\ [Next]_vars =>
        [box # None => box' # None /\ box'.asOf >= box.asOf]_(Poller!vars)
  BY PollerSteps
<1> QED BY <1>1, PollerInvHolds, PTL DEF Spec, NeverBackwards, Poller!NeverBackwards

LEMMA ClosedStep == PollerInv /\ ClosedInv /\ [Next]_vars => ClosedInv'
<1> SUFFICES ASSUME PollerInv, ClosedInv, [Next]_vars, closing' # "open" PROVE ~polling' /\ ~scheduled'
  BY DEF ClosedInv
<1>1. CASE Close
  BY <1>1 DEF Close, Poller!Cancel, Batcher!Close
<1>2. CASE ~Close
  <2>1. closing # "open" /\ ~polling /\ ~scheduled
    BY <1>2 DEF Next, Evaluate, CloseTimeout, Settle, FlushTick, PollerStep, ClosedInv, vars
  <2>2. ~polling'
    BY <2>1, PollerSteps
  <2>3. scheduled' = scheduled
    BY <1>2, <2>1 DEF Next, Evaluate, CloseTimeout, Settle, Batcher!Settle, FlushTick, Batcher!Tick,
                      PollerStep, batcherVars, vars
  <2> QED BY <2>1, <2>2, <2>3
<1> QED BY <1>1, <1>2

\* After close() no fetch starts and nothing is recorded, and no batch leaves but the
\* one close() itself flushed.
THEOREM QuietAfterCloseHolds == Spec => QuietAfterClose
<1>1. Init => ClosedInv
  BY DEF Init, ClosedInv
<1>2. PollerInv /\ ClosedInv /\ [Next]_vars =>
        [closing # "open" => /\ inFlight' => inFlight
                             /\ recorded' = recorded
                             /\ batch' # batch => batch' = Batcher!Empty]_vars
  <2> SUFFICES ASSUME PollerInv, ClosedInv, Next, closing # "open"
               PROVE  /\ inFlight' => inFlight
                      /\ recorded' = recorded
                      /\ batch' # batch => batch' = Batcher!Empty
    OBVIOUS
  <2>1. inFlight' => inFlight
    BY PollerSteps DEF ClosedInv
  <2>2. Settle \/ UNCHANGED batcherVars
    BY DEF Next, Evaluate, Close, CloseTimeout, FlushTick, Batcher!Tick, PollerStep, ClosedInv
  <2> QED BY <2>1, <2>2 DEF Settle, Batcher!Settle, batcherVars
<1> QED BY <1>1, <1>2, ClosedStep, PollerInvHolds, PTL DEF Spec, QuietAfterClose
=============================================================================
