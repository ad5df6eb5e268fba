------------------------------ MODULE SdkClient ------------------------------
(***************************************************************************)
(* The SDK client: evaluation against the poller's snapshot, recorded in   *)
(* the exposure batcher, and close(), which touches both.                  *)
(***************************************************************************)
EXTENDS Naturals, Sequences, FiniteSets

CONSTANTS
  FlagKeys,      \* flag keys the application evaluates
  Contents, Bootstrap, None, MaxChanges,
  HighWater, MaxDistinct,
  MaxCalls       \* bound on evaluations recorded per tuple, for model checking

ASSUME ClientAssumption ==
  /\ None \notin Contents \cup [content : Contents, etag : Contents \cup {None}, asOf : Nat]
  /\ Bootstrap \in Contents \cup {None}
  /\ MaxChanges \in Nat
  /\ {HighWater, MaxDistinct, MaxCalls} \subseteq Nat \ {0}

VARIABLES
  served, box, inFlight, flights, polling, ready, readyTimer,
  buffer, flushing, batch, scheduled, recorded, dropped, settled,
  closing    \* "open", "flush" while close() awaits the flush it started, then "closed"

\* The tuple a call is recorded under: the flag and the decision, which the snapshot fixes.
Tuples == FlagKeys \X (Contents \cup {None})

MaxRecords == [t \in Tuples |-> MaxCalls]

Batcher == INSTANCE ExposureBatcher
Poller == INSTANCE SdkPoller

pollerVars == <<served, box, inFlight, flights, polling, ready, readyTimer>>
batcherVars == <<buffer, flushing, batch, scheduled, recorded, dropped, settled>>
vars == <<pollerVars, batcherVars, closing>>

Init == Poller!Init /\ Batcher!Init /\ closing = "open"

\* getEvaluation(): reads the snapshot, and records unless closed.
Evaluate(k) ==
  /\ closing = "open"
  /\ Batcher!Record(<<k, IF box = None THEN None ELSE box.content>>)
  /\ UNCHANGED <<pollerVars, closing>>

\* close(): one synchronous stretch up to the race of flush() against its timeout.
\* flush() returns at once when there is nothing to send or a send is in flight.
Close ==
  /\ closing = "open"
  /\ closing' = IF Batcher!Flushable(buffer) THEN "flush" ELSE "closed"
  /\ Poller!Cancel
  /\ Batcher!Close

CloseUnbounded == FALSE  \* Mutant: close() awaits the flush without a timeout.

CloseTimeout ==
  /\ closing = "flush"
  /\ closing' = "closed"
  /\ UNCHANGED <<pollerVars, batcherVars>>

\* A send settles; if it is the one close() awaits, close() resolves.
Settle ==
  /\ Batcher!Settle
  /\ closing' = IF closing = "flush" THEN "closed" ELSE closing
  /\ UNCHANGED pollerVars

FlushTick == Batcher!Tick /\ UNCHANGED <<pollerVars, closing>>

PollerStep ==
  /\ \/ \E c \in Contents : Poller!Change(c)
     \/ Poller!Tick \/ Poller!Answer \/ Poller!Install \/ Poller!KeepCurrent
     \/ Poller!KeepStale \/ Poller!ReadyTimeout
  /\ UNCHANGED <<batcherVars, closing>>

Next ==
  \/ \E k \in FlagKeys : Evaluate(k)
  \/ Close \/ CloseTimeout \/ Settle \/ FlushTick \/ PollerStep

Spec == Init /\ [][Next]_vars

\* Timers fire; nothing is assumed of the network.
Alone(A) == A /\ UNCHANGED <<batcherVars, closing>>
Timers ==
  /\ WF_vars(FlushTick) /\ WF_vars(CloseTimeout)
  /\ WF_vars(Alone(Poller!Tick)) /\ WF_vars(Alone(Poller!ReadyTimeout))
TimerSpec == Spec /\ Timers

-----------------------------------------------------------------------------

SnapshotWasServed == Poller!SnapshotWasServed
NeverBackwards == Poller!NeverBackwards

\* Once close() was called the client starts no fetch, records nothing, and sends
\* nothing but the one flush close() itself started.
QuietAfterClose ==
  [][closing # "open" =>
       (inFlight' => inFlight) /\ recorded' = recorded /\ (batch' # batch => batch' = Batcher!Empty)]_vars

\* Whatever the transport does, close() resolves, and ready() does if the client stays
\* open: by a snapshot or by its timeout.
CloseAndReadyResolve ==
  /\ closing # "open" ~> closing = "closed"
  /\ <>(ready \/ closing # "open")

\* Once changes stop, an open client settles on the server's content, provided that
\* a server asked again and again answers now and then.
Network ==
  /\ WF_vars(Alone(Poller!KeepStale))
  /\ SF_vars(Alone(Poller!Answer))
  /\ SF_vars(Alone(Poller!Install)) /\ SF_vars(Alone(Poller!KeepCurrent))
UpToDate == box # None /\ box.content = served[Len(served)]
Converges == Network => <>[](closing # "open" \/ UpToDate)
=============================================================================
