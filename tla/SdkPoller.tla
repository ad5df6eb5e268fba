------------------------------ MODULE SdkPoller ------------------------------
(***************************************************************************)
(* The SDK's definitions poller and snapshot cell: stale-while-revalidate  *)
(* with an ETag, one fetch in flight at a time, and the ready() promise.   *)
(*                                                                         *)
(* The server is a history of definition sets; an ETag is a hash of one,   *)
(* so two moments with equal content have equal ETags.                     *)
(***************************************************************************)
EXTENDS Naturals, Sequences

CONSTANTS
  Contents,      \* definition sets the server may hold
  Bootstrap,     \* the bootstrap payload's content, or None
  None,
  MaxChanges     \* bound on changes of the server's content, for model checking

VARIABLES
  served,     \* every content the server has held, in order
  box,        \* the current snapshot; asOf is the moment of `served` it is known good for
  inFlight,   \* the tick guard
  flights,    \* requests and responses under way
  polling,    \* the poll interval has not been cancelled
  ready,      \* the ready() promise has resolved
  readyTimer  \* its timeout is armed

vars == <<served, box, inFlight, flights, polling, ready, readyTimer>>

Now == Len(served)
\* A bootstrap snapshot carries no ETag.
Boot == [content |-> Bootstrap, etag |-> None, asOf |-> 0]

Init ==
  /\ \E c \in Contents : served = <<c>>
  /\ box = IF Bootstrap = None THEN None ELSE Boot
  /\ inFlight = FALSE
  /\ flights = {}
  /\ polling = TRUE
  /\ ready = (Bootstrap # None)
  /\ readyTimer = TRUE

\* Somebody changes a flag.
Change(c) ==
  /\ Now <= MaxChanges /\ c # served[Now]
  /\ served' = Append(served, c)
  /\ UNCHANGED <<box, inFlight, flights, polling, ready, readyTimer>>

\* The interval fires; poll() reads the box before it awaits the transport.
\* Mutant: no guard against a second fetch in flight.
TickUnguarded ==
  /\ polling
  /\ inFlight' = TRUE
  /\ flights' = flights \cup {[stage |-> "asked", current |-> box, content |-> None, at |-> 0]}
  /\ UNCHANGED <<served, box, polling, ready, readyTimer>>

Tick ==
  /\ polling /\ ~inFlight
  /\ inFlight' = TRUE
  /\ flights' = flights \cup {[stage |-> "asked", current |-> box, content |-> None, at |-> 0]}
  /\ UNCHANGED <<served, box, polling, ready, readyTimer>>

\* GET /api/v1/sdk/definitions: 304 when If-None-Match names the content held now.
\* Mutant: any If-None-Match is taken for a match.
MatchesAny(x) == x.current # None /\ x.current.etag # None
Matches(x) == x.current # None /\ x.current.etag = served[Now]
Answer ==
  /\ \E x \in flights :
       /\ x.stage = "asked"
       /\ flights' = (flights \ {x}) \cup
            {[stage |-> IF Matches(x) THEN "notModified" ELSE "ok",
              current |-> x.current, content |-> served[Now], at |-> Now]}
  /\ UNCHANGED <<served, box, inFlight, polling, ready, readyTimer>>

\* poll() is over, well or not.
Over(x) ==
  /\ flights' = flights \ {x}
  /\ inFlight' = FALSE
  /\ UNCHANGED <<served, polling, readyTimer>>

Install ==
  \E x \in flights :
    /\ x.stage = "ok"
    /\ box' = [content |-> x.content, etag |-> x.content, asOf |-> x.at]
    /\ ready' = TRUE
    /\ Over(x)

\* Only fetchedAt advances, on the snapshot captured before the await.
KeepCurrent ==
  \E x \in flights :
    /\ x.stage = "notModified"
    /\ box' = IF x.current = None THEN box ELSE [x.current EXCEPT !.asOf = x.at]
    /\ ready' = TRUE
    /\ Over(x)

\* A network error, a status other than 200 and 304, or a body that does not parse.
\* Mutant: a failed poll leaves inFlight set.
KeepStaleStuck ==
  /\ \E x \in flights : flights' = flights \ {x}
  /\ UNCHANGED <<served, box, inFlight, polling, ready, readyTimer>>

KeepStale ==
  /\ \E x \in flights : Over(x)
  /\ UNCHANGED <<box, ready>>

ReadyTimeout ==
  /\ readyTimer
  /\ readyTimer' = FALSE
  /\ ready' = TRUE
  /\ UNCHANGED <<served, box, inFlight, flights, polling>>

\* close() as the poller sees it.
\* Mutant: close() forgets cancelPoll.
CancelTimerOnly ==
  /\ readyTimer' = FALSE
  /\ UNCHANGED <<served, box, inFlight, flights, polling, ready>>

Cancel ==
  /\ polling' = FALSE
  /\ readyTimer' = FALSE
  /\ UNCHANGED <<served, box, inFlight, flights, ready>>

-----------------------------------------------------------------------------
\* What isEnabled() evaluates against is one content the server held, whole: the one
\* it held when the last answer, 200 or 304, was produced.
SnapshotWasServed ==
  box # None => IF box.asOf = 0 THEN box = Boot ELSE box.content = served[box.asOf]

\* An answer never takes the client back to an earlier state of the server, and
\* nothing ever blanks the snapshot.
NeverBackwards == [][box # None => box' # None /\ box'.asOf >= box.asOf]_vars
=============================================================================
