------------------------------ MODULE Telemetry ------------------------------
(***************************************************************************)
(* Usage telemetry end to end: the SDK's exposure batcher posts batches to *)
(* /api/v1/sdk/events, the server validates a batch and adds its rows to   *)
(* the exposures table one statement at a time.  Requests and answers are  *)
(* lost, connections break while the server goes on, rows fail to be       *)
(* written.  Counts are summed over bucket hours, as the reads do.         *)
(***************************************************************************)
EXTENDS ExposureBatcher, Sequences

CONSTANTS
  Malformed,   \* tuples whose flag key the events schema refuses
  ServerCap,   \* rows it accepts in one batch (500)
  CountCap     \* largest count it accepts in a row (1000000)

ASSUME TelemetryAssumption ==
  Malformed \subseteq Tuples /\ {ServerCap, CountCap} \subseteq Nat \ {0}

VARIABLES
  posts,    \* POST requests in the order sent: rows still to be counted, and where each is
  counted,  \* the exposures table
  faulty    \* a batch was refused, or a connection, a request or a write has failed

server == <<posts, counted, faulty>>
allVars == <<vars, server>>

InitAll == Init /\ posts = <<>> /\ counted = Empty /\ faulty = FALSE

\* A step of the client; if it sends, the request is on the wire.
Posting(A) ==
  /\ A
  /\ posts' = IF flushing' /\ ~flushing
              THEN Append(posts, [rows |-> batch', stage |-> "wire"]) ELSE posts
  /\ UNCHANGED <<counted, faulty>>

At(n, stage) == posts[n].stage = stage
Move(n, rows, stage) == posts' = [posts EXCEPT ![n] = [rows |-> rows, stage |-> stage]]
Give(n) == Move(n, Empty, "over") /\ faulty' = TRUE /\ UNCHANGED <<vars, counted>>

\* eventsBody: one bad row refuses the whole batch with a 400.
Acceptable(m) ==
  /\ Cardinality(Keys(m)) <= ServerCap
  /\ Keys(m) \cap Malformed = {}
  /\ \A t \in Tuples : m[t] <= CountCap

Lost(n) == At(n, "wire") /\ Give(n)
Refuse(n) == At(n, "wire") /\ ~Acceptable(posts[n].rows) /\ Give(n)

Accept(n) ==
  /\ At(n, "wire") /\ Acceptable(posts[n].rows)
  /\ Move(n, posts[n].rows, "storing")
  /\ UNCHANGED <<vars, counted, faulty>>

Without(m, t) == [m EXCEPT ![t] = 0]

\* Mutant: DO UPDATE SET count = EXCLUDED.count
StoreRowReplacing(n) ==
  /\ At(n, "storing")
  /\ \E t \in Keys(posts[n].rows) :
       /\ counted' = [counted EXCEPT ![t] = posts[n].rows[t]]
       /\ Move(n, Without(posts[n].rows, t), "storing")
  /\ UNCHANGED <<vars, faulty>>

\* INSERT ... ON CONFLICT DO UPDATE SET count = count + EXCLUDED.count, committed at once.
StoreRow(n) ==
  /\ At(n, "storing")
  /\ \E t \in Keys(posts[n].rows) :
       /\ counted' = [counted EXCEPT ![t] = @ + posts[n].rows[t]]
       /\ Move(n, Without(posts[n].rows, t), "storing")
  /\ UNCHANGED <<vars, faulty>>

\* A write throws and ends the loop; the route logs it and still answers 202.
WriteFails(n) == At(n, "storing") /\ Keys(posts[n].rows) # {} /\ Give(n)

Stored(n) ==
  /\ At(n, "storing") /\ Keys(posts[n].rows) = {}
  /\ Move(n, Empty, "over")
  /\ UNCHANGED <<vars, counted, faulty>>

\* Mutant: a refused batch leaves #flushing set.
AnsweredOkOnly == ~faulty /\ flushing /\ At(Len(posts), "over") /\ Settle /\ UNCHANGED server

\* sendExposures comes back, with 202 or an error.
Answered == flushing /\ At(Len(posts), "over") /\ Settle /\ UNCHANGED server

\* It throws although the request is still under way.
Broken ==
  /\ flushing /\ ~At(Len(posts), "over")
  /\ Settle
  /\ faulty' = TRUE
  /\ UNCHANGED <<posts, counted>>

Serve(n) == Refuse(n) \/ Accept(n) \/ StoreRow(n) \/ Stored(n)

NextAll ==
  \/ \E t \in Tuples : Posting(Record(t))
  \/ Posting(Tick)
  \/ Posting(Close)
  \/ Answered \/ Broken
  \/ \E n \in DOMAIN posts : Serve(n) \/ Lost(n) \/ WriteFails(n)

\* The interval fires, the server works on what it received, an answer arrives.
Serving == \E n \in DOMAIN posts : Serve(n)
FullSpec ==
  /\ InitAll /\ [][NextAll]_allVars
  /\ WF_allVars(Posting(Tick)) /\ WF_allVars(Answered) /\ WF_allVars(Serving)

-----------------------------------------------------------------------------

\* "retrying an additive counter after an ambiguous failure would double-count":
\* whatever is lost, broken or late, no call of record() is counted twice, nor
\* counted while a copy of it is still on its way or buffered.
Total(counts) ==
  LET sum[n \in 0 .. Len(counts)] == IF n = 0 THEN 0 ELSE sum[n - 1] + counts[n]
  IN sum[Len(counts)]
OnTheWay(t) == Total([n \in DOMAIN posts |-> posts[n].rows[t]])
NeverDoubleCounted ==
  \A t \in Tuples : counted[t] + OnTheWay(t) + buffer[t] + dropped[t] <= recorded[t]

\* Counting is additive across batches: while nothing has failed, the table holds
\* exactly the rows of the batches that were answered.
LossNeedsFailure == ~faulty /\ ~flushing => counted = settled

\* A buffered tuple is sent, unless the client is closed first; a server that refuses
\* or loses batches does not stop the flushing.
EventuallySent == \A t \in Tuples : buffer[t] > 0 ~> buffer[t] = 0 \/ ~scheduled
=============================================================================
