------------------------------ MODULE BffProofs ------------------------------
(***************************************************************************)
(* For any logins, requests, routes and configurations, and for any number *)
(* of restarts: an ended session is never let through, what changes the    *)
(* flag server was sent by a process allowed to write, no request is       *)
(* carried out twice, and the throttle's delays follow from the failures   *)
(* before them.                                                            *)
(***************************************************************************)
EXTENDS Bff, TLAPS

(***************************************************************************)
(* The inductive invariant.  The due time and the delay of an attempt are  *)
(* left untyped: they come from 2 ^ n, which the provers do not reason     *)
(* about, and no argument below needs them to be numbers.                  *)
(***************************************************************************)

AtProcess == {"sent", "admitted", "forwarded"}

Record(r) ==
  [stage : {"new", "over"} \cup AtProcess, cookie : Logins \cup {None},
   route : Asked[r] \cup {None}, by : Configs \cup {None}, status : Statuses \cup {None}]
UpstreamCalls == [transit : Nat, executed : Nat]

SessionTypes ==
  /\ restarts \in Nat /\ clock \in Nat
  /\ sessions \in [Logins -> Nat \cup {None}]
  /\ issued \in [Logins -> [at : Nat, process : Nat] \cup {None}]
  /\ revoked \subseteq Logins
  /\ DOMAIN login = Logins
  /\ \A s \in Logins :
       /\ DOMAIN login[s] = {"stage", "correct", "due"}
       /\ login[s].stage \in {"new", "waiting", "over", "lost"}

ProxyTypes ==
  /\ config \in Configs \cup {None}
  /\ req \in [Reqs -> UNION {Record(r) : r \in Reqs}]
  /\ \A r \in Reqs : req[r] \in Record(r)
  /\ upstream \in [Reqs -> UpstreamCalls]

\* A session in the store is the one the running process issued, and nobody has logged
\* out of it; an attempt that led to a session is over and cannot lead to another.
Session(s) ==
  /\ sessions[s] # None =>
       /\ issued[s] # None
       /\ sessions[s] = issued[s].at + SessionTTL
       /\ issued[s].process = restarts
       /\ s \notin revoked
  /\ issued[s] # None \/ s \in revoked => login[s].stage = "over"

SessionInv == SessionTypes /\ \A s \in Logins : Session(s)

Calls(r) == upstream[r].executed + upstream[r].transit

\* The process that let a request through was allowed to.
LetThrough(r) ==
  /\ req[r].by \in Configs /\ ~Refuses(req[r].by)
  /\ req[r].route \in ProxyRoutes
  /\ req[r].by.readOnly => req[r].route \in ReadRoutes

Request(r) ==
  /\ Calls(r) <= 1
  /\ req[r].stage \in {"new", "sent", "admitted"} => Calls(r) = 0
  /\ req[r].stage # "over" => req[r].status = None
  /\ req[r].stage \in AtProcess => Up
  /\ req[r].status \in Refused => Calls(r) = 0
  /\ req[r].status = "relayed" => upstream[r].executed = 1
  /\ req[r].stage \in {"admitted", "forwarded"} \/ Calls(r) > 0 => LetThrough(r)

ProxyInv == ProxyTypes /\ (Up => ~Refuses(config)) /\ \A r \in Reqs : Request(r)

\* The k attempts before the n-th are the unbroken run of failures before it.
Run(n, k) ==
  /\ \A i \in n - k .. n - 1 : ~tried[i].correct
  /\ k < n - 1 => tried[n - k - 1].correct

\* The counter is the run of failures that the next attempt will meet, and every delay
\* was computed from the run before it.
ThrottleInv ==
  /\ tried \in Seq([correct : BOOLEAN, delay : {DelayFor(n) : n \in Nat}])
  /\ counter \in 0 .. Len(tried) /\ Run(Len(tried) + 1, counter)
  /\ \A n \in DOMAIN tried : \E k \in 0 .. n - 1 :
       Run(n, k) /\ tried[n].delay = DelayFor(IF tried[n].correct THEN k ELSE k + 1)

-----------------------------------------------------------------------------
(* Sessions.                                                               *)

LEMMA SessionInit == Init => SessionInv
  BY BffAssumption DEF BffAssumption, Init, SessionInv, SessionTypes, Session, NotTried

LEMMA SessionStep == SessionInv /\ [Next]_vars => SessionInv'
<1> SUFFICES ASSUME SessionInv, [Next]_vars PROVE SessionInv'
  OBVIOUS
<1> USE BffAssumption DEF BffAssumption, SessionInv, SessionTypes, Session
<1>1. CASE UNCHANGED <<restarts, clock, auth>>
  BY <1>1 DEF auth
<1>2. CASE Restart
  <2>1. /\ restarts' = restarts + 1 /\ UNCHANGED <<clock, issued, revoked>>
        /\ sessions' = [s \in Logins |-> None]
    BY <1>2 DEF Restart
  <2>2. /\ DOMAIN login' = Logins
        /\ \A s \in Logins : login'[s] = IF login[s].stage = "waiting"
                                       THEN [login[s] EXCEPT !.stage = "lost"] ELSE login[s]
    BY <1>2 DEF Restart
  <2>3. ASSUME NEW s \in Logins
        PROVE  /\ DOMAIN login'[s] = {"stage", "correct", "due"}
               /\ login[s].stage = "waiting" => login'[s].stage = "lost"
               /\ login[s].stage # "waiting" => login'[s].stage = login[s].stage
    BY <2>2
  <2>4. SessionTypes'
    BY <2>1, <2>2, <2>3
  <2>5. ASSUME NEW s \in Logins PROVE Session(s)'
    BY <2>1, <2>3
  <2> QED BY <2>4, <2>5
<1>3. CASE Pass
  BY <1>3 DEF Pass, auth
<1>4. ASSUME NEW s \in Logins, Attempt(s) PROVE SessionInv'
  <2>1. /\ login[s].stage = "new"
        /\ UNCHANGED <<restarts, clock, sessions, issued, revoked>>
        /\ \E correct \in BOOLEAN : \E due :
             login' = [login EXCEPT ![s] = [stage |-> "waiting", correct |-> correct, due |-> due]]
    BY <1>4 DEF Attempt, RightPassword, WrongPassword, Wait
  <2> QED BY <2>1
<1>5. ASSUME NEW s \in Logins, Grant(s) PROVE SessionInv'
  <2>1. /\ login[s].stage = "waiting" /\ issued[s] = None /\ s \notin revoked
        /\ UNCHANGED <<restarts, clock, revoked>>
        /\ sessions' = [sessions EXCEPT ![s] = clock + SessionTTL]
        /\ issued' = [issued EXCEPT ![s] = [at |-> clock, process |-> restarts]]
        /\ login' = [login EXCEPT ![s].stage = "over"]
    BY <1>5 DEF Grant, Waited
  <2>2. clock + SessionTTL \in Nat /\ [at |-> clock, process |-> restarts] \in [at : Nat, process : Nat]
    OBVIOUS
  <2>3. SessionTypes'
    BY <2>1, <2>2
  <2>4. ASSUME NEW t \in Logins PROVE Session(t)'
    BY <2>1, <2>2
  <2> QED BY <2>3, <2>4
<1>6. ASSUME NEW s \in Logins, Deny(s) PROVE SessionInv'
  BY <1>6 DEF Deny, Waited
<1>7. ASSUME NEW s \in Logins, Logout(s) PROVE SessionInv'
  BY <1>7 DEF Logout, Revoke
<1>8. ASSUME NEW r \in Reqs, Hooks(r) PROVE SessionInv'
  BY <1>8 DEF Hooks, Find
<1>9. CASE \/ Boot
           \/ \E r \in Reqs : \/ Send(r) \/ Forward(r) \/ Relay(r) \/ Unavailable(r)
                              \/ BodyRefused(r) \/ Execute(r) \/ Drop(r)
  BY <1>1, <1>9 DEF Boot, Send, Forward, Relay, Unavailable, BodyRefused, Execute, Drop
<1> QED
  BY <1>1, <1>2, <1>3, <1>4, <1>5, <1>6, <1>7, <1>8, <1>9 DEF Next, Step, Handling, vars, auth

LEMMA SessionInvHolds == Spec => []SessionInv
  BY SessionInit, SessionStep, PTL DEF Spec

-----------------------------------------------------------------------------
(* Requests.                                                               *)

LEMMA ProxyInit == Init => ProxyInv
<1> SUFFICES ASSUME Init PROVE ProxyInv
  OBVIOUS
<1>1. ProxyTypes
  BY DEF Init, ProxyTypes, Record, UpstreamCalls, Fresh
<1>2. ~Up /\ \A r \in Reqs : req[r] = Fresh /\ upstream[r] = [transit |-> 0, executed |-> 0]
  BY DEF Init, Up
<1>3. ASSUME NEW r \in Reqs PROVE Request(r)
  <2>1. Calls(r) = 0 /\ upstream[r].executed = 0
    BY <1>2 DEF Calls
  <2> QED
    BY <1>2, <2>1, BffAssumption DEF BffAssumption, Request, Fresh, AtProcess, Statuses, Refused
<1> QED BY <1>1, <1>2, <1>3 DEF ProxyInv

\* A step that changes the request and the calls of r only, under the same configuration.
LEMMA OneRequestStep ==
  ASSUME ProxyInv, NEW r \in Reqs, UNCHANGED config,
         NEW q \in Record(r),
         NEW u \in UpstreamCalls,
         req' = [req EXCEPT ![r] = q], upstream' = [upstream EXCEPT ![r] = u],
         Request(r)'
  PROVE  ProxyInv'
<1> USE DEF ProxyInv, ProxyTypes
<1>1. ProxyTypes'
  OBVIOUS
<1>2. ASSUME NEW t \in Reqs, t # r PROVE Request(t)'
  <2>1. Request(t) /\ req'[t] = req[t] /\ upstream'[t] = upstream[t]
    BY <1>2
  <2> QED BY <2>1 DEF Request, Calls, LetThrough, Up
<1> QED BY <1>1, <1>2 DEF Up

\* A request is answered, and its calls stay what they were.
Over(r, status) == [req[r] EXCEPT !.stage = "over", !.status = status]

LEMMA AnsweredStep ==
  ASSUME ProxyInv, NEW r \in Reqs, NEW status \in Statuses,
         UNCHANGED <<config, upstream>>, req' = [req EXCEPT ![r] = Over(r, status)],
         status \in Refused => Calls(r) = 0, status = "relayed" => upstream[r].executed = 1
  PROVE  ProxyInv'
<1>1. /\ Over(r, status) \in Record(r) /\ req'[r] = Over(r, status)
      /\ req'[r].stage = "over" /\ req'[r].status = status
      /\ req'[r].by = req[r].by /\ req'[r].route = req[r].route
  BY DEF ProxyInv, ProxyTypes, Record, Over
<1>2. upstream' = [upstream EXCEPT ![r] = upstream[r]] /\ upstream[r] \in UpstreamCalls
  BY DEF ProxyInv, ProxyTypes
<1>3. Request(r)'
  BY <1>1 DEF ProxyInv, Request, Calls, LetThrough, AtProcess
<1> QED BY <1>1, <1>2, <1>3, OneRequestStep

\* Something happens to the calls of r; the process does nothing.
LEMMA CallsStep ==
  ASSUME ProxyInv, NEW r \in Reqs, UNCHANGED <<config, req>>, NEW u \in UpstreamCalls,
         upstream' = [upstream EXCEPT ![r] = u], Request(r)'
  PROVE  ProxyInv'
<1>1. req' = [req EXCEPT ![r] = req[r]] /\ req[r] \in Record(r)
  BY DEF ProxyInv, ProxyTypes
<1> QED BY <1>1, OneRequestStep

LEMMA ProxyStep == ProxyInv /\ [Next]_vars => ProxyInv'
<1> SUFFICES ASSUME ProxyInv, [Next]_vars PROVE ProxyInv'
  OBVIOUS
<1> USE BffAssumption DEF BffAssumption
<1>1. CASE UNCHANGED <<config, proxy>>
  BY <1>1 DEF proxy, ProxyInv, ProxyTypes, Request, Calls, LetThrough, Up
<1>2. CASE Boot
  <2>1. ~Up /\ UNCHANGED proxy /\ \E c \in Configs : ~Refuses(c) /\ config' = c
    BY <1>2 DEF Boot
  <2> QED BY <2>1 DEF proxy, ProxyInv, ProxyTypes, Request, Calls, LetThrough, Up
<1>3. CASE Restart
  <2>1. config' = None /\ UNCHANGED upstream /\ req' = [r \in Reqs |-> req'[r]]
    BY <1>3 DEF Restart
  <2>2. ASSUME NEW r \in Reqs
        PROVE  /\ req'[r] \in Record(r)
               /\ req'[r].stage \notin AtProcess
               /\ req'[r].by = req[r].by /\ req'[r].route = req[r].route
               /\ \/ req'[r] = req[r]
                  \/ req'[r].stage = "over" /\ req'[r].status = "lost"
    <3>1. CASE req[r].stage \in AtProcess
      <4>1. req'[r] = [[req[r] EXCEPT !.stage = "over"] EXCEPT !.status = "lost"]
        BY <1>3, <3>1 DEF Restart, AtProcess
      <4> QED BY <4>1 DEF ProxyInv, ProxyTypes, Record, AtProcess, Statuses
    <3>2. CASE req[r].stage \notin AtProcess
      <4>1. req'[r] = req[r]
        BY <1>3, <3>2 DEF Restart, AtProcess
      <4> QED BY <3>2, <4>1 DEF ProxyInv, ProxyTypes
    <3> QED BY <3>1, <3>2
  <2>3. ASSUME NEW r \in Reqs PROVE Request(r)'
    <3>1. Request(r) /\ "lost" # "relayed" /\ "lost" \notin Refused
      BY DEF ProxyInv, Refused
    <3> QED
      BY <2>1, <2>2, <3>1 DEF Request, Calls, LetThrough, AtProcess
  <2> QED BY <2>1, <2>2, <2>3 DEF ProxyInv, ProxyTypes, Up
<1>4. ASSUME NEW r \in Reqs, Send(r) PROVE ProxyInv'
  <2>1. PICK c \in Logins \cup {None}, route \in Asked[r] :
             req' = [req EXCEPT ![r].stage = "sent", ![r].cookie = c, ![r].route = route]
    BY <1>4 DEF Send
  <2> DEFINE q == [req[r] EXCEPT !.stage = "sent", !.cookie = c, !.route = route]
  <2>2. /\ q \in Record(r)
        /\ q.stage = "sent" /\ q.status = req[r].status
    BY <2>1 DEF ProxyInv, ProxyTypes, Record, AtProcess
  <2>3. /\ req' = [req EXCEPT ![r] = q] /\ upstream' = [upstream EXCEPT ![r] = upstream[r]]
        /\ Up /\ req[r].stage = "new" /\ UNCHANGED config
        /\ upstream[r] \in UpstreamCalls /\ req'[r] = q
    BY <1>4, <2>1 DEF Send, ProxyInv, ProxyTypes
  <2>4. Request(r)'
    BY <2>2, <2>3 DEF ProxyInv, Request, Calls, AtProcess, Up
  <2> QED BY <2>2, <2>3, <2>4, OneRequestStep
<1>5. ASSUME NEW r \in Reqs, Hooks(r) PROVE ProxyInv'
  <2>1. req[r].stage = "sent" /\ UNCHANGED <<config, upstream>>
    BY <1>5 DEF Hooks
  <2>2. Request(r) /\ req[r] \in Record(r) /\ Up /\ config \in Configs /\ ~Refuses(config)
    BY <2>1 DEF ProxyInv, ProxyTypes, Request, Up, AtProcess
  <2>3. CASE Refusal(r) # None
    <3>1. req' = [req EXCEPT ![r] = Over(r, Refusal(r))] /\ Refusal(r) \in Refused
      BY <1>5, <2>3 DEF Hooks, Reply, Over, Refusal, Refused
    <3> QED BY <2>1, <2>2, <3>1, AnsweredStep DEF Request, Statuses, Refused
  <2>4. CASE Refusal(r) = None
    <3> DEFINE q == [req[r] EXCEPT !.stage = "admitted", !.by = config]
    <3>1. req' = [req EXCEPT ![r] = q] /\ upstream' = [upstream EXCEPT ![r] = upstream[r]]
      BY <1>5, <2>1, <2>4 DEF Hooks, ProxyInv, ProxyTypes
    <3>2. q \in Record(r) /\ q.stage = "admitted" /\ q.by = config
          /\ q.route = req[r].route /\ q.status = req[r].status
      BY <2>2 DEF Record, AtProcess
    <3>3. req[r].route \in ProxyRoutes /\ (config.readOnly => req[r].route \in ReadRoutes)
      BY <2>4 DEF Refusal, Statuses, Refused
    <3>4. upstream[r] \in UpstreamCalls /\ req'[r] = q /\ upstream'[r] = upstream[r] /\ UNCHANGED config
      BY <2>1, <3>1 DEF ProxyInv, ProxyTypes
    <3> HIDE DEF q
    <3>5. Request(r)'
      BY <2>1, <2>2, <3>2, <3>3, <3>4 DEF Request, Calls, LetThrough, AtProcess, Up
    <3> QED BY <3>1, <3>2, <3>4, <3>5, OneRequestStep
  <2> QED BY <2>3, <2>4
<1>6. ASSUME NEW r \in Reqs, BodyRefused(r) PROVE ProxyInv'
  <2>1. /\ req[r].stage = "admitted" /\ req' = [req EXCEPT ![r] = Over(r, "body_refused")]
        /\ UNCHANGED <<config, upstream>>
    BY <1>6 DEF BodyRefused, Reply, Over
  <2>2. Calls(r) = 0
    BY <2>1 DEF ProxyInv, Request
  <2> QED BY <2>1, <2>2, AnsweredStep DEF Statuses, Refused
<1>7. ASSUME NEW r \in Reqs, Forward(r) PROVE ProxyInv'
  <2> DEFINE q == [req[r] EXCEPT !.stage = "forwarded"]
             u == [upstream[r] EXCEPT !.transit = @ + 1]
  <2>1. /\ req[r].stage = "admitted" /\ UNCHANGED config
        /\ req' = [req EXCEPT ![r] = q] /\ upstream' = [upstream EXCEPT ![r] = u]
    BY <1>7 DEF Forward
  <2>2. /\ q \in Record(r) /\ q.stage = "forwarded" /\ req'[r] = q
        /\ q.by = req[r].by /\ q.route = req[r].route /\ q.status = req[r].status
    BY <2>1 DEF ProxyInv, ProxyTypes, Record, AtProcess
  <2>3. /\ u \in UpstreamCalls /\ upstream'[r] = u /\ upstream[r] \in UpstreamCalls
        /\ u.transit = upstream[r].transit + 1 /\ u.executed = upstream[r].executed
    <3>1. upstream[r] \in UpstreamCalls /\ DOMAIN upstream = Reqs
      BY DEF ProxyInv, ProxyTypes
    <3>2. upstream[r].transit + 1 \in Nat
      BY <3>1 DEF UpstreamCalls
    <3> QED BY <2>1, <3>1, <3>2 DEF UpstreamCalls
  <2>4. Request(r) /\ upstream[r].transit \in Nat /\ upstream[r].executed \in Nat
    BY <2>3 DEF ProxyInv, UpstreamCalls
  <2> HIDE DEF q, u
  <2>5. Calls(r)' = 1
    BY <2>1, <2>3, <2>4 DEF Request, Calls
  <2>6. Request(r)'
    BY <2>1, <2>2, <2>4, <2>5, BffAssumption
       DEF BffAssumption, Request, LetThrough, AtProcess, Up, Statuses, Refused
  <2> QED BY <2>1, <2>2, <2>3, <2>6, OneRequestStep
<1>8. ASSUME NEW r \in Reqs, Execute(r) PROVE ProxyInv'
  <2> DEFINE u == [transit |-> upstream[r].transit - 1, executed |-> upstream[r].executed + 1]
  <2>1. /\ upstream[r].transit > 0 /\ UNCHANGED <<config, req>>
        /\ upstream' = [upstream EXCEPT ![r] = u]
    BY <1>8 DEF Execute
  <2>2. upstream[r].transit \in Nat /\ upstream[r].executed \in Nat /\ Request(r)
    BY DEF ProxyInv, ProxyTypes, UpstreamCalls
  <2>3. u \in UpstreamCalls /\ upstream'[r] = u
    <3>1. upstream[r].transit - 1 \in Nat /\ upstream[r].executed + 1 \in Nat
      BY <2>1, <2>2
    <3> QED BY <2>1, <3>1 DEF ProxyInv, ProxyTypes, UpstreamCalls
  <2>4. Calls(r)' = Calls(r) /\ Calls(r) = 1 /\ upstream[r].executed = 0
    BY <2>1, <2>2, <2>3 DEF Request, Calls
  <2>5. Request(r)'
    BY <2>1, <2>2, <2>4 DEF Request, LetThrough, Up
  <2> QED BY <2>1, <2>3, <2>5, CallsStep
<1>9. ASSUME NEW r \in Reqs, Drop(r) PROVE ProxyInv'
  <2> DEFINE u == [upstream[r] EXCEPT !.transit = @ - 1]
  <2>1. /\ upstream[r].transit > 0 /\ UNCHANGED <<config, req>>
        /\ upstream' = [upstream EXCEPT ![r] = u]
    BY <1>9 DEF Drop
  <2>2. /\ upstream[r] \in UpstreamCalls /\ Request(r) /\ DOMAIN upstream = Reqs
        /\ upstream[r].transit \in Nat /\ upstream[r].executed \in Nat
    BY DEF ProxyInv, ProxyTypes, UpstreamCalls
  <2>3. upstream[r].transit - 1 \in Nat
    BY <2>1, <2>2
  <2>4. u \in UpstreamCalls /\ upstream'[r] = u
        /\ u.transit = upstream[r].transit - 1 /\ u.executed = upstream[r].executed
    BY <2>1, <2>2, <2>3 DEF UpstreamCalls
  <2> HIDE DEF u
  <2>5. Calls(r) = 1 /\ Calls(r)' = 0 /\ upstream[r].executed = 0
    BY <2>1, <2>2, <2>4 DEF Request, Calls
  <2>6. Request(r)'
    BY <2>1, <2>2, <2>5 DEF Request, LetThrough, Up
  <2> QED BY <2>1, <2>4, <2>6, CallsStep
<1>10. ASSUME NEW r \in Reqs, Relay(r) PROVE ProxyInv'
  <2>1. /\ upstream[r].executed > 0 /\ req' = [req EXCEPT ![r] = Over(r, "relayed")]
        /\ UNCHANGED <<config, upstream>>
    BY <1>10 DEF Relay, Reply, Over
  <2>2. upstream[r].executed = 1
    <3>1. upstream[r].executed \in Nat /\ upstream[r].transit \in Nat /\ Calls(r) <= 1
      BY DEF ProxyInv, ProxyTypes, UpstreamCalls, Request
    <3> QED BY <2>1, <3>1 DEF Calls
  <2> QED BY <2>1, <2>2, AnsweredStep DEF Statuses, Refused
<1>11. ASSUME NEW r \in Reqs, Unavailable(r) PROVE ProxyInv'
  <2>1. PICK status \in {"upstream_unavailable", "internal_error"} :
             /\ req' = [req EXCEPT ![r] = Over(r, status)]
             /\ UNCHANGED <<config, upstream>>
    BY <1>11 DEF Unavailable, Reply, Over
  <2> QED BY <2>1, AnsweredStep DEF Statuses, Refused
<1>12. CASE Pass \/ \E s \in Logins : Attempt(s) \/ Step(s) \/ Logout(s)
  BY <1>1, <1>12 DEF Pass, Attempt, Step, Grant, Deny, Logout
<1> QED
  BY <1>1, <1>2, <1>3, <1>4, <1>5, <1>6, <1>7, <1>8, <1>9, <1>10, <1>11, <1>12
     DEF Next, Handling, vars, proxy

LEMMA OnlyLiveAdmitted ==
  ASSUME SessionInv, ProxyTypes, [Next]_vars,
         NEW r \in Reqs, req[r].stage = "sent", req'[r].stage = "admitted"
  PROVE  req[r].cookie # None /\ ~Ended(req[r].cookie)
<1> USE DEF ProxyTypes
<1>1. Hooks(r)
  <2>1. req' # req
    OBVIOUS
  <2>2. ~Restart
    <3>1. req[r].stage \in AtProcess /\ DOMAIN req[r] = {"stage", "cookie", "route", "by", "status"}
      BY DEF Record, AtProcess
    <3>2. [[req[r] EXCEPT !.stage = "over"] EXCEPT !.status = "lost"].stage = "over"
      BY <3>1
    <3> QED BY <3>1, <3>2 DEF Restart, AtProcess
  <2>3. \A q \in Reqs : ~(Send(q) /\ q = r)
    BY DEF Send
  <2>4. ASSUME NEW q \in Reqs, q # r
        PROVE  ~(Send(q) \/ Handling(q) \/ BodyRefused(q) \/ Execute(q) \/ Drop(q))
    BY <2>1, <2>4 DEF Send, Handling, Hooks, Forward, Relay, Unavailable, BodyRefused, Execute,
                      Drop, Reply
  <2>5. ~(Forward(r) \/ Relay(r) \/ Unavailable(r) \/ BodyRefused(r) \/ Execute(r) \/ Drop(r))
    BY <2>1 DEF Forward, Relay, Unavailable, BodyRefused, Execute, Drop
  <2>6. ~(Boot \/ Pass \/ \E s \in Logins : Attempt(s) \/ Step(s) \/ Logout(s))
    BY <2>1 DEF Boot, Pass, Attempt, Step, Grant, Deny, Logout, proxy
  <2> QED BY <2>1, <2>2, <2>3, <2>4, <2>5, <2>6 DEF Next, Handling, vars
<1>2. Live(req[r].cookie)
  <2>1. ~Live(req[r].cookie) => Refusal(r) = "unauthenticated"
    BY DEF Refusal
  <2>2. Refusal(r) # None => req'[r].stage = "over"
    <3>1. DOMAIN req[r] = {"stage", "cookie", "route", "by", "status"}
      BY DEF Record
    <3> QED BY <1>1, <3>1 DEF Hooks, Reply
  <2> QED BY <2>1, <2>2, BffAssumption DEF BffAssumption, Statuses, Refused
<1> QED
  BY <1>2, BffAssumption
     DEF BffAssumption, SessionInv, SessionTypes, Session, Record, Live, Ended

LEMMA ProxyInvHolds == Spec => []ProxyInv
  BY ProxyInit, ProxyStep, PTL DEF Spec

-----------------------------------------------------------------------------
(* The throttle.                                                           *)

LEMMA ThrottleInit == Init => ThrottleInv
  BY DEF Init, ThrottleInv, Run

\* An attempt appends its entry and leaves the run it prolongs or breaks.
LEMMA AttemptStep ==
  ASSUME ThrottleInv, NEW s \in Logins, NEW correct \in BOOLEAN,
         Wait(s, correct, DelayFor(IF correct THEN counter ELSE counter + 1)),
         counter' = IF correct THEN 0 ELSE counter + 1
  PROVE  ThrottleInv'
<1> DEFINE n == Len(tried) + 1
           delay == DelayFor(IF correct THEN counter ELSE counter + 1)
           entry == [correct |-> correct, delay |-> delay]
           Entry == [correct : BOOLEAN, delay : {DelayFor(k) : k \in Nat}]
<1>1. /\ Len(tried) \in Nat /\ counter \in Nat /\ counter <= n - 1 /\ n \in Nat \ {0}
      /\ tried \in Seq(Entry)
  BY DEF ThrottleInv
<1>2. entry \in Entry
  BY <1>1
<1>3. tried' = Append(tried, entry)
  BY DEF Wait
<1>4. /\ tried' \in Seq(Entry) /\ Len(tried') = n /\ DOMAIN tried' = 1 .. n
      /\ tried'[n].correct = correct /\ tried'[n].delay = delay
      /\ \A i \in 1 .. n - 1 : tried'[i] = tried[i]
  BY <1>1, <1>2, <1>3
<1> HIDE DEF delay, entry, Entry
<1>5. ASSUME NEW m \in 1 .. n, NEW k \in 0 .. m - 1 PROVE Run(m, k)' <=> Run(m, k)
  <2>1. m - 1 \in 0 .. n - 1 /\ \A i \in m - k .. m - 1 : i \in 1 .. n - 1
    BY <1>1, <1>5
  <2>2. k < m - 1 => m - k - 1 \in 1 .. n - 1
    BY <1>1, <1>5
  <2> QED BY <1>4, <2>1, <2>2 DEF Run
<1>6. Run(n, counter)
  BY DEF ThrottleInv
<1>7. counter' \in 0 .. Len(tried)' /\ Run(Len(tried) + 1, counter)'
  <2>1. CASE correct
    <3>1. /\ counter' = 0 /\ Len(tried') + 1 - counter' - 1 = n
          /\ Len(tried') + 1 - counter' .. Len(tried') + 1 - 1 = {} /\ tried'[n].correct
      BY <1>1, <1>4, <2>1
    <3>2. counter' \in 0 .. Len(tried')
      BY <1>1, <1>4, <3>1
    <3> QED BY <3>1, <3>2 DEF Run
  <2>2. CASE ~correct
    <3>1. /\ counter' = counter + 1 /\ counter' \in 0 .. n
          /\ n + 1 - counter' = n - counter /\ n + 1 - 1 = n
          /\ n + 1 - counter' - 1 = n - counter - 1
      BY <1>1, <2>2
    <3>2. ASSUME NEW i \in n - counter .. n PROVE ~tried'[i].correct
      <4>1. CASE i = n
        BY <1>4, <2>2, <4>1
      <4>2. CASE i # n
        <5>1. i \in n - counter .. n - 1 /\ i \in 1 .. n - 1
          BY <1>1, <4>2
        <5> QED BY <1>4, <1>6, <5>1 DEF Run
      <4> QED BY <4>1, <4>2
    <3>3. counter' < n => tried'[n - counter - 1].correct
      <4>1. counter' < n => counter < n - 1 /\ n - counter - 1 \in 1 .. n - 1
        BY <1>1, <3>1
      <4> QED BY <1>4, <1>6, <4>1 DEF Run
    <3>4. /\ Len(tried') + 1 - counter' = n - counter /\ Len(tried') + 1 - 1 = n
          /\ Len(tried') + 1 - counter' - 1 = n - counter - 1 /\ counter' \in 0 .. Len(tried')
      BY <1>4, <3>1
    <3> QED BY <3>2, <3>3, <3>4 DEF Run
  <2> QED BY <2>1, <2>2
<1>8. ASSUME NEW m \in 1 .. n
      PROVE  \E k \in 0 .. m - 1 :
               Run(m, k)' /\ tried'[m].delay = DelayFor(IF tried'[m].correct THEN k ELSE k + 1)
  <2>1. CASE m = n
    BY <1>1, <1>4, <1>5, <1>6, <2>1 DEF delay
  <2>2. CASE m # n
    <3>1. m \in 1 .. n - 1 /\ m \in DOMAIN tried
      BY <1>1, <2>2
    <3>2. PICK k \in 0 .. m - 1 :
               Run(m, k) /\ tried[m].delay = DelayFor(IF tried[m].correct THEN k ELSE k + 1)
      BY <3>1 DEF ThrottleInv
    <3> QED BY <1>4, <1>5, <3>1, <3>2
  <2> QED BY <2>1, <2>2
<1>9. \A m \in DOMAIN tried' : \E k \in 0 .. m - 1 :
        Run(m, k)' /\ tried'[m].delay = DelayFor(IF tried'[m].correct THEN k ELSE k + 1)
  BY <1>4, <1>8
<1>10. (tried \in Seq([correct : BOOLEAN, delay : {DelayFor(k) : k \in Nat}]))'
  BY <1>4 DEF Entry
<1> QED BY <1>7, <1>9, <1>10 DEF ThrottleInv

LEMMA ThrottleStep == ThrottleInv /\ [Next]_vars => ThrottleInv'
<1> SUFFICES ASSUME ThrottleInv, [Next]_vars PROVE ThrottleInv'
  OBVIOUS
<1>1. CASE UNCHANGED <<counter, tried>>
  BY <1>1 DEF ThrottleInv, Run
<1>2. CASE Restart
  <2>1. counter' = 0 /\ tried' = <<>>
    BY <1>2 DEF Restart
  <2> QED BY <2>1 DEF ThrottleInv, Run
<1>3. ASSUME NEW s \in Logins, Attempt(s) PROVE ThrottleInv'
  <2>1. PICK correct \in BOOLEAN : IF correct THEN RightPassword(s) ELSE WrongPassword(s)
    BY <1>3, BffAssumption DEF BffAssumption, Attempt
  <2>2. CASE correct
    BY <2>1, <2>2, AttemptStep DEF RightPassword
  <2>3. CASE ~correct
    BY <2>1, <2>3, AttemptStep DEF WrongPassword, ThrottleInv
  <2> QED BY <2>2, <2>3
<1> QED
  BY <1>1, <1>2, <1>3 DEF Next, Step, Handling, Boot, Pass, Grant, Deny, Logout, Send, Hooks,
     Forward, Relay, Unavailable, BodyRefused, Execute, Drop, vars, auth

\* At most one run of failures ends before the n-th attempt.
LEMMA OneRun ==
  ASSUME NEW n \in Nat, NEW j \in 0 .. n - 1, NEW k \in 0 .. n - 1, Run(n, j), Run(n, k)
  PROVE  j = k
<1>1. ASSUME NEW a \in 0 .. n - 1, NEW b \in 0 .. n - 1, Run(n, a), Run(n, b), a < b PROVE FALSE
  <2>1. a < n - 1 /\ n - a - 1 \in n - b .. n - 1
    BY <1>1
  <2> QED BY <1>1, <2>1 DEF Run
<1> QED BY <1>1
LEMMA DelaysFollow == ThrottleInv => DelayFollowsFailures
<1> SUFFICES ASSUME ThrottleInv, NEW n \in DOMAIN tried
             PROVE  tried[n].delay = DelayFor(IF tried[n].correct THEN FailuresBefore(n)
                                              ELSE FailuresBefore(n) + 1)
  BY DEF DelayFollowsFailures
<1>1. n \in Nat
  BY DEF ThrottleInv
<1>2. PICK k \in 0 .. n - 1 :
           Run(n, k) /\ tried[n].delay = DelayFor(IF tried[n].correct THEN k ELSE k + 1)
  BY DEF ThrottleInv
<1>3. \A j \in 0 .. n - 1 : Run(n, j) => j = k
  BY <1>1, <1>2, OneRun
<1>4. FailuresBefore(n) = CHOOSE j \in 0 .. n - 1 : Run(n, j)
  BY DEF FailuresBefore, Run
<1>5. FailuresBefore(n) = k
  BY <1>2, <1>3, <1>4
<1> QED BY <1>2, <1>5

-----------------------------------------------------------------------------
(* What it comes to.                                                       *)

\* A session that was logged out of, has expired or was issued by an earlier process
\* does not let a request past the guard, however the request and its end overlap.
THEOREM EndedSessionsStayOutHolds == Spec => EndedSessionsStayOut
<1>1. SessionInv /\ ProxyTypes /\ [Next]_vars =>
        [\A r \in Reqs : req[r].stage = "sent" /\ req'[r].stage = "admitted"
           => req[r].cookie # None /\ ~Ended(req[r].cookie)]_vars
  BY OnlyLiveAdmitted
<1>2. ProxyInv => ProxyTypes
  BY DEF ProxyInv
<1> QED BY <1>1, <1>2, SessionInvHolds, ProxyInvHolds, PTL DEF Spec, EndedSessionsStayOut

\* What the flag server stores changes only through a process with writes enabled, a
\* public one only when it was told to, also across restarts under another environment.
THEOREM WritesNeedWritableHolds == Spec => []WritesNeedWritable
<1>1. ProxyInv => WritesNeedWritable
  <2> SUFFICES ASSUME ProxyInv, NEW r \in Reqs, upstream[r].executed > 0,
                      req[r].route \in UpstreamWrites
               PROVE  ~req[r].by.readOnly /\ (req[r].by.public => req[r].by.allowWrites)
    BY DEF WritesNeedWritable
  <2>1. Calls(r) > 0 /\ Request(r)
    BY DEF ProxyInv, ProxyTypes, UpstreamCalls, Calls
  <2>2. LetThrough(r) /\ req[r].route \in UpstreamWrites \cap ProxyRoutes
    BY <2>1 DEF Request, LetThrough
  <2>3. req[r].route \notin ReadRoutes
    BY <2>2 DEF UpstreamWrites, ProxyRoutes, MutatingRoutes, ReadRoutes
  <2>4. ~req[r].by.readOnly
    BY <2>2, <2>3 DEF LetThrough
  <2> QED BY <2>2, <2>4 DEF LetThrough, Refuses
<1> QED BY <1>1, ProxyInvHolds, PTL

\* No request is carried out twice, a refused one never, and an answer is relayed only
\* for one that was carried out.
THEOREM CarriedOutOnceHolds == Spec => []CarriedOutOnce
<1>1. ProxyInv => CarriedOutOnce
  BY DEF ProxyInv, Request, Calls, CarriedOutOnce
<1> QED BY <1>1, ProxyInvHolds, PTL

\* The delay of every attempt is the one its unbroken run of failures asks for, however
\* attempts and their delays overlap.
THEOREM DelayFollowsFailuresHolds == Spec => []DelayFollowsFailures
  BY ThrottleInit, ThrottleStep, DelaysFollow, PTL DEF Spec
=============================================================================
