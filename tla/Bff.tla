--------------------------------- MODULE Bff ---------------------------------
(***************************************************************************)
(* The dashboard's backend-for-frontend: in-memory sessions over an opaque *)
(* cookie, a login throttle that delays and never refuses, and a proxy     *)
(* that guards, gates and forwards requests to the flag server.  The       *)
(* process restarts, perhaps with another environment; the flag server     *)
(* goes on with what it has received.                                      *)
(*                                                                         *)
(* A login attempt also names the random session id it would be given.  A  *)
(* request may carry any id that was ever issued.                          *)
(***************************************************************************)
EXTENDS Naturals, Sequences

CONSTANTS
  Logins,        \* login attempts
  Submitted,     \* Submitted[s]: whether the password of attempt s may be, or is, the right one
  Reqs,          \* requests under /api
  Asked,         \* Asked[r]: the routes request r may be for
  Configs,       \* what a process may be configured as
  None,          \* no process, no cookie, nothing yet
  SessionTTL,    \* SESSION_TTL_MS
  BaseDelay, MaxDelay,    \* BASE_DELAY_MS, MAX_DELAY_MS
  MaxClock,      \* bound on the clock, for model checking
  MaxRestarts    \* bound on restarts, for model checking

\* The rows of PROXY_ROUTES; every other path under /api is a 404.
MutatingRoutes == {"PATCH config", "PUT rules", "PUT overrides"}
ReadRoutes == {"GET flags", "GET flag", "POST preview", "GET audit", "GET flag exposures", "GET exposures"}
ProxyRoutes == MutatingRoutes \cup ReadRoutes
\* The flag server's own routes that change what it stores.
UpstreamWrites == {"PATCH config", "PUT rules", "PUT overrides", "POST flags", "POST archive"}

\* What a client is answered; nothing, when the process ends first.
Refused == {"unauthenticated", "not_found", "read_only", "body_refused"}
Statuses == Refused \cup {"relayed", "upstream_unavailable", "internal_error", "lost"}

Config == [public : BOOLEAN, readOnly : BOOLEAN, allowWrites : BOOLEAN]

ASSUME BffAssumption ==
  /\ None \notin Logins \cup Config \cup Statuses \cup [at : Nat, process : Nat]
  /\ Submitted \in [Logins -> SUBSET BOOLEAN] /\ DOMAIN Asked = Reqs /\ Configs \subseteq Config
  /\ {SessionTTL, BaseDelay, MaxDelay} \subseteq Nat \ {0}
  /\ {MaxClock, MaxRestarts} \subseteq Nat

VARIABLES
  config,     \* the running process's configuration
  restarts,   \* processes that have ended
  clock,
  sessions,   \* sessions[s]: expiresAt of a session in the store, or None
  counter,    \* the throttle's counter
  login,      \* attempts: what was submitted, when the delay is over, and their answer
  tried,      \* what the running process has verified, in order, with the delays imposed
  issued,     \* issued[s]: when and by which process a session was created, or None
  revoked,    \* sessions somebody logged out of
  req,        \* requests to the proxy
  upstream    \* upstream[r]: the requests made upstream for r, in transit and executed

auth == <<sessions, counter, login, tried, issued, revoked>>
proxy == <<req, upstream>>
vars == <<config, restarts, clock, sessions, counter, login, tried, issued, revoked, req, upstream>>

Fresh == [stage |-> "new", cookie |-> None, route |-> None, by |-> None, status |-> None]
NotTried == [stage |-> "new", correct |-> FALSE, due |-> 0]

Init ==
  /\ config = None /\ restarts = 0 /\ clock = 0
  /\ sessions = [s \in Logins |-> None]
  /\ counter = 0
  /\ login = [s \in Logins |-> NotTried]
  /\ tried = <<>>
  /\ issued = [s \in Logins |-> None]
  /\ revoked = {}
  /\ req = [r \in Reqs |-> Fresh]
  /\ upstream = [r \in Reqs |-> [transit |-> 0, executed |-> 0]]

Up == config # None

-----------------------------------------------------------------------------
(* The process.                                                            *)

\* Mutant: a public deployment is not required to be read-only.
RefusesNothing(c) == FALSE

\* PublicDeploymentRequiresReadOnlyError
Refuses(c) == c.public /\ ~c.readOnly /\ ~c.allowWrites

Boot ==
  /\ ~Up
  /\ \E c \in Configs : ~Refuses(c) /\ config' = c
  /\ UNCHANGED <<restarts, clock, auth, proxy>>

\* Everything in memory is gone; requests on their way upstream are not.
Restart ==
  /\ Up /\ restarts < MaxRestarts
  /\ restarts' = restarts + 1
  /\ config' = None
  /\ sessions' = [s \in Logins |-> None]
  /\ counter' = 0 /\ tried' = <<>>
  /\ login' = [s \in Logins |->
       IF login[s].stage = "waiting" THEN [login[s] EXCEPT !.stage = "lost"] ELSE login[s]]
  /\ req' = [r \in Reqs |->
       IF req[r].stage \in {"sent", "admitted", "forwarded"}
       THEN [req[r] EXCEPT !.stage = "over", !.status = "lost"] ELSE req[r]]
  /\ UNCHANGED <<clock, issued, revoked, upstream>>

Pass ==
  /\ clock < MaxClock /\ clock' = clock + 1
  /\ UNCHANGED <<config, restarts, auth, proxy>>

-----------------------------------------------------------------------------
(* POST /login and POST /logout.                                           *)

DelayFor(failures) ==
  IF failures = 0 THEN 0
  ELSE LET d == BaseDelay * 2 ^ (failures - 1) IN IF d < MaxDelay THEN d ELSE MaxDelay

Wait(s, correct, delay) ==
  /\ login' = [login EXCEPT ![s] = [stage |-> "waiting", correct |-> correct, due |-> clock + delay]]
  /\ tried' = Append(tried, [correct |-> correct, delay |-> delay])

\* Mutant: the counter is never reset.
RightPasswordCounting(s) ==
  /\ Wait(s, TRUE, DelayFor(counter))
  /\ UNCHANGED counter

RightPassword(s) ==
  /\ Wait(s, TRUE, DelayFor(counter))
  /\ counter' = 0

WrongPassword(s) ==
  /\ Wait(s, FALSE, DelayFor(counter + 1))
  /\ counter' = counter + 1

\* attempt() runs without a pause up to its delay.
Attempt(s) ==
  /\ Up /\ login[s].stage = "new"
  /\ clock + MaxDelay <= MaxClock
  /\ \E correct \in Submitted[s] : IF correct THEN RightPassword(s) ELSE WrongPassword(s)
  /\ UNCHANGED <<config, restarts, clock, sessions, issued, revoked, proxy>>

Waited(s) == Up /\ login[s].stage = "waiting" /\ clock >= login[s].due

\* Mutant: a login that had to wait at all is refused.
WelcomePromptOnly(s) == login[s].correct /\ login[s].due = clock

Welcome(s) == login[s].correct

\* sessions.create() comes after the delay.
Grant(s) ==
  /\ Waited(s) /\ Welcome(s)
  /\ sessions' = [sessions EXCEPT ![s] = clock + SessionTTL]
  /\ issued' = [issued EXCEPT ![s] = [at |-> clock, process |-> restarts]]
  /\ login' = [login EXCEPT ![s].stage = "over"]
  /\ UNCHANGED <<config, restarts, clock, counter, tried, revoked, proxy>>

Deny(s) ==
  /\ Waited(s) /\ ~login[s].correct
  /\ login' = [login EXCEPT ![s].stage = "over"]
  /\ UNCHANGED <<config, restarts, clock, sessions, counter, tried, issued, revoked, proxy>>

RevokeNothing(s) == UNCHANGED sessions  \* Mutant: logout clears the cookie only.

Revoke(s) == sessions' = [sessions EXCEPT ![s] = None]

\* Logging out again changes nothing.
Logout(s) ==
  /\ Up /\ issued[s] # None
  /\ s \notin revoked
  /\ Revoke(s)
  /\ revoked' = revoked \cup {s}
  /\ UNCHANGED <<config, restarts, clock, counter, login, tried, issued, proxy>>

-----------------------------------------------------------------------------
(* The /api scope: session guard, read-only gate, then the handler.        *)

Send(r) ==
  /\ Up /\ req[r].stage = "new"
  /\ \E c \in {s \in Logins : issued[s] # None} \cup {None}, route \in Asked[r] :
       req' = [req EXCEPT ![r].stage = "sent", ![r].cookie = c, ![r].route = route]
  /\ UNCHANGED <<config, restarts, clock, auth, upstream>>

Reply(r, status) == req' = [req EXCEPT ![r].stage = "over", ![r].status = status]

Live(c) == c # None /\ sessions[c] # None /\ clock < sessions[c]

\* find() deletes the expired session it comes across.
Find(c) ==
  sessions' = IF c = None \/ Live(c) THEN sessions ELSE [sessions EXCEPT ![c] = None]

\* What the hooks and the router answer instead of calling the handler.  An unmatched
\* path passes the read-only gate, to its 404.
Refusal(r) ==
  IF ~Live(req[r].cookie) THEN "unauthenticated"
  ELSE IF req[r].route \notin ProxyRoutes THEN "not_found"
  ELSE IF config.readOnly /\ req[r].route \notin ReadRoutes THEN "read_only"
  ELSE None

Hooks(r) ==
  /\ req[r].stage = "sent"
  /\ Find(req[r].cookie)
  /\ IF Refusal(r) # None THEN Reply(r, Refusal(r))
     ELSE req' = [req EXCEPT ![r].stage = "admitted", ![r].by = config]
  /\ UNCHANGED <<config, restarts, clock, counter, login, tried, issued, revoked, upstream>>

\* The body is too large, or breaks off: Fastify never calls the handler.
BodyRefused(r) ==
  /\ req[r].stage = "admitted"
  /\ Reply(r, "body_refused")
  /\ UNCHANGED <<config, restarts, clock, auth, upstream>>

\* The body has arrived; forward() calls fetch.
Forward(r) ==
  /\ req[r].stage = "admitted"
  /\ req' = [req EXCEPT ![r].stage = "forwarded"]
  /\ upstream' = [upstream EXCEPT ![r].transit = @ + 1]
  /\ UNCHANGED <<config, restarts, clock, auth>>

\* The flag server handles it, whether or not anybody still waits for the answer.
Execute(r) ==
  /\ upstream[r].transit > 0
  /\ upstream' = [upstream EXCEPT ![r] = [transit |-> @.transit - 1, executed |-> @.executed + 1]]
  /\ UNCHANGED <<config, restarts, clock, auth, req>>

Drop(r) ==
  /\ upstream[r].transit > 0
  /\ upstream' = [upstream EXCEPT ![r].transit = @ - 1]
  /\ UNCHANGED <<config, restarts, clock, auth, req>>

Relay(r) ==
  /\ req[r].stage = "forwarded" /\ upstream[r].executed > 0
  /\ Reply(r, "relayed")
  /\ UNCHANGED <<config, restarts, clock, auth, upstream>>

\* Mutant: a failed fetch is tried once more.
UnavailableRetrying(r) ==
  /\ req[r].stage = "forwarded"
  /\ req' = [req EXCEPT ![r].stage = "admitted"]
  /\ upstream[r].executed + upstream[r].transit < 2
  /\ UNCHANGED <<config, restarts, clock, auth, upstream>>

\* fetch throws (502), or the answer breaks off while its body is read (500),
\* before or after the flag server has done what it was asked.
Unavailable(r) ==
  /\ req[r].stage = "forwarded"
  /\ Reply(r, "upstream_unavailable") \/ (upstream[r].executed > 0 /\ Reply(r, "internal_error"))
  /\ UNCHANGED <<config, restarts, clock, auth, upstream>>

-----------------------------------------------------------------------------
Step(s) == Grant(s) \/ Deny(s)
Handling(r) == Hooks(r) \/ Forward(r) \/ Relay(r) \/ Unavailable(r)

Next ==
  \/ Boot \/ Restart \/ Pass
  \/ \E s \in Logins : Attempt(s) \/ Step(s) \/ Logout(s)
  \/ \E r \in Reqs : Send(r) \/ Handling(r) \/ BodyRefused(r) \/ Execute(r) \/ Drop(r)

Spec == Init /\ [][Next]_vars
\* Time passes, timers fire, hooks and handlers run, and a fetch settles one way or the other.
FairSpec ==
  /\ Spec
  /\ WF_vars(Pass)
  /\ \A s \in Logins : WF_vars(Step(s))
  /\ \A r \in Reqs : WF_vars(Handling(r))

-----------------------------------------------------------------------------
\* A session ends by logout, eight hours after the login whatever its use, or with the
\* process; a request that meets the guard after that is never let through.
Ended(s) ==
  s \in revoked \/ clock >= issued[s].at + SessionTTL \/ restarts # issued[s].process
EndedSessionsStayOut ==
  [][\A r \in Reqs : req[r].stage = "sent" /\ req'[r].stage = "admitted"
       => req[r].cookie # None /\ ~Ended(req[r].cookie)]_vars

\* What is stored upstream changes only through requests that a process with writes
\* enabled let through; on a public deployment, one that was told to accept writes.
WritesNeedWritable ==
  \A r \in Reqs : upstream[r].executed > 0 /\ req[r].route \in UpstreamWrites =>
    /\ ~req[r].by.readOnly
    /\ req[r].by.public => req[r].by.allowWrites

\* A request is carried out upstream at most once, however its fetch ends; one the
\* client was refused is not carried out at all, one whose answer was relayed is.
CarriedOutOnce ==
  \A r \in Reqs :
    /\ upstream[r].executed + upstream[r].transit <= 1
    /\ req[r].status \in Refused => upstream[r].executed + upstream[r].transit = 0
    /\ req[r].status = "relayed" => upstream[r].executed = 1

\* "There is no time-decay window: the counter resets only on a successful login": the
\* delay of an attempt follows from the unbroken run of failures before it, also
\* while the attempts of that run are still being delayed.
FailuresBefore(n) ==
  CHOOSE k \in 0 .. n - 1 :
    /\ \A i \in n - k .. n - 1 : ~tried[i].correct
    /\ k < n - 1 => tried[n - k - 1].correct
DelayFollowsFailures ==
  \A n \in DOMAIN tried :
    tried[n].delay = DelayFor(IF tried[n].correct THEN FailuresBefore(n) ELSE FailuresBefore(n) + 1)

\* "NEVER refuses a correct password": whatever failed before it, it leads to a
\* session, unless the process ends first.
CorrectPasswordLogsIn ==
  \A s \in Logins : login[s].stage = "waiting" /\ login[s].correct
    ~> issued[s] # None \/ login[s].stage = "lost"
=============================================================================
