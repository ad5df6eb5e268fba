----------------------------- MODULE Dashboard -----------------------------
(***************************************************************************)
(* packages/dashboard: one operator's tab on the flag pages, against a     *)
(* store other clients change too.                                         *)
(*                                                                         *)
(* The tab keeps a query cache of whole flags, refetched on mount, on      *)
(* focus and on invalidation; the page rendered from it; and per           *)
(* environment a section with a switch, a slider, the rule and override    *)
(* editors and their dialogs.  A mutation sends the version the cache has  *)
(* when it leaves.  The store checks versions atomically (FlagContract).   *)
(***************************************************************************)
EXTENDS Integers, FiniteSets, SequencesExt

CONSTANTS
  Flags, Envs,
  None,
  Editors,      \* \subseteq {"rules", "overrides"}
  Contested,    \* the columns other clients change
  Wires,        \* Wires[k]: the sets other clients put
  Drafts,       \* Drafts[k]: what the operator may make of a draft by editing it
  Rollouts,
  Numerals,     \* the texts that Number() reads as finite
  MaxGestures,  \* bound: toggles, drags, releases, edits and saves; what follows in a dialog is free
  MaxVisits,    \* bound: navigations and returns of the focus
  MaxWrites,    \* bound: writes of other clients
  MaxTrouble    \* bound: failures and expired sessions

Columns == {"enabled", "rollout"} \cup Editors
Empty == <<>>

ASSUME DashboardAssumption ==
  \* A route is the login screen, the list or the page of a flag.
  /\ Flags \cap {"login", "list", None} = {}
  /\ Editors \subseteq {"rules", "overrides"} /\ Contested \subseteq Columns /\ 0 \in Rollouts
  /\ MaxGestures \in Nat /\ MaxVisits \in Nat /\ MaxWrites \in Nat /\ MaxTrouble \in Nat

VARIABLES
  store,    \* store[f][e]: version and columns, each with who wrote it last
  cache,    \* cache[f]: the flag as last fetched, or None
  fetch,    \* fetch[f]: [stage, flag]; stage is "idle", "sent", "expired" or "read"
  failed,   \* failed[f]: the last fetch failed
  session,  \* the BFF knows the tab's session
  page,     \* "login", "list" or a flag
  view,     \* [flag, data] the sections are rendered from, or None
  form,     \* form[e]: the state of a mounted section, or None
  calls,    \* calls[i]: the i-th mutation, until it is answered
  learned,  \* learned[f][e]: the highest version a reply told while f was open
  sent,     \* mutations sent so far
  spent     \* what is used up of each bound

vars == <<store, cache, fetch, failed, session, page, view, form, calls, learned, sent, spent>>

Spend(kind, max) == spent[kind] < max /\ spent' = [spent EXCEPT ![kind] = @ + 1]

-----------------------------------------------------------------------------
(* rule-draft.ts.  A value is [type, v], v the texts between its commas.   *)

IsList(operator) == operator \in {"in", "not_in"}

valuesToInput(operator, values) ==
  IF IsList(operator) THEN FlattenSeq([i \in DOMAIN values |-> values[i].v])
  ELSE IF values = <<>> THEN <<>> ELSE values[1].v

parseValues(operator, text) ==
  CASE text = <<>> -> None
    [] IsList(operator) -> [i \in DOMAIN text |-> [type |-> "string", v |-> <<text[i]>>]]
    [] operator \in {"contains", "starts_with"} -> <<[type |-> "string", v |-> text]>>
    [] operator \in {"gt", "lt"} ->
         IF Len(text) = 1 /\ text[1] \in Numerals THEN <<[type |-> "number", v |-> text]>> ELSE None

draftFromWire(rule) ==
  [operator |-> rule.operator, text |-> valuesToInput(rule.operator, rule.values), serve |-> rule.serve]
draftToWireRule(draft) ==
  [operator |-> draft.operator, values |-> parseValues(draft.operator, draft.text), serve |-> draft.serve]
\* The attribute and the rollout of a rule, whose checks only refuse more, are left out.
isValidRuleDraft(draft) == parseValues(draft.operator, draft.text) # None

\* OverrideEditor: entries [unit, serve], no unit blank and none twice.
isValidDrafts(drafts) ==
  /\ \A i \in DOMAIN drafts : drafts[i].unit # None
  /\ \A i, j \in DOMAIN drafts : drafts[i].unit = drafts[j].unit => i = j

FromWire(k, wire) == IF k = "rules" THEN [i \in DOMAIN wire |-> draftFromWire(wire[i])] ELSE wire
ToWire(k, drafts) == IF k = "rules" THEN [i \in DOMAIN drafts |-> draftToWireRule(drafts[i])] ELSE drafts
Valid(k, drafts) ==
  IF k = "rules" THEN \A i \in DOMAIN drafts : isValidRuleDraft(drafts[i]) ELSE isValidDrafts(drafts)

-----------------------------------------------------------------------------
(* What is rendered.                                                       *)

\* A section when it mounts: the editors copy what they are given, once.
Mounted(cfg) ==
  [drafts |-> [k \in Editors |-> FromWire(k, cfg.cols[k].val)],
   seen |-> [k \in Editors |-> cfg.cols[k].val],
   asking |-> {},                      \* editors whose ConfirmDialog is open
   prior |-> cfg.cols.rollout.val, slide |-> cfg.cols.rollout.val, dragged |-> None,
   pendingEnabled |-> None, pendingRollout |-> None,
   typed |-> None, retyped |-> FALSE]  \* retyped: something was typed since the dialog opened

\* Mutant: the slider keeps its draft whatever becomes of the value under it.
RerenderedKeepingDraft(section, cfg) == section

\* A section that stays mounted: only the slider looks at its new value.
Rerendered(section, cfg) ==
  LET value == cfg.cols.rollout.val
  IN IF value = section.prior THEN section ELSE [section EXCEPT !.prior = value, !.slide = value]

Query(p, c, bad) ==
  IF p \in Flags /\ c[p] # None /\ ~bad[p] THEN [flag |-> p, data |-> c[p]] ELSE None

\* The sections of another flag are the same components to React.
RenderAs(next) ==
  /\ view' = next
  /\ form' = IF next = None THEN None
             ELSE [e \in Envs |-> IF form = None THEN Mounted(next.data[e])
                                  ELSE Rerendered(form[e], next.data[e])]

\* A cache update is rendered a moment later.
Render ==
  /\ view # Query(page, cache, failed)
  /\ RenderAs(Query(page, cache, failed))
  /\ UNCHANGED <<store, cache, fetch, failed, session, page, calls, learned, sent, spent>>

-----------------------------------------------------------------------------
(* The query cache.                                                        *)

Idle == [stage |-> "idle", flag |-> None]
Asked == [stage |-> "sent", flag |-> None]

\* Observers share a fetch that is under way; one without data is pending again.
Fetching(f) == [fetch EXCEPT ![f] = IF @ = Idle THEN Asked ELSE @]
Pending(f) == [failed EXCEPT ![f] = @ /\ cache[f] # None]

Navigate(p) ==
  /\ page' = p
  /\ IF p \in Flags THEN fetch' = Fetching(p) /\ failed' = Pending(p) ELSE UNCHANGED <<fetch, failed>>
  /\ RenderAs(Query(p, cache, failed'))

Open(p) ==
  /\ page # "login" /\ p # page /\ Spend("visits", MaxVisits)
  /\ Navigate(p)
  /\ UNCHANGED <<store, cache, session, calls, learned, sent>>

\* Window focus, reconnect.
Focus ==
  /\ page \in Flags /\ fetch[page] = Idle /\ Spend("visits", MaxVisits)
  /\ fetch' = Fetching(page) /\ failed' = Pending(page)
  /\ UNCHANGED <<store, cache, session, page, view, form, calls, learned, sent>>

ServeFetch(f) ==
  /\ fetch[f] = Asked
  /\ fetch' = [fetch EXCEPT ![f] = IF session THEN [stage |-> "read", flag |-> store[f]]
                                     ELSE [stage |-> "expired", flag |-> None]]
  /\ UNCHANGED <<store, cache, failed, session, page, view, form, calls, learned, sent, spent>>

Arrive(f) ==
  /\ fetch[f].stage = "read"
  /\ cache' = [cache EXCEPT ![f] = fetch[f].flag]
  /\ fetch' = [fetch EXCEPT ![f] = Idle]
  /\ failed' = [failed EXCEPT ![f] = FALSE]
  /\ UNCHANGED <<store, session, page, view, form, calls, learned, sent, spent>>

\* After its retries.
FetchFails(f) ==
  /\ fetch[f].stage \in {"sent", "read"} /\ Spend("trouble", MaxTrouble)
  /\ fetch' = [fetch EXCEPT ![f] = Idle]
  /\ failed' = [failed EXCEPT ![f] = TRUE]
  /\ UNCHANGED <<store, cache, session, page, view, form, calls, learned, sent>>

\* apiFetch's 401: the event sends the tab to /login, which ends the retries.
FetchExpired(f) ==
  /\ fetch[f].stage = "expired"
  /\ fetch' = [fetch EXCEPT ![f] = Idle]
  /\ failed' = [failed EXCEPT ![f] = TRUE]
  /\ page' = "login" /\ RenderAs(None)
  /\ UNCHANGED <<store, cache, session, calls, learned, sent, spent>>

\* Mutant: a fetch under way is taken for the one asked for.
InvalidatedJoining(f) == IF page = f THEN Fetching(f) ELSE fetch

\* invalidateQueries: an open flag is fetched anew, the fetch under way is dropped.
Invalidated(f) == IF page = f THEN [fetch EXCEPT ![f] = Asked] ELSE fetch

-----------------------------------------------------------------------------
(* Mutations.                                                              *)

\* mutationFn: the version is read from the cache as the request leaves.
Send(e, col, val, seen) ==
  LET call == [flag |-> page, env |-> e, col |-> col, val |-> val, seen |-> seen,
               version |-> cache[page][e].version, reply |-> None]
  IN /\ sent' = sent + 1
     /\ calls' = [i \in DOMAIN calls \cup {sent'} |-> IF i = sent' THEN call ELSE calls[i]]

Written(cfg, col, val, by) ==
  [version |-> cfg.version + 1, cols |-> [cfg.cols EXCEPT ![col] = [val |-> val, by |-> by]]]

Commit(f, e, col, val, by) ==
  store' = [store EXCEPT ![f][e] = Written(@, col, val, by)]

Waiting(i) == calls[i].reply = None
Reply(i, status, version) == calls' = [calls EXCEPT ![i].reply = [status |-> status, version |-> version]]
Forget(i) == calls' = Restrict(calls, DOMAIN calls \ {i})
Actual(c) == store[c.flag][c.env].version

Malformed(c) == c.col = "overrides" /\ ~isValidDrafts(c.val)

Accept(i) ==
  LET c == calls[i]
  IN /\ Waiting(i) /\ session /\ ~Malformed(c) /\ c.version = Actual(c)
     /\ Commit(c.flag, c.env, c.col, c.val, "operator")
     /\ Reply(i, 200, c.version + 1)
     /\ UNCHANGED <<cache, fetch, failed, session, page, view, form, learned, sent, spent>>

Refuse(i) ==
  LET c == calls[i]
  IN /\ Waiting(i)
     /\ IF session THEN c.version # Actual(c) /\ Reply(i, 412, Actual(c)) ELSE Reply(i, 401, 0)
     /\ UNCHANGED <<store, cache, fetch, failed, session, page, view, form, learned, sent, spent>>

\* No answer, a 400 or a 5xx, whether the request was carried out or not.
Lose(i) ==
  /\ Spend("trouble", MaxTrouble) /\ Forget(i)
  /\ UNCHANGED <<store, cache, fetch, failed, session, page, view, form, learned, sent>>

Answered(i, statuses) == ~Waiting(i) /\ calls[i].reply.status \in statuses /\ Forget(i)

\* onSuccess and the 412 of onError; never a second try.
Settle(i) ==
  LET c == calls[i]
      told == [learned[c.flag] EXCEPT ![c.env] = IF c.reply.version > @ THEN c.reply.version ELSE @]
  IN /\ Answered(i, {200, 412})
     /\ fetch' = Invalidated(c.flag)
     /\ learned' = IF page = c.flag THEN [learned EXCEPT ![c.flag] = told] ELSE learned
     /\ UNCHANGED <<store, cache, failed, session, page, view, form, sent, spent>>

Expired(i) ==
  /\ Answered(i, {401})
  /\ page' = "login" /\ RenderAs(None)
  /\ UNCHANGED <<store, cache, fetch, failed, session, learned, sent, spent>>

-----------------------------------------------------------------------------
(* Gestures on a mounted section.                                          *)

confirmationFor(e, col) ==
  IF e # "production" THEN "none" ELSE IF col = "enabled" THEN "type-key" ELSE "modal"
Confirms(e, col) == confirmationFor(e, col) # "none"

Sections == UNCHANGED <<store, cache, fetch, failed, session, page, view, learned>>
Touch(e) == form # None /\ Spend("gestures", MaxGestures)
Confirming(e) == form # None /\ UNCHANGED spent /\ Sections
Silent == UNCHANGED <<calls, sent>>
Becomes(e, section) == form' = [form EXCEPT ![e] = section]
ShownIn(e) == view.data[e].cols

\* Mutant: the dialog opens with what was typed in it last.
OpenedWithOldText(section, target) ==
  [section EXCEPT !.pendingEnabled = target, !.retyped = IF section.pendingEnabled = None THEN FALSE ELSE @]

\* The dialog for a target; opening it empties the text, a second click while it is open does not.
Opened(section, target) ==
  IF section.pendingEnabled # None THEN [section EXCEPT !.pendingEnabled = target]
  ELSE [section EXCEPT !.pendingEnabled = target, !.typed = None, !.retyped = FALSE]

Toggle(e) ==
  LET target == ~ShownIn(e).enabled.val
  IN /\ Touch(e) /\ Sections
     /\ IF Confirms(e, "enabled")
        THEN Becomes(e, Opened(form[e], target)) /\ Silent
        ELSE Send(e, "enabled", target, ~target) /\ UNCHANGED form

Type(e, text) ==
  /\ Confirming(e) /\ form[e].pendingEnabled # None
  /\ Becomes(e, [form[e] EXCEPT !.typed = text, !.retyped = TRUE]) /\ Silent

ConfirmToggle(e) ==
  /\ Confirming(e) /\ form[e].pendingEnabled # None /\ form[e].typed = page
  /\ Send(e, "enabled", form[e].pendingEnabled, ~form[e].pendingEnabled)
  /\ Becomes(e, [form[e] EXCEPT !.pendingEnabled = None])

Drag(e, v) ==
  /\ Touch(e) /\ Sections
  /\ Becomes(e, [form[e] EXCEPT !.slide = v, !.dragged = ShownIn(e).rollout.val]) /\ Silent

\* Mouse up, or any key up in the slider: the Tab that moved the focus there as well.
Release(e) ==
  /\ Touch(e) /\ Sections /\ form[e].slide # ShownIn(e).rollout.val
  /\ IF Confirms(e, "rollout")
     THEN Becomes(e, [form[e] EXCEPT !.pendingRollout = form[e].slide]) /\ Silent
     ELSE Send(e, "rollout", form[e].slide, ShownIn(e).rollout.val) /\ UNCHANGED form

ConfirmRollout(e) ==
  /\ Confirming(e) /\ form[e].pendingRollout # None
  /\ Send(e, "rollout", form[e].pendingRollout, form[e].dragged)
  /\ Becomes(e, [form[e] EXCEPT !.pendingRollout = None])

\* Any change to the drafts: fields, order, a row more or less.
Edit(e, k, drafts) ==
  /\ Touch(e) /\ Sections
  /\ Becomes(e, [form[e] EXCEPT !.drafts[k] = drafts]) /\ Silent

Submit(e, k) == Send(e, k, ToWire(k, form[e].drafts[k]), form[e].seen[k])

Save(e, k) ==
  /\ Touch(e) /\ Sections /\ Valid(k, form[e].drafts[k])
  /\ IF Confirms(e, k)
     THEN Becomes(e, [form[e] EXCEPT !.asking = @ \cup {k}]) /\ Silent
     ELSE Submit(e, k) /\ UNCHANGED form

\* The drafts may have changed under the dialog: invalid rules throw and leave it open,
\* invalid overrides are sent.
ConfirmSave(e, k) ==
  /\ Confirming(e) /\ k \in form[e].asking
  /\ k = "rules" => Valid(k, form[e].drafts[k])
  /\ Submit(e, k)
  /\ Becomes(e, [form[e] EXCEPT !.asking = @ \ {k}])

\* The Cancel button of one dialog.
Cancel(e) ==
  /\ Confirming(e) /\ Silent
  /\ \/ form[e].pendingEnabled # None /\ Becomes(e, [form[e] EXCEPT !.pendingEnabled = None])
     \/ form[e].pendingRollout # None /\ Becomes(e, [form[e] EXCEPT !.pendingRollout = None])
     \/ \E k \in form[e].asking : Becomes(e, [form[e] EXCEPT !.asking = @ \ {k}])

\* Escape reaches every open dialog of the document.
Escape ==
  /\ form # None /\ Sections /\ Silent /\ UNCHANGED spent
  /\ form' = [e \in Envs |-> [form[e] EXCEPT !.pendingEnabled = None, !.pendingRollout = None, !.asking = {}]]

Gesture(e) ==
  \/ Toggle(e) \/ ConfirmToggle(e)
  \/ \E text \in Flags : Type(e, text)
  \/ \E v \in Rollouts : Drag(e, v)
  \/ Release(e) \/ ConfirmRollout(e) \/ Cancel(e)
  \/ \E k \in Editors : Save(e, k) \/ ConfirmSave(e, k) \/ \E d \in Drafts[k] : Edit(e, k, d)

-----------------------------------------------------------------------------
(* Everybody else.                                                         *)

OtherWrite(f, e, col, val) ==
  /\ Spend("writes", MaxWrites) /\ store[f][e].cols[col].val # val
  /\ Commit(f, e, col, val, "other")
  /\ UNCHANGED <<cache, fetch, failed, session, page, view, form, calls, learned, sent>>

Values(col) ==
  CASE col = "enabled" -> BOOLEAN [] col = "rollout" -> Rollouts [] OTHER -> Wires[col]

SessionEnds ==
  /\ session /\ Spend("trouble", MaxTrouble)
  /\ session' = FALSE
  /\ UNCHANGED <<store, cache, fetch, failed, page, view, form, calls, learned, sent>>

\* LoginScreen: POST /login does not raise the event; success leads to the list.
Login ==
  /\ page = "login"
  /\ session' = TRUE /\ page' = "list"
  /\ UNCHANGED <<store, cache, fetch, failed, view, form, calls, learned, sent, spent>>

-----------------------------------------------------------------------------
NewConfig == [version |-> 1, cols |-> [c \in Columns |-> [val |-> IF c = "enabled" THEN FALSE ELSE IF c = "rollout" THEN 0 ELSE Empty, by |-> "other"]]]

Init ==
  /\ store = [f \in Flags |-> [e \in Envs |-> NewConfig]]
  /\ cache = [f \in Flags |-> None] /\ fetch = [f \in Flags |-> Idle] /\ failed = [f \in Flags |-> FALSE]
  /\ session = TRUE /\ page = "list" /\ view = None /\ form = None
  /\ calls = <<>> /\ learned = [f \in Flags |-> [e \in Envs |-> 0]]
  /\ sent = 0 /\ spent = [gestures |-> 0, visits |-> 0, writes |-> 0, trouble |-> 0]

Next ==
  \/ Render \/ Focus \/ Escape \/ SessionEnds \/ Login
  \/ \E p \in Flags \cup {"list"} : Open(p)
  \/ \E f \in Flags : ServeFetch(f) \/ Arrive(f) \/ FetchFails(f) \/ FetchExpired(f)
  \/ \E i \in DOMAIN calls : Accept(i) \/ Refuse(i) \/ Lose(i) \/ Settle(i) \/ Expired(i)
  \/ \E e \in Envs : Gesture(e)
  \/ \E f \in Flags, e \in Envs, col \in Contested : \E val \in Values(col) : OtherWrite(f, e, col, val)

Spec == Init /\ [][Next]_vars

-----------------------------------------------------------------------------
(* Properties.                                                             *)

Sent == {calls'[i] : i \in DOMAIN calls' \ DOMAIN calls}

\* Nothing changes in production without a confirmation, and the kill switch not without
\* the key of the flag on the page typed since the dialog opened, whatever was opened,
\* cancelled, refetched or navigated to in between.
ProductionNeedsConfirmation == [][
  \A c \in Sent : c.env = "production" =>
    LET section == form[c.env]
    IN CASE c.col = "enabled" -> section.pendingEnabled = c.val /\ section.retyped /\ section.typed = c.flag
         [] c.col = "rollout" -> section.pendingRollout = c.val
         [] OTHER -> c.col \in section.asking]_vars

\* A rollout that leaves the slider, or opens its dialog, was dragged to while the slider
\* lay on the value it lies on now: a refetch takes back what was dragged before, and
\* passing over the slider with the keyboard sends nothing.
Leaves(e, v) ==
  \/ \E c \in Sent : c.env = e /\ c.col = "rollout" /\ ~Confirms(e, "rollout") /\ c.val = v
  \/ form # None /\ form' # None /\ form'[e].pendingRollout \notin {None, form[e].pendingRollout}
     /\ form'[e].pendingRollout = v
SliderSendsOnlyWhatWasDragged == [][
  \A e \in Envs, v \in Rollouts :
    Leaves(e, v) => form[e].slide = v /\ form[e].dragged = ShownIn(e).rollout.val /\ v # form[e].dragged]_vars

\* Once nothing is being fetched the cache of an open flag is as new as any reply to this
\* tab, accepted or 412, so the next mutation is not refused for a version the tab knew of.
SettledShowsReplies ==
  \A f \in Flags, e \in Envs :
    fetch[f] = Idle /\ ~failed[f] /\ learned[f][e] # 0 => cache[f][e].version >= learned[f][e]

\* "Concurrent edit surfaces conflict, never silent overwrite": a save is not accepted over
\* a set another client put and the draft was not made from.
NeverSilentOverwrite == [][
  \A i \in DOMAIN calls : Accept(i) /\ calls[i].col \in Editors =>
    LET c == calls[i]
        old == store[c.flag][c.env].cols[c.col]
    IN old.by = "operator" \/ old.val = c.seen]_vars
=============================================================================
