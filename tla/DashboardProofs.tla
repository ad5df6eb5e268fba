-------------------------- MODULE DashboardProofs --------------------------
(***************************************************************************)
(* For any flags, environments, drafts and number of gestures, and however *)
(* answers, refetches, failures and expired sessions fall between them: a  *)
(* settled page shows what replies told, production is changed only after  *)
(* the confirmation it calls for, and the slider sends only what was       *)
(* dragged to where it lies.                                               *)
(***************************************************************************)
EXTENDS Dashboard, TLAPS

(***************************************************************************)
(* The inductive invariant.  Of what was fetched: whatever a reply tells   *)
(* of an open flag makes a fetch that began before it worthless, and it is *)
(* dropped, so that what arrives has seen the reply.  Of the sections: the *)
(* slider lies on the value it was rendered with or was dragged from it,   *)
(* and the text of a dialog is empty until something is typed.             *)
(***************************************************************************)

StoreFields ==
  /\ DOMAIN store = Flags
  /\ \A f \in Flags : DOMAIN store[f] = Envs /\ \A e \in Envs : store[f][e].version \in Nat

CallFields == {"flag", "env", "col", "val", "seen", "version", "reply"}
Call(c, st) ==
  /\ DOMAIN c = CallFields /\ c.flag \in Flags /\ c.env \in Envs
  /\ c.reply # None /\ c.reply.status # 401 =>
       c.reply.version \in Nat /\ c.reply.version <= st[c.flag][c.env].version
CallsInv == \A i \in DOMAIN calls : Call(calls[i], store)

CacheInv ==
  /\ DOMAIN cache = Flags /\ DOMAIN fetch = Flags /\ DOMAIN failed = Flags
  /\ learned \in [Flags -> [Envs -> Nat]]
  /\ \A f \in Flags, e \in Envs : learned[f][e] <= store[f][e].version
  /\ \A f \in Flags, e \in Envs : fetch[f].stage = "read" => fetch[f].flag[e].version >= learned[f][e]
  /\ SettledShowsReplies

SectionFields ==
  {"drafts", "seen", "asking", "prior", "slide", "dragged", "pendingEnabled", "pendingRollout",
   "typed", "retyped"}
Section(e, s, cols) ==
  /\ DOMAIN s = SectionFields
  /\ s.typed # None => s.retyped = TRUE
  /\ s.pendingRollout # None => Confirms(e, "rollout")
  /\ s.prior = cols.rollout.val
  /\ s.slide = s.prior \/ s.dragged = s.prior
FormInv ==
  form # None => page \in Flags /\ DOMAIN form = Envs /\ \A e \in Envs : Section(e, form[e], ShownIn(e))

DashboardInv ==
  StoreFields /\ CallsInv /\ CacheInv /\ FormInv

-----------------------------------------------------------------------------
(* The sections and what the gestures on them send.                        *)

\* A request leaves from the section of e, or none does.
Sends(e, col, val) ==
  \E n, c : /\ calls' = [x \in DOMAIN calls \cup {n} |-> IF x = n THEN c ELSE calls[x]]
            /\ DOMAIN c = CallFields /\ c.flag = page /\ c.env = e /\ c.col = col /\ c.val = val
            /\ c.reply = None

LEMMA SendSends ==
  ASSUME NEW e, NEW col, NEW val, NEW seen, Send(e, col, val, seen)
  PROVE  Sends(e, col, val)
<1> DEFINE c == [flag |-> page, env |-> e, col |-> col, val |-> val, seen |-> seen,
                 version |-> cache[page][e].version, reply |-> None]
<1>1. calls' = [x \in DOMAIN calls \cup {sent'} |-> IF x = sent' THEN c ELSE calls[x]]
  BY DEF Send
<1>2. /\ DOMAIN c = CallFields /\ c.flag = page /\ c.env = e /\ c.col = col /\ c.val = val
      /\ c.reply = None
  BY DEF CallFields
<1> QED BY <1>1, <1>2 DEF Sends

\* What a request that leaves the section of e has behind it.
Warranted(e, col, val) ==
  /\ e = "production" =>
       CASE col = "enabled" -> /\ form[e].pendingEnabled = val /\ form[e].retyped = TRUE
                               /\ form[e].typed = page
         [] col = "rollout" -> form[e].pendingRollout = val
         [] OTHER -> col \in form[e].asking
  /\ col = "rollout" /\ ~Confirms(e, "rollout") =>
       form[e].slide = val /\ form[e].dragged = ShownIn(e).rollout.val /\ val # form[e].dragged

\* The section of e becomes s; a rollout its dialog opens for was dragged to.
SectionStep(e, s) ==
  /\ form' = [form EXCEPT ![e] = s] /\ Section(e, s, ShownIn(e))
  /\ s.pendingRollout \notin {None, form[e].pendingRollout} =>
       /\ s.pendingRollout = form[e].slide /\ form[e].dragged = ShownIn(e).rollout.val
       /\ form[e].slide # form[e].dragged

GestureStep(e) ==
  /\ Sections /\ form # None
  /\ calls' = calls \/ \E col, val : Sends(e, col, val) /\ Warranted(e, col, val)
  /\ form' = form \/ \E s : SectionStep(e, s)

LEMMA ChangesSection ==
  ASSUME NEW e, NEW s, Sections, form # None, SectionStep(e, s),
         calls' = calls \/ \E col, val : Sends(e, col, val) /\ Warranted(e, col, val)
  PROVE  GestureStep(e)
  BY DEF GestureStep

LEMMA OnlySends ==
  ASSUME NEW e, NEW col, NEW val, Sections, form # None, form' = form,
         Sends(e, col, val), Warranted(e, col, val)
  PROVE  GestureStep(e)
  BY DEF GestureStep

LEMMA SwitchSteps ==
  ASSUME FormInv, NEW e \in Envs,
         Toggle(e) \/ ConfirmToggle(e) \/ \E text \in Flags : Type(e, text)
  PROVE  GestureStep(e)
<1> DEFINE s == form[e]
<1>1. Sections /\ form # None /\ page \in Flags /\ Section(e, s, ShownIn(e)) /\ None \notin Flags
  BY DashboardAssumption DEF DashboardAssumption, FormInv, Toggle, ConfirmToggle, Type, Touch, Confirming
<1>2. CASE Toggle(e)
  <2> DEFINE target == ~ShownIn(e).enabled.val
  <2>1. CASE Confirms(e, "enabled")
    <3>1. form' = [form EXCEPT ![e] = Opened(s, target)] /\ calls' = calls
      BY <1>2, <2>1 DEF Toggle, Silent, Becomes
    <3>2. SectionStep(e, Opened(s, target))
      BY <1>1, <3>1 DEF SectionStep, Section, SectionFields, Opened
    <3> QED BY <1>1, <3>1, <3>2, ChangesSection
  <2>2. CASE ~Confirms(e, "enabled")
    <3>1. form' = form /\ Sends(e, "enabled", target)
      BY <1>2, <2>2, SendSends DEF Toggle
    <3>2. Warranted(e, "enabled", target)
      BY <2>2 DEF Warranted, Confirms, confirmationFor
    <3> QED BY <1>1, <3>1, <3>2, OnlySends
  <2> QED BY <2>1, <2>2
<1>3. CASE ConfirmToggle(e)
  <2> DEFINE t == [s EXCEPT !.pendingEnabled = None]
  <2>1. form' = [form EXCEPT ![e] = t]
    BY <1>3 DEF ConfirmToggle, Becomes
  <2>2. Sends(e, "enabled", s.pendingEnabled) /\ s.typed = page
    BY <1>3, SendSends DEF ConfirmToggle
  <2>3. Warranted(e, "enabled", s.pendingEnabled)
    BY <1>1, <2>2 DEF Warranted, Section
  <2>4. SectionStep(e, t)
    BY <1>1, <2>1 DEF SectionStep, Section, SectionFields
  <2> HIDE DEF t
  <2> QED BY <1>1, <2>2, <2>3, <2>4, ChangesSection
<1>4. ASSUME NEW text \in Flags, Type(e, text) PROVE GestureStep(e)
  <2> DEFINE t == [s EXCEPT !.typed = text, !.retyped = TRUE]
  <2>1. form' = [form EXCEPT ![e] = t] /\ calls' = calls
    BY <1>4 DEF Type, Silent, Becomes
  <2>2. SectionStep(e, t)
    BY <1>1, <2>1 DEF SectionStep, Section, SectionFields
  <2> HIDE DEF t
  <2> QED BY <1>1, <2>1, <2>2, ChangesSection
<1> QED BY <1>2, <1>3, <1>4

LEMMA SliderSteps ==
  ASSUME FormInv, NEW e \in Envs,
         Release(e) \/ ConfirmRollout(e) \/ \E v \in Rollouts : Drag(e, v)
  PROVE  GestureStep(e)
<1> DEFINE s == form[e]
<1>1. Sections /\ form # None /\ Section(e, s, ShownIn(e))
  BY DEF FormInv, Release, ConfirmRollout, Drag, Touch, Confirming
<1>2. CASE Release(e)
  <2>1. s.slide # ShownIn(e).rollout.val /\ s.dragged = ShownIn(e).rollout.val
    BY <1>1, <1>2 DEF Release, Section
  <2>2. CASE Confirms(e, "rollout")
    <3> DEFINE t == [s EXCEPT !.pendingRollout = s.slide]
    <3>1. form' = [form EXCEPT ![e] = t] /\ calls' = calls
      BY <1>2, <2>2 DEF Release, Silent, Becomes
    <3>2. SectionStep(e, t)
      BY <1>1, <2>1, <2>2, <3>1 DEF SectionStep, Section, SectionFields
    <3> HIDE DEF t
    <3> QED BY <1>1, <3>1, <3>2, ChangesSection
  <2>3. CASE ~Confirms(e, "rollout")
    <3>1. form' = form /\ Sends(e, "rollout", s.slide)
      BY <1>2, <2>3, SendSends DEF Release
    <3>2. Warranted(e, "rollout", s.slide)
      BY <2>1, <2>3 DEF Warranted, Confirms, confirmationFor
    <3> QED BY <1>1, <3>1, <3>2, OnlySends
  <2> QED BY <2>2, <2>3
<1>3. CASE ConfirmRollout(e)
  <2> DEFINE t == [s EXCEPT !.pendingRollout = None]
  <2>1. form' = [form EXCEPT ![e] = t]
    BY <1>3 DEF ConfirmRollout, Becomes
  <2>2. Sends(e, "rollout", s.pendingRollout) /\ s.pendingRollout # None
    BY <1>3, SendSends DEF ConfirmRollout
  <2>3. Warranted(e, "rollout", s.pendingRollout)
    BY <1>1, <2>2 DEF Warranted, Section
  <2>4. SectionStep(e, t)
    BY <1>1, <2>1 DEF SectionStep, Section, SectionFields
  <2> HIDE DEF t
  <2> QED BY <1>1, <2>2, <2>3, <2>4, ChangesSection
<1>4. ASSUME NEW v \in Rollouts, Drag(e, v) PROVE GestureStep(e)
  <2> DEFINE t == [s EXCEPT !.slide = v, !.dragged = ShownIn(e).rollout.val]
  <2>1. form' = [form EXCEPT ![e] = t] /\ calls' = calls
    BY <1>4 DEF Drag, Silent, Becomes
  <2>2. SectionStep(e, t)
    BY <1>1, <2>1 DEF SectionStep, Section, SectionFields
  <2> HIDE DEF t
  <2> QED BY <1>1, <2>1, <2>2, ChangesSection
<1> QED BY <1>2, <1>3, <1>4

LEMMA EditorSteps ==
  ASSUME FormInv, NEW e \in Envs, NEW k \in Editors,
         Save(e, k) \/ ConfirmSave(e, k) \/ \E d \in Drafts[k] : Edit(e, k, d)
  PROVE  GestureStep(e)
<1> DEFINE s == form[e]
<1>1. Sections /\ form # None /\ Section(e, s, ShownIn(e)) /\ k \notin {"enabled", "rollout"}
  BY DashboardAssumption DEF DashboardAssumption, FormInv, Save, ConfirmSave, Edit, Touch, Confirming
<1>2. CASE Save(e, k)
  <2>1. CASE Confirms(e, k)
    <3> DEFINE t == [s EXCEPT !.asking = s.asking \cup {k}]
    <3>1. form' = [form EXCEPT ![e] = t] /\ calls' = calls
      BY <1>2, <2>1 DEF Save, Silent, Becomes
    <3>2. SectionStep(e, t)
      BY <1>1, <3>1 DEF SectionStep, Section, SectionFields
    <3> HIDE DEF t
    <3> QED BY <1>1, <3>1, <3>2, ChangesSection
  <2>2. CASE ~Confirms(e, k)
    <3>1. form' = form /\ Sends(e, k, ToWire(k, s.drafts[k]))
      BY <1>2, <2>2, SendSends DEF Save, Submit
    <3>2. Warranted(e, k, ToWire(k, s.drafts[k]))
      BY <1>1, <2>2 DEF Warranted, Confirms, confirmationFor
    <3> QED BY <1>1, <3>1, <3>2, OnlySends
  <2> QED BY <2>1, <2>2
<1>3. CASE ConfirmSave(e, k)
  <2> DEFINE t == [s EXCEPT !.asking = s.asking \ {k}]
  <2>1. form' = [form EXCEPT ![e] = t]
    BY <1>3 DEF ConfirmSave, Becomes
  <2>2. Sends(e, k, ToWire(k, s.drafts[k])) /\ k \in s.asking
    BY <1>3, SendSends DEF ConfirmSave, Submit
  <2>3. Warranted(e, k, ToWire(k, s.drafts[k]))
    BY <1>1, <2>2 DEF Warranted, Confirms, confirmationFor
  <2>4. SectionStep(e, t)
    BY <1>1, <2>1 DEF SectionStep, Section, SectionFields
  <2> HIDE DEF t
  <2> QED BY <1>1, <2>2, <2>3, <2>4, ChangesSection
<1>4. ASSUME NEW d \in Drafts[k], Edit(e, k, d) PROVE GestureStep(e)
  <2> DEFINE t == [s EXCEPT !.drafts[k] = d]
  <2>1. form' = [form EXCEPT ![e] = t] /\ calls' = calls
    BY <1>4 DEF Edit, Silent, Becomes
  <2>2. SectionStep(e, t)
    BY <1>1, <2>1 DEF SectionStep, Section, SectionFields
  <2> HIDE DEF t
  <2> QED BY <1>1, <2>1, <2>2, ChangesSection
<1> QED BY <1>2, <1>3, <1>4

LEMMA CancelSteps ==
  ASSUME FormInv, NEW e \in Envs, Cancel(e)
  PROVE  GestureStep(e)
<1> DEFINE s == form[e]
<1>1. Sections /\ form # None /\ Section(e, s, ShownIn(e)) /\ calls' = calls
  BY DEF FormInv, Cancel, Confirming, Silent
<1>2. PICK t \in {[s EXCEPT !.pendingEnabled = None], [s EXCEPT !.pendingRollout = None]}
                  \cup {[s EXCEPT !.asking = s.asking \ {k}] : k \in s.asking} :
        form' = [form EXCEPT ![e] = t]
  BY DEF Cancel, Becomes
<1>3. SectionStep(e, t)
  BY <1>1, <1>2 DEF SectionStep, Section, SectionFields
<1> QED BY <1>1, <1>3, ChangesSection

LEMMA GestureIs ==
  ASSUME FormInv, NEW e \in Envs, Gesture(e)
  PROVE  GestureStep(e)
  BY SwitchSteps, SliderSteps, EditorSteps, CancelSteps DEF Gesture

LEMMA SentIsIt ==
  ASSUME NEW e, NEW col, NEW val, Sends(e, col, val), NEW c \in Sent
  PROVE  c.flag = page /\ c.env = e /\ c.col = col /\ c.val = val
  BY DEF Sends, Sent

-----------------------------------------------------------------------------
(* What every other step leaves of the sections.                           *)

\* No dialog opens for a rollout.
Quiet ==
  form # None /\ form' # None => \A e \in Envs : form'[e].pendingRollout \in {None, form[e].pendingRollout}

LEMMA SectionMounts ==
  ASSUME NEW e, NEW cfg
  PROVE  Section(e, Mounted(cfg), cfg.cols)
  BY DEF Section, SectionFields, Mounted

LEMMA SectionRerenders ==
  ASSUME NEW e, NEW s, NEW cols, Section(e, s, cols), NEW cfg
  PROVE  Section(e, Rerendered(s, cfg), cfg.cols) /\ Rerendered(s, cfg).pendingRollout = s.pendingRollout
  BY DEF Section, SectionFields, Rerendered

LEMMA RenderKeeps ==
  ASSUME FormInv, NEW next, next = None \/ page' \in Flags, RenderAs(next)
  PROVE  FormInv' /\ Quiet
<1>1. CASE next = None
  BY <1>1 DEF RenderAs, FormInv, Quiet
<1>2. CASE next # None /\ form = None
  <2>1. form' = [e \in Envs |-> Mounted(next.data[e])] /\ view' = next
    BY <1>2 DEF RenderAs
  <2> QED BY <1>2, <2>1, SectionMounts DEF FormInv, Quiet, ShownIn
<1>3. CASE next # None /\ form # None
  <2>1. form' = [e \in Envs |-> Rerendered(form[e], next.data[e])] /\ view' = next
    BY <1>3 DEF RenderAs
  <2>2. ASSUME NEW e \in Envs
        PROVE  /\ Section(e, form'[e], next.data[e].cols)
               /\ form'[e].pendingRollout = form[e].pendingRollout
    <3> DEFINE r == Rerendered(form[e], next.data[e])
    <3>1. form'[e] = r /\ Section(e, form[e], ShownIn(e))
      BY <1>3, <2>1 DEF FormInv
    <3>2. Section(e, r, next.data[e].cols) /\ r.pendingRollout = form[e].pendingRollout
      BY <3>1, SectionRerenders
    <3> HIDE DEF r
    <3> QED BY <3>1, <3>2
  <2> QED BY <1>3, <2>1, <2>2 DEF FormInv, Quiet, ShownIn
<1> QED BY <1>1, <1>2, <1>3

LEMMA QueryIsOfAFlag ==
  ASSUME NEW p, NEW c, NEW bad
  PROVE  Query(p, c, bad) = None \/ p \in Flags
  BY DEF Query

LEMMA FormUntouched ==
  ASSUME FormInv, UNCHANGED <<page, view, form>>
  PROVE  FormInv' /\ Quiet
  BY DEF FormInv, Quiet, ShownIn

LEMMA EscapeKeeps ==
  ASSUME FormInv, Escape
  PROVE  FormInv' /\ Quiet
<1> DEFINE t(e) == [form[e] EXCEPT !.pendingEnabled = None, !.pendingRollout = None, !.asking = {}]
<1>1. form # None /\ form' = [e \in Envs |-> t(e)] /\ UNCHANGED <<page, view>>
  BY DEF Escape, Sections
<1>2. ASSUME NEW e \in Envs
      PROVE  Section(e, t(e), ShownIn(e)) /\ t(e).pendingRollout = None
  <2>1. Section(e, form[e], ShownIn(e))
    BY <1>1 DEF FormInv
  <2> QED BY <2>1 DEF Section, SectionFields
<1> HIDE DEF t
<1>3. page \in Flags
  BY <1>1 DEF FormInv
<1> QED BY <1>1, <1>2, <1>3 DEF FormInv, Quiet, ShownIn

LEMMA GestureKeepsForm ==
  ASSUME FormInv, NEW e \in Envs, GestureStep(e)
  PROVE  FormInv'
<1>1. form # None /\ page \in Flags /\ DOMAIN form = Envs /\ UNCHANGED <<page, view>>
  BY DEF FormInv, GestureStep, Sections
<1>2. CASE form' = form
  BY <1>1, <1>2 DEF FormInv, ShownIn
<1>3. ASSUME NEW s, SectionStep(e, s) PROVE FormInv'
  <2>1. form' = [form EXCEPT ![e] = s] /\ Section(e, s, ShownIn(e))
    BY <1>3 DEF SectionStep
  <2>2. ASSUME NEW d \in Envs PROVE Section(d, form'[d], ShownIn(d))
    BY <1>1, <2>1 DEF FormInv
  <2> QED BY <1>1, <2>1, <2>2 DEF FormInv, ShownIn
<1> QED BY <1>2, <1>3 DEF GestureStep

-----------------------------------------------------------------------------
(* The store, the requests and the cache.                                  *)

\* Versions are natural numbers and do not fall.
Grows(st, st2) ==
  \A f \in Flags, e \in Envs :
    st[f][e].version \in Nat /\ st2[f][e].version \in Nat /\ st2[f][e].version >= st[f][e].version

LEMMA CommitGrows ==
  ASSUME StoreFields, NEW f \in Flags, NEW e \in Envs, NEW col, NEW val, NEW by,
         Commit(f, e, col, val, by)
  PROVE  StoreFields' /\ Grows(store, store') /\ store'[f][e].version = store[f][e].version + 1
<1> DEFINE w == Written(store[f][e], col, val, by)
<1>1. store' = [store EXCEPT ![f] = [store[f] EXCEPT ![e] = w]]
  BY DEF Commit
<1>2. w.version = store[f][e].version + 1
  BY DEF Written
<1> HIDE DEF w
<1> QED BY <1>1, <1>2 DEF StoreFields, Grows

LEMMA StaysGrows ==
  ASSUME StoreFields, UNCHANGED store
  PROVE  StoreFields' /\ Grows(store, store')
  BY DEF StoreFields, Grows

LEMMA CallKept ==
  ASSUME NEW st, NEW st2, Grows(st, st2), NEW c, Call(c, st)
  PROVE  Call(c, st2)
  BY DEF Call, Grows

LEMMA CallsUntouched ==
  ASSUME CallsInv, Grows(store, store'), UNCHANGED calls
  PROVE  CallsInv' /\ Sent = {}
  BY CallKept DEF CallsInv, Sent

LEMMA SendsKeepsCalls ==
  ASSUME CallsInv, page \in Flags, UNCHANGED store,
         NEW e \in Envs, NEW col, NEW val, Sends(e, col, val)
  PROVE  CallsInv'
  BY DEF CallsInv, Sends, Call

LEMMA ReplyKeepsCalls ==
  ASSUME CallsInv, Grows(store, store'), NEW i \in DOMAIN calls, NEW status, NEW version,
         Reply(i, status, version),
         status # 401 => version \in Nat /\ version <= store'[calls[i].flag][calls[i].env].version
  PROVE  CallsInv' /\ Sent = {}
<1> DEFINE c == [calls[i] EXCEPT !.reply = [status |-> status, version |-> version]]
<1>1. calls' = [calls EXCEPT ![i] = c]
  BY DEF Reply
<1>2. Call(calls[i], store)
  BY DEF CallsInv
<1>3. Call(c, store')
  BY <1>2 DEF Call, CallFields
<1> HIDE DEF c
<1>4. ASSUME NEW j \in DOMAIN calls PROVE Call(calls'[j], store')
  BY <1>1, <1>3, CallKept DEF CallsInv
<1> QED BY <1>1, <1>4 DEF CallsInv, Sent

LEMMA ForgetKeepsCalls ==
  ASSUME CallsInv, UNCHANGED store, NEW i \in DOMAIN calls, Forget(i)
  PROVE  CallsInv' /\ Sent = {}
  BY DEF CallsInv, Forget, Restrict, Sent

LEMMA CacheUntouched ==
  ASSUME CacheInv, Grows(store, store'), UNCHANGED <<cache, fetch, failed, learned>>
  PROVE  CacheInv'
<1>1. learned' \in [Flags -> [Envs -> Nat]] /\ \A f \in Flags, e \in Envs : learned'[f][e] <= store'[f][e].version
  BY DEF CacheInv, Grows
<1> QED BY <1>1 DEF CacheInv, SettledShowsReplies, Idle

\* A step that turns only to the cache, the fetch and the failure of f.
LEMMA CacheOfOneFlag ==
  ASSUME CacheInv, UNCHANGED <<store, learned>>, NEW f \in Flags,
         cache' = cache \/ \E c : cache' = [cache EXCEPT ![f] = c],
         \E t : fetch' = [fetch EXCEPT ![f] = t],
         failed' = failed \/ \E b : failed' = [failed EXCEPT ![f] = b],
         \A e \in Envs :
           /\ fetch'[f].stage = "read" => fetch'[f].flag[e].version >= learned[f][e]
           /\ fetch'[f] = Idle /\ ~failed'[f] /\ learned[f][e] # 0 =>
                cache'[f][e].version >= learned[f][e]
  PROVE  CacheInv'
<1>1. DOMAIN cache' = Flags /\ DOMAIN fetch' = Flags /\ DOMAIN failed' = Flags
  BY DEF CacheInv
<1>2. ASSUME NEW g \in Flags, NEW e \in Envs
      PROVE  /\ fetch'[g].stage = "read" => fetch'[g].flag[e].version >= learned[g][e]
             /\ fetch'[g] = Idle /\ ~failed'[g] /\ learned[g][e] # 0 =>
                  cache'[g][e].version >= learned[g][e]
  <2>1. CASE g = f
    BY <2>1
  <2>2. CASE g # f
    <3>1. cache'[g] = cache[g] /\ fetch'[g] = fetch[g] /\ failed'[g] = failed[g]
      BY <2>2 DEF CacheInv
    <3> QED BY <3>1 DEF CacheInv, SettledShowsReplies
  <2> QED BY <2>1, <2>2
<1>3. /\ learned' \in [Flags -> [Envs -> Nat]]
      /\ \A g \in Flags, e \in Envs : learned'[g][e] <= store'[g][e].version
  BY DEF CacheInv
<1> QED BY <1>1, <1>2, <1>3 DEF CacheInv, SettledShowsReplies, Idle

-----------------------------------------------------------------------------
(* The steps.                                                              *)

\* A step that is not a gesture: the invariant is kept, nothing is sent, no dialog opens.
PlainStep == DashboardInv' /\ Sent = {} /\ Quiet

LEMMA ViewSteps ==
  ASSUME DashboardInv,
         \/ Render \/ Focus \/ Escape \/ SessionEnds \/ Login
         \/ \E p \in Flags \cup {"list"} : Open(p)
  PROVE  PlainStep
<1> USE DEF DashboardInv
<1>1. StoreFields' /\ CallsInv' /\ Sent = {}
  BY StaysGrows, CallsUntouched DEF Render, Focus, Escape, SessionEnds, Login, Open, Sections, Silent
<1>2. CASE Render
  <2>1. CacheInv'
    BY <1>2, StaysGrows, CacheUntouched DEF Render
  <2>2. FormInv' /\ Quiet
    BY <1>2, RenderKeeps, QueryIsOfAFlag DEF Render
  <2> QED BY <1>1, <2>1, <2>2 DEF PlainStep
<1>3. CASE Focus
  <2>1. FormInv' /\ Quiet
    BY <1>3, FormUntouched DEF Focus
  <2>2. CacheInv'
    <3>1. fetch' = [fetch EXCEPT ![page] = Asked] /\ page \in Flags
      BY <1>3 DEF Focus, Fetching
    <3>2. \E b : failed' = [failed EXCEPT ![page] = b]
      BY <1>3 DEF Focus, Pending
    <3>3. UNCHANGED <<cache, store, learned>>
      BY <1>3 DEF Focus
    <3>4. fetch'[page] # Idle /\ fetch'[page].stage # "read"
      BY <3>1 DEF CacheInv, Asked, Idle
    <3> QED BY <3>1, <3>2, <3>3, <3>4, CacheOfOneFlag
  <2> QED BY <1>1, <2>1, <2>2 DEF PlainStep
<1>4. CASE Escape
  <2>1. CacheInv'
    BY <1>4, StaysGrows, CacheUntouched DEF Escape, Sections
  <2> QED BY <1>1, <1>4, <2>1, EscapeKeeps DEF PlainStep
<1>5. CASE SessionEnds
  <2>1. CacheInv'
    BY <1>5, StaysGrows, CacheUntouched DEF SessionEnds
  <2> QED BY <1>1, <1>5, <2>1, FormUntouched DEF PlainStep, SessionEnds
<1>6. CASE Login
  <2>1. CacheInv'
    BY <1>6, StaysGrows, CacheUntouched DEF Login
  <2>2. form = None /\ form' = None
    BY <1>6, DashboardAssumption DEF Login, FormInv, DashboardAssumption
  <2> QED BY <1>1, <2>1, <2>2 DEF PlainStep, FormInv, Quiet
<1>7. ASSUME NEW p \in Flags \cup {"list"}, Open(p) PROVE PlainStep
  <2>1. FormInv' /\ Quiet
    BY <1>7, RenderKeeps, QueryIsOfAFlag DEF Open, Navigate
  <2>2. CacheInv'
    <3>1. CASE p \in Flags
      <4>1. fetch' = [fetch EXCEPT ![p] = IF fetch[p] = Idle THEN Asked ELSE fetch[p]]
        BY <1>7, <3>1 DEF Open, Navigate, Fetching
      <4>2. \E b : failed' = [failed EXCEPT ![p] = b]
        BY <1>7, <3>1 DEF Open, Navigate, Pending
      <4>3. UNCHANGED <<cache, store, learned>>
        BY <1>7 DEF Open
      <4>4. fetch'[p] # Idle /\ (fetch'[p].stage = "read" => fetch'[p] = fetch[p])
        BY <3>1, <4>1 DEF CacheInv, Asked, Idle
      <4>5. \A e \in Envs : fetch[p].stage = "read" => fetch[p].flag[e].version >= learned[p][e]
        BY <3>1 DEF CacheInv
      <4> QED BY <3>1, <4>1, <4>2, <4>3, <4>4, <4>5, CacheOfOneFlag
    <3>2. CASE p \notin Flags
      BY <1>7, <3>2, StaysGrows, CacheUntouched DEF Open, Navigate
    <3> QED BY <3>1, <3>2
  <2> QED BY <1>1, <2>1, <2>2 DEF PlainStep
<1> QED BY <1>2, <1>3, <1>4, <1>5, <1>6, <1>7

LEMMA FetchSteps ==
  ASSUME DashboardInv, NEW f \in Flags,
         ServeFetch(f) \/ Arrive(f) \/ FetchFails(f) \/ FetchExpired(f)
  PROVE  PlainStep
<1> USE DEF DashboardInv
<1>1. StoreFields' /\ CallsInv' /\ Sent = {} /\ UNCHANGED <<store, learned>>
  BY StaysGrows, CallsUntouched DEF ServeFetch, Arrive, FetchFails, FetchExpired
<1>2. FormInv' /\ Quiet
  BY FormUntouched, RenderKeeps DEF ServeFetch, Arrive, FetchFails, FetchExpired
<1>3. /\ DOMAIN cache = Flags /\ DOMAIN fetch = Flags /\ DOMAIN failed = Flags
  BY DEF CacheInv
<1>4. CASE ServeFetch(f)
  <2>1. \A e \in Envs : store[f][e].version >= learned[f][e]
    BY DEF CacheInv, StoreFields
  <2>2. CASE session
    <3>1. fetch' = [fetch EXCEPT ![f] = [stage |-> "read", flag |-> store[f]]]
      BY <1>4, <2>2 DEF ServeFetch
    <3>2. cache' = cache /\ failed' = failed
      BY <1>4 DEF ServeFetch
    <3>3. fetch'[f] # Idle /\ fetch'[f].flag = store[f]
      BY <1>3, <3>1 DEF Idle
    <3> QED BY <1>1, <1>2, <1>3, <2>1, <3>1, <3>2, <3>3, CacheOfOneFlag DEF PlainStep
  <2>3. CASE ~session
    <3>1. fetch' = [fetch EXCEPT ![f] = [stage |-> "expired", flag |-> None]]
      BY <1>4, <2>3 DEF ServeFetch
    <3>2. cache' = cache /\ failed' = failed
      BY <1>4 DEF ServeFetch
    <3>3. fetch'[f] # Idle /\ fetch'[f].stage # "read"
      BY <1>3, <3>1 DEF Idle
    <3> QED BY <1>1, <1>2, <1>3, <3>1, <3>2, <3>3, CacheOfOneFlag DEF PlainStep
  <2> QED BY <2>2, <2>3
<1>5. CASE Arrive(f)
  <2>1. /\ fetch' = [fetch EXCEPT ![f] = Idle] /\ failed' = [failed EXCEPT ![f] = FALSE]
        /\ cache' = [cache EXCEPT ![f] = fetch[f].flag]
    BY <1>5 DEF Arrive
  <2>2. \A e \in Envs : fetch[f].flag[e].version >= learned[f][e]
    BY <1>5 DEF Arrive, CacheInv
  <2>3. cache'[f] = fetch[f].flag /\ fetch'[f].stage # "read"
    BY <1>3, <2>1 DEF Idle
  <2> QED BY <1>1, <1>2, <2>1, <2>2, <2>3, CacheOfOneFlag DEF PlainStep
<1>6. CASE FetchFails(f) \/ FetchExpired(f)
  <2>1. /\ fetch' = [fetch EXCEPT ![f] = Idle] /\ failed' = [failed EXCEPT ![f] = TRUE]
        /\ cache' = cache
    BY <1>6 DEF FetchFails, FetchExpired
  <2>2. failed'[f] = TRUE /\ fetch'[f].stage # "read"
    BY <1>3, <2>1 DEF Idle
  <2> QED BY <1>1, <1>2, <1>3, <2>1, <2>2, CacheOfOneFlag DEF PlainStep
<1> QED BY <1>4, <1>5, <1>6

LEMMA AcceptKeeps ==
  ASSUME DashboardInv, NEW i \in DOMAIN calls, Accept(i)
  PROVE  PlainStep
<1> DEFINE c == calls[i]
<1>1. c.flag \in Flags /\ c.env \in Envs
  BY DEF DashboardInv, CallsInv, Call
<1>2. Commit(c.flag, c.env, c.col, c.val, "operator") /\ Reply(i, 200, c.version + 1) /\ c.version = Actual(c)
  BY DEF Accept
<1>3. StoreFields' /\ Grows(store, store') /\ store'[c.flag][c.env].version = Actual(c) + 1
  BY <1>1, <1>2, CommitGrows DEF DashboardInv, Actual
<1>4. store'[c.flag][c.env].version \in Nat
  BY <1>1, <1>3 DEF StoreFields
<1>5. CallsInv' /\ Sent = {}
  BY <1>2, <1>3, <1>4, ReplyKeepsCalls DEF DashboardInv
<1>6. CacheInv'
  BY <1>3, CacheUntouched DEF DashboardInv, Accept
<1>7. FormInv' /\ Quiet
  BY FormUntouched DEF DashboardInv, Accept
<1> QED BY <1>3, <1>5, <1>6, <1>7 DEF DashboardInv, PlainStep

LEMMA RefuseKeeps ==
  ASSUME DashboardInv, NEW i \in DOMAIN calls, Refuse(i)
  PROVE  PlainStep
<1> DEFINE c == calls[i]
<1>1. c.flag \in Flags /\ c.env \in Envs
  BY DEF DashboardInv, CallsInv, Call
<1>2. StoreFields' /\ Grows(store, store')
  BY StaysGrows DEF DashboardInv, Refuse
<1>3. Actual(c) \in Nat /\ Actual(c) <= store'[c.flag][c.env].version
  BY <1>1, <1>2 DEF Grows, Actual
<1>4. CallsInv' /\ Sent = {}
  <2>1. CASE session
    BY <1>2, <1>3, <2>1, ReplyKeepsCalls DEF DashboardInv, Refuse
  <2>2. CASE ~session
    <3>1. Reply(i, 401, 0)
      BY <2>2 DEF Refuse
    <3> QED BY <1>2, <3>1, ReplyKeepsCalls DEF DashboardInv
  <2> QED BY <2>1, <2>2
<1>5. CacheInv'
  BY <1>2, CacheUntouched DEF DashboardInv, Refuse
<1>6. FormInv' /\ Quiet
  BY FormUntouched DEF DashboardInv, Refuse
<1> QED BY <1>2, <1>4, <1>5, <1>6 DEF DashboardInv, PlainStep

LEMMA SettleKeeps ==
  ASSUME DashboardInv, NEW i \in DOMAIN calls, Settle(i)
  PROVE  PlainStep
<1> DEFINE c == calls[i]
           v == c.reply.version
<1>1. c.flag \in Flags /\ c.env \in Envs /\ v \in Nat /\ v <= store[c.flag][c.env].version
  BY DEF DashboardInv, CallsInv, Call, Settle, Answered, Waiting
<1>2. Forget(i) /\ UNCHANGED <<store, cache, failed, page, view, form>>
  BY DEF Settle, Answered
<1>3. StoreFields' /\ CallsInv' /\ Sent = {} /\ FormInv' /\ Quiet
  BY <1>2, StaysGrows, ForgetKeepsCalls, FormUntouched DEF DashboardInv
<1>4. CASE page # c.flag
  <2>1. UNCHANGED <<fetch, learned>>
    BY <1>4 DEF Settle, Invalidated
  <2> QED BY <1>2, <1>3, <2>1, StaysGrows, CacheUntouched DEF DashboardInv, PlainStep
<1>5. CASE page = c.flag
  <2> DEFINE w == IF v > learned[c.flag][c.env] THEN v ELSE learned[c.flag][c.env]
  <2>1. /\ fetch' = [fetch EXCEPT ![c.flag] = Asked]
        /\ learned' = [learned EXCEPT ![c.flag] = [learned[c.flag] EXCEPT ![c.env] = w]]
    BY <1>5 DEF Settle, Invalidated
  <2>2. w \in Nat /\ w <= store[c.flag][c.env].version
    BY <1>1 DEF DashboardInv, CacheInv
  <2> HIDE DEF c, v, w
  <2>3. learned' \in [Flags -> [Envs -> Nat]]
    BY <1>1, <2>1, <2>2 DEF DashboardInv, CacheInv
  <2>4. ASSUME NEW g \in Flags, NEW e \in Envs PROVE learned'[g][e] <= store[g][e].version
    BY <1>1, <2>1, <2>2 DEF DashboardInv, CacheInv
  <2>5. fetch'[c.flag] = Asked /\ \A g \in Flags \ {c.flag} : fetch'[g] = fetch[g] /\ learned'[g] = learned[g]
    BY <1>1, <2>1 DEF DashboardInv, CacheInv
  <2>6. CacheInv'
    BY <1>2, <2>1, <2>3, <2>4, <2>5 DEF DashboardInv, CacheInv, SettledShowsReplies, Asked, Idle
  <2> QED BY <1>3, <2>6 DEF DashboardInv, PlainStep
<1> QED BY <1>4, <1>5

LEMMA ReplySteps ==
  ASSUME DashboardInv, NEW i \in DOMAIN calls,
         Accept(i) \/ Refuse(i) \/ Lose(i) \/ Settle(i) \/ Expired(i)
  PROVE  PlainStep
<1>1. CASE Lose(i) \/ Expired(i)
  <2>1. Forget(i) /\ UNCHANGED <<store, cache, fetch, failed, learned>>
    BY <1>1 DEF Lose, Expired, Answered
  <2>2. StoreFields' /\ CallsInv' /\ Sent = {} /\ CacheInv'
    BY <2>1, StaysGrows, ForgetKeepsCalls, CacheUntouched DEF DashboardInv
  <2>3. FormInv' /\ Quiet
    BY <1>1, FormUntouched, RenderKeeps DEF DashboardInv, Lose, Expired
  <2> QED BY <2>2, <2>3 DEF DashboardInv, PlainStep
<1> QED BY <1>1, AcceptKeeps, RefuseKeeps, SettleKeeps

LEMMA OtherWriteKeeps ==
  ASSUME DashboardInv, NEW f \in Flags, NEW e \in Envs, NEW col, NEW val, OtherWrite(f, e, col, val)
  PROVE  PlainStep
<1>1. StoreFields' /\ Grows(store, store')
  BY CommitGrows DEF DashboardInv, OtherWrite
<1>2. CallsInv' /\ Sent = {} /\ CacheInv'
  BY <1>1, CallsUntouched, CacheUntouched DEF DashboardInv, OtherWrite
<1> QED BY <1>1, <1>2, FormUntouched DEF DashboardInv, OtherWrite, PlainStep

LEMMA GestureKeeps ==
  ASSUME DashboardInv, NEW e \in Envs, Gesture(e)
  PROVE  GestureStep(e) /\ DashboardInv'
<1>1. GestureStep(e) /\ FormInv'
  BY GestureIs, GestureKeepsForm DEF DashboardInv
<1>2. UNCHANGED <<store, cache, fetch, failed, learned>> /\ page \in Flags
  BY <1>1 DEF GestureStep, Sections, DashboardInv, FormInv
<1>3. StoreFields' /\ CacheInv' /\ Grows(store, store')
  BY <1>2, StaysGrows, CacheUntouched DEF DashboardInv
<1>4. CallsInv'
  BY <1>1, <1>2, <1>3, CallsUntouched, SendsKeepsCalls DEF DashboardInv, GestureStep
<1> QED BY <1>1, <1>3, <1>4 DEF DashboardInv

LEMMA DashboardSteps ==
  ASSUME DashboardInv, Next
  PROVE  PlainStep \/ (DashboardInv' /\ \E e \in Envs : GestureStep(e))
  BY ViewSteps, FetchSteps, ReplySteps, OtherWriteKeeps, GestureKeeps DEF Next

LEMMA DashboardInit == Init => DashboardInv
<1> SUFFICES ASSUME Init PROVE DashboardInv
  OBVIOUS
<1>1. StoreFields
  BY DEF Init, StoreFields, NewConfig
<1>2. CallsInv
  BY DEF Init, CallsInv
<1>3. CacheInv
  BY <1>1 DEF Init, CacheInv, SettledShowsReplies, Idle, StoreFields
<1>4. FormInv
  BY DEF Init, FormInv
<1> QED BY <1>1, <1>2, <1>3, <1>4 DEF DashboardInv

THEOREM DashboardInvariance == Spec => []DashboardInv
<1>1. ASSUME DashboardInv, [Next]_vars PROVE DashboardInv'
  <2>1. CASE Next
    BY <1>1, <2>1, DashboardSteps DEF PlainStep
  <2>2. CASE UNCHANGED vars
    BY <1>1, <2>2, StaysGrows, CallsUntouched, CacheUntouched, FormUntouched DEF DashboardInv, vars
  <2> QED BY <1>1, <2>1, <2>2
<1> QED BY DashboardInit, <1>1, PTL DEF Spec

-----------------------------------------------------------------------------
(* The properties.                                                         *)

\* With nothing being fetched the cache is as new as any reply to the tab: an answer that
\* tells a version of the open flag drops the fetch under way, whenever it began.
THEOREM SettledShowsRepliesHolds == Spec => []SettledShowsReplies
<1>1. DashboardInv => SettledShowsReplies
  BY DEF DashboardInv, CacheInv
<1> QED BY <1>1, DashboardInvariance, PTL

\* Whatever leaves for production was confirmed: no step other than a gesture sends, and a
\* gesture sends what its dialog was opened for.
THEOREM ProductionNeedsConfirmationHolds == Spec => ProductionNeedsConfirmation
<1> DEFINE Confirmed ==
      \A c \in Sent : c.env = "production" =>
        LET section == form[c.env]
        IN CASE c.col = "enabled" -> section.pendingEnabled = c.val /\ section.retyped /\ section.typed = c.flag
             [] c.col = "rollout" -> section.pendingRollout = c.val
             [] OTHER -> c.col \in section.asking
<1>1. ASSUME DashboardInv, [Next]_vars PROVE Confirmed
  <2>1. CASE Sent = {}
    BY <2>1
  <2>2. ASSUME NEW e \in Envs, GestureStep(e), Sent # {} PROVE Confirmed
    <3>1. calls' # calls
      BY <2>2 DEF Sent
    <3>2. PICK col, val : Sends(e, col, val) /\ Warranted(e, col, val)
      BY <2>2, <3>1 DEF GestureStep
    <3>3. ASSUME NEW c \in Sent PROVE c.flag = page /\ c.env = e /\ c.col = col /\ c.val = val
      BY <3>2, SentIsIt
    <3> QED BY <3>2, <3>3 DEF Warranted
  <2>3. UNCHANGED vars => Sent = {}
    BY DEF vars, Sent
  <2> QED BY <1>1, <2>1, <2>2, <2>3, DashboardSteps DEF PlainStep
<1>2. DashboardInv /\ [Next]_vars => [Confirmed]_vars
  BY <1>1
<1> QED BY <1>2, DashboardInvariance, PTL DEF Spec, ProductionNeedsConfirmation

\* A rollout is sent, or asked about, only where it was dragged to from the value it still
\* lies on: a new value under the slider takes the drag back before anything is released.
THEOREM SliderSendsOnlyWhatWasDraggedHolds == Spec => SliderSendsOnlyWhatWasDragged
<1> DEFINE Dragged ==
      \A e \in Envs, v \in Rollouts :
        Leaves(e, v) => form[e].slide = v /\ form[e].dragged = ShownIn(e).rollout.val /\ v # form[e].dragged
<1>1. ASSUME DashboardInv, [Next]_vars PROVE Dragged
  <2>1. CASE Sent = {} /\ Quiet
    BY <2>1 DEF Leaves, Quiet
  <2>2. ASSUME NEW d \in Envs, GestureStep(d) PROVE Dragged
    <3> SUFFICES ASSUME NEW e \in Envs, NEW v \in Rollouts, Leaves(e, v)
                 PROVE  form[e].slide = v /\ form[e].dragged = ShownIn(e).rollout.val /\ v # form[e].dragged
      OBVIOUS
    <3>1. DOMAIN form = Envs
      BY <1>1, <2>2 DEF DashboardInv, FormInv, GestureStep
    <3>2. CASE \E c \in Sent : c.env = e /\ c.col = "rollout" /\ ~Confirms(e, "rollout") /\ c.val = v
      <4>1. calls' # calls
        BY <3>2 DEF Sent
      <4>2. PICK col, val : Sends(d, col, val) /\ Warranted(d, col, val)
        BY <2>2, <4>1 DEF GestureStep
      <4>3. d = e /\ col = "rollout" /\ val = v /\ ~Confirms(e, "rollout")
        BY <3>2, <4>2, SentIsIt
      <4> QED BY <4>2, <4>3 DEF Warranted
    <3>3. CASE /\ form'[e].pendingRollout \notin {None, form[e].pendingRollout}
               /\ form'[e].pendingRollout = v
      <4>1. PICK s : SectionStep(d, s)
        BY <2>2, <3>3 DEF GestureStep
      <4>2. d = e /\ form'[e] = s
        BY <3>1, <3>3, <4>1 DEF SectionStep
      <4> QED BY <3>3, <4>1, <4>2 DEF SectionStep
    <3> QED BY <3>2, <3>3 DEF Leaves
  <2>3. UNCHANGED vars => Sent = {} /\ Quiet
    BY DEF vars, Sent, Quiet
  <2> QED BY <1>1, <2>1, <2>2, <2>3, DashboardSteps DEF PlainStep
<1>2. DashboardInv /\ [Next]_vars => [Dragged]_vars
  BY <1>1
<1> QED BY <1>2, DashboardInvariance, PTL DEF Spec, SliderSendsOnlyWhatWasDragged
=============================================================================
