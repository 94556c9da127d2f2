-------------------------- MODULE SemanticWebhooks --------------------------
(***************************************************************************)
(* Semantic webhooks: Active and Inactive requests for a semantic          *)
(* condition, the in-memory auto-restore timers, the operator's edits, and *)
(* the zones of the security panel that the condition's bindings drive.    *)
(*                                                                         *)
(* A request or an expired timer is a run: it sets the zones of the        *)
(* enabled bindings one after another, each through the panel's chain of   *)
(* operations, where it waits for the operations before its own and, with  *)
(* a client connected, for the write. Between these waits a run is one     *)
(* step: the database driver is synchronous. The chain is that of module   *)
(* VirtualSecurityPanel seen from outside: an operation may wait at its    *)
(* head for any time (a resynchronization is being written), and one that  *)
(* changes a zone may wait for its own write.                              *)
(*                                                                         *)
(* A condition has at most one webhook and a webhook has one condition, so *)
(* a member of Webhook stands for both. Requests that fail authentication  *)
(* or name no webhook change nothing and are left out.                     *)
(***************************************************************************)
EXTENDS Integers, Sequences, FiniteSetsExt

CONSTANTS
    Webhook,    \* semantic webhooks, each with its condition
    Zone,       \* zone numbers; the bindings' ids ascend with them
    Bound,      \* <<webhook, zone>> pairs bound by enabled bindings at first
    Run,        \* requests and expirations that may be in progress together
    Full,       \* autoRestoreSeconds, in ticks
    MaxEdits,   \* bound on operator edits and hub restarts
    NoRun       \* no run

ASSUME ZoneAssumption ==
    /\ Zone \subseteq Nat
    /\ Bound \subseteq Webhook \X Zone
    /\ \A b, c \in Bound : b[2] = c[2] => b = c

ASSUME OtherAssumption ==
    /\ Full \in Nat \ {0}
    /\ MaxEdits \in Nat
    /\ NoRun \notin Run

VARIABLES
    hook,       \* semantic_condition_webhooks rows: exists, enabled, restoreMode
    condOn,     \* semantic_conditions.enabled
    bound,      \* the enabled consumer_bindings
    timer,      \* SemanticWebhookTimerManager.timers: ticks left, Off for none
    run,        \* the runs in progress
    chain,      \* runs whose operation waits on the panel's operationChain
    busy,       \* the run whose operation is being written
    zone,       \* the panel's retained state of each zone, "unset" for none
    edits,      \* operator edits and restarts so far
    wanted,     \* history: the state each webhook was last submitted for
    age,        \* history: ticks since that, at most Full
    edited      \* history: webhooks edited since they were last at rest

confVars == <<hook, condOn, bound>>
histVars == <<wanted, age>>
vars == <<hook, condOn, bound, timer, run, chain, busy, zone, edits, wanted, age, edited>>

Off     == -1
Origin  == {"explicit_active", "explicit_inactive", "auto_timeout"}
HookRow == [exists : BOOLEAN, enabled : BOOLEAN, mode : {"explicit_inactive", "auto_timeout"}]
Running == [hook : Webhook, origin : Origin, arms : BOOLEAN, at : Zone, todo : SUBSET Zone]
IdleRun == [origin |-> "none"]

TypeOK ==
    /\ hook \in [Webhook -> HookRow]
    /\ condOn \in [Webhook -> BOOLEAN]
    /\ bound \subseteq Webhook \X Zone
    /\ timer \in [Webhook -> Off..Full]
    /\ run \in [Run -> Running \cup {IdleRun}]
    /\ chain \in Seq(Run)
    /\ busy \in Run \cup {NoRun}
    /\ zone \in [Zone -> {"Normal", "Violated", "unset"}]
    /\ edits \in 0..MaxEdits
    /\ wanted \in [Webhook -> {"Normal", "Violated"}]
    /\ age \in [Webhook -> 0..Full]
    /\ edited \subseteq Webhook

-----------------------------------------------------------------------------
Zones(w) == {z \in Zone : <<w, z>> \in bound}
Busy(w)  == \E h \in Run : run[h] # IdleRun /\ run[h].hook = w

\* The startup seeds the zones of the enabled bindings.
Seeded == [z \in Zone |-> IF \E b \in bound : b[2] = z THEN "Normal" ELSE "unset"]

\* The planner's desired state for an origin, and the adapter's panel state
Desired(origin) == IF origin = "explicit_active" THEN "active" ELSE "inactive"
Asks(origin)    == IF Desired(origin) = "active" THEN "Violated" ELSE "Normal"

\* Faulty variant: a reset drops the timer it should replace.
ArmDrops(t, w) == [t EXCEPT ![w] = IF t[w] = Off THEN Full ELSE Off]

\* Faulty variant: a running timer is kept.
ArmKeeps(t, w) == [t EXCEPT ![w] = IF t[w] = Off THEN Full ELSE t[w]]

\* scheduleOrReset and cancel, on the timers t
Arm(t, w)    == [t EXCEPT ![w] = Full]
Cancel(t, w) == [t EXCEPT ![w] = Off]

\* Faulty variant: a restore takes its turn before the operations that wait.
SubmitOvertakes(h, w, origin, t) ==
    LET zs   == Zones(w)
        arms == origin = "explicit_active" /\ hook[w].mode = "auto_timeout"
    IN  /\ wanted' = [wanted EXCEPT ![w] = Asks(origin)]
        /\ age' = [age EXCEPT ![w] = 0]
        /\ IF zs = {}
           THEN /\ timer' = IF arms THEN Arm(t, w) ELSE t
                /\ UNCHANGED <<run, chain>>
           ELSE /\ run' = [run EXCEPT ![h] = [hook |-> w, origin |-> origin, arms |-> arms,
                                              at |-> Min(zs), todo |-> zs \ {Min(zs)}]]
                /\ chain' = IF arms THEN Append(chain, h) ELSE <<h>> \o chain
                /\ timer' = t

\* submitSemanticState up to its first wait, with t the timers by then: the
\* enabled bindings are read and the first zone's operation joins the chain. A
\* condition without any is accepted at once.
Submit(h, w, origin, t) ==
    LET zs   == Zones(w)
        arms == origin = "explicit_active" /\ hook[w].mode = "auto_timeout"
    IN  /\ wanted' = [wanted EXCEPT ![w] = Asks(origin)]
        /\ age' = [age EXCEPT ![w] = 0]
        /\ IF zs = {}
           THEN /\ timer' = IF arms THEN Arm(t, w) ELSE t
                /\ UNCHANGED <<run, chain>>
           ELSE /\ run' = [run EXCEPT ![h] = [hook |-> w, origin |-> origin, arms |-> arms,
                                              at |-> Min(zs), todo |-> zs \ {Min(zs)}]]
                /\ chain' = Append(chain, h)
                /\ timer' = t

\* The run h goes on after an operation, with q the operations still waiting:
\* the next zone, or the end, where an accepted Active schedules the restore.
Resume(h, q) ==
    LET r == run[h]
    IN  IF r.todo # {}
        THEN /\ run' = [run EXCEPT ![h].at = Min(r.todo), ![h].todo = @ \ {Min(r.todo)}]
             /\ chain' = Append(q, h)
             /\ UNCHANGED timer
        ELSE /\ run' = [run EXCEPT ![h] = IdleRun]
             /\ chain' = q
             /\ timer' = IF r.arms THEN Arm(timer, r.hook) ELSE timer

-----------------------------------------------------------------------------
\* Nothing is in progress, and nothing is left of an earlier Active request.
AtRest(w) ==
    /\ \A x \in Webhook : ~Busy(x)
    /\ timer[w] = Off
    /\ \A z \in Zones(w) : zone[z] # "Violated"

\* handleSemanticWebhook; Inactive cancels the timer before it waits.
Receive(h, w, origin) ==
    /\ run[h] = IdleRun
    /\ origin # "auto_timeout"
    /\ hook[w].exists /\ hook[w].enabled /\ condOn[w]
    /\ Submit(h, w, origin, IF origin = "explicit_inactive" THEN Cancel(timer, w) ELSE timer)
    /\ edited' = IF AtRest(w) THEN edited \ {w} ELSE edited
    /\ UNCHANGED <<confVars, busy, zone, edits>>

\* Faulty variant: the restore mode is compared with the wrong one.
ValidExplicit(w) == hook[w].exists /\ hook[w].enabled /\ hook[w].mode # "auto_timeout" /\ condOn[w]

\* handleSemanticWebhookTimerExpiry revalidates the webhook it fires for.
Valid(w) == hook[w].exists /\ hook[w].enabled /\ hook[w].mode = "auto_timeout" /\ condOn[w]

Fire(h, w) ==
    /\ run[h] = IdleRun
    /\ timer[w] = 0
    /\ IF Valid(w)
       THEN Submit(h, w, "auto_timeout", Cancel(timer, w))
       ELSE /\ timer' = Cancel(timer, w)
            /\ UNCHANGED <<run, chain, wanted, age>>
    /\ UNCHANGED <<confVars, busy, zone, edits, edited>>

\* The panel takes the next operation. One that changes the zone may have to be
\* written to a client; any other is over at once.
PanelTakes ==
    LET h == Head(chain)
        s == Asks(run[h].origin)
    IN  /\ busy = NoRun
        /\ chain # <<>>
        /\ zone' = [zone EXCEPT ![run[h].at] = s]
        /\ \/ /\ zone[run[h].at] # s
              /\ busy' = h
              /\ chain' = Tail(chain)
              /\ UNCHANGED <<run, timer>>
           \/ /\ Resume(h, Tail(chain))
              /\ UNCHANGED busy
        /\ UNCHANGED <<confVars, edits, histVars, edited>>

\* The write is over, delivered or not: the state is retained and accepted.
PanelWrote ==
    /\ busy # NoRun
    /\ Resume(busy, chain)
    /\ busy' = NoRun
    /\ UNCHANGED <<confVars, zone, edits, histVars, edited>>

\* Faulty variant: a webhook without a timer is counted down too.
TickBelow ==
    /\ \E w \in Webhook : timer[w] > 0 \/ age[w] < Full
    /\ timer' = [w \in Webhook |-> timer[w] - 1]
    /\ age' = [w \in Webhook |-> IF age[w] < Full THEN age[w] + 1 ELSE age[w]]
    /\ UNCHANGED <<confVars, run, chain, busy, zone, edits, wanted, edited>>

\* A tick of time passes.
Tick ==
    /\ \E w \in Webhook : timer[w] > 0 \/ age[w] < Full
    /\ timer' = [w \in Webhook |-> IF timer[w] > 0 THEN timer[w] - 1 ELSE timer[w]]
    /\ age' = [w \in Webhook |-> IF age[w] < Full THEN age[w] + 1 ELSE age[w]]
    /\ UNCHANGED <<confVars, run, chain, busy, zone, edits, wanted, edited>>

-----------------------------------------------------------------------------
\* Operator edits and restarts

Edit(w) ==
    /\ edits < MaxEdits
    /\ edits' = edits + 1
    /\ edited' = edited \cup {w}
    /\ UNCHANGED <<run, chain, busy, zone, histVars>>

\* PATCH /api/semantic-webhooks/:id (of a webhook no enabled route competes with)
SetHook(w, enabled, mode) ==
    /\ Edit(w)
    /\ hook[w].exists
    /\ hook[w].enabled # enabled \/ hook[w].mode # mode
    /\ hook' = [hook EXCEPT ![w].enabled = enabled, ![w].mode = mode]
    /\ timer' = IF \/ hook[w].enabled /\ ~enabled
                   \/ hook[w].mode = "auto_timeout" /\ mode # "auto_timeout"
                THEN Cancel(timer, w) ELSE timer
    /\ UNCHANGED <<condOn, bound>>

\* DELETE /api/semantic-webhooks/:id
DeleteHook(w) ==
    /\ Edit(w)
    /\ hook[w].exists
    /\ hook' = [hook EXCEPT ![w].exists = FALSE]
    /\ timer' = Cancel(timer, w)
    /\ UNCHANGED <<condOn, bound>>

\* PATCH /api/semantic-conditions/:id
SetCondition(w, enabled) ==
    /\ Edit(w)
    /\ condOn[w] # enabled
    /\ condOn' = [condOn EXCEPT ![w] = enabled]
    /\ UNCHANGED <<hook, bound, timer>>

\* POST or PATCH of a consumer binding: a zone has one enabled binding.
Bind(w, z) ==
    /\ Edit(w)
    /\ \A b \in bound : b[2] # z
    /\ bound' = bound \cup {<<w, z>>}
    /\ UNCHANGED <<hook, condOn, timer>>

\* PATCH or DELETE of a consumer binding leaves the zone as it is.
Unbind(w, z) ==
    /\ Edit(w)
    /\ <<w, z>> \in bound
    /\ bound' = bound \ {<<w, z>>}
    /\ UNCHANGED <<hook, condOn, timer>>

\* The hub stops and starts again: timers, runs and zones are lost, and every
\* configured zone is seeded Normal.
Restart ==
    /\ edits < MaxEdits
    /\ edits' = edits + 1
    /\ timer' = [w \in Webhook |-> Off]
    /\ run' = [h \in Run |-> IdleRun]
    /\ chain' = <<>>
    /\ busy' = NoRun
    /\ zone' = Seeded
    /\ edited' = {w \in Webhook : wanted[w] = "Violated"}
    /\ UNCHANGED <<confVars, histVars>>

-----------------------------------------------------------------------------
Init ==
    /\ hook \in [Webhook -> [exists : {TRUE}, enabled : {TRUE},
                             mode : {"explicit_inactive", "auto_timeout"}]]
    /\ condOn = [w \in Webhook |-> TRUE]
    /\ bound = Bound
    /\ timer = [w \in Webhook |-> Off]
    /\ run = [h \in Run |-> IdleRun]
    /\ chain = <<>>
    /\ busy = NoRun
    /\ zone = Seeded
    /\ edits = 0
    /\ wanted = [w \in Webhook |-> "Normal"]
    /\ age = [w \in Webhook |-> Full]
    /\ edited = {}

Operator ==
    \E w \in Webhook :
        \/ \E enabled \in BOOLEAN, mode \in {"explicit_inactive", "auto_timeout"} :
              SetHook(w, enabled, mode)
        \/ DeleteHook(w)
        \/ \E enabled \in BOOLEAN : SetCondition(w, enabled)
        \/ \E z \in Zone : Bind(w, z) \/ Unbind(w, z)

Next ==
    \/ \E h \in Run, w \in Webhook : Fire(h, w) \/ \E origin \in Origin : Receive(h, w, origin)
    \/ PanelTakes
    \/ PanelWrote
    \/ Tick
    \/ Operator
    \/ Restart

Spec == Init /\ [][Next]_vars

\* The panel's chain moves on, time passes and timers fire.
Fairness ==
    /\ WF_vars(PanelTakes)
    /\ WF_vars(PanelWrote)
    /\ WF_vars(Tick)
    /\ \A w \in Webhook : WF_vars(\E h \in Run : Fire(h, w))

FairSpec == Spec /\ Fairness

-----------------------------------------------------------------------------
\* Properties

\* When nothing is in progress for a webhook that was not edited meanwhile, all
\* its zones have the state of the last request or expiration submitted for it:
\* runs that wait for the panel together, zone by zone, never leave a zone with
\* an older run's state or the zones of one condition different.
LastRequestWins ==
    \A w \in Webhook \ edited : ~Busy(w) => \A z \in Zones(w) : zone[z] = wanted[w]

\* A zone that an auto-timeout webhook has Violated always has something that
\* will restore it, unless the webhook was edited: a running timer, an Active
\* still in progress that schedules one, or a restore still to reach the zone.
RestoreIsComing ==
    \A w \in Webhook \ edited : \A z \in Zones(w) :
        (zone[z] = "Violated" /\ hook[w].mode = "auto_timeout") =>
            \/ timer[w] # Off
            \/ \E h \in Run : /\ run[h] # IdleRun /\ run[h].hook = w
                              /\ run[h].arms \/ z \in run[h].todo \cup {run[h].at}

\* Once requests stop, no zone of an auto-timeout webhook stays Violated.
AutoRestores ==
    <>[](\A h \in Run : run[h] = IdleRun) =>
        \A z \in Zone : []<>(\/ zone[z] # "Violated"
                             \/ \A w \in Webhook : z \in Zones(w) =>
                                    w \in edited \/ hook[w].mode # "auto_timeout")

\* The expired timer of w submits a restore while an Active request was the last.
TimerRestores(w) ==
    /\ wanted[w] = "Violated"
    /\ \E h \in Run : /\ run[h] = IdleRun /\ run'[h] # IdleRun
                      /\ run'[h].hook = w /\ run'[h].origin = "auto_timeout"

\* A timer restores a condition no sooner than its full duration after the last
\* Active request for it, unless the webhook was edited.
FullDuration ==
    [][\A w \in Webhook \ edited : TimerRestores(w) => age[w] = Full]_vars

\* The same, but for an Active that still waits for the panel: an early restore
\* has no other cause, whatever requests and timers overlap.
FullDurationUnlessBusy ==
    [][\A w \in Webhook \ edited : (TimerRestores(w) /\ ~Busy(w)) => age[w] = Full]_vars

\* A webhook that was disabled, deleted or moved to explicit restore has no timer.
NoTimerLeft ==
    \A w \in Webhook : timer[w] # Off =>
        hook[w].exists /\ hook[w].enabled /\ hook[w].mode = "auto_timeout"

=============================================================================
