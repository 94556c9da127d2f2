-------------------------- MODULE FloodlightTimers --------------------------
(***************************************************************************)
(* Activation of floodlights and groups, the auto-off timers in the        *)
(* active_timers table, and the relays they drive.                         *)
(*                                                                         *)
(* Three kinds of asynchronous runs share the database and the relays:     *)
(*   - an accepted route execution (executeFloodlightActivation,           *)
(*     executeGroupActivation), a member of Act;                           *)
(*   - one run of TimerService.processExpired, a member of Poll: the       *)
(*     interval does not wait for the previous run, so runs may overlap;   *)
(*   - a dashboard on/off request (commandOutput), a member of Cmd.        *)
(* A run gives way at every Shelly call; each call may take any number of  *)
(* ticks and ends by an answer or by a failure (AbortSignal.timeout).      *)
(*                                                                         *)
(* A row's expiresAt is kept as the ticks left until it, so a refresh sets *)
(* left to the full duration and an expired row is one with left = 0.      *)
(* Inactive rows are never read again by the service, and are left out.    *)
(***************************************************************************)
EXTENDS Naturals, FiniteSets

CONSTANTS
    Light,      \* floodlights
    Group,      \* floodlight groups
    RowId,      \* ids of active_timers rows (an id is reused once forgotten)
    Act,        \* route executions that may be in progress together
    Poll,       \* runs of processExpired that may be in progress together
    Cmd,        \* dashboard on/off requests that may be in progress together
    AutoOff,    \* autoOffSeconds of each floodlight and group, in ticks
    Routed,     \* the targets that enabled routes point at
    Mode,       \* the override modes an operator may set
    MaxEdits,   \* bound on operator edits and hub restarts
    Nobody,     \* no target
    NoRow       \* no row

Target == Light \cup Group
Proc   == Act \cup Poll \cup Cmd

ASSUME TargetAssumption ==
    /\ Light \cap Group = {}
    /\ Nobody \notin Target
    /\ AutoOff \in [Target -> Nat]
    /\ Routed \subseteq Target

ASSUME ProcAssumption ==
    /\ Act \cap Poll = {}
    /\ Act \cap Cmd = {}
    /\ Poll \cap Cmd = {}

ASSUME OtherAssumption ==
    /\ NoRow \notin RowId
    /\ MaxEdits \in Nat
    /\ Mode \subseteq {"none", "force_on", "force_off", "suspended"}

VARIABLES
    light,      \* floodlights rows: exists, automationEnabled, manualOverrideMode
    known,      \* floodlights.lastKnownOutput
    groups,     \* groups rows that exist
    members,    \* group_memberships
    timers,     \* the active rows of active_timers
    act,        \* the route executions
    poll,       \* the runs of processExpired
    wire,       \* Shelly commands that have no answer yet
    relay,      \* the real output of each floodlight
    edits,      \* operator edits and restarts so far
    litBy,      \* history: on whose behalf the relay was last switched on
    excuse,     \* history: lit floodlights the timer service lost for a named cause
    stay,       \* history: ticks for which a lit floodlight should still stay on
    blurred,    \* history: floodlights whose last commands failed or overlapped
    hurried     \* history: lit floodlights whose timer expired under a refresh

dbVars   == <<light, known, groups, members, timers>>
runVars  == <<act, poll, wire>>
histVars == <<litBy, excuse, stay, blurred, hurried>>
vars     == <<light, known, groups, members, timers, act, poll, wire, relay,
              edits, litBy, excuse, stay, blurred, hurried>>

OverrideMode == {"none", "force_on", "force_off", "suspended"}
Row     == [id : RowId, target : Target, left : Nat]
RowRef  == [id : RowId, target : Target]
Command == [by : Proc, light : Light, on : BOOLEAN, applied : BOOLEAN]
LightRow  == [exists : BOOLEAN, automation : BOOLEAN, mode : OverrideMode]
PollState == [rows : SUBSET RowRef, cur : SUBSET RowRef, todo : SUBSET Light]

IdleAct  == [pc |-> "idle", target |-> Nobody, todo |-> {}, found |-> NoRow]
Running  == [pc : {"members", "write"}, target : Target, todo : SUBSET Light,
             found : RowId \cup {NoRow}]
ActState == {IdleAct} \cup Running
IdlePoll == [rows |-> {}, cur |-> {}, todo |-> {}]

TypeOK ==
    /\ light \in [Light -> LightRow]
    /\ known \in [Light -> BOOLEAN]
    /\ groups \subseteq Group
    /\ members \in [Group -> SUBSET Light]
    /\ timers \subseteq Row
    /\ act \in [Act -> ActState]
    /\ poll \in [Poll -> PollState]
    /\ wire \subseteq Command
    /\ relay \in [Light -> BOOLEAN]
    /\ edits \in Nat
    /\ litBy \in [Light -> Target \cup {Nobody}]
    /\ excuse \subseteq Light
    /\ stay \in [Light -> Nat]
    /\ blurred \subseteq Light
    /\ hurried \subseteq Light

-----------------------------------------------------------------------------
\* The runs and their waits

Waiting(p)  == \E w \in wire : w.by = p
PollBusy(p) == poll[p].rows \cup poll[p].cur # {}

\* The database driver is synchronous, so the event loop takes up no other
\* callback until the runs resumed by this one wait for a Shelly device or are
\* over. Only executions started by the same callback (two sensor messages in
\* one chunk) run in turns.
ActRuns  == \E a \in Act : act[a].pc # "idle" /\ ~Waiting(a)
PollRuns == \E p \in Poll : PollBusy(p) /\ ~Waiting(p)
LoopFree == ~ActRuns /\ ~PollRuns

ActiveIds == {r.id : r \in timers}
Held(p)   == poll[p].rows \cup poll[p].cur
HeldIds   == {h.id : h \in UNION {Held(p) : p \in Poll}}

\* The target of the row a run is at.
Targets(p) == {h.target : h \in poll[p].cur}

\* Some run of processExpired has read a row of t and has not finished with it.
BeingExpired(t) == \E p \in Poll : \E h \in Held(p) : h.target = t

\* Members a target stands for.
Covers(t) == IF t \in Group THEN members[t] ELSE {t}

-----------------------------------------------------------------------------
\* Sending a command, and the history kept with it

Send(p, l, on) ==
    /\ wire' = wire \cup {[by |-> p, light |-> l, on |-> on, applied |-> FALSE]}
    /\ blurred' = IF \E w \in wire : w.light = l THEN blurred \cup {l}
                                                 ELSE blurred \ {l}

\* The floodlights of S that are lit for a target in T are left on, for a cause
\* the code does not handle.
Excuse(S, T) == excuse' = excuse \cup {l \in S : relay[l] /\ litBy[l] \in T}

-----------------------------------------------------------------------------
\* Route executions

\* executeGroupActivation up to the member loop: accepted by the policy,
\* logged, the group and its memberships read.
StartGroup(a, g) ==
    /\ ~PollRuns
    /\ act[a].pc = "idle"
    /\ g \in groups
    /\ act' = [act EXCEPT ![a] = [pc |-> "members", target |-> g,
                                  todo |-> members[g], found |-> NoRow]]
    /\ UNCHANGED <<dbVars, poll, wire, relay, edits, histVars>>

\* executeFloodlightActivation up to activateFloodlight; the policy rejects a
\* missing floodlight and one whose automation is off.
StartLight(a, l) ==
    /\ ~PollRuns
    /\ act[a].pc = "idle"
    /\ light[l].exists /\ light[l].automation
    /\ act' = [act EXCEPT ![a] = [pc |-> "members", target |-> l,
                                  todo |-> {l}, found |-> NoRow]]
    /\ UNCHANGED <<dbVars, poll, wire, relay, edits, histVars>>

Found(l)    == light[l].exists /\ light[l].automation
Eligible(l) == Found(l) /\ light[l].mode \notin {"force_off", "suspended"}

\* One floodlight of the loop, read afresh, is commanded on.
SendOn(a, l) ==
    /\ act[a].pc = "members" /\ ~Waiting(a)
    /\ l \in act[a].todo
    /\ Eligible(l)
    /\ act' = [act EXCEPT ![a].todo = @ \ {l}]
    /\ Send(a, l, TRUE)
    /\ UNCHANGED <<dbVars, poll, relay, edits, litBy, excuse, stay, hurried>>

\* One floodlight of the loop is skipped. A single floodlight that is not
\* found ends the execution without a timer; an overridden one does not.
SkipOn(a, l) ==
    /\ act[a].pc = "members" /\ ~Waiting(a)
    /\ l \in act[a].todo
    /\ ~Eligible(l)
    /\ act' = IF act[a].target \in Light /\ ~Found(l)
              THEN [act EXCEPT ![a] = IdleAct]
              ELSE [act EXCEPT ![a].todo = @ \ {l}]
    /\ UNCHANGED <<dbVars, poll, wire, relay, edits, histVars>>

\* Faulty variant: the test of autoOffSeconds is the wrong way round.
FindTimerNegated(a) ==
    LET t == act[a].target
        rows == {r \in timers : r.target = t}
    IN  /\ act[a].pc = "members" /\ ~Waiting(a)
        /\ act[a].todo = {}
        /\ IF AutoOff[t] > 0
           THEN act' = [act EXCEPT ![a] = IdleAct]
           ELSE IF rows = {}
                THEN act' = [act EXCEPT ![a].pc = "write"]
                ELSE \E r \in rows :
                       act' = [act EXCEPT ![a].pc = "write", ![a].found = r.id]
        /\ UNCHANGED <<dbVars, poll, wire, relay, edits, histVars>>

\* Faulty variant: a group, too, is excused from its timer by a duration of 0.
FindTimerGroupExcused(a) ==
    LET t == act[a].target
        rows == {r \in timers : r.target = t}
    IN  /\ act[a].pc = "members" /\ ~Waiting(a)
        /\ act[a].todo = {}
        /\ IF AutoOff[t] = 0
           THEN act' = [act EXCEPT ![a] = IdleAct]
           ELSE IF rows = {}
                THEN act' = [act EXCEPT ![a].pc = "write"]
                ELSE \E r \in rows :
                       act' = [act EXCEPT ![a].pc = "write", ![a].found = r.id]
        /\ UNCHANGED <<dbVars, poll, wire, relay, edits, histVars>>


\* After the loop: createOrRefresh...Timer looks for an active row. Only a
\* single floodlight is excused from its timer by autoOffSeconds = 0.
FindTimer(a) ==
    LET t == act[a].target
        rows == {r \in timers : r.target = t}
    IN  /\ act[a].pc = "members" /\ ~Waiting(a)
        /\ act[a].todo = {}
        /\ IF t \in Light /\ AutoOff[t] = 0
           THEN act' = [act EXCEPT ![a] = IdleAct]
           ELSE IF rows = {}
                THEN act' = [act EXCEPT ![a].pc = "write"]
                ELSE \E r \in rows :
                       act' = [act EXCEPT ![a].pc = "write", ![a].found = r.id]
        /\ UNCHANGED <<dbVars, poll, wire, relay, edits, histVars>>

\* Faulty variant: a new row swaps the target's id with its duration.
WriteTimerSwapped(a) ==
    LET t == act[a].target
    IN  /\ act[a].pc = "write"
        /\ IF act[a].found # NoRow
           THEN timers' = {IF r.id = act[a].found
                           THEN [r EXCEPT !.left = AutoOff[t]] ELSE r : r \in timers}
           ELSE \E i \in RowId \ (ActiveIds \cup HeldIds) :
                  timers' = timers \cup {[id |-> i, target |-> AutoOff[t], left |-> t]}
        /\ act' = [act EXCEPT ![a] = IdleAct]
        /\ UNCHANGED <<light, known, groups, members, poll, wire, relay, edits, histVars>>

\* Faulty variant: a row that is found keeps its expiry.
WriteTimerNoRefresh(a) ==
    LET t == act[a].target
    IN  /\ act[a].pc = "write"
        /\ IF act[a].found # NoRow
           THEN UNCHANGED timers
           ELSE \E i \in RowId \ (ActiveIds \cup HeldIds) :
                  timers' = timers \cup {[id |-> i, target |-> t, left |-> AutoOff[t]]}
        /\ act' = [act EXCEPT ![a] = IdleAct]
        /\ UNCHANGED <<light, known, groups, members, poll, wire, relay, edits, histVars>>

\* ... and refreshes the row it found, or inserts one.
WriteTimer(a) ==
    LET t == act[a].target
    IN  /\ act[a].pc = "write"
        /\ IF act[a].found # NoRow
           THEN timers' = {IF r.id = act[a].found
                           THEN [r EXCEPT !.left = AutoOff[t]] ELSE r : r \in timers}
           ELSE \E i \in RowId \ (ActiveIds \cup HeldIds) :
                  timers' = timers \cup {[id |-> i, target |-> t, left |-> AutoOff[t]]}
        /\ act' = [act EXCEPT ![a] = IdleAct]
        /\ UNCHANGED <<light, known, groups, members, poll, wire, relay, edits, histVars>>

-----------------------------------------------------------------------------
\* TimerService.processExpired

\* Faulty variant: a row counts as expired a tick early.
ExpiredEarly == {[id |-> r.id, target |-> r.target] : r \in {x \in timers : x.left <= 1}}

Expired == {[id |-> r.id, target |-> r.target] : r \in {x \in timers : x.left = 0}}

\* A row of t has expired, although an execution for t is in progress and will
\* refresh it, or another row of t (two executions found none, and each
\* inserted its own) has been refreshed in its place.
ExpiredUnderRefresh(t) ==
    \E h \in Expired :
        /\ h.target = t
        /\ \/ \E a \in Act : act[a].pc # "idle" /\ act[a].target = t
           \/ \E r \in timers : r.target = t /\ r.id # h.id /\ r.left > 0

\* The interval fires and the expired rows are read.
PollStart(p) ==
    /\ LoopFree
    /\ ~PollBusy(p)
    /\ Expired # {}
    /\ poll' = [poll EXCEPT ![p].rows = Expired]
    /\ hurried' = hurried \cup {l \in Light : relay[l] /\ ExpiredUnderRefresh(litBy[l])}
    /\ UNCHANGED <<dbVars, act, wire, relay, edits, litBy, excuse, stay, blurred>>

\* The next row of the list: expireGroup reads the memberships (none when the
\* group is gone), expireFloodlight handles its one floodlight.
NextRow(p) ==
    /\ poll[p].cur = {}
    /\ \E h \in poll[p].rows :
         poll' = [poll EXCEPT ![p] = [rows |-> @.rows \ {h}, cur |-> {h},
                                      todo |-> IF h.target \in Group /\ h.target \notin groups
                                               THEN {} ELSE Covers(h.target)]]
    /\ UNCHANGED <<dbVars, act, wire, relay, edits, histVars>>

\* A floodlight of the row, read afresh, is commanded off ...
SendOff(p, l) ==
    /\ poll[p].cur # {} /\ ~Waiting(p)
    /\ l \in poll[p].todo
    /\ light[l].exists /\ light[l].mode # "force_on"
    /\ poll' = [poll EXCEPT ![p].todo = @ \ {l}]
    /\ Send(p, l, FALSE)
    /\ UNCHANGED <<dbVars, act, relay, edits, litBy, excuse, stay, hurried>>

\* ... or skipped, because it was deleted or is forced on.
SkipOff(p, l) ==
    /\ poll[p].cur # {} /\ ~Waiting(p)
    /\ l \in poll[p].todo
    /\ ~light[l].exists \/ light[l].mode = "force_on"
    /\ poll' = [poll EXCEPT ![p].todo = @ \ {l}]
    /\ Excuse({l}, Targets(p))
    /\ UNCHANGED <<dbVars, act, wire, relay, edits, litBy, stay, blurred, hurried>>

\* The row is deactivated by its id, whatever happened to it or to its
\* floodlights since it was read.
Deactivate(p) ==
    /\ poll[p].cur # {} /\ ~Waiting(p)
    /\ poll[p].todo = {}
    /\ timers' = {r \in timers : \A h \in poll[p].cur : r.id # h.id}
    /\ poll' = [poll EXCEPT ![p].cur = {}]
    /\ UNCHANGED <<light, known, groups, members, act, wire, relay, edits, histVars>>

-----------------------------------------------------------------------------
\* Dashboard commands, and the Shelly device

\* commandOutput: neither the override nor the timers are looked at.
Manual(c, l, on) ==
    /\ LoopFree
    /\ ~Waiting(c)
    /\ light[l].exists
    /\ Send(c, l, on)
    /\ UNCHANGED <<dbVars, act, poll, relay, edits, litBy, excuse, stay, hurried>>

\* The device obeys. A light switched on while a run is expiring its target,
\* or after it left the group, is lost to the timer.
Apply(w) ==
    LET l == w.light
        t == IF w.by \in Act THEN act[w.by].target ELSE Nobody
        lost == t \in Target /\ (BeingExpired(t) \/ l \notin Covers(t))
    IN  /\ ~w.applied
        /\ relay' = [relay EXCEPT ![l] = w.on]
        /\ wire' = (wire \ {w}) \cup {[w EXCEPT !.applied = TRUE]}
        /\ litBy' = [litBy EXCEPT ![l] = IF w.on THEN t ELSE Nobody]
        /\ excuse' = IF w.on /\ lost THEN excuse \cup {l} ELSE excuse \ {l}
        /\ stay' = [stay EXCEPT ![l] = IF w.on /\ t \in Target THEN AutoOff[t] ELSE 0]
        /\ hurried' = hurried \ {l}
        /\ UNCHANGED <<dbVars, act, poll, edits, blurred>>

\* Faulty variant: every answer records the output as on.
AnswerAlwaysOn(w) ==
    /\ LoopFree
    /\ w.applied
    /\ wire' = wire \ {w}
    /\ known' = [known EXCEPT ![w.light] = IF light[w.light].exists THEN TRUE ELSE @]
    /\ UNCHANGED <<light, groups, members, timers, act, poll, relay, edits, histVars>>

\* The answer arrives: lastKnownOutput is updated and the run goes on.
AnswerOk(w) ==
    /\ LoopFree
    /\ w.applied
    /\ wire' = wire \ {w}
    /\ known' = [known EXCEPT ![w.light] = IF light[w.light].exists THEN w.on ELSE @]
    /\ UNCHANGED <<light, groups, members, timers, act, poll, relay, edits, histVars>>

\* The call fails or times out, before or after the device obeyed: only the
\* command log tells, and the run goes on.
AnswerFailed(w) ==
    /\ LoopFree
    /\ wire' = wire \ {w}
    /\ blurred' = blurred \cup {w.light}
    /\ IF w.by \in Poll /\ ~w.applied THEN Excuse({w.light}, Targets(w.by))
                                      ELSE UNCHANGED excuse
    /\ UNCHANGED <<dbVars, act, poll, relay, edits, litBy, stay, hurried>>

Less(n) == IF n > 0 THEN n - 1 ELSE 0

\* One tick of time passes.
Tick ==
    /\ LoopFree
    /\ (\E r \in timers : r.left > 0) \/ (\E l \in Light : stay[l] > 0)
    /\ timers' = {[r EXCEPT !.left = Less(@)] : r \in timers}
    /\ stay' = [l \in Light |-> Less(stay[l])]
    /\ UNCHANGED <<light, known, groups, members, act, poll, wire, relay, edits,
                   litBy, excuse, blurred, hurried>>

-----------------------------------------------------------------------------
\* Operator edits and restarts

Edit == LoopFree /\ edits < MaxEdits /\ edits' = edits + 1

\* PATCH /api/floodlights/:id
SetMode(l, m) ==
    /\ Edit
    /\ light[l].exists /\ light[l].mode # m
    /\ light' = [light EXCEPT ![l].mode = m]
    /\ UNCHANGED <<known, groups, members, timers, runVars, relay, histVars>>

SetAutomation(l, b) ==
    /\ Edit
    /\ light[l].exists /\ light[l].automation # b
    /\ light' = [light EXCEPT ![l].automation = b]
    /\ UNCHANGED <<known, groups, members, timers, runVars, relay, histVars>>

\* PATCH /api/groups/:id with memberFloodlightIds
SetMembers(g, S) ==
    /\ Edit
    /\ g \in groups /\ members[g] # S
    /\ \A l \in S : light[l].exists
    /\ members' = [members EXCEPT ![g] = S]
    /\ Excuse(members[g] \ S, {g})
    /\ UNCHANGED <<light, known, groups, timers, runVars, relay, litBy, stay, blurred, hurried>>

\* DELETE /api/groups/:id leaves the group's timer row active.
DeleteGroup(g) ==
    /\ Edit
    /\ g \in groups
    /\ groups' = groups \ {g}
    /\ members' = [members EXCEPT ![g] = {}]
    /\ Excuse(members[g], {g})
    /\ UNCHANGED <<light, known, timers, runVars, relay, litBy, stay, blurred, hurried>>

\* DELETE /api/floodlights/:id
DeleteLight(l) ==
    /\ Edit
    /\ light[l].exists
    /\ light' = [light EXCEPT ![l].exists = FALSE]
    /\ members' = [g \in Group |-> members[g] \ {l}]
    /\ Excuse({l}, Target)
    /\ UNCHANGED <<known, groups, timers, runVars, relay, litBy, stay, blurred, hurried>>

\* The hub stops and starts again: the tables survive, the runs do not. An
\* execution cut short has switched floodlights on and leaves them whatever
\* timer its target had before, or none.
Restart ==
    LET cut == {act[a].target : a \in {b \in Act : act[b].pc # "idle"}}
    IN  /\ edits < MaxEdits
        /\ edits' = edits + 1
        /\ act' = [a \in Act |-> IdleAct]
        /\ poll' = [p \in Poll |-> IdlePoll]
        /\ wire' = {}
        /\ blurred' = blurred \cup {w.light : w \in wire}
        /\ Excuse(Light, cut \ {r.target : r \in timers})
        /\ stay' = [l \in Light |-> IF litBy[l] \in cut THEN 0 ELSE stay[l]]
        /\ UNCHANGED <<dbVars, relay, litBy, hurried>>

-----------------------------------------------------------------------------
Init ==
    /\ light = [l \in Light |-> [exists |-> TRUE, automation |-> TRUE, mode |-> "none"]]
    /\ known = [l \in Light |-> FALSE]
    /\ groups = Group
    /\ members \in [Group -> SUBSET Light]
    /\ timers = {}
    /\ act = [a \in Act |-> IdleAct]
    /\ poll = [p \in Poll |-> IdlePoll]
    /\ wire = {}
    /\ relay = [l \in Light |-> FALSE]
    /\ edits = 0
    /\ litBy = [l \in Light |-> Nobody]
    /\ excuse = {}
    /\ stay = [l \in Light |-> 0]
    /\ blurred = {}
    /\ hurried = {}

Start(a) ==
    \/ \E g \in Group \cap Routed : StartGroup(a, g)
    \/ \E l \in Light \cap Routed : StartLight(a, l)

ActStep(a) ==
    \/ \E l \in Light : SendOn(a, l) \/ SkipOn(a, l)
    \/ FindTimer(a)
    \/ WriteTimer(a)

PollStep(p) ==
    \/ NextRow(p)
    \/ \E l \in Light : SendOff(p, l) \/ SkipOff(p, l)
    \/ Deactivate(p)

Answer(w) == AnswerOk(w) \/ AnswerFailed(w)

Operator ==
    \/ \E l \in Light, m \in Mode : SetMode(l, m)
    \/ \E l \in Light, b \in BOOLEAN : SetAutomation(l, b)
    \/ \E g \in Group, S \in SUBSET Light : SetMembers(g, S)
    \/ \E g \in Group : DeleteGroup(g)
    \/ \E l \in Light : DeleteLight(l)

Next ==
    \/ \E a \in Act : Start(a) \/ ActStep(a)
    \/ \E p \in Poll : PollStart(p) \/ PollStep(p)
    \/ \E c \in Cmd, l \in Light, on \in BOOLEAN : Manual(c, l, on)
    \/ \E w \in wire : Apply(w) \/ Answer(w)
    \/ Tick
    \/ Operator
    \/ Restart

Spec == Init /\ [][Next]_vars

\* Every run goes on, since every Shelly call ends by an answer or by its
\* timeout; the interval keeps firing; time passes.
Fairness ==
    /\ \A a \in Act : WF_vars(ActStep(a))
    /\ \A p \in Poll : WF_vars(PollStep(p))
    /\ WF_vars(\E p \in Poll : PollStart(p))
    /\ \A p \in Proc : WF_vars(\E w \in wire : w.by = p /\ Answer(w))
    /\ WF_vars(Tick)

FairSpec == Spec /\ Fairness

-----------------------------------------------------------------------------
\* Properties

\* Lit for a target whose activation is followed by a timer, and not lost.
Owed(l) == /\ relay[l]
           /\ l \notin excuse
           /\ litBy[l] \in Group \/ (litBy[l] \in Light /\ AutoOff[litBy[l]] > 0)

\* A floodlight that automation switched on is covered by an active timer of
\* its target that lasts for as long as the floodlight should stay on, or by an
\* execution that will still write one, unless one of the named causes lost it:
\* it was forced on or deleted when the timer expired, its off command failed,
\* it left the group, it was switched on while its target's row was being
\* expired, or the hub restarted before the timer was written. Nothing else
\* strands a lit floodlight, or leaves it a timer shorter than the last
\* activation promised.
LitIsCovered ==
    \A l \in Light : Owed(l) =>
        \/ \E r \in timers : r.target = litBy[l] /\ stay[l] <= r.left
        \/ \E a \in Act : /\ act[a].pc # "idle"
                          /\ act[a].target = litBy[l]

\* lastKnownOutput tells the real output of a floodlight that no command is
\* under way for, unless its last command failed or overlapped another.
KnownOutputAgrees ==
    \A l \in Light :
        (light[l].exists /\ l \notin blurred /\ \A w \in wire : w.light # l)
            => known[l] = relay[l]

\* In this step a run that is at a row of the target that lit l last switches l
\* off.
TimedOff(l) ==
    /\ relay[l] /\ ~relay'[l]
    /\ \E p \in Poll : litBy[l] \in Targets(p) /\ \E w \in wire \ wire' : w.by = p

\* However executions, expiry runs, dashboard commands, edits and restarts
\* overlap, the service switches a floodlight off on behalf of the target that
\* lit it last only when the target's full duration has passed since then,
\* whether the activation came before the interval fired or after the row was
\* refreshed. Two races are excepted by name: the target's row had expired and
\* was read while an activation was still to refresh it, or beside a duplicate
\* that was refreshed (hurried); and the floodlight was switched on while the
\* row, already read, was being expired (excuse). The other causes of excuse cut
\* no duration, but what becomes of a floodlight that was lost is not promised.
FullDurationUnlessRaced ==
    [][\A l \in Light \ (excuse \cup hurried) : TimedOff(l) => stay[l] = 0]_vars

\* Group retriggers refresh the full auto-off duration: the service never
\* switches a floodlight off on behalf of the target that lit it last before
\* the full duration has passed since then.
FullDuration == [][\A l \in Light : TimedOff(l) => stay[l] = 0]_vars

\* The timer row of a target that has a floodlight lit for it is never
\* deactivated with time left on it.
RefreshSurvives ==
    [][\A r \in timers :
          (r.left > 0 /\ \E l \in Light : relay[l] /\ litBy[l] = r.target)
              => r.id \in {x.id : x \in timers'}]_vars

\* Once activity stops, every floodlight that automation lit goes off, unless
\* it is lost for one of the named causes.
NoMoreEvents == \A a \in Act : act[a].pc = "idle"
AutoOffHappens == <>[]NoMoreEvents => \A l \in Light : []<>~Owed(l)

=============================================================================
