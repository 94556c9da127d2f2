----------------------- MODULE FloodlightTimers_proofs -----------------------
(***************************************************************************)
(* Proofs about FloodlightTimers, for any floodlights, groups, durations   *)
(* and numbers of runs in progress together.                               *)
(***************************************************************************)
EXTENDS FloodlightTimers, TLAPS

\* Next, one disjunct per action.
LEMMA NextActions ==
    ASSUME Next
    PROVE  \/ \E a \in Act, g \in Group : StartGroup(a, g)
           \/ \E a \in Act, l \in Light : StartLight(a, l)
           \/ \E a \in Act, l \in Light : SendOn(a, l)
           \/ \E a \in Act, l \in Light : SkipOn(a, l)
           \/ \E a \in Act : FindTimer(a)
           \/ \E a \in Act : WriteTimer(a)
           \/ \E p \in Poll : PollStart(p)
           \/ \E p \in Poll : NextRow(p)
           \/ \E p \in Poll, l \in Light : SendOff(p, l)
           \/ \E p \in Poll, l \in Light : SkipOff(p, l)
           \/ \E p \in Poll : Deactivate(p)
           \/ \E c \in Cmd, l \in Light, on \in BOOLEAN : Manual(c, l, on)
           \/ \E w \in wire : Apply(w)
           \/ \E w \in wire : AnswerOk(w)
           \/ \E w \in wire : AnswerFailed(w)
           \/ Tick
           \/ \E l \in Light, m \in Mode : SetMode(l, m)
           \/ \E l \in Light, b \in BOOLEAN : SetAutomation(l, b)
           \/ \E g \in Group, S \in SUBSET Light : SetMembers(g, S)
           \/ \E g \in Group : DeleteGroup(g)
           \/ \E l \in Light : DeleteLight(l)
           \/ Restart
  BY DEF Next, Start, ActStep, PollStep, Answer, Operator

USE DEF Target, Proc

-----------------------------------------------------------------------------
\* Type correctness

\* Sending a command keeps the commands and their history in range.
LEMMA SendType ==
    ASSUME NEW p \in Proc, NEW l \in Light, NEW on \in BOOLEAN,
           wire \subseteq Command, blurred \subseteq Light, Send(p, l, on)
    PROVE  wire' \subseteq Command /\ blurred' \subseteq Light
<1>1. [by |-> p, light |-> l, on |-> on, applied |-> FALSE] \in Command
  BY DEF Command
<1>2. QED
  BY <1>1 DEF Send

\* So does recording a cause.
LEMMA ExcuseType ==
    ASSUME NEW S \in SUBSET Light, NEW T, excuse \subseteq Light, Excuse(S, T)
    PROVE  excuse' \subseteq Light
  BY DEF Excuse

\* An execution that is not idle has a target.
LEMMA RunningType ==
    ASSUME act \in [Act -> ActState], NEW a \in Act, act[a].pc # "idle"
    PROVE  /\ act[a] \in Running
           /\ act[a].target \in Target
<1>1. act[a] \in Running
  BY DEF ActState, IdleAct
<1>2. QED
  BY <1>1 DEF Running

\* Every variable stays in its range.
THEOREM TypeCorrect == Spec => []TypeOK
<1>1. Init => TypeOK
  BY TargetAssumption DEF Init, TypeOK, IdlePoll, OverrideMode, LightRow, ActState, PollState
<1>2. TypeOK /\ [Next]_vars => TypeOK'
  <2> SUFFICES ASSUME TypeOK, [Next]_vars PROVE TypeOK'
    OBVIOUS
  <2> USE DEF dbVars, runVars, histVars
  <2>0. /\ light \in [Light -> LightRow]
        /\ known \in [Light -> BOOLEAN]
        /\ members \in [Group -> SUBSET Light]
        /\ act \in [Act -> ActState]
        /\ poll \in [Poll -> PollState]
        /\ wire \subseteq Command
        /\ timers \subseteq Row
        /\ excuse \subseteq Light /\ blurred \subseteq Light
    BY DEF TypeOK
  <2>1. ASSUME NEW a \in Act, NEW g \in Group, StartGroup(a, g) PROVE TypeOK'
    <3>1. act' \in [Act -> ActState]
      BY <2>0, <2>1 DEF StartGroup, ActState, Running
    <3>2. QED
      BY <2>1, <3>1 DEF StartGroup, TypeOK
  <2>2. ASSUME NEW a \in Act, NEW l \in Light, StartLight(a, l) PROVE TypeOK'
    <3>1. act' \in [Act -> ActState]
      BY <2>0, <2>2 DEF StartLight, ActState, Running
    <3>2. QED
      BY <2>2, <3>1 DEF StartLight, TypeOK
  <2>3. ASSUME NEW a \in Act, NEW l \in Light, SendOn(a, l) PROVE TypeOK'
    <3>1. wire' \subseteq Command /\ blurred' \subseteq Light
      BY <2>0, <2>3, SendType DEF SendOn
    <3>2. [act[a] EXCEPT !.todo = @ \ {l}] \in Running
      BY <2>0, <2>3, RunningType DEF SendOn, Running
    <3>3. act' \in [Act -> ActState]
      BY <2>0, <2>3, <3>2 DEF SendOn, ActState
    <3>4. QED
      BY <2>3, <3>1, <3>3 DEF SendOn, TypeOK
  <2>4. ASSUME NEW a \in Act, NEW l \in Light, SkipOn(a, l) PROVE TypeOK'
    <3>1. [act[a] EXCEPT !.todo = @ \ {l}] \in Running
      BY <2>0, <2>4, RunningType DEF SkipOn, Running
    <3>2. act' \in [Act -> ActState]
      BY <2>0, <2>4, <3>1 DEF SkipOn, ActState
    <3>3. QED
      BY <2>4, <3>2 DEF SkipOn, TypeOK
  <2>5. ASSUME NEW a \in Act, FindTimer(a) PROVE TypeOK'
    <3>1. /\ \A r \in timers : r.id \in RowId
          /\ act[a] \in Running
      BY <2>0, <2>5, RunningType DEF FindTimer, Row
    <3>2. act' \in [Act -> ActState]
      <4>1. CASE act' = [act EXCEPT ![a] = IdleAct]
        BY <2>0, <4>1 DEF ActState
      <4>2. CASE act' = [act EXCEPT ![a].pc = "write"]
        BY <2>0, <3>1, <4>2 DEF ActState, Running
      <4>3. ASSUME NEW r \in timers, act' = [act EXCEPT ![a].pc = "write", ![a].found = r.id]
            PROVE  act' \in [Act -> ActState]
        BY <2>0, <3>1, <4>3 DEF ActState, Running
      <4>4. QED
        BY <2>5, <4>1, <4>2, <4>3 DEF FindTimer
    <3>3. QED
      BY <2>5, <3>2 DEF FindTimer, TypeOK
  <2>6. ASSUME NEW a \in Act, WriteTimer(a) PROVE TypeOK'
    <3>1. act' \in [Act -> ActState]
      BY <2>0, <2>6 DEF WriteTimer, ActState
    <3>2. act[a].target \in Target /\ AutoOff[act[a].target] \in Nat
      BY <2>0, <2>6, RunningType, TargetAssumption DEF WriteTimer
    <3>3. \A r \in Row : [r EXCEPT !.left = AutoOff[act[a].target]] \in Row
      BY <3>2 DEF Row
    <3>4. \A i \in RowId : [id |-> i, target |-> act[a].target,
                            left |-> AutoOff[act[a].target]] \in Row
      BY <3>2 DEF Row
    <3>5. timers' \subseteq Row
      BY <2>0, <2>6, <3>3, <3>4 DEF WriteTimer
    <3>6. QED
      BY <2>6, <3>1, <3>5 DEF WriteTimer, TypeOK
  <2>7. ASSUME NEW p \in Poll, PollStart(p) PROVE TypeOK'
    <3>1. Expired \subseteq RowRef
      BY <2>0 DEF Expired, Row, RowRef
    <3>2. poll' \in [Poll -> PollState]
      BY <2>0, <2>7, <3>1 DEF PollStart, PollState
    <3>3. hurried' \subseteq Light
      BY <2>7 DEF PollStart, TypeOK
    <3>4. QED
      BY <2>7, <3>2, <3>3 DEF PollStart, TypeOK
  <2>8. ASSUME NEW p \in Poll, NextRow(p) PROVE TypeOK'
    <3>1. PICK h \in poll[p].rows :
             poll' = [poll EXCEPT ![p] = [rows |-> @.rows \ {h}, cur |-> {h},
                                          todo |-> IF h.target \in Group /\ h.target \notin groups
                                                   THEN {} ELSE Covers(h.target)]]
      BY <2>8 DEF NextRow
    <3>2. h \in RowRef /\ h.target \in Target
      BY <2>0 DEF PollState, RowRef
    <3>3. Covers(h.target) \subseteq Light
      BY <2>0, <3>2 DEF Covers
    <3>4. poll' \in [Poll -> PollState]
      BY <2>0, <3>1, <3>2, <3>3 DEF PollState
    <3>5. QED
      BY <2>8, <3>4 DEF NextRow, TypeOK
  <2>9. ASSUME NEW p \in Poll, NEW l \in Light, SendOff(p, l) PROVE TypeOK'
    <3>1. wire' \subseteq Command /\ blurred' \subseteq Light
      BY <2>0, <2>9, SendType DEF SendOff
    <3>2. poll' \in [Poll -> PollState]
      BY <2>0, <2>9 DEF SendOff, PollState
    <3>3. QED
      BY <2>9, <3>1, <3>2 DEF SendOff, TypeOK
  <2>10. ASSUME NEW p \in Poll, NEW l \in Light, SkipOff(p, l) PROVE TypeOK'
    <3>1. excuse' \subseteq Light
      BY <2>0, <2>10, ExcuseType DEF SkipOff
    <3>2. poll' \in [Poll -> PollState]
      BY <2>0, <2>10 DEF SkipOff, PollState
    <3>3. QED
      BY <2>10, <3>1, <3>2 DEF SkipOff, TypeOK
  <2>11. ASSUME NEW p \in Poll, Deactivate(p) PROVE TypeOK'
    <3>1. timers' \subseteq Row
      BY <2>0, <2>11 DEF Deactivate
    <3>2. poll' \in [Poll -> PollState]
      BY <2>0, <2>11 DEF Deactivate, PollState
    <3>3. QED
      BY <2>11, <3>1, <3>2 DEF Deactivate, TypeOK
  <2>12. ASSUME NEW c \in Cmd, NEW l \in Light, NEW on \in BOOLEAN, Manual(c, l, on) PROVE TypeOK'
    <3>1. wire' \subseteq Command /\ blurred' \subseteq Light
      BY <2>0, <2>12, SendType DEF Manual
    <3>2. QED
      BY <2>12, <3>1 DEF Manual, TypeOK
  <2>13. ASSUME NEW w \in wire, Apply(w) PROVE TypeOK'
    <3> DEFINE t == IF w.by \in Act THEN act[w.by].target ELSE Nobody
    <3>1. w \in Command /\ w.light \in Light /\ w.on \in BOOLEAN
      BY <2>0 DEF Command
    <3>2. t \in Target \cup {Nobody}
      BY <2>0 DEF ActState, Running, IdleAct
    <3>3. wire' \subseteq Command
      BY <2>0, <2>13, <3>1 DEF Apply, Command
    <3>4. relay' \in [Light -> BOOLEAN] /\ litBy' \in [Light -> Target \cup {Nobody}]
      BY <2>13, <3>1, <3>2 DEF Apply, TypeOK
    <3>5. stay' \in [Light -> Nat] /\ excuse' \subseteq Light /\ hurried' \subseteq Light
      BY <2>13, <3>1, <3>2, TargetAssumption DEF Apply, TypeOK
    <3>6. QED
      BY <2>13, <3>3, <3>4, <3>5 DEF Apply, TypeOK
  <2>14. ASSUME NEW w \in wire, AnswerOk(w) PROVE TypeOK'
    <3>1. w.light \in Light /\ w.on \in BOOLEAN
      BY <2>0 DEF Command
    <3>2. known' \in [Light -> BOOLEAN]
      BY <2>0, <2>14, <3>1 DEF AnswerOk
    <3>3. QED
      BY <2>14, <3>2 DEF AnswerOk, TypeOK
  <2>15. ASSUME NEW w \in wire, AnswerFailed(w) PROVE TypeOK'
    <3>1. w.light \in Light
      BY <2>0 DEF Command
    <3>2. excuse' \subseteq Light
      BY <2>0, <2>15, <3>1, ExcuseType DEF AnswerFailed
    <3>3. QED
      BY <2>15, <3>1, <3>2 DEF AnswerFailed, TypeOK
  <2>16. CASE Tick
    <3>1. \A r \in Row : [r EXCEPT !.left = Less(@)] \in Row
      BY DEF Less, Row
    <3>2. timers' \subseteq Row
      BY <2>0, <2>16, <3>1 DEF Tick
    <3>3. stay' \in [Light -> Nat]
      BY <2>16 DEF Tick, Less, TypeOK
    <3>4. QED
      BY <2>16, <3>2, <3>3 DEF Tick, TypeOK
  <2>17. ASSUME NEW l \in Light, NEW m \in Mode, SetMode(l, m) PROVE TypeOK'
    <3>1. light' \in [Light -> LightRow] /\ edits' \in Nat
      BY <2>0, <2>17, OtherAssumption DEF SetMode, Edit, LightRow, OverrideMode, TypeOK
    <3>2. QED
      BY <2>17, <3>1 DEF SetMode, TypeOK
  <2>18. ASSUME NEW l \in Light, NEW b \in BOOLEAN, SetAutomation(l, b) PROVE TypeOK'
    <3>1. light' \in [Light -> LightRow] /\ edits' \in Nat
      BY <2>0, <2>18 DEF SetAutomation, Edit, LightRow, TypeOK
    <3>2. QED
      BY <2>18, <3>1 DEF SetAutomation, TypeOK
  <2>19. ASSUME NEW g \in Group, NEW S \in SUBSET Light, SetMembers(g, S) PROVE TypeOK'
    <3>1. members' \in [Group -> SUBSET Light] /\ edits' \in Nat /\ excuse' \subseteq Light
      BY <2>0, <2>19, ExcuseType DEF SetMembers, Edit, TypeOK
    <3>2. QED
      BY <2>19, <3>1 DEF SetMembers, TypeOK
  <2>20. ASSUME NEW g \in Group, DeleteGroup(g) PROVE TypeOK'
    <3>1. members' \in [Group -> SUBSET Light] /\ edits' \in Nat /\ excuse' \subseteq Light
      BY <2>0, <2>20, ExcuseType DEF DeleteGroup, Edit, TypeOK
    <3>2. QED
      BY <2>20, <3>1 DEF DeleteGroup, TypeOK
  <2>21. ASSUME NEW l \in Light, DeleteLight(l) PROVE TypeOK'
    <3>1. light' \in [Light -> LightRow] /\ excuse' \subseteq Light
      BY <2>0, <2>21, ExcuseType DEF DeleteLight, LightRow
    <3>2. members' \in [Group -> SUBSET Light] /\ edits' \in Nat
      BY <2>0, <2>21 DEF DeleteLight, Edit, TypeOK
    <3>3. QED
      BY <2>21, <3>1, <3>2 DEF DeleteLight, TypeOK
  <2>22. CASE Restart
    <3>1. act' \in [Act -> ActState] /\ poll' \in [Poll -> PollState]
      BY <2>22 DEF Restart, IdlePoll, ActState, PollState
    <3>2. wire' \subseteq Command /\ blurred' \subseteq Light
      BY <2>0, <2>22 DEF Restart, Command
    <3>3. excuse' \subseteq Light /\ edits' \in Nat
      BY <2>0, <2>22, ExcuseType DEF Restart, TypeOK
    <3>4. QED
      BY <2>22, <3>1, <3>2, <3>3 DEF Restart, TypeOK
  <2>23. CASE UNCHANGED vars
    BY <2>23 DEF vars, TypeOK
  <2>24. QED
    BY <2>1, <2>2, <2>3, <2>4, <2>5, <2>6, <2>7, <2>8, <2>9, <2>10, <2>11, <2>12,
       <2>13, <2>14, <2>15, <2>16, <2>17, <2>18, <2>19, <2>20, <2>21, <2>22, <2>23,
       NextActions
<1>3. QED
  BY <1>1, <1>2, PTL DEF Spec

-----------------------------------------------------------------------------
\* The inductive invariant behind LitIsCovered

\* Between two callbacks only one kind of run is on.
Turns == ~(ActRuns /\ PollRuns)

\* A run has one command out at most. An execution commands floodlights on, and
\* only in its loop; a run of processExpired commands them off, for a row.
CommandsOut ==
    /\ \A w, v \in wire : w.by = v.by => w = v
    /\ \A w \in wire : w.by \in Act =>
          /\ w.on
          /\ act[w.by].pc = "members"
          /\ act[w.by].target \in Light => /\ w.light = act[w.by].target
                                           /\ act[w.by].todo = {}
    /\ \A w \in wire : w.by \in Poll => ~w.on /\ poll[w.by].cur # {}

\* The loop of a single floodlight has that floodlight only.
SingleLoop == \A a \in Act : act[a].target \in Light => act[a].todo \subseteq {act[a].target}

RunInv == Turns /\ CommandsOut /\ SingleLoop

UniqueRows == \A r, s \in timers : r.id = s.id => r = s

\* A row found is still there when it is refreshed.
FoundRow == \A a \in Act : act[a].found # NoRow =>
              /\ act[a].pc = "write"
              /\ \E r \in timers : r.id = act[a].found /\ r.target = act[a].target

\* A row read by processExpired keeps its target while it is active.
HeldRows == \A p \in Poll : \A h \in Held(p) : \A r \in timers :
              r.id = h.id => r.target = h.target

OneCurrent == \A p \in Poll : \A h, k \in poll[p].cur : h = k

RowInv == UniqueRows /\ FoundRow /\ HeldRows /\ OneCurrent

GroupsGone == \A g \in Group \ groups : members[g] = {}

LitInMembers == \A l \in Light : Owed(l) => l \in Covers(litBy[l])

\* A run that is at a row still has every floodlight lit for the row's target
\* before it: to be looked at, or commanded off but not yet off.
OffPending ==
    \A p \in Poll : \A h \in poll[p].cur : \A l \in Light :
        (Owed(l) /\ litBy[l] = h.target) =>
            \/ l \in poll[p].todo
            \/ \E w \in wire : w.by = p /\ w.light = l /\ ~w.applied

\* A floodlight is never to stay on longer than the target that lit it asks.
Promised == \A l \in Light : litBy[l] # Nobody => stay[l] <= AutoOff[litBy[l]]

\* LitIsCovered, with an execution of a single floodlight counted only once it
\* has passed the checks that may end it without a timer.
Covered ==
    \A l \in Light : Owed(l) =>
        \/ \E r \in timers : r.target = litBy[l] /\ stay[l] <= r.left
        \/ \E a \in Act : /\ act[a].pc # "idle"
                          /\ act[a].target = litBy[l]
                          /\ act[a].target \in Group \/ act[a].todo = {}

LitInv == GroupsGone /\ LitInMembers /\ OffPending /\ Covered

\* While a run of processExpired holds a row, the floodlights lit for the row's
\* target have had their full duration, unless a race is recorded for them.
DueWhenHeld ==
    \A p \in Poll : \A h \in Held(p) : \A l \in Light :
        (relay[l] /\ litBy[l] = h.target /\ l \notin excuse \cup hurried) => stay[l] = 0

IInv == TypeOK /\ RunInv /\ RowInv /\ Promised /\ LitInv /\ DueWhenHeld

-----------------------------------------------------------------------------
\* RunInv

\* Runs of a kind that was waiting or idle stay so while their state is
\* unchanged and no answer arrives.
LEMMA ActsRest ==
    ASSUME ~ActRuns, act' = act, wire \subseteq wire'
    PROVE  ~ActRuns'
  BY DEF ActRuns, Waiting

LEMMA PollsRest ==
    ASSUME ~PollRuns, poll' = poll, wire \subseteq wire'
    PROVE  ~PollRuns'
  BY DEF PollRuns, PollBusy, Waiting

\* When an answer arrives in a free loop, only its own run goes on.
LEMMA OneResumes ==
    ASSUME ProcAssumption, LoopFree, NEW w \in wire, wire' = wire \ {w},
           act' = act, poll' = poll
    PROVE  Turns'
  BY DEF LoopFree, ActRuns, PollRuns, PollBusy, Waiting, Turns, ProcAssumption

\* A command sent by a process that had none out, of the right kind for it.
LEMMA CommandsSent ==
    ASSUME CommandsOut, NEW p \in Proc, NEW l \in Light, NEW on \in BOOLEAN,
           Send(p, l, on), ~Waiting(p),
           \A q \in Act : Waiting(q) => act'[q] = act[q],
           \A q \in Poll : Waiting(q) => poll'[q] = poll[q],
           p \in Act => /\ on
                        /\ act'[p].pc = "members"
                        /\ act'[p].target \in Light => l = act'[p].target /\ act'[p].todo = {},
           p \in Poll => ~on /\ poll'[p].cur # {}
    PROVE  CommandsOut'
<1> DEFINE new == [by |-> p, light |-> l, on |-> on, applied |-> FALSE]
<1>1. wire' = wire \cup {new}
  BY DEF Send
<1>2. \A w \in wire : w.by # p /\ Waiting(w.by)
  BY DEF Waiting
<1>3. new.by = p /\ new.light = l /\ new.on = on
  OBVIOUS
<1> HIDE DEF new
<1>4. \A w, v \in wire' : w.by = v.by => w = v
  BY <1>1, <1>2, <1>3 DEF CommandsOut
<1>5. ASSUME NEW w \in wire', w.by \in Act
      PROVE  /\ w.on
             /\ act'[w.by].pc = "members"
             /\ act'[w.by].target \in Light => /\ w.light = act'[w.by].target
                                               /\ act'[w.by].todo = {}
  <2>1. CASE w \in wire
    BY <2>1, <1>2, <1>5 DEF CommandsOut
  <2>2. CASE w = new
    <3>1. p \in Act
      BY <2>2, <1>3, <1>5
    <3>2. /\ on
          /\ act'[p].pc = "members"
          /\ act'[p].target \in Light => l = act'[p].target /\ act'[p].todo = {}
      BY <3>1
    <3>3. QED
      BY <2>2, <1>3, <3>2, Zenon
  <2>3. QED
    BY <1>1, <2>1, <2>2
<1>6. ASSUME NEW w \in wire', w.by \in Poll PROVE ~w.on /\ poll'[w.by].cur # {}
  <2>1. CASE w \in wire
    BY <2>1, <1>2, <1>6 DEF CommandsOut
  <2>2. CASE w = new
    BY <2>2, <1>3, <1>6
  <2>3. QED
    BY <1>1, <2>1, <2>2
<1>7. QED
  BY <1>4, <1>5, <1>6 DEF CommandsOut

\* Commands are undisturbed when only runs that have none out change.
LEMMA CommandsKept ==
    ASSUME CommandsOut, wire' \subseteq wire,
           \A q \in Act : Waiting(q) => act'[q] = act[q],
           \A q \in Poll : Waiting(q) => poll'[q].cur = poll[q].cur
    PROVE  CommandsOut'
<1>1. \A w \in wire' : w \in wire /\ Waiting(w.by)
  BY DEF Waiting
<1>2. QED
  BY <1>1 DEF CommandsOut

LEMMA RunStep ==
    ASSUME TypeOK, RunInv, [Next]_vars
    PROVE  RunInv'
<1> USE DEF RunInv, dbVars, runVars, histVars
<1>0. /\ act \in [Act -> ActState]
      /\ poll \in [Poll -> PollState]
      /\ wire \subseteq Command
  BY DEF TypeOK
<1>a. \A a \in Act : (act[a].pc # "idle" /\ ~Waiting(a)) => ~PollRuns
  BY DEF Turns, ActRuns
<1>b. \A p \in Poll : (PollBusy(p) /\ ~Waiting(p)) => ~ActRuns
  BY DEF Turns, PollRuns
<1>c. \A p \in Poll : poll[p].cur = {} => ~Waiting(p)
  BY DEF CommandsOut, Waiting
<1>d. \A a \in Act : act[a].pc # "members" => ~Waiting(a)
  BY DEF CommandsOut, Waiting
<1>e. ASSUME UNCHANGED <<act, poll, wire>> PROVE RunInv'
  BY <1>e DEF Turns, ActRuns, PollRuns, PollBusy, Waiting, CommandsOut, SingleLoop
<1>1. ASSUME NEW a \in Act, NEW g \in Group, StartGroup(a, g) PROVE RunInv'
  <2>1. Turns'
    BY <1>1, PollsRest DEF StartGroup, Turns
  <2>2. CommandsOut'
    BY <1>0, <1>d, <1>1, CommandsKept DEF StartGroup
  <2>3. SingleLoop'
    BY <1>0, <1>1, TargetAssumption DEF StartGroup, SingleLoop
  <2>4. QED
    BY <2>1, <2>2, <2>3
<1>2. ASSUME NEW a \in Act, NEW l \in Light, StartLight(a, l) PROVE RunInv'
  <2>1. Turns'
    BY <1>2, PollsRest DEF StartLight, Turns
  <2>2. CommandsOut'
    BY <1>0, <1>d, <1>2, CommandsKept DEF StartLight
  <2>3. SingleLoop'
    BY <1>0, <1>2 DEF StartLight, SingleLoop
  <2>4. QED
    BY <2>1, <2>2, <2>3
<1>3. ASSUME NEW a \in Act, NEW l \in Light, SendOn(a, l) PROVE RunInv'
  <2>1. Turns'
    BY <1>3, <1>a, PollsRest DEF SendOn, Send, Turns
  <2>2. /\ act'[a].pc = "members"
        /\ act'[a].target = act[a].target
        /\ act'[a].todo = act[a].todo \ {l}
        /\ \A q \in Act : q # a => act'[q] = act[q]
        /\ l \in act[a].todo
    BY <1>0, <1>3 DEF SendOn, ActState, Running, IdleAct
  <2>3. CommandsOut'
    BY <1>3, <2>2, CommandsSent, ProcAssumption DEF SendOn, SingleLoop, ProcAssumption
  <2>4. SingleLoop'
    BY <2>2 DEF SingleLoop
  <2>5. QED
    BY <2>1, <2>3, <2>4
<1>4. ASSUME NEW a \in Act, NEW l \in Light, SkipOn(a, l) PROVE RunInv'
  <2>1. Turns'
    BY <1>4, <1>a, PollsRest DEF SkipOn, Turns
  <2>2. CommandsOut'
    BY <1>0, <1>4, CommandsKept DEF SkipOn
  <2>3. \A q \in Act : q # a => act'[q] = act[q]
    BY <1>0, <1>4 DEF SkipOn
  <2>4. act'[a] = IdleAct \/ /\ act'[a].target = act[a].target
                             /\ act'[a].todo = act[a].todo \ {l}
    <3>1. act[a] \in Running
      BY <1>0, <1>4, RunningType DEF SkipOn
    <3>2. CASE act' = [act EXCEPT ![a] = IdleAct]
      BY <1>0, <3>2
    <3>3. CASE act' = [act EXCEPT ![a].todo = @ \ {l}]
      BY <1>0, <3>1, <3>3 DEF Running
    <3>4. QED
      BY <1>4, <3>2, <3>3 DEF SkipOn
  <2>5. SingleLoop'
    BY <2>3, <2>4 DEF SingleLoop, IdleAct
  <2>6. QED
    BY <2>1, <2>2, <2>5
<1>5. ASSUME NEW a \in Act, FindTimer(a) PROVE RunInv'
  <2>1. Turns'
    BY <1>5, <1>a, PollsRest DEF FindTimer, Turns
  <2>2. \A q \in Act : q # a => act'[q] = act[q]
    BY <1>0, <1>5 DEF FindTimer
  <2>3. CommandsOut'
    BY <1>5, <2>2, CommandsKept DEF FindTimer
  <2>4. act'[a].todo = {}
    BY <1>0, <1>5, RunningType DEF FindTimer, Running, IdleAct
  <2>5. SingleLoop'
    BY <2>2, <2>4 DEF SingleLoop
  <2>6. QED
    BY <2>1, <2>3, <2>5
<1>6. ASSUME NEW a \in Act, WriteTimer(a) PROVE RunInv'
  <2>1. ~Waiting(a)
    BY <1>6, <1>d DEF WriteTimer
  <2>2. Turns'
    BY <1>6, <1>a, <2>1, PollsRest DEF WriteTimer, Turns
  <2>3. CommandsOut'
    BY <1>0, <1>6, <2>1, CommandsKept DEF WriteTimer
  <2>4. SingleLoop'
    BY <1>0, <1>6 DEF WriteTimer, SingleLoop, IdleAct
  <2>5. QED
    BY <2>2, <2>3, <2>4
<1>7. ASSUME NEW p \in Poll, PollStart(p) PROVE RunInv'
  <2>1. Turns'
    BY <1>7, ActsRest DEF PollStart, LoopFree, Turns
  <2>2. \A q \in Poll : poll'[q].cur = poll[q].cur
    BY <1>0, <1>7 DEF PollStart, PollState
  <2>3. CommandsOut'
    BY <1>7, <2>2, CommandsKept DEF PollStart
  <2>4. SingleLoop'
    BY <1>7 DEF PollStart, SingleLoop
  <2>5. QED
    BY <2>1, <2>3, <2>4
<1>8. ASSUME NEW p \in Poll, NextRow(p) PROVE RunInv'
  <2>1. PollBusy(p) /\ ~Waiting(p)
    BY <1>8, <1>c DEF NextRow, PollBusy
  <2>2. Turns'
    BY <1>8, <2>1, <1>b, ActsRest DEF NextRow, Turns
  <2>3. \A q \in Poll : q # p => poll'[q] = poll[q]
    BY <1>0, <1>8 DEF NextRow
  <2>4. CommandsOut'
    BY <1>8, <2>1, <2>3, CommandsKept DEF NextRow
  <2>5. SingleLoop'
    BY <1>8 DEF NextRow, SingleLoop
  <2>6. QED
    BY <2>2, <2>4, <2>5
<1>9. ASSUME NEW p \in Poll, NEW l \in Light, SendOff(p, l) PROVE RunInv'
  <2>1. PollBusy(p) /\ ~Waiting(p)
    BY <1>9 DEF SendOff, PollBusy
  <2>2. Turns'
    BY <1>9, <2>1, <1>b, ActsRest DEF SendOff, Send, Turns
  <2>3. poll'[p].cur # {} /\ \A q \in Poll : q # p => poll'[q] = poll[q]
    BY <1>0, <1>9 DEF SendOff, PollState
  <2>4. CommandsOut'
    BY <1>9, <2>1, <2>3, CommandsSent, ProcAssumption DEF SendOff, ProcAssumption
  <2>5. SingleLoop'
    BY <1>9 DEF SendOff, SingleLoop
  <2>6. QED
    BY <2>2, <2>4, <2>5
<1>10. ASSUME NEW p \in Poll, NEW l \in Light, SkipOff(p, l) PROVE RunInv'
  <2>1. PollBusy(p) /\ ~Waiting(p)
    BY <1>10 DEF SkipOff, PollBusy
  <2>2. Turns'
    BY <1>10, <2>1, <1>b, ActsRest DEF SkipOff, Turns
  <2>3. \A q \in Poll : q # p => poll'[q] = poll[q]
    BY <1>0, <1>10 DEF SkipOff
  <2>4. CommandsOut'
    BY <1>10, <2>1, <2>3, CommandsKept DEF SkipOff
  <2>5. SingleLoop'
    BY <1>10 DEF SkipOff, SingleLoop
  <2>6. QED
    BY <2>2, <2>4, <2>5
<1>11. ASSUME NEW p \in Poll, Deactivate(p) PROVE RunInv'
  <2>1. PollBusy(p) /\ ~Waiting(p)
    BY <1>11 DEF Deactivate, PollBusy
  <2>2. Turns'
    BY <1>11, <2>1, <1>b, ActsRest DEF Deactivate, Turns
  <2>3. \A q \in Poll : q # p => poll'[q] = poll[q]
    BY <1>0, <1>11 DEF Deactivate
  <2>4. CommandsOut'
    BY <1>11, <2>1, <2>3, CommandsKept DEF Deactivate
  <2>5. SingleLoop'
    BY <1>11 DEF Deactivate, SingleLoop
  <2>6. QED
    BY <2>2, <2>4, <2>5
<1>12. ASSUME NEW c \in Cmd, NEW l \in Light, NEW on \in BOOLEAN, Manual(c, l, on) PROVE RunInv'
  <2>1. Turns'
    BY <1>12, ActsRest DEF Manual, LoopFree, Send, Turns
  <2>2. CommandsOut'
    BY <1>12, CommandsSent, ProcAssumption DEF Manual, ProcAssumption
  <2>3. SingleLoop'
    BY <1>12 DEF Manual, SingleLoop
  <2>4. QED
    BY <2>1, <2>2, <2>3
<1>13. ASSUME NEW w \in wire, Apply(w) PROVE RunInv'
  <2> DEFINE v == [w EXCEPT !.applied = TRUE]
  <2>1. /\ wire' = (wire \ {w}) \cup {v}
        /\ v.by = w.by /\ v.light = w.light /\ v.on = w.on
    BY <1>0, <1>13 DEF Apply, Command
  <2> HIDE DEF v
  <2>2. \A q : Waiting(q)' <=> Waiting(q)
    BY <2>1 DEF Waiting
  <2>3. Turns'
    BY <1>13, <2>2 DEF Apply, Turns, ActRuns, PollRuns, PollBusy
  <2>4. CommandsOut'
    <3>1. \A x \in wire' : \E y \in wire :
              x.by = y.by /\ x.light = y.light /\ x.on = y.on
      BY <2>1
    <3>2. \A x, y \in wire' : x.by = y.by => x = y
      BY <2>1 DEF CommandsOut
    <3>3. ASSUME NEW x \in wire', x.by \in Act
          PROVE  /\ x.on
                 /\ act[x.by].pc = "members"
                 /\ act[x.by].target \in Light => x.light = act[x.by].target /\ act[x.by].todo = {}
      <4>1. PICK y \in wire : x.by = y.by /\ x.light = y.light /\ x.on = y.on
        BY <3>1
      <4>2. QED
        BY <3>3, <4>1, Zenon DEF CommandsOut
    <3>4. ASSUME NEW x \in wire', x.by \in Poll PROVE ~x.on /\ poll[x.by].cur # {}
      <4>1. PICK y \in wire : x.by = y.by /\ x.light = y.light /\ x.on = y.on
        BY <3>1
      <4>2. QED
        BY <3>4, <4>1, Zenon DEF CommandsOut
    <3>5. act' = act /\ poll' = poll
      BY <1>13 DEF Apply
    <3>6. QED
      BY <3>2, <3>3, <3>4, <3>5 DEF CommandsOut
  <2>5. SingleLoop'
    BY <1>13 DEF Apply, SingleLoop
  <2>6. QED
    BY <2>3, <2>4, <2>5
<1>14. ASSUME NEW w \in wire, AnswerOk(w) \/ AnswerFailed(w) PROVE RunInv'
  <2>1. LoopFree /\ wire' = wire \ {w} /\ act' = act /\ poll' = poll
    BY <1>14 DEF AnswerOk, AnswerFailed
  <2>2. Turns'
    BY <2>1, OneResumes, ProcAssumption
  <2>3. CommandsOut'
    BY <2>1, CommandsKept
  <2>4. SingleLoop'
    BY <2>1 DEF SingleLoop
  <2>5. QED
    BY <2>2, <2>3, <2>4
<1>15. CASE Restart
  <2>1. /\ \A a \in Act : act'[a] = IdleAct
        /\ wire' = {}
    BY <1>15 DEF Restart
  <2>2. QED
    BY <2>1 DEF Turns, ActRuns, CommandsOut, SingleLoop, IdleAct
<1>16. ASSUME \/ Tick
              \/ \E l \in Light, m \in Mode : SetMode(l, m)
              \/ \E l \in Light, b \in BOOLEAN : SetAutomation(l, b)
              \/ \E g \in Group, S \in SUBSET Light : SetMembers(g, S)
              \/ \E g \in Group : DeleteGroup(g)
              \/ \E l \in Light : DeleteLight(l)
              \/ UNCHANGED vars
       PROVE  RunInv'
  BY <1>16, <1>e DEF Tick, SetMode, SetAutomation, SetMembers, DeleteGroup, DeleteLight, vars
<1>17. QED
  BY <1>1, <1>2, <1>3, <1>4, <1>5, <1>6, <1>7, <1>8, <1>9, <1>10, <1>11, <1>12,
     <1>13, <1>14, <1>15, <1>16, NextActions

-----------------------------------------------------------------------------
\* RowInv

\* Rows that are only rewritten in place keep their ids and their targets.
LEMMA RowsRewritten ==
    ASSUME RowInv, NEW f, timers' = {f[r] : r \in timers},
           \A r \in timers : f[r].id = r.id /\ f[r].target = r.target
    PROVE  /\ UniqueRows'
           /\ poll' = poll => HeldRows'
           /\ \A r \in timers : \E x \in timers' : x.id = r.id /\ x.target = r.target
<1>1. \A x \in timers' : \E r \in timers : x = f[r]
  OBVIOUS
<1>2. UniqueRows'
  <2> SUFFICES ASSUME NEW x \in timers', NEW y \in timers', x.id = y.id PROVE x = y
    BY DEF UniqueRows
  <2>1. PICK r \in timers : x = f[r]
    BY <1>1
  <2>2. PICK s \in timers : y = f[s]
    BY <1>1
  <2>3. r = s
    BY <2>1, <2>2 DEF RowInv, UniqueRows
  <2>4. QED
    BY <2>1, <2>2, <2>3
<1>3. ASSUME poll' = poll PROVE HeldRows'
  BY <1>1, <1>3 DEF RowInv, HeldRows, Held
<1>4. QED
  BY <1>2, <1>3

LEMMA RowStep ==
    ASSUME TypeOK, RunInv, RowInv, [Next]_vars
    PROVE  RowInv'
<1> USE DEF dbVars, runVars, histVars
<1>0. /\ act \in [Act -> ActState]
      /\ poll \in [Poll -> PollState]
      /\ UniqueRows /\ FoundRow /\ HeldRows /\ OneCurrent
  BY DEF TypeOK, RowInv
<1>a. \A a \in Act : act[a].pc # "write" => act[a].found = NoRow
  BY <1>0 DEF FoundRow
<1>b. ASSUME UNCHANGED <<timers, act, poll>> PROVE RowInv'
  BY <1>0, <1>b DEF RowInv, UniqueRows, FoundRow, HeldRows, OneCurrent, Held
<1>c. ASSUME NEW a \in Act, timers' = timers, poll' = poll,
             \A q \in Act \ {a} : act'[q] = act[q],
             act'[a].found # NoRow => act'[a] = act[a]
      PROVE  RowInv'
  BY <1>0, <1>c DEF RowInv, UniqueRows, FoundRow, HeldRows, OneCurrent, Held
<1>d. ASSUME NEW p \in Poll, timers' = timers, act' = act,
             \A q \in Poll \ {p} : poll'[q] = poll[q],
             \A h \in Held(p)' : \A r \in timers : r.id = h.id => r.target = h.target,
             \A h, k \in poll'[p].cur : h = k
      PROVE  RowInv'
  <2>1. HeldRows'
    <3> SUFFICES ASSUME NEW q \in Poll, NEW h \in Held(q)', NEW r \in timers, r.id = h.id
                 PROVE  r.target = h.target
      BY <1>d DEF HeldRows
    <3>1. CASE q = p
      BY <1>d, <3>1
    <3>2. CASE q # p
      BY <1>0, <1>d, <3>2 DEF HeldRows, Held
    <3>3. QED
      BY <3>1, <3>2
  <2>2. OneCurrent'
    BY <1>0, <1>d DEF OneCurrent
  <2>3. QED
    BY <1>0, <1>d, <2>1, <2>2 DEF RowInv, UniqueRows, FoundRow
<1>1. ASSUME NEW a \in Act,
             \/ \E g \in Group : StartGroup(a, g)
             \/ \E l \in Light : StartLight(a, l)
      PROVE  RowInv'
  <2>1. /\ timers' = timers /\ poll' = poll
        /\ \A q \in Act \ {a} : act'[q] = act[q]
        /\ act'[a].found = NoRow
    BY <1>0, <1>1 DEF StartGroup, StartLight
  <2>2. QED
    BY <1>c, <2>1
<1>2. ASSUME NEW a \in Act, NEW l \in Light, SendOn(a, l) \/ SkipOn(a, l) PROVE RowInv'
  <2>1. act[a] \in Running /\ act[a].found = NoRow
    BY <1>0, <1>a, <1>2, RunningType DEF SendOn, SkipOn
  <2>2. /\ timers' = timers /\ poll' = poll
        /\ \A q \in Act \ {a} : act'[q] = act[q]
    BY <1>0, <1>2 DEF SendOn, SkipOn
  <2>3. act'[a].found = NoRow
    <3>1. CASE act' = [act EXCEPT ![a].todo = @ \ {l}]
      BY <1>0, <2>1, <3>1 DEF Running
    <3>2. CASE act' = [act EXCEPT ![a] = IdleAct]
      BY <1>0, <3>2 DEF IdleAct
    <3>3. QED
      BY <1>2, <3>1, <3>2 DEF SendOn, SkipOn
  <2>4. QED
    BY <1>c, <2>2, <2>3
<1>3. ASSUME NEW a \in Act, FindTimer(a) PROVE RowInv'
  <2>1. act[a] \in Running /\ act[a].found = NoRow
    BY <1>0, <1>a, <1>3, RunningType DEF FindTimer
  <2>2. /\ timers' = timers /\ poll' = poll
        /\ \A q \in Act \ {a} : act'[q] = act[q]
    BY <1>0, <1>3 DEF FindTimer
  <2>3. \/ act'[a].found = NoRow
        \/ \E r \in timers : /\ r.target = act[a].target
                             /\ act'[a].pc = "write"
                             /\ act'[a].target = act[a].target
                             /\ act'[a].found = r.id
    <3>1. CASE act' = [act EXCEPT ![a] = IdleAct]
      BY <1>0, <3>1 DEF IdleAct
    <3>2. CASE act' = [act EXCEPT ![a].pc = "write"]
      BY <1>0, <2>1, <3>2 DEF Running
    <3>3. ASSUME NEW r \in timers, r.target = act[a].target,
                 act' = [act EXCEPT ![a].pc = "write", ![a].found = r.id]
          PROVE  /\ act'[a].pc = "write"
                 /\ act'[a].target = act[a].target
                 /\ act'[a].found = r.id
      BY <1>0, <2>1, <3>3 DEF Running
    <3>4. QED
      BY <1>3, <3>1, <3>2, <3>3 DEF FindTimer
  <2>4. FoundRow'
    <3> SUFFICES ASSUME NEW q \in Act, act'[q].found # NoRow
                 PROVE  /\ act'[q].pc = "write"
                        /\ \E r \in timers : r.id = act'[q].found /\ r.target = act'[q].target
      BY <2>2 DEF FoundRow
    <3>1. CASE q = a
      BY <2>3, <3>1
    <3>2. CASE q # a
      BY <1>0, <2>2, <3>2 DEF FoundRow
    <3>3. QED
      BY <3>1, <3>2
  <2>5. QED
    BY <1>0, <2>2, <2>4 DEF RowInv, UniqueRows, HeldRows, OneCurrent, Held
<1>4. ASSUME NEW a \in Act, WriteTimer(a) PROVE RowInv'
  <2> DEFINE f == [r \in timers |-> IF r.id = act[a].found
                                   THEN [r EXCEPT !.left = AutoOff[act[a].target]] ELSE r]
  <2>1. poll' = poll /\ act'[a].found = NoRow /\ \A q \in Act \ {a} : act'[q] = act[q]
    BY <1>0, <1>4 DEF WriteTimer, IdleAct
  <2>2. CASE act[a].found # NoRow
    <3>1. timers' = {f[r] : r \in timers}
      BY <1>4, <2>2 DEF WriteTimer
    <3>2. \A r \in timers : f[r].id = r.id /\ f[r].target = r.target
      BY DEF TypeOK, Row
    <3> HIDE DEF f
    <3>3. /\ UniqueRows'
          /\ poll' = poll => HeldRows'
          /\ \A r \in timers : \E x \in timers' : x.id = r.id /\ x.target = r.target
      BY <3>1, <3>2, RowsRewritten
    <3>4. QED
      BY <1>0, <2>1, <3>3 DEF RowInv, FoundRow, OneCurrent
  <2>3. CASE act[a].found = NoRow
    <3>1. PICK i \in RowId \ (ActiveIds \cup HeldIds) :
             timers' = timers \cup {[id |-> i, target |-> act[a].target,
                                     left |-> AutoOff[act[a].target]]}
      BY <1>4, <2>3 DEF WriteTimer
    <3>2. \A r \in timers : r.id # i
      BY <3>1 DEF ActiveIds
    <3>3. \A p \in Poll : \A h \in Held(p) : h.id # i
      BY <3>1 DEF HeldIds
    <3>4. UniqueRows'
      BY <1>0, <3>1, <3>2 DEF UniqueRows
    <3>5. HeldRows'
      BY <1>0, <2>1, <3>1, <3>3 DEF HeldRows, Held
    <3>6. QED
      BY <1>0, <2>1, <3>1, <3>4, <3>5 DEF RowInv, FoundRow, OneCurrent
  <2>4. QED
    BY <2>2, <2>3
<1>5. ASSUME NEW p \in Poll, PollStart(p) PROVE RowInv'
  <2>1. /\ timers' = timers /\ act' = act
        /\ \A q \in Poll \ {p} : poll'[q] = poll[q]
        /\ poll'[p].rows = Expired /\ poll'[p].cur = {}
    BY <1>0, <1>5 DEF PollStart, PollBusy, PollState
  <2>2. \A h \in Expired : \E x \in timers : x.id = h.id /\ x.target = h.target
    BY DEF Expired
  <2>3. \A h \in Held(p)' : \A r \in timers : r.id = h.id => r.target = h.target
    BY <1>0, <2>1, <2>2 DEF Held, UniqueRows
  <2>4. QED
    BY <1>d, <2>1, <2>3
<1>6. ASSUME NEW p \in Poll, NextRow(p) PROVE RowInv'
  <2>1. PICK h \in poll[p].rows :
           poll' = [poll EXCEPT ![p] = [rows |-> @.rows \ {h}, cur |-> {h},
                                        todo |-> IF h.target \in Group /\ h.target \notin groups
                                                 THEN {} ELSE Covers(h.target)]]
    BY <1>6 DEF NextRow
  <2>2. /\ timers' = timers /\ act' = act
        /\ \A q \in Poll \ {p} : poll'[q] = poll[q]
        /\ poll'[p].cur = {h}
        /\ Held(p)' \subseteq Held(p)
    BY <1>0, <1>6, <2>1 DEF NextRow, Held
  <2>3. QED
    BY <1>0, <1>d, <2>2 DEF HeldRows
<1>7. ASSUME NEW p \in Poll, NEW l \in Light, SendOff(p, l) \/ SkipOff(p, l) PROVE RowInv'
  <2>1. /\ timers' = timers /\ act' = act
        /\ \A q \in Poll \ {p} : poll'[q] = poll[q]
        /\ poll'[p].cur = poll[p].cur /\ poll'[p].rows = poll[p].rows
    BY <1>0, <1>7 DEF SendOff, SkipOff, PollState
  <2>2. Held(p)' = Held(p)
    BY <2>1 DEF Held
  <2>3. QED
    BY <1>0, <1>d, <2>1, <2>2 DEF HeldRows, OneCurrent
<1>8. ASSUME NEW p \in Poll, Deactivate(p) PROVE RowInv'
  <2>1. /\ act' = act /\ timers' \subseteq timers
        /\ \A q \in Poll : poll'[q].cur \subseteq poll[q].cur /\ poll'[q].rows = poll[q].rows
    BY <1>0, <1>8 DEF Deactivate, PollState
  <2>2. \A a \in Act : act[a].pc # "write"
    BY <1>8 DEF Deactivate, RunInv, Turns, ActRuns, PollRuns, PollBusy, CommandsOut, Waiting
  <2>3. \A q \in Poll : Held(q)' \subseteq Held(q)
    BY <2>1 DEF Held
  <2>4. HeldRows'
    BY <1>0, <2>1, <2>3 DEF HeldRows
  <2>5. QED
    BY <1>0, <1>a, <2>1, <2>2, <2>4 DEF RowInv, UniqueRows, FoundRow, OneCurrent
<1>9. CASE Tick
  <2> DEFINE f == [r \in timers |-> [r EXCEPT !.left = Less(@)]]
  <2>1. timers' = {f[r] : r \in timers} /\ act' = act /\ poll' = poll
    BY <1>9 DEF Tick
  <2>2. \A r \in timers : f[r].id = r.id /\ f[r].target = r.target
    BY DEF TypeOK, Row
  <2> HIDE DEF f
  <2>3. /\ UniqueRows'
        /\ poll' = poll => HeldRows'
        /\ \A r \in timers : \E x \in timers' : x.id = r.id /\ x.target = r.target
    BY <2>1, <2>2, RowsRewritten
  <2>4. QED
    BY <1>0, <2>1, <2>3 DEF RowInv, FoundRow, OneCurrent
<1>10. CASE Restart
  <2>1. /\ timers' = timers
        /\ \A a \in Act : act'[a].found = NoRow
        /\ \A p \in Poll : poll'[p].cur = {} /\ poll'[p].rows = {}
    BY <1>10 DEF Restart, IdleAct, IdlePoll
  <2>2. QED
    BY <1>0, <2>1 DEF RowInv, UniqueRows, FoundRow, HeldRows, OneCurrent, Held
<1>11. ASSUME \/ \E c \in Cmd, l \in Light, on \in BOOLEAN : Manual(c, l, on)
              \/ \E w \in wire : Apply(w) \/ AnswerOk(w) \/ AnswerFailed(w)
              \/ \E l \in Light, m \in Mode : SetMode(l, m)
              \/ \E l \in Light, b \in BOOLEAN : SetAutomation(l, b)
              \/ \E g \in Group, S \in SUBSET Light : SetMembers(g, S)
              \/ \E g \in Group : DeleteGroup(g)
              \/ \E l \in Light : DeleteLight(l)
              \/ UNCHANGED vars
       PROVE  RowInv'
  BY <1>11, <1>b DEF Manual, Apply, AnswerOk, AnswerFailed, SetMode, SetAutomation,
                     SetMembers, DeleteGroup, DeleteLight, vars
<1>12. QED
  BY <1>1, <1>2, <1>3, <1>4, <1>5, <1>6, <1>7, <1>8, <1>9, <1>10, <1>11, NextActions

-----------------------------------------------------------------------------
\* LitInv

\* The runs that cover a floodlight's target, and the floodlights that a row of
\* their target covers for as long as they should stay on.
Writers(t) == {a \in Act : /\ act[a].pc # "idle"
                           /\ act[a].target = t
                           /\ t \in Group \/ act[a].todo = {}}
Timed(l) == \E r \in timers : r.target = litBy[l] /\ stay[l] <= r.left

\* A row that is given another expiry
LEMMA RowLeft ==
    ASSUME NEW s \in Row, NEW n
    PROVE  /\ [s EXCEPT !.left = n].id = s.id
           /\ [s EXCEPT !.left = n].target = s.target
           /\ [s EXCEPT !.left = n].left = n
  BY DEF Row

\* One tick less
LEMMA LessNat ==
    /\ \A n \in Nat : Less(n) \in Nat /\ Less(n) <= n
    /\ \A m, n \in Nat : m <= n => Less(m) <= Less(n)
    /\ Less(0) = 0
  BY DEF Less

\* Nothing new is owed when only causes are recorded.
LEMMA OwedLess ==
    ASSUME relay' = relay, litBy' = litBy, excuse \subseteq excuse', NEW l, Owed(l)'
    PROVE  Owed(l) /\ litBy'[l] = litBy[l]
  BY DEF Owed

\* Every floodlight recorded by Excuse is no longer owed.
LEMMA ExcuseWorks ==
    ASSUME NEW S, NEW T, Excuse(S, T), relay' = relay, litBy' = litBy
    PROVE  /\ excuse \subseteq excuse'
           /\ \A l \in S : Owed(l)' => litBy[l] \notin T
  BY DEF Excuse, Owed

\* What is owed has a target.
LEMMA OwedTarget ==
    ASSUME NEW l, Owed(l)
    PROVE  litBy[l] \in Target /\ (litBy[l] \in Light => AutoOff[litBy[l]] > 0)
  BY TargetAssumption DEF Owed

LEMMA LitStep ==
    ASSUME TypeOK, RunInv, RowInv, Promised, LitInv, [Next]_vars
    PROVE  LitInv'
<1> USE DEF dbVars, runVars, histVars
<1>0. /\ act \in [Act -> ActState]
      /\ poll \in [Poll -> PollState]
      /\ members \in [Group -> SUBSET Light]
      /\ wire \subseteq Command
      /\ GroupsGone /\ LitInMembers /\ OffPending /\ Covered
  BY DEF TypeOK, LitInv
\* The four parts, for a step that owes nothing new and changes no membership.
<1>a. ASSUME UNCHANGED <<relay, litBy, groups, members>>, excuse \subseteq excuse'
      PROVE  GroupsGone' /\ LitInMembers'
  BY <1>0, <1>a, OwedLess DEF GroupsGone, LitInMembers, Covers
<1>b. ASSUME relay' = relay, litBy' = litBy, excuse \subseteq excuse', poll' = poll,
             \A w \in wire : w.by \in Poll /\ ~w.applied => w \in wire'
      PROVE  OffPending'
  <2> SUFFICES ASSUME NEW p \in Poll, NEW h \in poll[p].cur, NEW l \in Light,
                      Owed(l)', litBy'[l] = h.target
               PROVE  \/ l \in poll[p].todo
                      \/ \E w \in wire' : w.by = p /\ w.light = l /\ ~w.applied
    BY <1>b DEF OffPending
  <2>1. Owed(l) /\ litBy[l] = h.target
    BY <1>b, OwedLess
  <2>2. QED
    BY <1>0, <1>b, <2>1 DEF OffPending
<1>c. ASSUME relay' = relay, litBy' = litBy, excuse \subseteq excuse',
             \A l \in Light : (Owed(l) /\ Timed(l)) => Timed(l)' \/ ~Owed(l)',
             \A l \in Light : \A a \in Writers(litBy[l]) :
                Owed(l) => \/ Timed(l)'
                           \/ a \in Writers(litBy[l])'
                           \/ ~Owed(l)'
      PROVE  Covered'
  <2> SUFFICES ASSUME NEW l \in Light, Owed(l)'
               PROVE  \/ \E r \in timers' : r.target = litBy'[l] /\ stay'[l] <= r.left
                      \/ \E a \in Act : /\ act'[a].pc # "idle"
                                        /\ act'[a].target = litBy'[l]
                                        /\ act'[a].target \in Group \/ act'[a].todo = {}
    BY DEF Covered
  <2>1. Owed(l) /\ litBy'[l] = litBy[l]
    BY <1>c, OwedLess
  <2>2. Timed(l) \/ \E a \in Act : a \in Writers(litBy[l])
    BY <1>0, <2>1 DEF Covered, Timed, Writers
  <2>3. Timed(l)' \/ \E a \in Act : a \in Writers(litBy[l])'
    BY <1>c, <2>1, <2>2
  <2>4. QED
    BY <1>c, <2>1, <2>3 DEF Timed, Writers
\* Steps of an execution, which keeps covering its target unless it ends.
<1>d. ASSUME NEW a \in Act, UNCHANGED <<relay, litBy, stay, excuse, groups, members, timers, poll>>,
             wire \subseteq wire',
             \A b \in Act \ {a} : act'[b] = act[b],
             \A l \in Light : (Owed(l) /\ a \in Writers(litBy[l])) =>
                /\ act'[a].pc # "idle"
                /\ act'[a].target = act[a].target
                /\ act[a].todo = {} => act'[a].todo = {}
      PROVE  LitInv'
  <2>1. Covered'
    BY <1>c, <1>d DEF Writers, Timed
  <2>2. QED
    BY <1>a, <1>b, <1>d, <2>1 DEF LitInv
<1>1. ASSUME NEW a \in Act,
             \/ \E g \in Group : StartGroup(a, g)
             \/ \E l \in Light : StartLight(a, l)
      PROVE  LitInv'
  <2>1. /\ UNCHANGED <<relay, litBy, stay, excuse, groups, members, timers, poll, wire>>
        /\ \A b \in Act \ {a} : act'[b] = act[b]
        /\ act[a].pc = "idle"
    BY <1>0, <1>1 DEF StartGroup, StartLight
  <2>2. QED
    BY <1>d, <2>1 DEF Writers
<1>2. ASSUME NEW a \in Act, NEW l \in Light, SendOn(a, l) PROVE LitInv'
  <2>1. act[a] \in Running
    BY <1>0, <1>2, RunningType DEF SendOn
  <2>2. /\ act'[a].pc = "members"
        /\ act'[a].target = act[a].target
        /\ act[a].todo # {}
    BY <1>0, <1>2, <2>1 DEF SendOn, Running
  <2>3. /\ UNCHANGED <<relay, litBy, stay, excuse, groups, members, timers, poll>>
        /\ wire \subseteq wire'
        /\ \A b \in Act \ {a} : act'[b] = act[b]
    BY <1>0, <1>2 DEF SendOn, Send
  <2>4. QED
    BY <1>d, <2>2, <2>3
<1>3. ASSUME NEW a \in Act, NEW l \in Light, SkipOn(a, l) PROVE LitInv'
  <2>1. act[a] \in Running /\ act[a].todo # {}
    BY <1>0, <1>3, RunningType DEF SkipOn
  <2>2. /\ UNCHANGED <<relay, litBy, stay, excuse, groups, members, timers, poll, wire>>
        /\ \A b \in Act \ {a} : act'[b] = act[b]
    BY <1>0, <1>3 DEF SkipOn
  <2>3. CASE act[a].target \in Light
    <3>1. \A k \in Light : a \notin Writers(litBy[k])
      BY <2>1, <2>3, TargetAssumption DEF Writers
    <3>2. QED
      BY <1>d, <2>2, <3>1
  <2>4. CASE act[a].target \notin Light
    <3>1. act'[a].pc = "members" /\ act'[a].target = act[a].target
      BY <1>0, <1>3, <2>1, <2>4 DEF SkipOn, Running
    <3>2. QED
      BY <1>d, <2>1, <2>2, <3>1
  <2>5. QED
    BY <2>3, <2>4
<1>4. ASSUME NEW a \in Act, FindTimer(a) PROVE LitInv'
  <2>1. act[a] \in Running
    BY <1>0, <1>4, RunningType DEF FindTimer
  <2>2. /\ UNCHANGED <<relay, litBy, stay, excuse, groups, members, timers, poll, wire>>
        /\ \A b \in Act \ {a} : act'[b] = act[b]
    BY <1>0, <1>4 DEF FindTimer
  <2>3. CASE act[a].target \in Light /\ AutoOff[act[a].target] = 0
    <3>1. \A l \in Light : Owed(l) => a \notin Writers(litBy[l])
      BY <2>3, OwedTarget DEF Writers
    <3>2. QED
      BY <1>d, <2>2, <3>1
  <2>4. CASE ~(act[a].target \in Light /\ AutoOff[act[a].target] = 0)
    <3>1. \/ act' = [act EXCEPT ![a].pc = "write"]
          \/ \E r \in timers : act' = [act EXCEPT ![a].pc = "write", ![a].found = r.id]
      BY <1>4, <2>4 DEF FindTimer
    <3>2. /\ act'[a].pc = "write"
          /\ act'[a].target = act[a].target
          /\ act'[a].todo = act[a].todo
      BY <1>0, <2>1, <3>1 DEF Running
    <3>3. QED
      BY <1>d, <2>2, <3>2
  <2>5. QED
    BY <2>3, <2>4
<1>5. ASSUME NEW a \in Act, WriteTimer(a) PROVE LitInv'
  <2>1. /\ UNCHANGED <<relay, litBy, stay, excuse, groups, members, poll, wire>>
        /\ \A b \in Act \ {a} : act'[b] = act[b]
    BY <1>0, <1>5 DEF WriteTimer
  <2> DEFINE t == act[a].target
             n == AutoOff[t]
  <2>2. \A r \in timers : r \in timers' \/ r.target = t
    <3>1. CASE act[a].found # NoRow
      <4>1. timers' = {IF r.id = act[a].found THEN [r EXCEPT !.left = n]
                                              ELSE r : r \in timers}
        BY <1>5, <3>1 DEF WriteTimer
      <4>2. \A r \in timers : r.id = act[a].found => r.target = t
        BY <3>1 DEF RowInv, FoundRow, UniqueRows
      <4>3. QED
        BY <4>1, <4>2
    <3>2. CASE act[a].found = NoRow
      BY <1>5, <3>2 DEF WriteTimer
    <3>3. QED
      BY <3>1, <3>2
  <2>3. \E x \in timers' : x.target = t /\ x.left = n
    <3>1. CASE act[a].found # NoRow
      <4>1. PICK r \in timers : r.id = act[a].found /\ r.target = t
        BY <3>1 DEF RowInv, FoundRow
      <4>2. [r EXCEPT !.left = n] \in timers'
        BY <1>5, <3>1, <4>1 DEF WriteTimer
      <4>3. r \in Row
        BY DEF TypeOK
      <4>4. [r EXCEPT !.left = n].target = t /\ [r EXCEPT !.left = n].left = n
        BY <4>1, <4>3, RowLeft
      <4>5. QED
        BY <4>2, <4>4
    <3>2. CASE act[a].found = NoRow
      <4>1. PICK i \in RowId : timers' = timers \cup {[id |-> i, target |-> t, left |-> n]}
        BY <1>5, <3>2 DEF WriteTimer
      <4> DEFINE x == [id |-> i, target |-> t, left |-> n]
      <4>2. x.target = t /\ x.left = n /\ x \in timers'
        BY <4>1
      <4>3. QED
        BY <4>2
    <3>3. QED
      BY <3>1, <3>2
  <2>4. Covered'
    <3>1. ASSUME NEW l \in Light, Owed(l), litBy[l] = t PROVE Timed(l)'
      <4>1. stay[l] <= n
        BY <3>1, OwedTarget, TargetAssumption DEF Promised
      <4>2. QED
        BY <2>1, <2>3, <3>1, <4>1 DEF Timed
    <3>2. ASSUME NEW l \in Light, Owed(l), Timed(l) PROVE Timed(l)'
      BY <2>1, <2>2, <3>1, <3>2 DEF Timed
    <3>3. ASSUME NEW l \in Light, Owed(l), NEW b \in Writers(litBy[l])
          PROVE  Timed(l)' \/ b \in Writers(litBy[l])'
      BY <2>1, <3>1, <3>3 DEF Writers
    <3>4. QED
      BY <1>c, <2>1, <3>2, <3>3
  <2>5. QED
    BY <1>a, <1>b, <2>1, <2>4 DEF LitInv
\* Steps of a run of processExpired, which keep the timers.
<1>e. ASSUME UNCHANGED <<relay, litBy, stay, groups, members, timers, act>>, excuse \subseteq excuse'
      PROVE  GroupsGone' /\ LitInMembers' /\ Covered'
  <2>1. Covered'
    BY <1>c, <1>e DEF Writers, Timed
  <2>2. QED
    BY <1>a, <1>e, <2>1
<1>6. ASSUME NEW p \in Poll, PollStart(p) PROVE LitInv'
  <2>1. \A q \in Poll : poll'[q] = poll[q] \/ poll'[q].cur = {}
    BY <1>0, <1>6 DEF PollStart, PollBusy, PollState
  <2>2. OffPending'
    BY <1>0, <1>6, <2>1, OwedLess DEF PollStart, OffPending, Owed
  <2>3. QED
    BY <1>6, <1>e, <2>2 DEF PollStart, LitInv
<1>7. ASSUME NEW p \in Poll, NextRow(p) PROVE LitInv'
  <2>1. PICK h \in poll[p].rows :
           poll' = [poll EXCEPT ![p] = [rows |-> @.rows \ {h}, cur |-> {h},
                                        todo |-> IF h.target \in Group /\ h.target \notin groups
                                                 THEN {} ELSE Covers(h.target)]]
    BY <1>7 DEF NextRow
  <2>2. /\ poll'[p].cur = {h}
        /\ poll'[p].todo = Covers(h.target)
        /\ \A q \in Poll \ {p} : poll'[q] = poll[q]
    BY <1>0, <2>1 DEF GroupsGone, Covers
  <2>3. UNCHANGED <<relay, litBy, stay, excuse, groups, members, timers, act, wire>>
    BY <1>7 DEF NextRow
  <2>4. OffPending'
    <3> SUFFICES ASSUME NEW q \in Poll, NEW k \in poll'[q].cur, NEW l \in Light,
                        Owed(l)', litBy'[l] = k.target
                 PROVE  \/ l \in poll'[q].todo
                        \/ \E w \in wire' : w.by = q /\ w.light = l /\ ~w.applied
      BY DEF OffPending
    <3>1. Owed(l) /\ litBy[l] = k.target
      BY <2>3, OwedLess
    <3>2. CASE q = p
      BY <1>0, <2>2, <3>1, <3>2 DEF LitInMembers
    <3>3. CASE q # p
      BY <1>0, <2>2, <2>3, <3>1, <3>3 DEF OffPending
    <3>4. QED
      BY <3>2, <3>3
  <2>5. QED
    BY <1>e, <2>3, <2>4 DEF LitInv
<1>8. ASSUME NEW p \in Poll, NEW l \in Light, SendOff(p, l) \/ SkipOff(p, l) PROVE LitInv'
  <2>1. /\ poll'[p].cur = poll[p].cur
        /\ poll'[p].todo = poll[p].todo \ {l}
        /\ \A q \in Poll \ {p} : poll'[q] = poll[q]
    BY <1>0, <1>8 DEF SendOff, SkipOff, PollState
  <2>2. /\ UNCHANGED <<relay, litBy, stay, groups, members, timers, act>>
        /\ wire \subseteq wire'
    BY <1>8 DEF SendOff, SkipOff, Send
  <2>3. excuse \subseteq excuse'
    BY <1>8 DEF SendOff, SkipOff, Excuse
  <2>4. /\ \/ \A h \in poll[p].cur : Owed(l)' => litBy[l] # h.target
           \/ \E w \in wire' : w.by = p /\ w.light = l /\ ~w.applied
    <3>1. CASE SendOff(p, l)
      <4>1. [by |-> p, light |-> l, on |-> FALSE, applied |-> FALSE] \in wire'
        BY <3>1 DEF SendOff, Send
      <4>2. QED
        BY <4>1
    <3>2. CASE SkipOff(p, l)
      <4>1. Excuse({l}, Targets(p))
        BY <3>2 DEF SkipOff
      <4>2. QED
        BY <2>2, <4>1, ExcuseWorks DEF Targets
    <3>3. QED
      BY <1>8, <3>1, <3>2
  <2>5. OffPending'
    <3> SUFFICES ASSUME NEW q \in Poll, NEW h \in poll'[q].cur, NEW k \in Light,
                        Owed(k)', litBy'[k] = h.target
                 PROVE  \/ k \in poll'[q].todo
                        \/ \E w \in wire' : w.by = q /\ w.light = k /\ ~w.applied
      BY DEF OffPending
    <3>1. Owed(k) /\ litBy[k] = h.target /\ h \in poll[q].cur
      BY <2>1, <2>2, <2>3, OwedLess
    <3>2. \/ k \in poll[q].todo
          \/ \E w \in wire' : w.by = q /\ w.light = k /\ ~w.applied
      BY <1>0, <2>2, <3>1 DEF OffPending
    <3>3. CASE q = p /\ k = l
      BY <2>1, <2>2, <2>4, <3>3
    <3>4. CASE q # p \/ k # l
      BY <2>1, <3>2, <3>4
    <3>5. QED
      BY <3>3, <3>4
  <2>6. QED
    BY <1>e, <2>2, <2>3, <2>5 DEF LitInv
<1>9. ASSUME NEW p \in Poll, Deactivate(p) PROVE LitInv'
  <2>1. /\ UNCHANGED <<relay, litBy, stay, excuse, groups, members, act, wire>>
        /\ timers' = {r \in timers : \A h \in poll[p].cur : r.id # h.id}
        /\ poll'[p].cur = {}
        /\ \A q \in Poll \ {p} : poll'[q] = poll[q]
    BY <1>0, <1>9 DEF Deactivate, PollState
  <2>2. \A h \in poll[p].cur : \A l \in Light : Owed(l) => litBy[l] # h.target
    BY <1>0, <1>9 DEF Deactivate, Waiting, OffPending
  <2>3. \A r \in timers \ timers' : \E h \in poll[p].cur : r.target = h.target
    BY <2>1 DEF RowInv, HeldRows, Held
  <2>4. Covered'
    BY <1>c, <2>1, <2>2, <2>3 DEF Timed, Writers
  <2>5. OffPending'
    BY <1>0, <2>1, OwedLess DEF OffPending
  <2>6. QED
    BY <1>a, <2>1, <2>4, <2>5 DEF LitInv
<1>10. ASSUME NEW c \in Cmd, NEW l \in Light, NEW on \in BOOLEAN, Manual(c, l, on) PROVE LitInv'
  <2>1. /\ UNCHANGED <<relay, litBy, stay, excuse, groups, members, timers, act, poll>>
        /\ wire \subseteq wire'
    BY <1>10 DEF Manual, Send
  <2>2. OffPending'
    BY <1>b, <2>1
  <2>3. QED
    BY <1>e, <2>1, <2>2 DEF LitInv
<1>11. ASSUME NEW w \in wire, Apply(w) PROVE LitInv'
  <2> DEFINE t == IF w.by \in Act THEN act[w.by].target ELSE Nobody
             v == [w EXCEPT !.applied = TRUE]
  <2>1. /\ UNCHANGED <<groups, members, timers, act, poll>>
        /\ wire' = (wire \ {w}) \cup {v}
        /\ w.light \in Light /\ w.on \in BOOLEAN
        /\ v.by = w.by /\ v.light = w.light
    BY <1>0, <1>11 DEF Apply, Command
  <2>2. \A k \in Light \ {w.light} : /\ relay'[k] = relay[k]
                                     /\ litBy'[k] = litBy[k]
                                     /\ stay'[k] = stay[k]
                                     /\ k \in excuse' <=> k \in excuse
    BY <1>11 DEF Apply, TypeOK
  <2>3. \A k \in Light \ {w.light} : Owed(k)' => Owed(k) /\ litBy'[k] = litBy[k]
    BY <2>2 DEF Owed
  <2>4. ASSUME Owed(w.light)'
        PROVE  /\ w.on /\ litBy'[w.light] = t /\ t \in Target
               /\ ~BeingExpired(t) /\ w.light \in Covers(t)
    <3>1. relay'[w.light] = w.on /\ w.on
      BY <1>11, <2>1, <2>4 DEF Apply, TypeOK, Owed
    <3>2. litBy'[w.light] = t
      BY <1>11, <2>1, <3>1 DEF Apply, TypeOK
    <3>3. t \in Target
      BY <2>4, <3>2 DEF Owed
    <3>4. w.light \notin excuse'
      BY <2>4 DEF Owed
    <3>5. QED
      BY <1>11, <3>1, <3>2, <3>3, <3>4 DEF Apply
  <2>5. ASSUME Owed(w.light)' PROVE w.by \in Act /\ w.by \in Writers(t)
    <3>1. w.by \in Act
      BY <2>4, <2>5, TargetAssumption
    <3>2. QED
      BY <2>4, <2>5, <3>1 DEF RunInv, CommandsOut, Writers
  <2> HIDE DEF t, v
  <2>6. GroupsGone'
    BY <1>0, <2>1 DEF GroupsGone
  <2>7. LitInMembers'
    BY <1>0, <2>1, <2>3, <2>4 DEF LitInMembers, Covers
  <2>8. OffPending'
    <3> SUFFICES ASSUME NEW q \in Poll, NEW h \in poll[q].cur, NEW k \in Light,
                        Owed(k)', litBy'[k] = h.target
                 PROVE  \/ k \in poll[q].todo
                        \/ \E x \in wire' : x.by = q /\ x.light = k /\ ~x.applied
      BY <2>1 DEF OffPending
    <3>1. k # w.light
      BY <2>4 DEF BeingExpired, Held
    <3>2. Owed(k) /\ litBy[k] = h.target
      BY <2>3, <3>1
    <3>3. QED
      BY <1>0, <2>1, <3>1, <3>2 DEF OffPending
  <2>9. Covered'
    <3> SUFFICES ASSUME NEW k \in Light, Owed(k)'
                 PROVE  \/ \E r \in timers : r.target = litBy'[k] /\ stay'[k] <= r.left
                        \/ \E a \in Act : /\ act[a].pc # "idle"
                                          /\ act[a].target = litBy'[k]
                                          /\ act[a].target \in Group \/ act[a].todo = {}
      BY <2>1 DEF Covered
    <3>1. CASE k = w.light
      BY <2>4, <2>5, <3>1 DEF Writers
    <3>2. CASE k # w.light
      BY <1>0, <2>2, <2>3, <3>2 DEF Covered
    <3>3. QED
      BY <3>1, <3>2
  <2>10. QED
    BY <2>6, <2>7, <2>8, <2>9 DEF LitInv
<1>12. ASSUME NEW w \in wire, AnswerOk(w) PROVE LitInv'
  <2>1. /\ UNCHANGED <<relay, litBy, stay, excuse, groups, members, timers, act, poll>>
        /\ wire' = wire \ {w} /\ w.applied
    BY <1>12 DEF AnswerOk
  <2>2. OffPending'
    BY <1>b, <2>1
  <2>3. QED
    BY <1>e, <2>1, <2>2 DEF LitInv
<1>13. ASSUME NEW w \in wire, AnswerFailed(w) PROVE LitInv'
  <2>1. /\ UNCHANGED <<relay, litBy, stay, groups, members, timers, act, poll>>
        /\ wire' = wire \ {w}
        /\ excuse \subseteq excuse'
    BY <1>13 DEF AnswerFailed, Excuse
  <2>2. (w.by \in Poll /\ ~w.applied) =>
           \A h \in poll[w.by].cur : Owed(w.light)' => litBy[w.light] # h.target
    <3> SUFFICES ASSUME w.by \in Poll, ~w.applied
                 PROVE  \A h \in poll[w.by].cur : Owed(w.light)' => litBy[w.light] # h.target
      OBVIOUS
    <3>1. Excuse({w.light}, Targets(w.by))
      BY <1>13 DEF AnswerFailed
    <3>2. QED
      BY <2>1, <3>1, ExcuseWorks DEF Targets
  <2>3. OffPending'
    <3> SUFFICES ASSUME NEW q \in Poll, NEW h \in poll[q].cur, NEW k \in Light,
                        Owed(k)', litBy'[k] = h.target
                 PROVE  \/ k \in poll[q].todo
                        \/ \E x \in wire' : x.by = q /\ x.light = k /\ ~x.applied
      BY <2>1 DEF OffPending
    <3>1. Owed(k) /\ litBy[k] = h.target
      BY <2>1, OwedLess
    <3>2. QED
      BY <1>0, <2>1, <2>2, <3>1 DEF OffPending
  <2>4. QED
    BY <1>e, <2>1, <2>3 DEF LitInv
<1>14. CASE Tick
  <2>1. /\ UNCHANGED <<relay, litBy, excuse, groups, members, act, poll, wire>>
        /\ timers' = {[r EXCEPT !.left = Less(@)] : r \in timers}
        /\ \A l \in Light : stay'[l] = Less(stay[l]) /\ stay[l] \in Nat
        /\ timers \subseteq Row
    BY <1>14 DEF Tick, TypeOK
  <2>2. ASSUME NEW l \in Light, Timed(l) PROVE Timed(l)'
    <3>1. PICK r \in timers : r.target = litBy[l] /\ stay[l] <= r.left
      BY <2>2 DEF Timed
    <3> DEFINE x == [r EXCEPT !.left = Less(@)]
    <3>2. x.target = r.target /\ x.left = Less(r.left) /\ r.left \in Nat /\ x \in timers'
      BY <2>1 DEF Row
    <3> HIDE DEF x
    <3>3. stay'[l] <= x.left
      BY <2>1, <3>1, <3>2, LessNat
    <3>4. QED
      BY <2>1, <3>1, <3>2, <3>3 DEF Timed
  <2>3. Covered'
    BY <1>c, <2>1, <2>2 DEF Writers
  <2>4. QED
    BY <1>a, <1>b, <2>1, <2>3 DEF LitInv
\* Steps of the operator.
<1>f. ASSUME UNCHANGED <<relay, litBy, stay, timers, act, poll, wire>>, excuse \subseteq excuse'
      PROVE  OffPending' /\ Covered'
  <2>1. Covered'
    BY <1>c, <1>f DEF Writers, Timed
  <2>2. QED
    BY <1>b, <1>f, <2>1
<1>15. ASSUME NEW l \in Light,
              \/ \E m \in Mode : SetMode(l, m)
              \/ \E b \in BOOLEAN : SetAutomation(l, b)
       PROVE  LitInv'
  <2>1. UNCHANGED <<relay, litBy, stay, excuse, groups, members, timers, act, poll, wire>>
    BY <1>15 DEF SetMode, SetAutomation
  <2>2. QED
    BY <1>a, <1>f, <2>1 DEF LitInv
<1>16. ASSUME NEW g \in Group, NEW S \in SUBSET Light, SetMembers(g, S) PROVE LitInv'
  <2>1. /\ UNCHANGED <<relay, litBy, stay, groups, timers, act, poll, wire>>
        /\ members' = [members EXCEPT ![g] = S]
        /\ g \in groups
        /\ Excuse(members[g] \ S, {g})
    BY <1>16 DEF SetMembers
  <2>2. excuse \subseteq excuse' /\ \A l \in members[g] \ S : Owed(l)' => litBy[l] # g
    BY <2>1, ExcuseWorks
  <2>3. LitInMembers'
    BY <1>0, <2>1, <2>2, OwedLess DEF LitInMembers, Covers
  <2>4. GroupsGone'
    BY <1>0, <2>1 DEF GroupsGone
  <2>5. QED
    BY <1>f, <2>1, <2>2, <2>3, <2>4 DEF LitInv
<1>17. ASSUME NEW g \in Group, DeleteGroup(g) PROVE LitInv'
  <2>1. /\ UNCHANGED <<relay, litBy, stay, timers, act, poll, wire>>
        /\ members' = [members EXCEPT ![g] = {}]
        /\ groups' = groups \ {g}
        /\ Excuse(members[g], {g})
    BY <1>17 DEF DeleteGroup
  <2>2. excuse \subseteq excuse' /\ \A l \in members[g] : Owed(l)' => litBy[l] # g
    BY <2>1, ExcuseWorks
  <2>3. LitInMembers'
    BY <1>0, <2>1, <2>2, OwedLess DEF LitInMembers, Covers
  <2>4. GroupsGone'
    BY <1>0, <2>1 DEF GroupsGone
  <2>5. QED
    BY <1>f, <2>1, <2>2, <2>3, <2>4 DEF LitInv
<1>18. ASSUME NEW l \in Light, DeleteLight(l) PROVE LitInv'
  <2>1. /\ UNCHANGED <<relay, litBy, stay, groups, timers, act, poll, wire>>
        /\ members' = [g \in Group |-> members[g] \ {l}]
        /\ Excuse({l}, Target)
    BY <1>18 DEF DeleteLight
  <2>2. excuse \subseteq excuse' /\ ~Owed(l)'
    BY <2>1, ExcuseWorks, OwedLess, OwedTarget
  <2>3. LitInMembers'
    BY <1>0, <2>1, <2>2, OwedLess DEF LitInMembers, Covers
  <2>4. GroupsGone'
    BY <1>0, <2>1 DEF GroupsGone
  <2>5. QED
    BY <1>f, <2>1, <2>2, <2>3, <2>4 DEF LitInv
<1>19. CASE Restart
  <2> DEFINE cut == {act[a].target : a \in {b \in Act : act[b].pc # "idle"}}
             T   == cut \ {r.target : r \in timers}
  <2>1. /\ UNCHANGED <<relay, litBy, groups, members, timers>>
        /\ \A p \in Poll : poll'[p].cur = {}
        /\ Excuse(Light, T)
        /\ \A l \in Light : stay'[l] = IF litBy[l] \in cut THEN 0 ELSE stay[l]
        /\ \A r \in timers : r.left \in Nat
    BY <1>19 DEF Restart, IdlePoll, TypeOK, Row
  <2>2. excuse \subseteq excuse' /\ \A l \in Light : Owed(l)' => litBy[l] \notin T
    BY <2>1, ExcuseWorks
  <2>3. ASSUME NEW l \in Light, NEW a \in Act, a \in Writers(litBy[l])
        PROVE  litBy[l] \in cut
    BY <2>3 DEF Writers
  <2> HIDE DEF cut
  <2>4. ASSUME NEW l \in Light, litBy[l] \in cut PROVE litBy[l] \in T \/ Timed(l)'
    BY <2>1, <2>4 DEF Timed
  <2> HIDE DEF T
  <2>5. ASSUME NEW l \in Light, Timed(l) PROVE Timed(l)'
    BY <2>1, <2>5 DEF Timed
  <2>6. \A l \in Light : \A a \in Writers(litBy[l]) : Timed(l)' \/ ~Owed(l)'
    BY <2>2, <2>3, <2>4 DEF Writers
  <2>7. Covered'
    BY <1>c, <2>1, <2>2, <2>5, <2>6
  <2>8. OffPending'
    BY <2>1 DEF OffPending
  <2>9. QED
    BY <1>a, <2>1, <2>2, <2>7, <2>8 DEF LitInv
<1>20. CASE UNCHANGED vars
  <2>1. UNCHANGED <<relay, litBy, stay, excuse, groups, members, timers, act, poll, wire>>
    BY <1>20 DEF vars
  <2>2. QED
    BY <1>a, <1>f, <2>1 DEF LitInv
<1>21. QED
  BY <1>1, <1>2, <1>3, <1>4, <1>5, <1>6, <1>7, <1>8, <1>9, <1>10, <1>11, <1>12,
     <1>13, <1>14, <1>15, <1>16, <1>17, <1>18, <1>19, <1>20, NextActions

-----------------------------------------------------------------------------
\* The full duration

\* No activation promises more than its target's duration.
LEMMA PromisedStep ==
    ASSUME TypeOK, Promised, [Next]_vars
    PROVE  Promised'
<1> USE DEF dbVars, runVars, histVars
<1>0. /\ stay \in [Light -> Nat] /\ litBy \in [Light -> Target \cup {Nobody}]
      /\ act \in [Act -> ActState] /\ wire \subseteq Command
  BY DEF TypeOK
<1>a. \A l \in Light : litBy[l] # Nobody =>
         /\ AutoOff[litBy[l]] \in Nat /\ stay[l] \in Nat
         /\ stay[l] <= AutoOff[litBy[l]]
  BY <1>0, TargetAssumption DEF Promised
<1>b. ASSUME UNCHANGED <<litBy, stay>> PROVE Promised'
  BY <1>b DEF Promised
<1>1. ASSUME NEW w \in wire, Apply(w) PROVE Promised'
  <2> DEFINE t == IF w.by \in Act THEN act[w.by].target ELSE Nobody
  <2>1. w.light \in Light
    BY <1>0 DEF Command
  <2>2. t \in Target \cup {Nobody}
    BY <1>0 DEF ActState, Running, IdleAct
  <2>3. /\ litBy' = [litBy EXCEPT ![w.light] = IF w.on THEN t ELSE Nobody]
        /\ stay' = [stay EXCEPT ![w.light] = IF w.on /\ t \in Target THEN AutoOff[t] ELSE 0]
    BY <1>1 DEF Apply
  <2> HIDE DEF t
  <2>4. ASSUME NEW l \in Light, litBy'[l] # Nobody PROVE stay'[l] <= AutoOff[litBy'[l]]
    <3>1. CASE l # w.light
      BY <1>0, <1>a, <2>1, <2>3, <2>4, <3>1
    <3>2. CASE l = w.light
      <4>1. w.on /\ litBy'[l] = t /\ t \in Target
        BY <1>0, <2>2, <2>3, <2>4, <3>2
      <4>2. stay'[l] = AutoOff[t] /\ AutoOff[t] \in Nat
        BY <1>0, <2>3, <3>2, <4>1, TargetAssumption
      <4>3. QED
        BY <4>1, <4>2
    <3>3. QED
      BY <3>1, <3>2
  <2>5. QED
    BY <2>4 DEF Promised
<1>2. CASE Tick
  <2>1. litBy' = litBy /\ \A l \in Light : stay'[l] = Less(stay[l])
    BY <1>2 DEF Tick
  <2>2. \A l \in Light : stay'[l] \in Nat /\ stay'[l] <= stay[l] /\ stay[l] \in Nat
    BY <1>0, <2>1, LessNat
  <2>3. QED
    BY <1>a, <2>1, <2>2 DEF Promised
<1>3. CASE Restart
  <2>1. litBy' = litBy /\ \A l \in Light : stay'[l] = 0 \/ stay'[l] = stay[l]
    BY <1>3 DEF Restart
  <2>2. QED
    BY <1>a, <2>1 DEF Promised
<1>4. ASSUME \/ \E a \in Act, g \in Group : StartGroup(a, g)
             \/ \E a \in Act, l \in Light : StartLight(a, l) \/ SendOn(a, l) \/ SkipOn(a, l)
             \/ \E a \in Act : FindTimer(a) \/ WriteTimer(a)
             \/ \E p \in Poll : PollStart(p) \/ NextRow(p) \/ Deactivate(p)
             \/ \E p \in Poll, l \in Light : SendOff(p, l) \/ SkipOff(p, l)
             \/ \E c \in Cmd, l \in Light, on \in BOOLEAN : Manual(c, l, on)
             \/ \E w \in wire : AnswerOk(w) \/ AnswerFailed(w)
             \/ \E l \in Light, m \in Mode : SetMode(l, m)
             \/ \E l \in Light, b \in BOOLEAN : SetAutomation(l, b)
             \/ \E g \in Group, S \in SUBSET Light : SetMembers(g, S)
             \/ \E g \in Group : DeleteGroup(g)
             \/ \E l \in Light : DeleteLight(l)
             \/ UNCHANGED vars
      PROVE  Promised'
  BY <1>4, <1>b DEF StartGroup, StartLight, SendOn, SkipOn, FindTimer, WriteTimer, PollStart,
     NextRow, Deactivate, SendOff, SkipOff, Manual, AnswerOk, AnswerFailed, SetMode,
     SetAutomation, SetMembers, DeleteGroup, DeleteLight, vars
<1>5. QED
  BY <1>1, <1>2, <1>3, <1>4, NextActions

\* A step that reads no row, switches nothing on and only shortens or keeps
\* what is left to stay.
LEMMA DueKept ==
    ASSUME DueWhenHeld, relay' = relay, litBy' = litBy,
           excuse \subseteq excuse', hurried \subseteq hurried',
           \A l \in Light : stay[l] = 0 => stay'[l] = 0,
           \A p \in Poll : Held(p)' \subseteq Held(p)
    PROVE  DueWhenHeld'
  BY DEF DueWhenHeld

\* A floodlight lit for the target of a row that has expired has had its full
\* duration, unless the row expired under a refresh.
LEMMA ExpiredDue ==
    ASSUME TypeOK, RowInv, Promised, Covered, NEW h \in Expired, NEW l \in Light,
           relay[l], litBy[l] = h.target, l \notin excuse, ~ExpiredUnderRefresh(litBy[l])
    PROVE  stay[l] = 0
<1>1. PICK x \in timers : x.id = h.id /\ x.target = h.target /\ x.left = 0
  BY DEF Expired
<1>2. /\ stay[l] \in Nat /\ litBy[l] \in Target
      /\ \A r \in timers : r.left \in Nat
  BY <1>1 DEF TypeOK, Row
<1>3. CASE Owed(l)
  <2>1. \A a \in Act : ~(act[a].pc # "idle" /\ act[a].target = litBy[l])
    BY DEF ExpiredUnderRefresh
  <2>2. PICK r \in timers : r.target = litBy[l] /\ stay[l] <= r.left
    BY <1>3, <2>1 DEF Covered
  <2>3. CASE r.id = h.id
    BY <1>1, <1>2, <2>2, <2>3 DEF RowInv, UniqueRows
  <2>4. CASE r.id # h.id
    <3>1. ~(r.left > 0)
      BY <2>2, <2>4 DEF ExpiredUnderRefresh
    <3>2. QED
      BY <1>2, <2>2, <3>1
  <2>5. QED
    BY <2>3, <2>4
<1>4. CASE ~Owed(l)
  <2>1. litBy[l] \in Light /\ ~(AutoOff[litBy[l]] > 0)
    BY <1>2, <1>4 DEF Owed
  <2>2. AutoOff[litBy[l]] \in Nat /\ stay[l] <= AutoOff[litBy[l]]
    BY <1>2, TargetAssumption DEF Promised
  <2>3. QED
    BY <1>2, <2>1, <2>2
<1>5. QED
  BY <1>3, <1>4

LEMMA DueStep ==
    ASSUME TypeOK, RowInv, Promised, LitInv, DueWhenHeld, [Next]_vars
    PROVE  DueWhenHeld'
<1> USE DEF dbVars, runVars, histVars
<1>0. /\ poll \in [Poll -> PollState]
      /\ wire \subseteq Command /\ Covered
  BY DEF TypeOK, LitInv
<1>a. ASSUME UNCHANGED <<relay, litBy, stay, hurried>>, excuse \subseteq excuse',
             \A p \in Poll : Held(p)' \subseteq Held(p)
      PROVE  DueWhenHeld'
  BY <1>a, DueKept
<1>b. ASSUME UNCHANGED <<relay, litBy, stay, hurried, poll>>, excuse \subseteq excuse'
      PROVE  DueWhenHeld'
  BY <1>a, <1>b DEF Held
<1>1. ASSUME NEW p \in Poll, PollStart(p) PROVE DueWhenHeld'
  <2>1. /\ UNCHANGED <<relay, litBy, stay, excuse>>
        /\ hurried' = hurried \cup {l \in Light : relay[l] /\ ExpiredUnderRefresh(litBy[l])}
        /\ \A q \in Poll \ {p} : Held(q)' = Held(q)
        /\ Held(p)' = Expired
    BY <1>0, <1>1 DEF PollStart, PollBusy, Held, PollState
  <2>2. ASSUME NEW q \in Poll, NEW h \in Held(q)', NEW l \in Light,
               relay[l], litBy[l] = h.target, l \notin excuse \cup hurried'
        PROVE  stay[l] = 0
    <3>1. CASE q = p
      BY <1>0, <2>1, <2>2, <3>1, ExpiredDue
    <3>2. CASE q # p
      BY <2>1, <2>2, <3>2 DEF DueWhenHeld
    <3>3. QED
      BY <3>1, <3>2
  <2>3. QED
    BY <2>1, <2>2 DEF DueWhenHeld
<1>2. ASSUME NEW p \in Poll, NextRow(p) PROVE DueWhenHeld'
  <2>1. PICK h \in poll[p].rows :
           poll' = [poll EXCEPT ![p] = [rows |-> @.rows \ {h}, cur |-> {h},
                                        todo |-> IF h.target \in Group /\ h.target \notin groups
                                                 THEN {} ELSE Covers(h.target)]]
    BY <1>2 DEF NextRow
  <2>2. \A q \in Poll : Held(q)' \subseteq Held(q)
    BY <1>0, <2>1 DEF Held
  <2>3. QED
    BY <1>2, <1>a, <2>2 DEF NextRow
<1>3. ASSUME NEW p \in Poll, NEW l \in Light, SendOff(p, l) \/ SkipOff(p, l) PROVE DueWhenHeld'
  <2>1. \A q \in Poll : poll'[q].rows = poll[q].rows /\ poll'[q].cur = poll[q].cur
    BY <1>0, <1>3 DEF SendOff, SkipOff, PollState
  <2>2. UNCHANGED <<relay, litBy, stay, hurried>> /\ excuse \subseteq excuse'
    BY <1>3 DEF SendOff, SkipOff, Excuse
  <2>3. \A q \in Poll : Held(q)' \subseteq Held(q)
    BY <2>1 DEF Held
  <2>4. QED
    BY <1>a, <2>2, <2>3
<1>4. ASSUME NEW p \in Poll, Deactivate(p) PROVE DueWhenHeld'
  <2>1. \A q \in Poll : Held(q)' \subseteq Held(q)
    BY <1>0, <1>4 DEF Deactivate, Held, PollState
  <2>2. QED
    BY <1>4, <1>a, <2>1 DEF Deactivate
\* A floodlight switched on for a target that is being expired is excused.
<1>5. ASSUME NEW w \in wire, Apply(w) PROVE DueWhenHeld'
  <2> DEFINE t == IF w.by \in Act THEN act[w.by].target ELSE Nobody
  <2>1. /\ poll' = poll /\ w.light \in Light /\ w.on \in BOOLEAN
    BY <1>0, <1>5 DEF Apply, Command
  <2>2. \A k \in Light \ {w.light} : /\ relay'[k] = relay[k]
                                     /\ litBy'[k] = litBy[k]
                                     /\ stay'[k] = stay[k]
                                     /\ k \in excuse' <=> k \in excuse
                                     /\ k \in hurried' <=> k \in hurried
    BY <1>5 DEF Apply, TypeOK
  <2>3. ASSUME NEW q \in Poll, NEW h \in Held(q), NEW k \in Light,
               relay'[k], litBy'[k] = h.target, k \notin excuse' \cup hurried'
        PROVE  stay'[k] = 0
    <3>1. CASE k # w.light
      BY <2>2, <2>3, <3>1 DEF DueWhenHeld
    <3>2. CASE k = w.light
      <4>1. w.on
        BY <1>5, <2>1, <2>3, <3>2 DEF Apply, TypeOK
      <4>2. litBy'[k] = t
        BY <1>5, <2>1, <3>2, <4>1 DEF Apply, TypeOK
      <4>3. BeingExpired(t)
        BY <2>3, <4>2 DEF BeingExpired
      <4>4. t \notin Target
        BY <1>5, <2>3, <3>2, <4>1, <4>3 DEF Apply
      <4>5. stay' = [stay EXCEPT ![w.light] = 0]
        BY <1>5, <4>4 DEF Apply
      <4>6. QED
        BY <2>1, <3>2, <4>5 DEF TypeOK
    <3>3. QED
      BY <3>1, <3>2
  <2>4. QED
    BY <2>1, <2>3 DEF DueWhenHeld, Held
<1>6. CASE Tick
  <2>1. /\ UNCHANGED <<relay, litBy, excuse, hurried, poll>>
        /\ \A l \in Light : stay'[l] = Less(stay[l])
    BY <1>6 DEF Tick
  <2>2. QED
    BY <2>1, LessNat, DueKept DEF Held
<1>7. CASE Restart
  <2>1. \A p \in Poll : Held(p)' = {}
    BY <1>7 DEF Restart, Held, IdlePoll
  <2>2. QED
    BY <2>1 DEF DueWhenHeld
<1>8. ASSUME \/ \E a \in Act, g \in Group : StartGroup(a, g)
             \/ \E a \in Act, l \in Light : StartLight(a, l) \/ SendOn(a, l) \/ SkipOn(a, l)
             \/ \E a \in Act : FindTimer(a) \/ WriteTimer(a)
             \/ \E c \in Cmd, l \in Light, on \in BOOLEAN : Manual(c, l, on)
             \/ \E w \in wire : AnswerOk(w) \/ AnswerFailed(w)
             \/ \E l \in Light, m \in Mode : SetMode(l, m)
             \/ \E l \in Light, b \in BOOLEAN : SetAutomation(l, b)
             \/ \E g \in Group, S \in SUBSET Light : SetMembers(g, S)
             \/ \E g \in Group : DeleteGroup(g)
             \/ \E l \in Light : DeleteLight(l)
             \/ UNCHANGED vars
      PROVE  DueWhenHeld'
  <2>1. UNCHANGED <<relay, litBy, stay, hurried, poll>> /\ excuse \subseteq excuse'
    BY <1>8 DEF StartGroup, StartLight, SendOn, SkipOn, FindTimer, WriteTimer, Manual,
       AnswerOk, AnswerFailed, SetMode, SetAutomation, SetMembers, DeleteGroup,
       DeleteLight, Excuse, vars
  <2>2. QED
    BY <1>b, <2>1
<1>9. QED
  BY <1>1, <1>2, <1>3, <1>4, <1>5, <1>6, <1>7, <1>8, NextActions

-----------------------------------------------------------------------------
\* LitIsCovered and FullDurationUnlessRaced

\* The runs, the rows and what covers a lit floodlight are as the inductive
\* invariant says, in every reachable state.
THEOREM Inductive == Spec => []IInv
<1>1. Init => IInv
  <2> SUFFICES ASSUME Init PROVE IInv
    OBVIOUS
  <2>1. TypeOK
    BY TargetAssumption DEF Init, TypeOK, IdlePoll, OverrideMode, LightRow, ActState, PollState
  <2>2. RunInv
    BY DEF Init, IdleAct, RunInv, Turns, ActRuns, CommandsOut, SingleLoop
  <2>3. RowInv
    BY DEF Init, IdleAct, IdlePoll, RowInv, UniqueRows, FoundRow, HeldRows, OneCurrent
  <2>4. LitInv
    BY DEF Init, IdlePoll, LitInv, GroupsGone, LitInMembers, OffPending, Covered, Owed
  <2>5. Promised
    BY DEF Init, Promised
  <2>6. DueWhenHeld
    BY DEF Init, DueWhenHeld
  <2>7. QED
    BY <2>1, <2>2, <2>3, <2>4, <2>5, <2>6 DEF IInv
<1>2. TypeOK' /\ IInv /\ [Next]_vars => IInv'
  BY RunStep, RowStep, PromisedStep, LitStep, DueStep DEF IInv
<1>3. QED
  BY <1>1, <1>2, TypeCorrect, PTL DEF Spec

\* Every floodlight that automation lit, and that was not lost for one of the
\* causes named in the specification, has a timer of its target or an execution
\* that will write it: whatever runs overlap, however calls fail.
THEOREM LitCovered == Spec => []LitIsCovered
<1>1. IInv => LitIsCovered
  BY DEF IInv, LitInv, Covered, LitIsCovered
<1>2. QED
  BY <1>1, Inductive, PTL

\* However activations, refreshes, expiry runs, dashboard commands, edits,
\* failures and restarts overlap, the timer service switches a floodlight off
\* for the target that lit it last only after that target's full duration,
\* except in the two races that the specification names, and for floodlights that
\* were lost before.
THEOREM DurationKept == Spec => FullDurationUnlessRaced
<1>1. ASSUME IInv, NEW l \in Light \ (excuse \cup hurried), TimedOff(l)
      PROVE  stay[l] = 0
  BY <1>1 DEF IInv, DueWhenHeld, Held, TimedOff, Targets
<1>2. IInv /\ [Next]_vars =>
        [\A l \in Light \ (excuse \cup hurried) : TimedOff(l) => stay[l] = 0]_vars
  BY <1>1
<1>3. QED
  BY <1>2, Inductive, PTL DEF Spec, FullDurationUnlessRaced

-----------------------------------------------------------------------------
\* The invariant behind KnownOutputAgrees

\* The last commands of the floodlight l neither failed nor overlapped: at most
\* one is out, the relay is as it says once it is applied, and without one the
\* database knows the relay.
KnownOf(l) ==
    /\ \A w, v \in wire : w.light = l /\ v.light = l => w = v
    /\ \A w \in wire : w.light = l /\ w.applied => relay[l] = w.on
    /\ light[l].exists /\ (\A w \in wire : w.light # l) => known[l] = relay[l]

KnownInv == \A l \in Light \ blurred : KnownOf(l)

\* Sending another command blurs a floodlight that has one out.
LEMMA KnownSend ==
    ASSUME KnownInv, NEW p, NEW l \in Light, NEW on, Send(p, l, on), UNCHANGED <<light, known, relay>>
    PROVE  KnownInv'
<1> DEFINE new == [by |-> p, light |-> l, on |-> on, applied |-> FALSE]
<1>1. /\ wire' = wire \cup {new}
      /\ blurred' = IF \E w \in wire : w.light = l THEN blurred \cup {l} ELSE blurred \ {l}
  BY DEF Send
<1>2. new.light = l /\ ~new.applied
  OBVIOUS
<1> HIDE DEF new
<1>3. ASSUME NEW k \in Light \ blurred' PROVE KnownOf(k)'
  <2>1. CASE k = l
    <3>1. \A w \in wire : w.light # l
      BY <1>1, <1>3, <2>1
    <3>2. \A w \in wire' : w.light = l => w = new
      BY <1>1, <3>1
    <3>3. QED
      BY <1>1, <1>2, <2>1, <3>2 DEF KnownOf
  <2>2. CASE k # l
    <3>1. k \notin blurred
      BY <1>1, <1>3, <2>2
    <3>2. KnownOf(k)
      BY <3>1 DEF KnownInv
    <3>3. \A w \in wire' : w.light = k => w \in wire
      BY <1>1, <1>2, <2>2
    <3>4. wire \subseteq wire'
      BY <1>1
    <3>5. QED
      BY <3>2, <3>3, <3>4 DEF KnownOf
  <2>3. QED
    BY <2>1, <2>2
<1>4. QED
  BY <1>3 DEF KnownInv

\* Nothing is lost when floodlights are deleted or edited.
LEMMA KnownKept ==
    ASSUME KnownInv, UNCHANGED <<wire, known, relay, blurred>>,
           \A l \in Light : light'[l].exists => light[l].exists
    PROVE  KnownInv'
  BY DEF KnownInv, KnownOf

LEMMA KnownStep ==
    ASSUME TypeOK, KnownInv, [Next]_vars
    PROVE  KnownInv'
<1> USE DEF dbVars, runVars, histVars
<1>0. /\ light \in [Light -> LightRow] /\ known \in [Light -> BOOLEAN]
      /\ wire \subseteq Command /\ relay \in [Light -> BOOLEAN]
  BY DEF TypeOK
<1>1. ASSUME NEW a \in Act, NEW l \in Light, SendOn(a, l) PROVE KnownInv'
  BY <1>1, KnownSend DEF SendOn
<1>2. ASSUME NEW p \in Poll, NEW l \in Light, SendOff(p, l) PROVE KnownInv'
  BY <1>2, KnownSend DEF SendOff
<1>3. ASSUME NEW c \in Cmd, NEW l \in Light, NEW on \in BOOLEAN, Manual(c, l, on) PROVE KnownInv'
  BY <1>3, KnownSend DEF Manual
<1>4. ASSUME NEW w \in wire, Apply(w) PROVE KnownInv'
  <2> DEFINE new == [w EXCEPT !.applied = TRUE]
  <2>1. /\ w \in Command /\ w.light \in Light
        /\ wire' = (wire \ {w}) \cup {new} /\ relay' = [relay EXCEPT ![w.light] = w.on]
        /\ UNCHANGED <<light, known, blurred>>
    BY <1>0, <1>4 DEF Apply, Command
  <2>2. new.light = w.light /\ new.on = w.on
    BY <2>1 DEF Command
  <2>3. relay'[w.light] = w.on /\ \A k \in Light : k # w.light => relay'[k] = relay[k]
    BY <1>0, <2>1
  <2> HIDE DEF new
  <2>4. ASSUME NEW k \in Light \ blurred' PROVE KnownOf(k)'
    <3>1. KnownOf(k)
      BY <2>1, <2>4 DEF KnownInv
    <3>2. CASE k = w.light
      <4>1. \A v \in wire' : v.light = k => v = new
        BY <2>1, <3>1, <3>2 DEF KnownOf
      <4>2. new \in wire' /\ new.light = k /\ new.on = relay'[k]
        BY <2>1, <2>2, <2>3, <3>2
      <4>3. QED
        BY <4>1, <4>2 DEF KnownOf
    <3>3. CASE k # w.light
      <4>1. \A v : v.light = k => (v \in wire' <=> v \in wire)
        BY <2>1, <2>2, <3>3
      <4>2. relay'[k] = relay[k] /\ known'[k] = known[k] /\ light'[k] = light[k]
        BY <2>1, <2>3, <3>3
      <4>3. QED
        BY <3>1, <4>1, <4>2 DEF KnownOf
    <3>4. QED
      BY <3>2, <3>3
  <2>5. QED
    BY <2>4 DEF KnownInv
<1>5. ASSUME NEW w \in wire, AnswerOk(w) PROVE KnownInv'
  <2>1. /\ w.light \in Light /\ w.applied /\ wire' = wire \ {w}
        /\ known' = [known EXCEPT ![w.light] = IF light[w.light].exists THEN w.on ELSE @]
        /\ UNCHANGED <<light, relay, blurred>>
    BY <1>0, <1>5 DEF AnswerOk, Command
  <2>2. /\ \A k \in Light : k # w.light => known'[k] = known[k]
        /\ light[w.light].exists => known'[w.light] = w.on
    BY <1>0, <2>1
  <2>3. ASSUME NEW k \in Light \ blurred' PROVE KnownOf(k)'
    <3>1. KnownOf(k)
      BY <2>1, <2>3 DEF KnownInv
    <3>2. CASE k = w.light
      <4>1. \A v \in wire' : v.light # k
        BY <2>1, <3>1, <3>2 DEF KnownOf
      <4>2. relay'[k] = w.on /\ (light'[k].exists => known'[k] = w.on)
        BY <2>1, <2>2, <3>1, <3>2 DEF KnownOf
      <4>3. QED
        BY <4>1, <4>2 DEF KnownOf
    <3>3. CASE k # w.light
      <4>1. \A v : v.light = k => (v \in wire' <=> v \in wire)
        BY <2>1, <3>3
      <4>2. relay'[k] = relay[k] /\ known'[k] = known[k] /\ light'[k] = light[k]
        BY <2>1, <2>2, <3>3
      <4>3. QED
        BY <3>1, <4>1, <4>2 DEF KnownOf
    <3>4. QED
      BY <3>2, <3>3
  <2>4. QED
    BY <2>3 DEF KnownInv
<1>6. ASSUME NEW w \in wire, AnswerFailed(w) PROVE KnownInv'
  <2>1. /\ wire' = wire \ {w} /\ blurred' = blurred \cup {w.light}
        /\ UNCHANGED <<light, known, relay>>
    BY <1>6 DEF AnswerFailed
  <2>2. ASSUME NEW k \in Light \ blurred' PROVE KnownOf(k)'
    <3>1. KnownOf(k) /\ k # w.light
      BY <2>1, <2>2 DEF KnownInv
    <3>2. \A v : v.light = k => (v \in wire' <=> v \in wire)
      BY <2>1, <3>1
    <3>3. QED
      BY <2>1, <3>1, <3>2 DEF KnownOf
  <2>3. QED
    BY <2>2 DEF KnownInv
<1>7. CASE Restart
  <2>1. /\ wire' = {} /\ blurred' = blurred \cup {w.light : w \in wire}
        /\ UNCHANGED <<light, known, relay>>
    BY <1>7 DEF Restart
  <2>2. QED
    BY <2>1 DEF KnownInv, KnownOf
<1>8. ASSUME NEW l \in Light, NEW m \in Mode, SetMode(l, m) PROVE KnownInv'
  BY <1>0, <1>8, KnownKept DEF SetMode, LightRow
<1>9. ASSUME NEW l \in Light, NEW b \in BOOLEAN, SetAutomation(l, b) PROVE KnownInv'
  BY <1>0, <1>9, KnownKept DEF SetAutomation, LightRow
<1>10. ASSUME NEW l \in Light, DeleteLight(l) PROVE KnownInv'
  BY <1>0, <1>10, KnownKept DEF DeleteLight, LightRow
<1>11. ASSUME NEW a \in Act, NEW g \in Group, StartGroup(a, g) PROVE KnownInv'
  BY <1>11, KnownKept DEF StartGroup
<1>12. ASSUME NEW a \in Act, NEW l \in Light, StartLight(a, l) \/ SkipOn(a, l) PROVE KnownInv'
  BY <1>12, KnownKept DEF StartLight, SkipOn
<1>13. ASSUME NEW a \in Act, FindTimer(a) \/ WriteTimer(a) PROVE KnownInv'
  BY <1>13, KnownKept DEF FindTimer, WriteTimer
<1>14. ASSUME NEW p \in Poll, PollStart(p) \/ NextRow(p) \/ Deactivate(p) PROVE KnownInv'
  BY <1>14, KnownKept DEF PollStart, NextRow, Deactivate
<1>15. ASSUME NEW p \in Poll, NEW l \in Light, SkipOff(p, l) PROVE KnownInv'
  BY <1>15, KnownKept DEF SkipOff
<1>16. ASSUME NEW g \in Group, NEW S \in SUBSET Light, SetMembers(g, S) PROVE KnownInv'
  BY <1>16, KnownKept DEF SetMembers
<1>17. ASSUME NEW g \in Group, DeleteGroup(g) PROVE KnownInv'
  BY <1>17, KnownKept DEF DeleteGroup
<1>18. CASE Tick
  BY <1>18, KnownKept DEF Tick
<1>19. CASE UNCHANGED vars
  BY <1>19, KnownKept DEF vars
<1>20. QED
  BY <1>1, <1>2, <1>3, <1>4, <1>5, <1>6, <1>7, <1>8, <1>9, <1>10, <1>11, <1>12, <1>13,
     <1>14, <1>15, <1>16, <1>17, <1>18, <1>19, NextActions

\* lastKnownOutput is the real output of a floodlight that exists and has no
\* command under way, unless its last commands failed or overlapped.
THEOREM OutputKnown == Spec => []KnownOutputAgrees
<1>1. Init => KnownInv
  BY DEF Init, KnownInv, KnownOf
<1>2. KnownInv => KnownOutputAgrees
  BY DEF KnownInv, KnownOf, KnownOutputAgrees
<1>3. QED
  BY <1>1, <1>2, TypeCorrect, KnownStep, PTL DEF Spec

=============================================================================
