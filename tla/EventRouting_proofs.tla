------------------------- MODULE EventRouting_proofs -------------------------
(***************************************************************************)
(* Proofs about EventRouting, for any sources, routes, conditions, lights  *)
(* and groups, payloads, operator requests and number of events in flight. *)
(* First who controls a condition, and that a stored route can fire: facts *)
(* about the route and webhook requests alone. Then the invariants of the  *)
(* runs, of the log and of the verdicts, for the cooldown and the          *)
(* schedule. Last the wishes of the events, from the payload to the        *)
(* execution, for LastEventWins.                                           *)
(***************************************************************************)
EXTENDS EventRouting, Ascending_proofs, SequenceTheorems

\* The routes that control c
Controls(c) == {i \in 1..MaxRoutes : Live(routes[i]) /\ routes[i].target = c}

\* Two enabled routes of a condition are the same one, and it has no enabled
\* webhook beside it.
ControlInv ==
    /\ DOMAIN routes = 1..MaxRoutes
    /\ \A c \in Cond : \A i, j \in Controls(c) : i = j
    /\ \A c \in Cond : Controls(c) # {} => c \notin hookOn

LEMMA ControlUnchanged ==
    ASSUME ControlInv, UNCHANGED <<routes, hookOn>>
    PROVE  ControlInv'
  BY DEF ControlInv, Controls, Live, NoRoute

\* A saved route controls its condition alone.
LEMMA ControlSaved ==
    ASSUME ControlInv, NEW k \in 1..MaxRoutes, NEW r, Save(k, r)
    PROVE  ControlInv'
<1>1. routes' = [routes EXCEPT ![k] = r] /\ hookOn' = hookOn /\ NoConflict(r, k)
  BY DEF Save
<1>2. DOMAIN routes' = 1..MaxRoutes
  BY <1>1 DEF ControlInv
<1>3. /\ routes'[k] = r
      /\ \A i \in 1..MaxRoutes : i # k => routes'[i] = routes[i]
  BY <1>1 DEF ControlInv
<1>4. ASSUME NEW c \in Cond, NEW i \in Controls(c)', i # k
      PROVE  i \in Controls(c)
  BY <1>3, <1>4 DEF Controls, Live, NoRoute
<1>5. ASSUME NEW c \in Cond, k \in Controls(c)'
      PROVE  c \notin hookOn /\ \A i \in Controls(c)' : i = k
  <2>1. Live(r) /\ r.target = c
    BY <1>3, <1>5 DEF Controls, Live, NoRoute
  <2>2. /\ \A j \in 1..MaxRoutes : j # k /\ Live(routes[j]) => routes[j].target # c
        /\ c \notin hookOn
    BY <1>1, <2>1 DEF NoConflict
  <2>3. Controls(c) \subseteq {k}
    BY <2>2 DEF Controls
  <2>4. QED
    BY <1>4, <2>2, <2>3
<1>6. ASSUME NEW c \in Cond
      PROVE  /\ \A i, j \in Controls(c)' : i = j
             /\ Controls(c)' # {} => c \notin hookOn'
  <2>1. CASE k \in Controls(c)'
    BY <1>1, <1>5, <2>1
  <2>2. CASE k \notin Controls(c)'
    BY <1>1, <1>4, <2>2 DEF ControlInv
  <2>3. QED
    BY <2>1, <2>2
<1>7. QED
  BY <1>2, <1>6 DEF ControlInv

\* A removed route controls nothing.
LEMMA ControlDeleted ==
    ASSUME ControlInv, NEW k \in 1..MaxRoutes, DeleteRoute(k)
    PROVE  ControlInv'
<1>1. routes' = [routes EXCEPT ![k] = NoRoute] /\ hookOn' = hookOn
  BY DEF DeleteRoute
<1>2. DOMAIN routes' = 1..MaxRoutes
  BY <1>1 DEF ControlInv
<1>3. ~Live(routes'[k]) /\ \A i \in 1..MaxRoutes : i # k => routes'[i] = routes[i]
  BY <1>1 DEF ControlInv, Live
<1>4. ASSUME NEW c \in Cond
      PROVE  Controls(c)' \subseteq Controls(c)
  BY <1>3 DEF Controls, Live, NoRoute
<1>5. QED
  BY <1>1, <1>2, <1>4 DEF ControlInv

\* A webhook is enabled only for a condition without an enabled route.
LEMMA ControlSwitched ==
    ASSUME ControlInv, NEW d \in Cond, SwitchHook(d)
    PROVE  ControlInv'
<1>1. routes' = routes /\ hookOn' = IF d \in hookOn THEN hookOn \ {d} ELSE hookOn \cup {d}
  BY DEF SwitchHook
<1>2. d \notin hookOn => Controls(d) = {}
  BY DEF SwitchHook, Controls
<1>3. \A c : Controls(c)' = Controls(c)
  BY <1>1 DEF Controls, Live, NoRoute
<1>4. ASSUME NEW c \in Cond, Controls(c) # {}
      PROVE  c \notin hookOn'
  BY <1>1, <1>2, <1>4 DEF ControlInv
<1>5. QED
  BY <1>1, <1>3, <1>4 DEF ControlInv

\* ControlInv is preserved by every step.
LEMMA ControlStep ==
    ASSUME ControlInv, [Next]_vars
    PROVE  ControlInv'
<1>1. CASE Arrive
  BY <1>1, ControlUnchanged DEF Arrive, Receive, ReceiveTogether, confVars
<1>2. ASSUME NEW h \in Run, Step(h) PROVE ControlInv'
  BY <1>2, ControlUnchanged
     DEF Step, DecideTarget, LogDecision, SubmitCondition, Answer, LogOwn, confVars
<1>3. CASE Tick
  BY <1>3, ControlUnchanged DEF Tick, confVars
<1>4. CASE Operate
  <2>1. ASSUME NEW b \in Body, PostRoute(b) PROVE ControlInv'
    BY <2>1, ControlSaved DEF PostRoute
  <2>2. ASSUME NEW i \in 1..MaxRoutes, NEW b \in Body, PatchRoute(i, b) PROVE ControlInv'
    BY <2>2, ControlSaved DEF PatchRoute
  <2>3. ASSUME NEW i \in 1..MaxRoutes, DeleteRoute(i) PROVE ControlInv'
    BY <2>3, ControlDeleted
  <2>4. ASSUME NEW c \in Cond, SwitchHook(c) PROVE ControlInv'
    BY <2>4, ControlSwitched
  <2>5. ASSUME NEW t \in Lamp, NEW v \in {"on", "off", "test"}, SetRow(t, v) PROVE ControlInv'
    BY <2>5, ControlUnchanged DEF SetRow
  <2>6. QED
    BY <1>4, <2>1, <2>2, <2>3, <2>4, <2>5 DEF Operate
<1>5. CASE UNCHANGED vars
  BY <1>5, ControlUnchanged DEF vars
<1>6. QED
  BY <1>1, <1>2, <1>3, <1>4, <1>5 DEF Next

\* ControlInv holds in every reachable state.
LEMMA Controlled == Spec => []ControlInv
<1>1. Init => ControlInv
  <2> SUFFICES ASSUME Init PROVE ControlInv
    OBVIOUS
  <2>1. /\ routes = [i \in 1..MaxRoutes |->
                        IF i <= Len(FirstRoutes) THEN FirstRoutes[i] ELSE NoRoute]
        /\ hookOn = FirstHooks
    BY DEF Init
  <2>2. ASSUME NEW c \in Cond, NEW i \in Controls(c)
        PROVE  /\ i \in 1..Len(FirstRoutes) /\ Live(FirstRoutes[i])
               /\ FirstRoutes[i].target = c
    <3>1. i \in 1..MaxRoutes /\ Live(routes[i]) /\ routes[i].target = c
      BY DEF Controls
    <3>2. i <= Len(FirstRoutes)
      <4>1. SUFFICES ASSUME ~(i <= Len(FirstRoutes)) PROVE FALSE
        OBVIOUS
      <4>2. routes[i] = NoRoute
        BY <2>1, <3>1, <4>1
      <4>3. QED
        BY <3>1, <4>2 DEF Live
    <3>3. routes[i] = FirstRoutes[i]
      BY <2>1, <3>1, <3>2
    <3>4. i \in 1..Len(FirstRoutes)
      BY <3>1, <3>2, RouteAssumption
    <3>5. QED
      BY <3>1, <3>3, <3>4
  <2>3. ASSUME NEW c \in Cond, NEW i \in Controls(c), NEW j \in Controls(c)
        PROVE  i = j /\ c \notin hookOn
    BY <2>1, <2>2, FirstAssumption
  <2>4. QED
    BY <2>1, <2>3 DEF ControlInv
<1>2. ControlInv /\ [Next]_vars => ControlInv'
  BY ControlStep
<1>3. QED
  BY <1>1, <1>2, PTL DEF Spec

\* A condition is controlled by one enabled resolved route or by one enabled
\* semantic webhook, whatever sequence of requests the operator makes.
THEOREM Controller == Spec => []OneController
<1>1. ControlInv => OneController
  <2> SUFFICES ASSUME ControlInv, NEW c \in Cond
               PROVE  Cardinality(Controls(c)) + (IF c \in hookOn THEN 1 ELSE 0) <= 1
    BY DEF OneController, Controls
  <2>1. CASE Controls(c) = {}
    <3>1. Cardinality(Controls(c)) = 0
      BY <2>1, FS_EmptySet
    <3>2. QED
      BY <3>1
  <2>2. CASE Controls(c) # {}
    <3>1. PICK i \in Controls(c) : TRUE
      BY <2>2
    <3>2. Controls(c) = {i}
      BY <3>1 DEF ControlInv
    <3>3. Cardinality(Controls(c)) = 1
      BY <3>2, FS_Singleton
    <3>4. c \notin hookOn
      BY <2>2 DEF ControlInv
    <3>5. QED
      BY <3>3, <3>4
  <2>3. QED
    BY <2>1, <2>2
<1>2. QED
  BY <1>1, Controlled, PTL

-----------------------------------------------------------------------------
\* The policy

\* What the schedule says
LEMMA ScheduleSays ==
    ASSUME NEW now, NEW plan, NEW settings
    PROVE  Schedule(now, plan, settings) \in
              {"ok", "outside_fixed_window", "astro_config_missing", "outside_astro_window"}
  BY DEF Schedule

\* The moments that the schedule lets pass are those that the plan allows.
LEMMA ScheduleAllows ==
    ASSUME NEW t \in Lamp, NEW m \in 0..Day - 1, Schedule(m, Plan[t], Settings) = "ok"
    PROVE  m \in Allowed(Plan[t])
<1> DEFINE s == Plan[t].start
           e == Plan[t].end
<1>1. Day \in Nat /\ Day > 0
  BY DayAssumption
<1>2. CASE Plan[t].mode = "fixed_window"
  <2>1. s \in 0..Day - 1 /\ e \in 0..Day - 1
    BY <1>2, PlanAssumption
  <2>2. FixedWindowAllowed(m, s, e)
    BY <1>2 DEF Schedule
  <2>3. Allowed(Plan[t]) = Window(s, e)
    BY <1>2 DEF Allowed
  <2> HIDE DEF s, e
  <2>4. \E k \in 0..((e - s) % Day) : (s + k) % Day = m
    <3>1. CASE s <= e
      <4>1. m >= s /\ m <= e
        BY <2>2, <3>1 DEF FixedWindowAllowed
      <4>2. e - s \in 0..Day - 1
        BY <1>1, <2>1, <3>1
      <4>3. (e - s) % Day = e - s
        BY <4>2, DayAssumption
      <4>4. m - s \in 0..((e - s) % Day)
        BY <2>1, <4>1, <4>3
      <4>5. s + (m - s) = m /\ m % Day = m
        BY <2>1, DayAssumption
      <4>6. QED
        BY <4>4, <4>5
    <3>2. CASE ~(s <= e)
      <4>1. m >= s \/ m <= e
        BY <2>2, <3>2 DEF FixedWindowAllowed
      <4>2. (e - s) + Day \in 0..Day - 1
        BY <1>1, <2>1, <3>2
      <4>3. (((e - s) + Day) - Day) % Day = (e - s) + Day
        BY <4>2, DayAssumption
      <4>4. ((e - s) + Day) - Day = e - s
        BY <1>1, <2>1
      <4>5. (e - s) % Day = (e - s) + Day
        BY <4>3, <4>4
      <4>6. CASE m >= s
        <5>1. m - s \in 0..((e - s) % Day)
          BY <1>1, <2>1, <4>5, <4>6
        <5>2. s + (m - s) = m /\ m % Day = m
          BY <2>1, DayAssumption
        <5>3. QED
          BY <5>1, <5>2
      <4>7. CASE m <= e
        <5>1. (m - s) + Day \in 0..((e - s) % Day)
          BY <1>1, <2>1, <3>2, <4>5, <4>7
        <5>2. s + ((m - s) + Day) = m + Day /\ (m + Day) % Day = m
          BY <2>1, DayAssumption
        <5>3. QED
          BY <5>1, <5>2
      <4>8. QED
        BY <4>1, <4>6, <4>7
    <3>3. QED
      BY <3>1, <3>2
  <2>5. QED
    BY <2>3, <2>4 DEF Window
<1>3. CASE Plan[t].mode = "astro_offset"
  <2>1. Settings.astro /\ AstroAllowed(m, Plan[t], Settings)
    BY <1>3 DEF Schedule
  <2>2. s \in Int /\ e \in Int /\ Settings.sunset \in Int /\ Settings.sunrise \in Int
    BY <1>3, <2>1, PlanAssumption
  <2>3. m >= Settings.sunset + s \/ m <= Settings.sunrise + e
    BY <1>3, <2>1 DEF AstroAllowed
  <2>4. ~(m > Settings.sunrise + e /\ m < Settings.sunset + s)
    BY <2>2, <2>3
  <2>5. QED
    BY <1>3, <2>4 DEF Allowed
<1>4. CASE Plan[t].mode = "sunset_to_sunrise"
  <2>1. Settings.astro /\ AstroAllowed(m, Plan[t], Settings)
    BY <1>4 DEF Schedule
  <2>2. Settings.sunset \in Int /\ Settings.sunrise \in Int
    BY <2>1, PlanAssumption
  <2>3. m >= Settings.sunset + 0 \/ m <= Settings.sunrise + 0
    BY <1>4, <2>1 DEF AstroAllowed
  <2>4. ~(m > Settings.sunrise /\ m < Settings.sunset)
    BY <2>2, <2>3
  <2>5. QED
    BY <1>4, <2>4 DEF Allowed
<1>5. CASE Plan[t].mode \notin {"fixed_window", "astro_offset", "sunset_to_sunrise"}
  BY <1>5 DEF Allowed
<1>6. QED
  BY <1>2, <1>3, <1>4, <1>5

\* The verdicts, and what they rest on
LEMMA Decided ==
    ASSUME NEW t, NEW r \in {"on", "off", "test"}, NEW plan, NEW settings, NEW now, NEW l
    PROVE  LET v == Decide(t, r, plan, settings, now, l)
               i == LastAccepted(l, t)
           IN  /\ IsAccepted(v) => r = "test" \/ (r = "on" /\ Schedule(now, plan, settings) = "ok")
               /\ v = "accepted" =>
                     i = 0 \/ (~(l[i].age < plan.debounce) /\ ~(l[i].age < plan.cooldown))
               /\ v \in {"debounce_violation", "cooldown_violation"} =>
                     i # 0 /\ (l[i].age < plan.debounce \/ l[i].age < plan.cooldown)
<1> DEFINE v == Decide(t, r, plan, settings, now, l)
           i == LastAccepted(l, t)
           s == Schedule(now, plan, settings)
<1>1. s \in {"ok", "outside_fixed_window", "astro_config_missing", "outside_astro_window"}
  BY ScheduleSays
<1>2. CASE r = "off"
  <2>1. v = "automation_disabled"
    BY <1>2 DEF Decide
  <2>2. QED
    BY <2>1 DEF IsAccepted
<1>3. CASE r = "test"
  <2>1. v = "accepted_test_mode"
    BY <1>3 DEF Decide
  <2>2. QED
    BY <1>3, <2>1 DEF IsAccepted
<1>4. CASE r = "on" /\ s # "ok"
  <2>1. v = s
    BY <1>4 DEF Decide
  <2>2. QED
    BY <1>1, <1>4, <2>1 DEF IsAccepted
<1>5. CASE r = "on" /\ s = "ok"
  <2>1. v = IF i # 0 /\ l[i].age < plan.debounce THEN "debounce_violation"
            ELSE IF i # 0 /\ l[i].age < plan.cooldown THEN "cooldown_violation"
            ELSE "accepted"
    BY <1>5 DEF Decide
  <2> HIDE DEF v, i, s
  <2>2. /\ v = "accepted" => i = 0 \/ (~(l[i].age < plan.debounce) /\ ~(l[i].age < plan.cooldown))
        /\ v \in {"debounce_violation", "cooldown_violation"} =>
              i # 0 /\ (l[i].age < plan.debounce \/ l[i].age < plan.cooldown)
    BY <2>1
  <2>3. QED
    BY <1>5, <2>2 DEF v, i, s
<1>6. QED
  BY <1>2, <1>3, <1>4, <1>5

-----------------------------------------------------------------------------
\* The event log

Accepts(l, t) == {i \in 1..Len(l) : l[i].target = t /\ l[i].accepted}

\* The greatest of some numbers up to n
LEMMA Greatest ==
    ASSUME NEW n \in Nat, NEW I \in SUBSET (1..n), I # {}
    PROVE  Max(I) \in I /\ \A i \in I : i <= Max(I)
<1> DEFINE B == {n - i : i \in I}
<1>1. B \in SUBSET Nat /\ B # {}
  <2>1. ASSUME NEW b \in B PROVE b \in Nat
    <3>1. PICK i \in I : b = n - i
      OBVIOUS
    <3>2. i \in 1..n
      OBVIOUS
    <3>3. QED
      BY <3>1, <3>2
  <2>2. PICK x \in I : TRUE
    OBVIOUS
  <2>3. n - x \in B
    OBVIOUS
  <2>4. QED
    BY <2>1, <2>3
<1>2. PICK m \in B : \A b \in B : m <= b
  BY <1>1, LeastOf
<1>3. PICK x \in I : m = n - x
  BY <1>2
<1>4. \A i \in I : x >= i
  <2> TAKE i \in I
  <2>1. m <= n - i
    BY <1>2
  <2>2. QED
    BY <1>3, <2>1
<1>5. Max(I) \in I /\ \A i \in I : Max(I) >= i
  BY <1>3, <1>4 DEF Max
<1>6. QED
  BY <1>5

\* The newest accepted row
LEMMA LastAcceptedIs ==
    ASSUME NEW l \in Seq(LogRow), NEW t
    PROVE  /\ LastAccepted(l, t) = 0 \/ LastAccepted(l, t) \in Accepts(l, t)
           /\ \A i \in Accepts(l, t) : i <= LastAccepted(l, t)
           /\ LastAccepted(l, t) = 0 <=> Accepts(l, t) = {}
<1> DEFINE I == Accepts(l, t)
<1>1. LastAccepted(l, t) = IF I # {} THEN Max(I) ELSE 0
  BY DEF LastAccepted, SelectLastInSeq, Accepts
<1>2. Len(l) \in Nat /\ I \in SUBSET (1..Len(l))
  BY LenProperties DEF Accepts
<1> HIDE DEF I
<1>3. ASSUME I # {} PROVE Max(I) \in I /\ Max(I) # 0 /\ \A i \in I : i <= Max(I)
  <2>1. Max(I) \in I /\ \A i \in I : i <= Max(I)
    BY <1>2, <1>3, Greatest
  <2>2. Max(I) \in 1..Len(l)
    BY <1>2, <2>1
  <2>3. QED
    BY <2>1, <2>2
<1>4. QED
  BY <1>1, <1>3 DEF I

\* The log without its oldest rows, and with the new one
LEMMA Inserted ==
    ASSUME NEW l \in Seq(LogRow), NEW r \in LogRow
    PROVE  LET n == InsertLog(l, r, Keep)
           IN  /\ n \in Seq(LogRow) /\ Len(n) <= Keep /\ Len(n) \in 1..Len(l) + 1
               /\ n[Len(n)] = r
               /\ \A i \in 1..Len(n) - 1 : /\ i + (Len(l) + 1 - Len(n)) \in 1..Len(l)
                                           /\ n[i] = l[i + (Len(l) + 1 - Len(n))]
<1> DEFINE longer == Append(l, r)
           from == IF Len(longer) > Keep THEN Len(longer) - Keep + 1 ELSE 1
           n == SubSeq(longer, from, Len(longer))
<1>1. Keep \in Nat /\ Keep > 0 /\ Len(l) \in Nat
  BY RouteAssumption, LenProperties
<1>2. /\ longer \in Seq(LogRow) /\ Len(longer) = Len(l) + 1 /\ longer[Len(l) + 1] = r
      /\ \A i \in 1..Len(l) : longer[i] = l[i]
  BY AppendProperties
<1> HIDE DEF longer
<1>3. /\ from \in 1..Len(longer) /\ Len(longer) \in 1..Len(longer)
      /\ Len(longer) - from + 1 <= Keep /\ Len(longer) - from + 1 \in 1..Len(l) + 1
  <2>1. CASE Len(longer) > Keep
    <3>1. from = Len(longer) - Keep + 1
      BY <2>1
    <3>2. QED
      BY <1>1, <1>2, <2>1, <3>1
  <2>2. CASE ~(Len(longer) > Keep)
    <3>1. from = 1
      BY <2>2
    <3>2. QED
      BY <1>1, <1>2, <2>2, <3>1
  <2>3. QED
    BY <2>1, <2>2
<1> HIDE DEF from
<1>4. /\ n \in Seq(LogRow) /\ Len(n) = Len(longer) - from + 1
      /\ \A i \in 1..Len(longer) - from + 1 : n[i] = longer[from + i - 1]
  BY <1>2, <1>3, SubSeqProperties
<1> HIDE DEF n
<1>5. n[Len(n)] = r
  <2>1. Len(n) \in 1..Len(longer) - from + 1 /\ from + Len(n) - 1 = Len(l) + 1
    BY <1>1, <1>2, <1>3, <1>4
  <2>2. QED
    BY <1>2, <1>4, <2>1
<1>6. ASSUME NEW i \in 1..Len(n) - 1
      PROVE  /\ i + (Len(l) + 1 - Len(n)) \in 1..Len(l)
             /\ n[i] = l[i + (Len(l) + 1 - Len(n))]
  <2>1. /\ i \in 1..Len(longer) - from + 1
        /\ from + i - 1 = i + (Len(l) + 1 - Len(n))
        /\ i + (Len(l) + 1 - Len(n)) \in 1..Len(l)
    BY <1>1, <1>2, <1>3, <1>4
  <2>2. QED
    BY <1>2, <1>4, <2>1
<1>7. InsertLog(l, r, Keep) = n
  BY DEF InsertLog, n, longer, from
<1>8. QED
  BY <1>3, <1>4, <1>5, <1>6, <1>7

\* The newest accepted row of a target is the one inserted, or it is still the
\* one that was, or the target has none.
LEMMA LastInserted ==
    ASSUME NEW l \in Seq(LogRow), NEW r \in LogRow, NEW t
    PROVE  LET n == InsertLog(l, r, Keep)
               j == LastAccepted(n, t)
               i == LastAccepted(l, t)
           IN  /\ (r.target = t /\ r.accepted) => j # 0 /\ n[j] = r
               /\ ~(r.target = t /\ r.accepted) => j = 0 \/ (i # 0 /\ n[j] = l[i])
<1> DEFINE n == InsertLog(l, r, Keep)
           j == LastAccepted(n, t)
           i == LastAccepted(l, t)
           d == Len(l) + 1 - Len(n)
<1>1. /\ n \in Seq(LogRow) /\ Len(n) \in 1..Len(l) + 1 /\ n[Len(n)] = r
      /\ \A k \in 1..Len(n) - 1 : k + d \in 1..Len(l) /\ n[k] = l[k + d]
  BY Inserted
<1>2. /\ j = 0 \/ j \in Accepts(n, t)
      /\ \A k \in Accepts(n, t) : k <= j
      /\ j = 0 <=> Accepts(n, t) = {}
  BY <1>1, LastAcceptedIs
<1>3. /\ i = 0 \/ i \in Accepts(l, t)
      /\ \A k \in Accepts(l, t) : k <= i
      /\ i = 0 <=> Accepts(l, t) = {}
  BY LastAcceptedIs
<1>4. Len(l) \in Nat /\ Len(n) \in Nat /\ d \in Nat
  BY <1>1, LenProperties
<1> HIDE DEF n, i, j
<1>5. ASSUME r.target = t /\ r.accepted PROVE j # 0 /\ n[j] = r
  <2>1. Len(n) \in Accepts(n, t)
    BY <1>1, <1>4, <1>5 DEF Accepts
  <2>2. j \in 1..Len(n) /\ Len(n) <= j
    BY <1>2, <2>1 DEF Accepts
  <2>3. j = Len(n)
    BY <1>4, <2>2
  <2>4. QED
    BY <1>1, <1>4, <2>2, <2>3
<1>6. ASSUME ~(r.target = t /\ r.accepted), j # 0 PROVE i # 0 /\ n[j] = l[i]
  <2>1. j \in Accepts(n, t) /\ j \in 1..Len(n)
    BY <1>2, <1>6 DEF Accepts
  <2>2. j # Len(n)
    BY <1>1, <1>6, <2>1 DEF Accepts
  <2>3. j \in 1..Len(n) - 1
    BY <1>4, <2>1, <2>2
  <2>4. j + d \in 1..Len(l) /\ n[j] = l[j + d]
    BY <1>1, <2>3
  <2>5. j + d \in Accepts(l, t)
    BY <2>1, <2>4 DEF Accepts
  <2>6. i \in Accepts(l, t) /\ j + d <= i /\ i \in 1..Len(l)
    BY <1>3, <2>5 DEF Accepts
  <2>7. i = j + d
    <3>1. SUFFICES ASSUME j + d < i PROVE FALSE
      BY <1>4, <2>3, <2>6
    <3> DEFINE k == i - d
    <3>2. k \in 1..Len(n) /\ k > j
      BY <1>4, <2>3, <2>6, <3>1
    <3>3. k \in 1..Len(n) - 1 /\ k + d = i
      BY <1>4, <2>6, <3>2
    <3> HIDE DEF k
    <3>4. n[k] = l[i]
      BY <1>1, <3>3
    <3>5. k \in Accepts(n, t)
      BY <2>6, <3>2, <3>4 DEF Accepts
    <3>6. QED
      BY <1>2, <1>4, <2>1, <3>2, <3>5
  <2>8. QED
    BY <2>4, <2>5, <2>6, <2>7 DEF Accepts
<1>7. QED
  BY <1>5, <1>6 DEF n, i, j

\* Rows grow older together.
LEMMA LastAged ==
    ASSUME NEW l \in Seq(LogRow), NEW t
    PROVE  LET n == [i \in DOMAIN l |-> [l[i] EXCEPT !.age = Aged(@)]]
           IN  /\ n \in Seq(LogRow) /\ Len(n) = Len(l)
               /\ LastAccepted(n, t) = LastAccepted(l, t)
               /\ \A i \in 1..Len(l) : n[i].age = Aged(l[i].age)
<1> DEFINE n == [i \in DOMAIN l |-> [l[i] EXCEPT !.age = Aged(@)]]
<1>1. Len(l) \in Nat /\ DOMAIN l = 1..Len(l) /\ \A i \in 1..Len(l) : l[i] \in LogRow
  BY LenProperties
<1>2. \A a \in 0..MaxAge : Aged(a) \in 0..MaxAge
  BY PlanAssumption DEF Aged
<1>3. \A i \in 1..Len(l) : /\ n[i] = [l[i] EXCEPT !.age = Aged(@)]
                           /\ n[i] \in LogRow /\ n[i].target = l[i].target
                           /\ n[i].accepted = l[i].accepted /\ n[i].age = Aged(l[i].age)
  BY <1>1, <1>2 DEF LogRow
<1>4. n \in [1..Len(l) -> LogRow]
  BY <1>1, <1>3
<1> HIDE DEF n
<1>5. n \in Seq(LogRow) /\ Len(n) = Len(l)
  BY <1>1, <1>4, LenProperties
<1>6. Accepts(n, t) = Accepts(l, t)
  BY <1>3, <1>5 DEF Accepts
<1>7. LastAccepted(n, t) = LastAccepted(l, t)
  BY <1>6 DEF LastAccepted, SelectLastInSeq, Accepts
<1>8. QED
  BY <1>3, <1>5, <1>7 DEF n

-----------------------------------------------------------------------------
\* The stored routes

\* A route as the API stores it
Saved(r) ==
    /\ IsRoute(r) /\ WellFormed(r)
    /\ r.objects = {} => r.objects = AnyObject

RouteInv ==
    /\ DOMAIN routes = 1..MaxRoutes
    /\ \A i \in 1..MaxRoutes : routes[i] # NoRoute => Saved(routes[i])
    /\ hookOn \subseteq Cond
    /\ edits \in 0..MaxEdits

\* What is stored of a row with all its fields
LEMMA StoredRow ==
    ASSUME NEW r, r = [f \in RouteFields |-> r[f]]
    PROVE  /\ DOMAIN Stored(r) = RouteFields
           /\ Stored(r).objects = {} => Stored(r).objects = AnyObject
           /\ \A f \in RouteFields \ {"objects"} : Stored(r)[f] = r[f]
  BY DEF Stored, RouteFields

LEMMA SavedMerge ==
    ASSUME NEW b \in Body, NEW d, DOMAIN b \cup DOMAIN d = RouteFields,
           "source" \notin DOMAIN b => d["source"] \in DOMAIN Cameras,
           "target" \notin DOMAIN b => d["target"] \in Target \cup {NoTarget},
           "enabled" \notin DOMAIN b => d["enabled"] \in BOOLEAN,
           WellFormed(Stored(Merge(b, d)))
    PROVE  Saved(Stored(Merge(b, d)))
<1> DEFINE r == Merge(b, d)
           s == Stored(r)
<1>1. /\ DOMAIN b \subseteq RouteFields
      /\ "source" \in DOMAIN b => b["source"] \in DOMAIN Cameras
      /\ "target" \in DOMAIN b => b["target"] \in Target \cup {NoTarget}
      /\ "enabled" \in DOMAIN b => b["enabled"] \in BOOLEAN
  BY BodyAssumption
<1>2. r = [f \in RouteFields |-> IF f \in DOMAIN b THEN b[f] ELSE d[f]]
  BY DEF Merge
<1>3. r = [f \in RouteFields |-> r[f]]
  BY <1>2
<1>4. "source" \in RouteFields /\ "target" \in RouteFields /\ "enabled" \in RouteFields
  BY DEF RouteFields
<1>5. r["source"] \in DOMAIN Cameras /\ r["target"] \in Target \cup {NoTarget} /\ r["enabled"] \in BOOLEAN
  BY <1>1, <1>2, <1>4
<1>6. /\ DOMAIN s = RouteFields
      /\ s.objects = {} => s.objects = AnyObject
      /\ s["source"] = r["source"] /\ s["target"] = r["target"] /\ s["enabled"] = r["enabled"]
  BY <1>3, <1>4, StoredRow
<1>7. WellFormed(s)
  OBVIOUS
<1> HIDE DEF r, s
<1>8. s.class \in DOMAIN UpstreamType
  BY <1>7 DEF WellFormed
<1>9. Saved(s)
  BY <1>5, <1>6, <1>7, <1>8 DEF Saved, IsRoute
<1>10. QED
  BY <1>9 DEF s, r

LEMMA RouteUnchanged ==
    ASSUME RouteInv, UNCHANGED <<routes, hookOn, edits>>
    PROVE  RouteInv'
  BY DEF RouteInv, Saved, IsRoute, WellFormed, NoRoute

LEMMA RouteSaved ==
    ASSUME RouteInv, edits < MaxEdits, NEW k \in 1..MaxRoutes, NEW r, Saved(r), Save(k, r)
    PROVE  RouteInv'
<1>1. routes' = [routes EXCEPT ![k] = r] /\ hookOn' = hookOn /\ edits' = edits + 1
  BY DEF Save
<1>2. edits' \in 0..MaxEdits
  BY <1>1, RouteAssumption DEF RouteInv
<1>3. /\ DOMAIN routes' = 1..MaxRoutes /\ routes'[k] = r
      /\ \A i \in 1..MaxRoutes : i # k => routes'[i] = routes[i]
  BY <1>1 DEF RouteInv
<1>4. \A i \in 1..MaxRoutes : routes'[i] # NoRoute => Saved(routes'[i])
  BY <1>3 DEF RouteInv
<1>5. QED
  BY <1>1, <1>2, <1>3, <1>4 DEF RouteInv, Saved, IsRoute, WellFormed, NoRoute

LEMMA RouteStep ==
    ASSUME RouteInv, [Next]_vars
    PROVE  RouteInv'
<1>1. CASE Arrive
  BY <1>1, RouteUnchanged DEF Arrive, Receive, ReceiveTogether, confVars
<1>2. ASSUME NEW h \in Run, Step(h) PROVE RouteInv'
  BY <1>2, RouteUnchanged
     DEF Step, DecideTarget, LogDecision, SubmitCondition, Answer, LogOwn, confVars
<1>3. CASE Tick
  BY <1>3, RouteUnchanged DEF Tick, confVars
<1>4. CASE Operate
  <2>1. edits < MaxEdits /\ MaxEdits \in Nat /\ edits + 1 \in 0..MaxEdits
    BY <1>4, RouteAssumption DEF Operate, RouteInv
  <2>2. ASSUME NEW b \in Body, PostRoute(b) PROVE RouteInv'
    <3>1. PICK i \in 1..MaxRoutes : Save(i, Stored(Merge(b, Defaults(b))))
      BY <2>2 DEF PostRoute
    <3>2. /\ {"source", "class", "binding"} \subseteq DOMAIN b
          /\ DOMAIN b \subseteq RouteFields
      BY <2>2, BodyAssumption DEF PostRoute
    <3>3. /\ DOMAIN Defaults(b) = {"kind", "objects", "target", "enabled"}
          /\ Defaults(b)["target"] = NoTarget /\ Defaults(b)["enabled"] \in BOOLEAN
      BY DEF Defaults
    <3>4. DOMAIN b \cup DOMAIN Defaults(b) = RouteFields
      BY <3>2, <3>3 DEF RouteFields
    <3>5. WellFormed(Stored(Merge(b, Defaults(b))))
      BY <3>1 DEF Save
    <3>6. Saved(Stored(Merge(b, Defaults(b))))
      BY <3>2, <3>3, <3>4, <3>5, SavedMerge
    <3>7. QED
      BY <2>1, <3>1, <3>6, RouteSaved
  <2>3. ASSUME NEW i \in 1..MaxRoutes, NEW b \in Body, PatchRoute(i, b) PROVE RouteInv'
    <3>1. routes[i] # NoRoute /\ Save(i, Stored(Merge(b, routes[i])))
      BY <2>3 DEF PatchRoute
    <3>2. IsRoute(routes[i])
      BY <3>1 DEF RouteInv, Saved
    <3>3. DOMAIN b \cup DOMAIN routes[i] = RouteFields
      BY <3>2, BodyAssumption DEF IsRoute
    <3>4. WellFormed(Stored(Merge(b, routes[i])))
      BY <3>1 DEF Save
    <3>5. Saved(Stored(Merge(b, routes[i])))
      BY <3>2, <3>3, <3>4, SavedMerge DEF IsRoute
    <3>6. QED
      BY <2>1, <3>1, <3>5, RouteSaved
  <2>4. ASSUME NEW i \in 1..MaxRoutes, DeleteRoute(i) PROVE RouteInv'
    <3>1. routes' = [routes EXCEPT ![i] = NoRoute] /\ hookOn' = hookOn /\ edits' = edits + 1
      BY <2>4 DEF DeleteRoute
    <3>2. /\ DOMAIN routes' = 1..MaxRoutes /\ routes'[i] = NoRoute
          /\ \A j \in 1..MaxRoutes : j # i => routes'[j] = routes[j]
      BY <3>1 DEF RouteInv
    <3>3. \A j \in 1..MaxRoutes : routes'[j] # NoRoute => Saved(routes'[j])
      BY <3>2 DEF RouteInv
    <3>4. QED
      BY <2>1, <3>1, <3>2, <3>3 DEF RouteInv, Saved, IsRoute, WellFormed, NoRoute
  <2>5. ASSUME NEW c \in Cond, SwitchHook(c) PROVE RouteInv'
    <3>1. /\ routes' = routes /\ edits' = edits + 1
          /\ hookOn' = IF c \in hookOn THEN hookOn \ {c} ELSE hookOn \cup {c}
      BY <2>5 DEF SwitchHook
    <3>2. QED
      BY <2>1, <3>1 DEF RouteInv, Saved, IsRoute, WellFormed, NoRoute
  <2>6. ASSUME NEW t \in Lamp, NEW v \in {"on", "off", "test"}, SetRow(t, v) PROVE RouteInv'
    BY <2>1, <2>6 DEF SetRow, RouteInv, Saved, IsRoute, WellFormed, NoRoute
  <2>7. QED
    BY <1>4, <2>2, <2>3, <2>4, <2>5, <2>6 DEF Operate
<1>5. CASE UNCHANGED vars
  BY <1>5, RouteUnchanged DEF vars
<1>6. QED
  BY <1>1, <1>2, <1>3, <1>4, <1>5 DEF Next

LEMMA RouteInit == Init => RouteInv
<1> SUFFICES ASSUME Init PROVE RouteInv
  OBVIOUS
<1>1. /\ routes = [i \in 1..MaxRoutes |->
                      IF i <= Len(FirstRoutes) THEN FirstRoutes[i] ELSE NoRoute]
      /\ hookOn = FirstHooks /\ edits = 0
  BY DEF Init
<1>2. ASSUME NEW i \in 1..Len(FirstRoutes)
      PROVE  Saved(FirstRoutes[i])
  <2>1. /\ IsRoute(FirstRoutes[i]) /\ WellFormed(FirstRoutes[i])
        /\ Stored(FirstRoutes[i]) = FirstRoutes[i]
    BY FirstAssumption
  <2>2. "objects" \in DOMAIN FirstRoutes[i]
    BY <2>1 DEF IsRoute, RouteFields
  <2>3. FirstRoutes[i].objects = {} => FirstRoutes[i].objects = AnyObject
    BY <2>1, <2>2 DEF Stored
  <2>4. QED
    BY <2>1, <2>3 DEF Saved
<1>3. \A i \in 1..MaxRoutes : routes[i] # NoRoute => Saved(routes[i])
  <2>1. ASSUME NEW i \in 1..MaxRoutes, routes[i] # NoRoute PROVE Saved(routes[i])
    <3>1. i <= Len(FirstRoutes) /\ routes[i] = FirstRoutes[i]
      BY <1>1, <2>1
    <3>2. i \in 1..Len(FirstRoutes)
      BY <3>1, RouteAssumption
    <3>3. QED
      BY <1>2, <3>1, <3>2
  <2>2. QED
    BY <2>1
<1>4. QED
  BY <1>1, <1>3, RouteAssumption DEF RouteInv

\* Every enabled resolved route can fire: a message of its camera with the type
\* and the objects of its class matches it.
LEMMA RouteFires ==
    ASSUME NEW r, Saved(r), Live(r), r.class # "loiter"
    PROVE  \E e \in ConsoleEvents : Matches(r, e)
<1> DEFINE p == [via |-> "api", device |-> [name |-> Cameras[r.source].id, exact |-> TRUE],
                 kind |-> UpstreamType[r.class],
                 objects |-> IF r.objects = AnyObject THEN {} ELSE r.objects,
                 life |-> "add", end |-> FALSE]
           e == NormalizeApi(p, Cameras)
<1>1. /\ r.source \in DOMAIN Cameras /\ r.class \in DOMAIN UpstreamType \ {"loiter"}
      /\ r.kind \in {"none", UpstreamType[r.class]}
      /\ r.objects # AnyObject => r.objects \subseteq AllowedObjects[r.class] /\ r.objects # {}
  BY DEF Saved, IsRoute, WellFormed
<1>2. p.objects \subseteq AllowedObjects[r.class]
  BY <1>1
<1>3. AllowedObjects[r.class] \in Range(AllowedObjects)
  BY <1>1 DEF UpstreamType, AllowedObjects, Range
<1>4. p \in ConsoleMessages
  BY <1>1, <1>2, <1>3 DEF ConsoleMessages
<1>5. e \in ConsoleEvents
  BY <1>4 DEF ConsoleEvents
<1>6. e.source = r.source
  <2>1. ByCameraId(p.device, Cameras) = {r.source}
    BY <1>1, RouteAssumption DEF ByCameraId
  <2>2. TheOnly({r.source}) = r.source
    <3>1. Cardinality({r.source}) = 1
      BY FS_Singleton
    <3>2. QED
      BY <3>1 DEF TheOnly
  <2>3. QED
    BY <2>1, <2>2 DEF NormalizeApi
<1>7. r.class \in {"motion", "zone", "line", "audio"}
  BY <1>1 DEF UpstreamType
<1>8. /\ e.class = ApiClass(UpstreamType[r.class]) /\ e.kind = UpstreamType[r.class]
      /\ e.objects = p.objects
  BY DEF NormalizeApi
<1>9. e.class = r.class
  BY <1>7, <1>8 DEF ApiClass, UpstreamType
<1>10. ObjectsMatch(r, e)
  <2>1. CASE r.objects = AnyObject
    BY <2>1 DEF ObjectsMatch
  <2>2. CASE r.objects # AnyObject
    <3>1. r.objects # {} /\ e.objects = r.objects
      BY <1>1, <1>8, <2>2
    <3>2. r.objects \cap r.objects # {}
      BY <3>1
    <3>3. QED
      BY <3>1, <3>2 DEF ObjectsMatch
  <2>3. QED
    BY <2>1, <2>2
<1>11. e.source # NoSource
  BY <1>1, <1>6, RouteAssumption
<1>12. Matches(r, e)
  BY <1>1, <1>6, <1>8, <1>9, <1>10, <1>11 DEF Matches
<1>13. QED
  BY <1>5, <1>12

\* Every enabled resolved route can fire, whatever requests stored it.
THEOREM StoredRoutesFire == Spec => []EveryRouteCanFire
<1>1. RouteInv => EveryRouteCanFire
  BY RouteFires DEF RouteInv, EveryRouteCanFire, Live
<1>2. QED
  BY <1>1, RouteInit, RouteStep, PTL DEF Spec

-----------------------------------------------------------------------------
\* The runs

Verdict == {"none", "automation_disabled", "accepted_test_mode", "outside_fixed_window",
            "astro_config_missing", "outside_astro_window", "debounce_violation",
            "cooldown_violation", "accepted"}

\* A valid webhook names a light or group.
Own == {<<>>} \cup {<<r>> : r \in {x \in LogRow : (x.accepted => x.target \in Lamp) /\ x.age = 0}}

RunRow == [pc : {"route", "log", "wait", "own"}, todo : Seq(Target), want : State,
           own : Own, verdict : Verdict, raced : BOOLEAN]

GoodRun(r) ==
    /\ r \in RunRow
    /\ r.pc # "own" => r.todo # <<>>
    /\ r.pc = "own" => r.own # <<>>
    /\ r.pc = "log" => Head(r.todo) \in Lamp

\* A run with a row of its own to insert goes on alone: webhooks do not come
\* together with other events, and everything else waits for it.
RunInv ==
    /\ DOMAIN run = Run
    /\ \A h \in Run : run[h] = IdleRun \/ GoodRun(run[h])
    /\ \A h \in Running : run[h].own # <<>> => Running = {h}
    /\ asked \in [Cond -> State] /\ wish \in [Cond -> State] /\ behind \subseteq Cond
    /\ row \in [Lamp -> {"on", "off", "test"}]

LEMMA GoingIs ==
    ASSUME NEW todo \in Seq(Target), NEW want \in State, NEW own \in Own
    PROVE  LET r == Going(todo, want, own)
           IN  IF todo = <<>> /\ own = <<>> THEN r = IdleRun
               ELSE /\ GoodRun(r) /\ r.own = own /\ r.todo = todo /\ r.want = want
                    /\ r.pc = IF todo # <<>> THEN "route" ELSE "own"
<1> DEFINE r == Going(todo, want, own)
<1>1. CASE todo = <<>> /\ own = <<>>
  BY <1>1 DEF Going
<1>2. CASE ~(todo = <<>> /\ own = <<>>)
  <2>1. r = [pc |-> IF todo # <<>> THEN "route" ELSE "own", todo |-> todo, want |-> want,
             own |-> own, verdict |-> "none", raced |-> FALSE]
    BY <1>2 DEF Going
  <2>2. r \in RunRow
    BY <2>1 DEF RunRow, Verdict
  <2>3. QED
    BY <1>2, <2>1, <2>2 DEF GoodRun
<1>3. QED
  BY <1>1, <1>2

\* What is left of a run after its first target
LEMMA OnwardIs ==
    ASSUME NEW r, GoodRun(r), r.pc # "own"
    PROVE  /\ Onward(r) = IdleRun \/ (GoodRun(Onward(r)) /\ Onward(r).own = r.own)
           /\ Onward(r) # IdleRun => /\ Onward(r).todo = Tail(r.todo) /\ Onward(r).want = r.want
                                     /\ Onward(r).pc = IF Tail(r.todo) # <<>> THEN "route" ELSE "own"
           /\ Onward(r) = IdleRun => Tail(r.todo) = <<>>
           /\ Tail(r.todo) \in Seq(Target) /\ Head(r.todo) \in Target
<1>1. r.todo \in Seq(Target) /\ r.todo # <<>> /\ r.want \in State /\ r.own \in Own
  BY DEF GoodRun, RunRow
<1>2. Tail(r.todo) \in Seq(Target) /\ Head(r.todo) \in Target
  BY <1>1, HeadTailProperties
<1>3. IdleRun.pc = "idle"
  BY DEF IdleRun
<1>4. IF Tail(r.todo) = <<>> /\ r.own = <<>> THEN Onward(r) = IdleRun
      ELSE /\ GoodRun(Onward(r)) /\ Onward(r).own = r.own /\ Onward(r).todo = Tail(r.todo)
           /\ Onward(r).want = r.want
           /\ Onward(r).pc = IF Tail(r.todo) # <<>> THEN "route" ELSE "own"
  <2> DEFINE todo == Tail(r.todo)
             want == r.want
             own  == r.own
  <2>1. Onward(r) = Going(todo, want, own)
    BY DEF Onward
  <2>2. todo \in Seq(Target) /\ want \in State /\ own \in Own
    BY <1>1, <1>2
  <2> HIDE DEF todo, want, own
  <2>3. IF todo = <<>> /\ own = <<>> THEN Onward(r) = IdleRun
        ELSE /\ GoodRun(Onward(r)) /\ Onward(r).own = own /\ Onward(r).todo = todo
             /\ Onward(r).want = want
             /\ Onward(r).pc = IF todo # <<>> THEN "route" ELSE "own"
    BY <2>1, <2>2, GoingIs
  <2>4. QED
    BY <2>3 DEF todo, want, own
<1>5. \A x : GoodRun(x) => x # IdleRun
  BY <1>3 DEF GoodRun, RunRow
<1>6. QED
  BY <1>2, <1>4, <1>5

\* The routes whose targets an event's run goes through
Goes(e) == {i \in Executable(e) : \/ Intent(e) = "trigger"
                                  \/ Intent(e) = "restore" /\ routes[i].target \in Cond}

\* Routes lead to lights, groups and conditions that exist.
LEMMA TargetsAre ==
    ASSUME RouteInv, NEW e
    PROVE  LET I == Goes(e)
               ids == InOrder(I)
           IN  /\ I \subseteq 1..MaxRoutes /\ Cardinality(I) \in Nat
               /\ ids \in [1..Cardinality(I) -> I]
               /\ \A x \in I : \E k \in 1..Cardinality(I) : ids[k] = x
               /\ Ascends(ids)
               /\ TargetsOf(e) = [k \in 1..Cardinality(I) |-> routes[ids[k]].target]
               /\ TargetsOf(e) \in Seq(Target)
<1> DEFINE I == Goes(e)
           ids == InOrder(I)
<1>1. I \in SUBSET (1..MaxRoutes) /\ MaxRoutes \in Nat
  BY RouteAssumption DEF Goes, Executable
<1>2. \A i \in I : routes[i].target \in Target
  <2>1. ASSUME NEW i \in I PROVE routes[i].target \in Target
    <3>1. /\ i \in 1..MaxRoutes /\ routes[i] # NoRoute
          /\ Rejection(routes[i], e) = "none"
      BY DEF Goes, Executable
    <3>2. routes[i].target \in Target \cup {NoTarget}
      BY <3>1 DEF RouteInv, Saved, IsRoute
    <3>3. routes[i].target # NoTarget
      BY <3>1 DEF Rejection
    <3>4. QED
      BY <3>2, <3>3
  <2>2. QED
    BY <2>1
<1> HIDE DEF I
<1>3. /\ Cardinality(I) \in Nat /\ ids \in [1..Cardinality(I) -> I]
      /\ \A x \in I : \E k \in 1..Cardinality(I) : ids[k] = x
      /\ Ascends(ids)
  BY <1>1, InOrderLists
<1>4. TargetsOf(e) = [k \in DOMAIN ids |-> routes[ids[k]].target]
  BY DEF TargetsOf, Goes, I
<1> HIDE DEF ids
<1>5. TargetsOf(e) = [k \in 1..Cardinality(I) |-> routes[ids[k]].target]
  BY <1>3, <1>4
<1>6. TargetsOf(e) \in Seq(Target)
  <2>1. \A k \in 1..Cardinality(I) : routes[ids[k]].target \in Target
    BY <1>2, <1>3
  <2>2. TargetsOf(e) \in [1..Cardinality(I) -> Target]
    BY <1>5, <2>1
  <2>3. QED
    BY <1>3, <2>2
<1>7. QED
  BY <1>1, <1>3, <1>5, <1>6 DEF I, ids

\* A run begins well, and only a webhook's has a row of its own.
LEMMA BegunRun ==
    ASSUME RouteInv, NEW p \in Payload
    PROVE  LET r == RunOf(Event[p])
           IN  /\ r = IdleRun \/ GoodRun(r)
               /\ p.via = "api" => r = IdleRun \/ r.own = <<>>
               /\ r # IdleRun => /\ r.todo = TargetsOf(Event[p])
                                 /\ r.want = IF Intent(Event[p]) = "trigger" THEN "active" ELSE "inactive"
                                 /\ r.pc = IF r.todo # <<>> THEN "route" ELSE "own"
               /\ r = IdleRun => TargetsOf(Event[p]) = <<>>
<1> DEFINE e == Event[p]
           want == IF Intent(e) = "trigger" THEN "active" ELSE "inactive"
           r == RunOf(e)
<1>1. e = Normalize(p, Cameras, Guarded)
  BY DEF Event
<1>2. TargetsOf(e) \in Seq(Target) /\ want \in State
  BY TargetsAre DEF State
<1>3. OwnRow(e) \in Own /\ (p.via = "api" => OwnRow(e) = <<>>)
  <2>1. CASE p.via = "api"
    <3>1. e.via = "api"
      BY <1>1, <2>1 DEF Normalize, NormalizeApi
    <3>2. QED
      BY <3>1 DEF OwnRow, Own
  <2>2. CASE p.via = "access"
    <3>1. e.via = "access"
      BY <1>1, <2>2 DEF Normalize, NormalizeAccess
    <3>2. QED
      BY <2>2, <3>1 DEF OwnRow, Own
  <2>3. CASE p.via = "webhook"
    <3>1. /\ e.via = "webhook" /\ e.hint = p.hint
          /\ e.valid = (p.hint # NoTarget /\ SecretOk(p, Guarded))
      BY <1>1, <2>3 DEF Normalize, HandleWebhook, NormalizeWebhook
    <3>2. p.hint \in Lamp \cup {NoTarget} /\ p.secret \in BOOLEAN
      BY <2>3, PayloadAssumption
    <3>3. e.valid \in BOOLEAN /\ (e.valid => e.hint \in Lamp)
      BY <3>1, <3>2
    <3> DEFINE x == [target |-> e.hint, accepted |-> e.valid, age |-> 0]
    <3>4. x \in LogRow /\ (x.accepted => x.target \in Lamp) /\ x.age = 0
      BY <3>1, <3>2, <3>3, PlanAssumption DEF LogRow, Target
    <3>5. OwnRow(e) = <<x>>
      BY <3>1 DEF OwnRow
    <3> HIDE DEF x
    <3>6. QED
      BY <2>3, <3>4, <3>5 DEF Own
  <2>4. QED
    BY <2>1, <2>2, <2>3, PayloadAssumption
<1>4. r = Going(TargetsOf(e), want, OwnRow(e))
  BY DEF RunOf
<1>5. IdleRun.pc = "idle" /\ \A x : GoodRun(x) => x # IdleRun
  BY DEF IdleRun, GoodRun, RunRow
<1>6. IF TargetsOf(e) = <<>> /\ OwnRow(e) = <<>> THEN r = IdleRun
      ELSE /\ GoodRun(r) /\ r.own = OwnRow(e) /\ r.todo = TargetsOf(e) /\ r.want = want
           /\ r.pc = IF TargetsOf(e) # <<>> THEN "route" ELSE "own"
  BY <1>2, <1>3, <1>4, GoingIs
<1> HIDE DEF r, e
<1>7. CASE TargetsOf(e) = <<>> /\ OwnRow(e) = <<>>
  BY <1>6, <1>7 DEF r, e
<1>8. CASE ~(TargetsOf(e) = <<>> /\ OwnRow(e) = <<>>)
  <2>1. /\ GoodRun(r) /\ r.own = OwnRow(e) /\ r.todo = TargetsOf(e) /\ r.want = want
        /\ r.pc = IF TargetsOf(e) # <<>> THEN "route" ELSE "own"
    BY <1>6, <1>8
  <2>2. r # IdleRun
    BY <1>5, <2>1
  <2>3. QED
    BY <1>3, <2>1, <2>2 DEF r, e
<1>9. QED
  BY <1>7, <1>8

LEMMA VerdictIs ==
    ASSUME NEW t, NEW r \in {"on", "off", "test"}, NEW plan, NEW settings, NEW now, NEW l
    PROVE  Decide(t, r, plan, settings, now, l) \in Verdict
<1> DEFINE v == Decide(t, r, plan, settings, now, l)
           i == LastAccepted(l, t)
           s == Schedule(now, plan, settings)
<1>1. s \in {"ok", "outside_fixed_window", "astro_config_missing", "outside_astro_window"}
  BY ScheduleSays
<1>2. CASE r \in {"off", "test"}
  <2>1. v \in {"automation_disabled", "accepted_test_mode"}
    BY <1>2 DEF Decide
  <2>2. QED
    BY <2>1 DEF Verdict
<1>3. CASE r = "on" /\ s # "ok"
  <2>1. v = s
    BY <1>3 DEF Decide
  <2>2. QED
    BY <1>1, <1>3, <2>1 DEF Verdict
<1>4. CASE r = "on" /\ s = "ok"
  <2>1. v = IF i # 0 /\ l[i].age < plan.debounce THEN "debounce_violation"
            ELSE IF i # 0 /\ l[i].age < plan.cooldown THEN "cooldown_violation"
            ELSE "accepted"
    BY <1>4 DEF Decide
  <2> HIDE DEF v
  <2>2. v \in {"debounce_violation", "cooldown_violation", "accepted"}
    BY <2>1
  <2>3. QED
    BY <2>2 DEF v, Verdict
<1>5. QED
  BY <1>2, <1>3, <1>4

\* What a step of the run h leaves of the others
Beside(h) ==
    \A g \in Run \ {h} : \/ run'[g] = run[g]
                         \/ run[g] # IdleRun /\ run'[g] = [run[g] EXCEPT !.raced = TRUE]

LEMMA RacedRun ==
    ASSUME NEW r, GoodRun(r)
    PROVE  LET x == [r EXCEPT !.raced = TRUE]
           IN  /\ GoodRun(x) /\ x # IdleRun /\ x.pc = r.pc /\ x.todo = r.todo /\ x.want = r.want
               /\ x.own = r.own /\ x.verdict = r.verdict /\ x.raced
  BY DEF GoodRun, RunRow, IdleRun

\* A run that goes on keeps its row and leaves the other runs where they are.
LEMMA RunGoes ==
    ASSUME RunInv, NEW h \in Run, run[h] # IdleRun, DOMAIN run' = Run, Beside(h),
           run'[h] = IdleRun \/ (GoodRun(run'[h]) /\ run'[h].own = run[h].own),
           h \in Running \/ Running = {},
           asked' \in [Cond -> State], UNCHANGED <<row, wish, behind>>
    PROVE  RunInv'
<1>1. IdleRun.pc = "idle"
  BY DEF IdleRun
<1>2. ASSUME NEW g \in Run \ {h}
      PROVE  /\ run'[g] = IdleRun \/ GoodRun(run'[g])
             /\ run'[g] = IdleRun <=> run[g] = IdleRun
             /\ run'[g].pc = run[g].pc /\ run'[g].own = run[g].own
  <2>1. run[g] = IdleRun \/ GoodRun(run[g])
    BY DEF RunInv
  <2>2. CASE run'[g] = run[g]
    BY <2>1, <2>2
  <2>3. CASE run[g] # IdleRun /\ run'[g] = [run[g] EXCEPT !.raced = TRUE]
    BY <2>1, <2>3, RacedRun
  <2>4. QED
    BY <2>2, <2>3 DEF Beside
<1>3. \A g \in Run : run'[g] = IdleRun \/ GoodRun(run'[g])
  BY <1>2
<1>4. Running' \subseteq Running \cup {h}
  BY <1>2 DEF Running
<1>5. ASSUME NEW g \in Running', run'[g].own # <<>>
      PROVE  Running' = {g}
  <2>1. CASE Running = {}
    BY <1>4, <1>5, <2>1
  <2>2. CASE h \in Running
    <3>1. Running' \subseteq Running /\ g \in Running /\ g \in Run
      BY <1>4, <1>5, <2>2 DEF Running
    <3>2. run'[g].own = run[g].own
      <4>1. CASE g = h
        <5>1. run'[h] # IdleRun
          BY <1>1, <1>5, <4>1 DEF Running
        <5>2. QED
          BY <4>1, <5>1
      <4>2. CASE g # h
        BY <1>2, <3>1, <4>2
      <4>3. QED
        BY <4>1, <4>2
    <3>3. Running = {g}
      BY <1>5, <3>1, <3>2 DEF RunInv
    <3>4. QED
      BY <1>5, <3>1, <3>3
  <2>3. QED
    BY <2>1, <2>2
<1>6. QED
  BY <1>3, <1>5 DEF RunInv, GoodRun, RunRow, Own, LogRow

\* The runs of an arrival
LEMMA RunArrives ==
    ASSUME RouteInv, RunInv, Arrive
    PROVE  RunInv'
<1>1. Running = {} /\ IdleRun.pc = "idle"
  BY DEF Arrive, IdleRun
<1>2. ASSUME NEW h \in Idle, NEW p \in Payload, Receive(h, p)
      PROVE  RunInv'
  <2>1. run' = [run EXCEPT ![h] = RunOf(Event[p])] /\ h \in Run
    BY <1>2 DEF Receive, Idle
  <2>2. /\ DOMAIN run' = Run /\ run'[h] = RunOf(Event[p])
        /\ \A g \in Run \ {h} : run'[g] = run[g]
    BY <2>1 DEF RunInv
  <2>3. \A g \in Run : run'[g] = IdleRun \/ GoodRun(run'[g])
    BY <2>2, BegunRun DEF RunInv
  <2>4. Running' \subseteq {h}
    BY <1>1, <2>2 DEF Running
  <2>5. /\ wish' \in [Cond -> State] /\ behind' \subseteq Cond
        /\ UNCHANGED <<asked, row>>
    BY <1>2 DEF Receive, Noted, RunInv, State, confVars
  <2>6. QED
    BY <2>2, <2>3, <2>4, <2>5 DEF RunInv, GoodRun, RunRow, Own, LogRow
<1>3. ASSUME NEW h \in Idle, NEW g \in Idle \ {h}, NEW p \in Payload, NEW q \in Payload,
             p.via = "api", q.via = "api", ReceiveTogether(h, g, p, q)
      PROVE  RunInv'
  <2>1. /\ run' = [run EXCEPT ![h] = RunOf(Event[p]), ![g] = RunOf(Event[q])]
        /\ h \in Run /\ g \in Run /\ g # h
    BY <1>3 DEF ReceiveTogether, Idle
  <2>2. /\ DOMAIN run' = Run /\ run'[h] = RunOf(Event[p]) /\ run'[g] = RunOf(Event[q])
        /\ \A x \in Run \ {h, g} : run'[x] = run[x]
    BY <2>1 DEF RunInv
  <2>3. \A x \in Run : run'[x] = IdleRun \/ GoodRun(run'[x])
    BY <2>2, BegunRun DEF RunInv
  <2>4. \A x \in Running' : run'[x].own = <<>>
    <3>1. ASSUME NEW x \in Running' PROVE run'[x].own = <<>>
      <4>1. x \in {h, g} /\ run'[x] # IdleRun
        BY <1>1, <2>2 DEF Running
      <4>2. QED
        BY <1>3, <2>2, <4>1, BegunRun
    <3>2. QED
      BY <3>1
  <2>5. /\ wish' \in [Cond -> State] /\ behind' \subseteq Cond
        /\ UNCHANGED <<asked, row>>
    BY <1>3 DEF ReceiveTogether, Noted, RunInv, State, confVars
  <2>6. QED
    BY <2>2, <2>3, <2>4, <2>5 DEF RunInv, GoodRun, RunRow, Own, LogRow
<1>4. QED
  BY <1>2, <1>3 DEF Arrive

\* The steps of a run
LEMMA RunSteps ==
    ASSUME RunInv, NEW h \in Run, Step(h)
    PROVE  RunInv'
<1>1. IdleRun.pc = "idle" /\ (run[h] # IdleRun => GoodRun(run[h]))
  BY DEF IdleRun, RunInv
<1>2. CASE DecideTarget(h)
  <2> DEFINE t == Head(run[h].todo)
             v == Decide(t, row[t], Plan[t], Settings, clock, log)
             r == [run[h] EXCEPT !.pc = "log", !.verdict = v]
  <2>1. /\ run[h].pc = "route" /\ t \in Lamp
        /\ run' = [run EXCEPT ![h].pc = "log", ![h].verdict = v]
        /\ UNCHANGED <<row, asked, wish, behind>>
    BY <1>2 DEF DecideTarget, confVars
  <2>2. run[h] # IdleRun /\ GoodRun(run[h])
    BY <1>1, <2>1
  <2>3. v \in Verdict
    BY <2>1, VerdictIs DEF RunInv
  <2> HIDE DEF v
  <2>4. GoodRun(r) /\ r.own = run[h].own
    BY <2>1, <2>2, <2>3 DEF GoodRun, RunRow
  <2>5. DOMAIN run' = Run /\ run'[h] = r /\ Beside(h)
    BY <2>1, <2>2 DEF RunInv, GoodRun, RunRow, Beside
  <2>6. h \in Running /\ asked' \in [Cond -> State]
    BY <2>1 DEF Running, RunInv
  <2>7. QED
    BY <2>1, <2>2, <2>4, <2>5, <2>6, RunGoes
<1>3. CASE LogDecision(h)
  <2> DEFINE t == Head(run[h].todo)
             ok == IsAccepted(run[h].verdict)
  <2>1. run[h].pc = "log" /\ UNCHANGED <<row, asked, wish, behind>>
    BY <1>3 DEF LogDecision, confVars
  <2>2. run[h] # IdleRun /\ GoodRun(run[h])
    BY <1>1, <2>1
  <2>3. PICK r \in {[run[h] EXCEPT !.pc = "wait"], Onward(run[h])} :
           run' = [g \in Run |-> IF g = h THEN r
                                 ELSE IF ok /\ g \in AlsoDecided(h, t)
                                      THEN [run[g] EXCEPT !.raced = TRUE]
                                      ELSE run[g]]
    BY <1>3 DEF LogDecision
  <2>4. r = IdleRun \/ (GoodRun(r) /\ r.own = run[h].own)
    <3>1. CASE r = [run[h] EXCEPT !.pc = "wait"]
      BY <2>1, <2>2, <3>1 DEF GoodRun, RunRow
    <3>2. CASE r = Onward(run[h])
      BY <2>1, <2>2, <3>2, OnwardIs
    <3>3. QED
      BY <2>3, <3>1, <3>2
  <2>5. DOMAIN run' = Run /\ run'[h] = r
    BY <2>3
  <2>6. Beside(h)
    <3>1. ASSUME NEW g \in AlsoDecided(h, t) PROVE run[g] # IdleRun
      BY <1>1 DEF AlsoDecided
    <3>2. QED
      BY <2>3, <3>1 DEF Beside
  <2>7. h \in Running /\ asked' \in [Cond -> State]
    BY <2>1 DEF Running, RunInv
  <2>8. QED
    BY <2>1, <2>2, <2>4, <2>5, <2>6, <2>7, RunGoes
<1>4. CASE SubmitCondition(h)
  <2>1. /\ run[h].pc = "route" /\ Head(run[h].todo) \in Cond
        /\ asked' = [asked EXCEPT ![Head(run[h].todo)] = run[h].want]
        /\ UNCHANGED <<row, wish, behind>>
    BY <1>4 DEF SubmitCondition, confVars
  <2>2. run[h] # IdleRun /\ GoodRun(run[h])
    BY <1>1, <2>1
  <2>3. PICK r \in {[run[h] EXCEPT !.pc = "wait"], Onward(run[h])} : run' = [run EXCEPT ![h] = r]
    BY <1>4 DEF SubmitCondition
  <2>4. r = IdleRun \/ (GoodRun(r) /\ r.own = run[h].own)
    <3>1. CASE r = [run[h] EXCEPT !.pc = "wait"]
      BY <2>1, <2>2, <3>1 DEF GoodRun, RunRow
    <3>2. CASE r = Onward(run[h])
      BY <2>1, <2>2, <3>2, OnwardIs
    <3>3. QED
      BY <2>3, <3>1, <3>2
  <2>5. DOMAIN run' = Run /\ run'[h] = r /\ Beside(h)
    BY <2>3 DEF RunInv, Beside
  <2>6. h \in Running /\ asked' \in [Cond -> State]
    BY <2>1, <2>2 DEF Running, RunInv, GoodRun, RunRow
  <2>7. QED
    BY <2>1, <2>2, <2>4, <2>5, <2>6, RunGoes
<1>5. CASE Answer(h)
  <2>1. /\ Running = {} /\ run[h].pc = "wait" /\ run' = [run EXCEPT ![h] = Onward(run[h])]
        /\ UNCHANGED <<row, asked, wish, behind>>
    BY <1>5 DEF Answer, confVars
  <2>2. run[h] # IdleRun /\ GoodRun(run[h])
    BY <1>1, <2>1
  <2>3. DOMAIN run' = Run /\ run'[h] = Onward(run[h]) /\ Beside(h)
    BY <2>1 DEF RunInv, Beside
  <2>4. run'[h] = IdleRun \/ (GoodRun(run'[h]) /\ run'[h].own = run[h].own)
    BY <2>1, <2>2, <2>3, OnwardIs
  <2>5. asked' \in [Cond -> State]
    BY <2>1 DEF RunInv
  <2>6. QED
    BY <2>1, <2>2, <2>3, <2>4, <2>5, RunGoes
<1>6. CASE LogOwn(h)
  <2>1. /\ run[h].pc = "own" /\ run' = [run EXCEPT ![h] = IdleRun]
        /\ UNCHANGED <<row, asked, wish, behind>>
    BY <1>6 DEF LogOwn, confVars
  <2>2. run[h] # IdleRun
    BY <1>1, <2>1
  <2>3. DOMAIN run' = Run /\ run'[h] = IdleRun /\ Beside(h)
    BY <2>1 DEF RunInv, Beside
  <2>4. h \in Running /\ asked' \in [Cond -> State]
    BY <2>1 DEF Running, RunInv
  <2>5. QED
    BY <2>1, <2>2, <2>3, <2>4, RunGoes
<1>7. QED
  BY <1>2, <1>3, <1>4, <1>5, <1>6 DEF Step

LEMMA RunUnchanged ==
    ASSUME RunInv, UNCHANGED <<run, asked, wish, behind>>,
           row' \in [Lamp -> {"on", "off", "test"}]
    PROVE  RunInv'
<1>1. Running' = Running
  BY DEF Running
<1>2. QED
  BY <1>1 DEF RunInv, GoodRun, RunRow, Own, LogRow

\* RunInv is preserved by every step.
LEMMA RunStep ==
    ASSUME RouteInv, RunInv, [Next]_vars
    PROVE  RunInv'
<1>1. row \in [Lamp -> {"on", "off", "test"}]
  BY DEF RunInv
<1>2. CASE Tick
  BY <1>1, <1>2, RunUnchanged DEF Tick, confVars
<1>3. CASE Operate
  <2>1. ASSUME NEW t \in Lamp, NEW v \in {"on", "off", "test"}, SetRow(t, v) PROVE RunInv'
    BY <1>1, <2>1, RunUnchanged DEF SetRow
  <2>2. ASSUME NEW k, NEW r, Save(k, r) PROVE RunInv'
    BY <1>1, <2>2, RunUnchanged DEF Save
  <2>3. ASSUME NEW k, DeleteRoute(k) PROVE RunInv'
    BY <1>1, <2>3, RunUnchanged DEF DeleteRoute
  <2>4. ASSUME NEW c, SwitchHook(c) PROVE RunInv'
    BY <1>1, <2>4, RunUnchanged DEF SwitchHook
  <2>5. QED
    BY <1>3, <2>1, <2>2, <2>3, <2>4 DEF Operate, PostRoute, PatchRoute
<1>4. CASE UNCHANGED vars
  BY <1>1, <1>4, RunUnchanged DEF vars
<1>5. QED
  BY <1>2, <1>3, <1>4, RunArrives, RunSteps DEF Next

LEMMA RunInit == Init => RunInv
<1> SUFFICES ASSUME Init PROVE RunInv
  OBVIOUS
<1>1. /\ run = [h \in Run |-> IdleRun] /\ asked = [c \in Cond |-> "inactive"] /\ wish = asked
      /\ behind = {} /\ row = [t \in Lamp |-> "on"]
  BY DEF Init
<1>2. Running = {}
  BY <1>1 DEF Running, IdleRun
<1>3. QED
  BY <1>1, <1>2 DEF RunInv, State

-----------------------------------------------------------------------------
\* The event log against the ticks since the last activation

\* The newest accepted row of a light or group is no older than its last
\* activation, and as old as that or as its last valid webhook; it is missing only
\* if there never was an activation, or the log was trimmed.
RowInv(t) ==
    LET i == LastAccepted(log, t)
    IN  /\ t \in lost => i = 0
        /\ t \notin lost /\ i = 0 => sinceOn[t] = MaxAge
        /\ i # 0 => /\ log[i].age <= sinceOn[t]
                    /\ log[i].age >= sinceOn[t] \/ log[i].age >= sinceHint[t]

LogInv ==
    /\ clock \in 0..Day - 1
    /\ log \in Seq(LogRow) /\ Len(log) <= Keep
    /\ lost \subseteq Lamp
    /\ sinceOn \in [Lamp -> 0..MaxAge] /\ sinceHint \in [Lamp -> 0..MaxAge]
    /\ \A t \in Lamp : RowInv(t)

\* A row is written, and the ticks of the target it accepts begin again.
LEMMA LogWritten ==
    ASSUME LogInv, NEW r \in LogRow, r.age = 0, Write(r), clock' = clock,
           sinceOn' \in [Lamp -> 0..MaxAge], sinceHint' \in [Lamp -> 0..MaxAge],
           \A t \in Lamp : IF r.target = t /\ r.accepted
                           THEN sinceOn'[t] = 0 \/ sinceHint'[t] = 0
                           ELSE sinceOn'[t] = sinceOn[t] /\ sinceHint'[t] = sinceHint[t]
    PROVE  LogInv'
<1>1. /\ log' = InsertLog(log, r, Keep)
      /\ lost' = {t \in Lamp : LastAccepted(log', t) = 0 /\ (t \in lost \/ LastAccepted(log, t) # 0)}
  BY DEF Write
<1>2. log \in Seq(LogRow)
  BY DEF LogInv
<1>3. log' \in Seq(LogRow) /\ Len(log') <= Keep
  BY <1>1, <1>2, Inserted
<1>4. ASSUME NEW t \in Lamp
      PROVE  RowInv(t)'
  <2> DEFINE i == LastAccepted(log, t)
             j == LastAccepted(log', t)
  <2>1. /\ (r.target = t /\ r.accepted) => j # 0 /\ log'[j] = r
        /\ ~(r.target = t /\ r.accepted) => j = 0 \/ (i # 0 /\ log'[j] = log[i])
    BY <1>1, <1>2, LastInserted
  <2>2. t \in lost' <=> j = 0 /\ (t \in lost \/ i # 0)
    BY <1>1
  <2>3. /\ t \in lost => i = 0
        /\ t \notin lost /\ i = 0 => sinceOn[t] = MaxAge
        /\ i # 0 => /\ log[i].age <= sinceOn[t]
                    /\ log[i].age >= sinceOn[t] \/ log[i].age >= sinceHint[t]
    BY DEF LogInv, RowInv
  <2>4. sinceOn'[t] \in 0..MaxAge /\ sinceHint'[t] \in 0..MaxAge
    OBVIOUS
  <2> HIDE DEF i, j
  <2>5. /\ t \in lost' => j = 0
        /\ t \notin lost' /\ j = 0 => sinceOn'[t] = MaxAge
        /\ j # 0 => /\ log'[j].age <= sinceOn'[t]
                    /\ log'[j].age >= sinceOn'[t] \/ log'[j].age >= sinceHint'[t]
    <3>1. CASE r.target = t /\ r.accepted
      <4>1. j # 0 /\ log'[j].age = 0 /\ (sinceOn'[t] = 0 \/ sinceHint'[t] = 0)
        BY <2>1, <3>1
      <4>2. t \notin lost'
        BY <2>2, <4>1
      <4>3. QED
        BY <2>4, <4>1, <4>2, PlanAssumption
    <3>2. CASE ~(r.target = t /\ r.accepted)
      <4>1. sinceOn'[t] = sinceOn[t] /\ sinceHint'[t] = sinceHint[t]
        BY <3>2
      <4>2. CASE j = 0
        BY <2>2, <2>3, <4>1, <4>2
      <4>3. CASE j # 0
        <5>1. i # 0 /\ log'[j] = log[i]
          BY <2>1, <3>2, <4>3
        <5>2. QED
          BY <2>2, <2>3, <4>1, <4>3, <5>1
      <4>4. QED
        BY <4>2, <4>3
    <3>3. QED
      BY <3>1, <3>2
  <2>6. QED
    BY <2>5 DEF RowInv, j
<1>5. lost' \subseteq Lamp
  BY <1>1
<1>6. QED
  BY <1>3, <1>4, <1>5 DEF LogInv, LogRow

\* Time passes for the rows and the ticks alike.
LEMMA LogTick ==
    ASSUME LogInv, Tick
    PROVE  LogInv'
<1>1. /\ clock' = (clock + 1) % Day
      /\ log' = [i \in DOMAIN log |-> [log[i] EXCEPT !.age = Aged(@)]]
      /\ sinceOn' = [t \in Lamp |-> Aged(sinceOn[t])]
      /\ sinceHint' = [t \in Lamp |-> Aged(sinceHint[t])]
      /\ lost' = lost
  BY DEF Tick
<1>2. log \in Seq(LogRow) /\ Len(log) <= Keep
  BY DEF LogInv
<1>3. clock' \in 0..Day - 1
  BY <1>1, DayAssumption DEF LogInv
<1>4. /\ \A a \in 0..MaxAge : Aged(a) \in 0..MaxAge
      /\ \A a, b \in 0..MaxAge : a <= b => Aged(a) <= Aged(b)
      /\ Aged(MaxAge) = MaxAge
  BY PlanAssumption DEF Aged
<1>5. sinceOn' \in [Lamp -> 0..MaxAge] /\ sinceHint' \in [Lamp -> 0..MaxAge]
  BY <1>1, <1>4 DEF LogInv
<1>6. log' \in Seq(LogRow) /\ Len(log') = Len(log)
  BY <1>1, <1>2, LastAged
<1>7. ASSUME NEW t \in Lamp
      PROVE  RowInv(t)'
  <2> DEFINE i == LastAccepted(log, t)
             j == LastAccepted(log', t)
  <2>1. j = i /\ \A k \in 1..Len(log) : log'[k].age = Aged(log[k].age)
    BY <1>1, <1>2, LastAged
  <2>2. i = 0 \/ i \in 1..Len(log)
    BY <1>2, LastAcceptedIs DEF Accepts
  <2>3. /\ t \in lost => i = 0
        /\ t \notin lost /\ i = 0 => sinceOn[t] = MaxAge
        /\ i # 0 => /\ log[i].age <= sinceOn[t]
                    /\ log[i].age >= sinceOn[t] \/ log[i].age >= sinceHint[t]
    BY DEF LogInv, RowInv
  <2>4. /\ sinceOn[t] \in 0..MaxAge /\ sinceHint[t] \in 0..MaxAge
        /\ sinceOn'[t] = Aged(sinceOn[t]) /\ sinceHint'[t] = Aged(sinceHint[t])
    BY <1>1 DEF LogInv
  <2> HIDE DEF i, j
  <2>5. i # 0 => log[i].age \in 0..MaxAge /\ log'[i].age = Aged(log[i].age)
    <3>1. ASSUME i # 0 PROVE log[i] \in LogRow /\ log'[i].age = Aged(log[i].age)
      BY <1>2, <2>1, <2>2, <3>1, LenProperties
    <3>2. QED
      BY <3>1 DEF LogRow
  <2>6. i = 0 /\ t \notin lost' => sinceOn'[t] = MaxAge
    BY <1>1, <1>4, <2>3, <2>4
  <2>7. ASSUME i # 0
        PROVE  /\ log'[i].age <= sinceOn'[t]
               /\ log'[i].age >= sinceOn'[t] \/ log'[i].age >= sinceHint'[t]
    <3> DEFINE a == log[i].age
               b == sinceOn[t]
               c == sinceHint[t]
    <3>1. /\ a \in 0..MaxAge /\ b \in 0..MaxAge /\ c \in 0..MaxAge
          /\ a <= b /\ (b <= a \/ c <= a)
      BY <2>3, <2>4, <2>5, <2>7, PlanAssumption
    <3>2. log'[i].age = Aged(a) /\ sinceOn'[t] = Aged(b) /\ sinceHint'[t] = Aged(c)
      BY <2>4, <2>5, <2>7
    <3> HIDE DEF a, b, c
    <3>3. Aged(a) <= Aged(b) /\ (Aged(b) <= Aged(a) \/ Aged(c) <= Aged(a))
      BY <1>4, <3>1
    <3>4. Aged(a) \in Int /\ Aged(b) \in Int /\ Aged(c) \in Int
      BY <1>4, <3>1
    <3>5. QED
      BY <3>2, <3>3, <3>4
  <2>8. QED
    BY <1>1, <2>1, <2>3, <2>6, <2>7 DEF RowInv, i, j
<1>8. lost' \subseteq Lamp
  BY <1>1 DEF LogInv
<1>9. QED
  BY <1>2, <1>3, <1>5, <1>6, <1>7, <1>8 DEF LogInv, LogRow

LEMMA LogUnchanged ==
    ASSUME LogInv, UNCHANGED <<clock, log, lost, sinceOn, sinceHint>>
    PROVE  LogInv'
  BY DEF LogInv, RowInv, LogRow

LEMMA LogStep ==
    ASSUME RunInv, LogInv, [Next]_vars
    PROVE  LogInv'
<1>1. CASE Arrive
  BY <1>1, LogUnchanged DEF Arrive, Receive, ReceiveTogether, timeVars
<1>2. ASSUME NEW h \in Run, Step(h) PROVE LogInv'
  <2>1. CASE DecideTarget(h) \/ SubmitCondition(h) \/ Answer(h)
    BY <2>1, LogUnchanged DEF DecideTarget, SubmitCondition, Answer, timeVars
  <2>2. run[h].pc \in {"log", "own"} => GoodRun(run[h])
    BY DEF RunInv, IdleRun
  <2>3. CASE LogDecision(h)
    <3> DEFINE t  == Head(run[h].todo)
               ok == IsAccepted(run[h].verdict)
               r  == [target |-> t, accepted |-> ok, age |-> 0]
    <3>1. /\ run[h].pc = "log" /\ Write(r) /\ UNCHANGED <<clock, sinceHint>>
          /\ sinceOn' = IF ok THEN [sinceOn EXCEPT ![t] = 0] ELSE sinceOn
      BY <2>3 DEF LogDecision
    <3>2. t \in Lamp
      BY <2>2, <3>1 DEF GoodRun
    <3>3. ok \in BOOLEAN
      BY DEF IsAccepted
    <3>4. r \in LogRow /\ r.age = 0
      BY <3>2, <3>3, PlanAssumption DEF LogRow, Target
    <3>5. sinceHint' \in [Lamp -> 0..MaxAge]
      BY <3>1 DEF LogInv
    <3> HIDE DEF t, ok
    <3>6. sinceOn' \in [Lamp -> 0..MaxAge]
      BY <3>1, <3>2, PlanAssumption DEF LogInv
    <3>7. \A u \in Lamp : IF t = u /\ ok THEN sinceOn'[u] = 0
                          ELSE sinceOn'[u] = sinceOn[u] /\ sinceHint'[u] = sinceHint[u]
      BY <3>1, <3>2 DEF LogInv
    <3>8. QED
      BY <3>1, <3>4, <3>5, <3>6, <3>7, LogWritten
  <2>4. CASE LogOwn(h)
    <3> DEFINE r == run[h].own[1]
    <3>1. /\ run[h].pc = "own" /\ Write(r) /\ UNCHANGED <<clock, sinceOn>>
          /\ sinceHint' = IF r.accepted THEN [sinceHint EXCEPT ![r.target] = 0] ELSE sinceHint
      BY <2>4 DEF LogOwn
    <3>2. r \in LogRow /\ (r.accepted => r.target \in Lamp) /\ r.age = 0
      <4>1. run[h].own # <<>> /\ run[h].own \in Own
        BY <2>2, <3>1 DEF GoodRun, RunRow
      <4>2. QED
        BY <4>1 DEF Own
    <3> HIDE DEF r
    <3>3. sinceOn' \in [Lamp -> 0..MaxAge]
      BY <3>1 DEF LogInv
    <3>4. sinceHint' \in [Lamp -> 0..MaxAge]
      BY <3>1, <3>2, PlanAssumption DEF LogInv
    <3>5. \A u \in Lamp : IF r.target = u /\ r.accepted THEN sinceHint'[u] = 0
                          ELSE sinceOn'[u] = sinceOn[u] /\ sinceHint'[u] = sinceHint[u]
      BY <3>1, <3>2 DEF LogInv
    <3>6. QED
      BY <3>1, <3>2, <3>3, <3>4, <3>5, LogWritten
  <2>5. QED
    BY <1>2, <2>1, <2>3, <2>4 DEF Step
<1>3. CASE Tick
  BY <1>3, LogTick
<1>4. CASE Operate
  BY <1>4, LogUnchanged
     DEF Operate, PostRoute, PatchRoute, Save, DeleteRoute, SwitchHook, SetRow, timeVars
<1>5. CASE UNCHANGED vars
  BY <1>5, LogUnchanged DEF vars
<1>6. QED
  BY <1>1, <1>2, <1>3, <1>4, <1>5 DEF Next

LEMMA LogInit == Init => LogInv
<1> SUFFICES ASSUME Init PROVE LogInv
  OBVIOUS
<1>1. /\ clock = 0 /\ log = <<>> /\ lost = {}
      /\ sinceOn = [t \in Lamp |-> MaxAge] /\ sinceHint = [t \in Lamp |-> MaxAge]
  BY DEF Init
<1>2. log \in Seq(LogRow) /\ Len(log) = 0
  BY <1>1
<1>3. \A t \in Lamp : LastAccepted(log, t) = 0
  <2>1. \A t \in Lamp : Accepts(log, t) = {}
    BY <1>2 DEF Accepts
  <2>2. QED
    BY <1>2, <2>1, LastAcceptedIs
<1>4. \A t \in Lamp : RowInv(t)
  BY <1>1, <1>3 DEF RowInv
<1>5. QED
  BY <1>1, <1>2, <1>4, DayAssumption, PlanAssumption, RouteAssumption DEF LogInv

-----------------------------------------------------------------------------
\* The verdicts that are not logged yet

\* The ticks since the last activation or valid webhook are within the debounce
\* or the cooldown of t.
Recent(t) ==
    \/ sinceOn[t] < Plan[t].debounce   \/ sinceOn[t] < Plan[t].cooldown
    \/ sinceHint[t] < Plan[t].debounce \/ sinceHint[t] < Plan[t].cooldown

Rested(t) == sinceOn[t] >= Plan[t].debounce /\ sinceOn[t] >= Plan[t].cooldown

InWindow(t) == row[t] = "test" \/ (row[t] = "on" /\ clock \in Allowed(Plan[t]))

\* What the verdict v for t, decided in this turn of the event loop, still rests on
VerdictHolds(t, v, raced) ==
    /\ v = "accepted" => Rested(t) \/ raced \/ t \in lost
    /\ v \in {"debounce_violation", "cooldown_violation"} => Recent(t)
    /\ IsAccepted(v) => InWindow(t)

VerdictInv ==
    \A h \in Run : run[h].pc = "log" =>
        VerdictHolds(Head(run[h].todo), run[h].verdict, run[h].raced)

\* The policy's verdict holds.
LEMMA PolicyHolds ==
    ASSUME RunInv, LogInv, NEW t \in Lamp, NEW raced
    PROVE  VerdictHolds(t, Decide(t, row[t], Plan[t], Settings, clock, log), raced)
<1> DEFINE v == Decide(t, row[t], Plan[t], Settings, clock, log)
           i == LastAccepted(log, t)
<1>1. row[t] \in {"on", "off", "test"} /\ clock \in 0..Day - 1 /\ log \in Seq(LogRow)
  BY DEF RunInv, LogInv
<1>2. /\ IsAccepted(v) => row[t] = "test" \/ (row[t] = "on" /\ Schedule(clock, Plan[t], Settings) = "ok")
      /\ v = "accepted" =>
            i = 0 \/ (~(log[i].age < Plan[t].debounce) /\ ~(log[i].age < Plan[t].cooldown))
      /\ v \in {"debounce_violation", "cooldown_violation"} =>
            i # 0 /\ (log[i].age < Plan[t].debounce \/ log[i].age < Plan[t].cooldown)
  BY <1>1, Decided
<1>3. IsAccepted(v) => InWindow(t)
  BY <1>1, <1>2, ScheduleAllows DEF InWindow
<1>4. /\ t \in lost => i = 0
      /\ t \notin lost /\ i = 0 => sinceOn[t] = MaxAge
      /\ i # 0 => /\ log[i].age <= sinceOn[t]
                  /\ log[i].age >= sinceOn[t] \/ log[i].age >= sinceHint[t]
  BY DEF LogInv, RowInv
<1>5. /\ sinceOn[t] \in 0..MaxAge /\ sinceHint[t] \in 0..MaxAge /\ MaxAge \in Nat
      /\ Plan[t].debounce \in 0..MaxAge /\ Plan[t].cooldown \in 0..MaxAge
  BY PlanAssumption DEF LogInv
<1>6. i # 0 => log[i].age \in 0..MaxAge
  <2>1. ASSUME i # 0 PROVE log[i] \in LogRow
    BY <1>1, <2>1, LastAcceptedIs, LenProperties DEF Accepts
  <2>2. QED
    BY <2>1 DEF LogRow
<1> HIDE DEF v, i
<1>7. v = "accepted" => Rested(t) \/ t \in lost
  BY <1>2, <1>4, <1>5, <1>6 DEF Rested
<1>8. v \in {"debounce_violation", "cooldown_violation"} => Recent(t)
  <2>1. SUFFICES ASSUME v \in {"debounce_violation", "cooldown_violation"} PROVE Recent(t)
    OBVIOUS
  <2>2. /\ log[i].age < Plan[t].debounce \/ log[i].age < Plan[t].cooldown
        /\ log[i].age >= sinceOn[t] \/ log[i].age >= sinceHint[t]
        /\ log[i].age \in 0..MaxAge
    BY <1>2, <1>4, <1>6, <2>1
  <2>3. QED
    BY <1>5, <2>2 DEF Recent
<1>9. VerdictHolds(t, v, raced)
  BY <1>3, <1>7, <1>8 DEF VerdictHolds
<1>10. QED
  BY <1>9 DEF v

\* A target whose accepted rows were trimmed stays so until a row accepts it.
LEMMA StillLost ==
    ASSUME LogInv, NEW r \in LogRow, Write(r), NEW t \in lost, ~(r.target = t /\ r.accepted)
    PROVE  t \in lost'
<1>1. log \in Seq(LogRow) /\ t \in Lamp /\ LastAccepted(log, t) = 0
  BY DEF LogInv, RowInv
<1>2. LastAccepted(InsertLog(log, r, Keep), t) = 0
  BY <1>1, LastInserted
<1>3. QED
  BY <1>1, <1>2 DEF Write

\* What another row or activation leaves of a verdict
LEMMA VerdictAfter ==
    ASSUME LogInv, UNCHANGED <<row, clock>>, NEW t \in Lamp, NEW v,
           NEW before \in BOOLEAN, NEW after \in BOOLEAN, before => after,
           VerdictHolds(t, v, before), sinceHint'[t] = sinceHint[t],
           sinceOn'[t] = sinceOn[t] \/ (sinceOn'[t] = 0 /\ after),
           t \in lost => t \in lost' \/ after
    PROVE  VerdictHolds(t, v, after)'
<1>1. InWindow(t)' <=> InWindow(t)
  BY DEF InWindow
<1>2. /\ sinceOn[t] \in 0..MaxAge /\ MaxAge \in Nat
      /\ Plan[t].debounce \in 0..MaxAge /\ Plan[t].cooldown \in 0..MaxAge
  BY PlanAssumption DEF LogInv
<1>3. Recent(t) => Recent(t)'
  BY <1>2 DEF Recent
<1>4. Rested(t) => Rested(t)' \/ after
  BY DEF Rested
<1>5. QED
  BY <1>1, <1>3, <1>4 DEF VerdictHolds

LEMMA VerdictStep ==
    ASSUME RunInv, LogInv, VerdictInv, [Next]_vars
    PROVE  VerdictInv'
<1> USE DEF VerdictInv
<1>1. IdleRun.pc = "idle" /\ \A h \in Run : run[h].pc = "log" => h \in Running
  BY DEF IdleRun, Running
<1>2. ASSUME UNCHANGED <<run, row, timeVars, lost>> PROVE VerdictInv'
  BY <1>2 DEF VerdictHolds, Rested, Recent, InWindow, timeVars
<1>3. CASE Arrive
  <2>1. \A p : RunOf(Event[p]).pc # "log"
    BY <1>1 DEF RunOf, Going
  <2>2. \A h \in Run : run'[h].pc # "log"
    <3>1. \A h \in Run : run'[h] = run[h] \/ \E p \in Payload : run'[h] = RunOf(Event[p])
      BY <1>3 DEF Arrive, Receive, ReceiveTogether, RunInv, Idle
    <3>2. \A h \in Run : run[h].pc # "log"
      BY <1>1, <1>3 DEF Arrive
    <3>3. QED
      BY <2>1, <3>1, <3>2
  <2>3. QED
    BY <2>2
<1>4. CASE Tick
  BY <1>1, <1>4 DEF Tick
<1>5. CASE Operate
  <2>1. run' = run /\ Running = {}
    BY <1>5 DEF Operate, PostRoute, PatchRoute, Save, DeleteRoute, SwitchHook, SetRow
  <2>2. QED
    BY <1>1, <2>1
<1>6. ASSUME NEW h \in Run, Step(h) PROVE VerdictInv'
  <2>1. \A x : GoodRun(x) /\ x.pc # "own" => Onward(x).pc # "log"
    BY <1>1 DEF Onward, Going
  <2>2. CASE DecideTarget(h)
    <3> DEFINE t == Head(run[h].todo)
               v == Decide(t, row[t], Plan[t], Settings, clock, log)
    <3>1. /\ run[h].pc = "route" /\ t \in Lamp
          /\ run' = [run EXCEPT ![h].pc = "log", ![h].verdict = v]
          /\ UNCHANGED <<row, timeVars, lost>>
      BY <2>2 DEF DecideTarget, confVars
    <3>2. GoodRun(run[h])
      BY <1>1, <3>1 DEF RunInv
    <3> HIDE DEF v
    <3>3. /\ run'[h].todo = run[h].todo /\ run'[h].verdict = v
          /\ \A g \in Run \ {h} : run'[g] = run[g]
      BY <3>1, <3>2 DEF RunInv, GoodRun, RunRow
    <3>4. ASSUME NEW u, NEW w, NEW x
          PROVE  VerdictHolds(u, w, x)' <=> VerdictHolds(u, w, x)
      BY <3>1 DEF VerdictHolds, Rested, Recent, InWindow, timeVars
    <3>5. \A x : VerdictHolds(t, v, x)
      BY <3>1, PolicyHolds DEF v
    <3>6. QED
      BY <3>3, <3>4, <3>5
  <2>3. CASE LogDecision(h)
    <3> DEFINE t  == Head(run[h].todo)
               ok == IsAccepted(run[h].verdict)
               r  == [target |-> t, accepted |-> ok, age |-> 0]
    <3>1. /\ run[h].pc = "log" /\ Write(r) /\ UNCHANGED <<row, clock, sinceHint>>
          /\ sinceOn' = IF ok THEN [sinceOn EXCEPT ![t] = 0] ELSE sinceOn
      BY <2>3 DEF LogDecision, confVars
    <3>2. PICK x \in {[run[h] EXCEPT !.pc = "wait"], Onward(run[h])} :
             run' = [g \in Run |-> IF g = h THEN x
                                   ELSE IF ok /\ g \in AlsoDecided(h, t)
                                        THEN [run[g] EXCEPT !.raced = TRUE]
                                        ELSE run[g]]
      BY <2>3 DEF LogDecision
    <3>3. GoodRun(run[h])
      BY <1>1, <3>1 DEF RunInv
    <3>4. t \in Lamp /\ ok \in BOOLEAN
      BY <3>1, <3>3 DEF GoodRun, IsAccepted
    <3>5. r \in LogRow
      BY <3>4, PlanAssumption DEF LogRow, Target
    <3>6. run'[h].pc # "log"
      BY <2>1, <3>1, <3>2, <3>3 DEF GoodRun, RunRow
    <3> HIDE DEF t, ok
    <3>7. ASSUME NEW g \in Run \ {h}, run'[g].pc = "log"
          PROVE  VerdictHolds(Head(run[g].todo), run[g].verdict, run[g].raced)'
      <4> PICK u, v, before, after : /\ u = Head(run[g].todo) /\ v = run[g].verdict
                                     /\ before = run[g].raced /\ after = run'[g].raced
        OBVIOUS
      <4>1. run'[g] = IF ok /\ g \in AlsoDecided(h, t)
                      THEN [run[g] EXCEPT !.raced = TRUE] ELSE run[g]
        BY <3>2
      <4>2. run[g] # IdleRun => GoodRun(run[g])
        BY DEF RunInv
      <4>3. run[g].pc = "log" /\ GoodRun(run[g])
        <5>1. CASE g \in AlsoDecided(h, t)
          BY <1>1, <4>2, <5>1 DEF AlsoDecided
        <5>2. CASE g \notin AlsoDecided(h, t)
          BY <1>1, <3>7, <4>1, <4>2, <5>2
        <5>3. QED
          BY <5>1, <5>2
      <4>4. u \in Lamp /\ VerdictHolds(u, v, before) /\ before \in BOOLEAN
        BY <4>3 DEF GoodRun, RunRow
      <4>5. /\ run'[g].todo = run[g].todo /\ run'[g].verdict = run[g].verdict
            /\ after \in BOOLEAN /\ (before => after)
            /\ (ok /\ u = t => after)
        <5>1. CASE ok /\ g \in AlsoDecided(h, t)
          BY <4>1, <4>3, <5>1, RacedRun
        <5>2. CASE ~(ok /\ g \in AlsoDecided(h, t))
          <6>1. run'[g] = run[g]
            BY <4>1, <5>2
          <6>2. u = t => g \in AlsoDecided(h, t)
            BY <4>3 DEF AlsoDecided
          <6>3. QED
            BY <4>4, <5>2, <6>1, <6>2
        <5>3. QED
          BY <5>1, <5>2
      <4>6. /\ sinceHint'[u] = sinceHint[u]
            /\ sinceOn'[u] = sinceOn[u] \/ (sinceOn'[u] = 0 /\ after)
        BY <3>1, <3>4, <4>4, <4>5 DEF LogInv
      <4>7. u \in lost => u \in lost' \/ after
        <5>1. CASE ok /\ u = t
          BY <4>5, <5>1
        <5>2. CASE ~(ok /\ u = t)
          BY <3>1, <3>5, <5>2, StillLost
        <5>3. QED
          BY <5>1, <5>2
      <4>8. VerdictHolds(u, v, after)'
        BY <3>1, <4>4, <4>5, <4>6, <4>7, VerdictAfter
      <4>9. QED
        BY <4>5, <4>8
    <3>8. QED
      BY <3>6, <3>7
  <2>4. CASE SubmitCondition(h) \/ Answer(h)
    <3>1. run[h].pc \in {"route", "wait"} /\ UNCHANGED <<row, timeVars, lost>>
      BY <2>4 DEF SubmitCondition, Answer, confVars
    <3>2. GoodRun(run[h])
      BY <1>1, <3>1 DEF RunInv
    <3>3. run'[h].pc # "log" /\ \A g \in Run \ {h} : run'[g] = run[g]
      BY <2>1, <2>4, <3>1, <3>2 DEF SubmitCondition, Answer, RunInv, GoodRun, RunRow
    <3>4. ASSUME NEW u, NEW w, NEW x
          PROVE  VerdictHolds(u, w, x)' <=> VerdictHolds(u, w, x)
      BY <3>1 DEF VerdictHolds, Rested, Recent, InWindow, timeVars
    <3>5. QED
      BY <3>3, <3>4
  <2>5. CASE LogOwn(h)
    <3>1. run[h].pc = "own" /\ run' = [run EXCEPT ![h] = IdleRun]
      BY <2>5 DEF LogOwn
    <3>2. Running = {h}
      BY <1>1, <3>1 DEF RunInv, GoodRun, Running
    <3>3. \A g \in Run : run'[g].pc # "log"
      BY <1>1, <3>1, <3>2 DEF RunInv
    <3>4. QED
      BY <3>3
  <2>6. QED
    BY <1>6, <2>2, <2>3, <2>4, <2>5 DEF Step
<1>7. QED
  BY <1>2, <1>3, <1>4, <1>5, <1>6 DEF Next, vars, timeVars

\* All of these hold in every reachable state.
LEMMA PolicyInvs == Spec => []RouteInv /\ []RunInv /\ []LogInv /\ []VerdictInv
<1>1. Init => VerdictInv
  BY DEF Init, VerdictInv, IdleRun
<1>2. QED
  BY <1>1, RouteInit, RunInit, LogInit, RouteStep, RunStep, LogStep, VerdictStep, PTL DEF Spec

\* Every state is of its type.
THEOREM TypeCorrect == Spec => []TypeOK
<1>1. RouteInv /\ RunInv /\ LogInv => TypeOK
  <2> SUFFICES ASSUME RouteInv, RunInv, LogInv PROVE TypeOK
    OBVIOUS
  <2>1. \A i \in DOMAIN log : log[i] \in LogRow
    BY LenProperties DEF LogInv
  <2>2. ASSUME NEW h \in Run, run[h] # IdleRun
        PROVE  /\ run[h].pc \in {"route", "log", "wait", "own"} /\ run[h].want \in State
               /\ \A i \in DOMAIN run[h].todo : run[h].todo[i] \in Target
    BY <2>2, LenProperties DEF RunInv, GoodRun, RunRow
  <2>3. QED
    BY <2>1, <2>2 DEF TypeOK, RouteInv, Saved, RunInv, LogInv
<1>2. QED
  BY <1>1, PolicyInvs, PTL

LEMMA OfTwo ==
    ASSUME NEW a \in Nat, NEW b \in Nat
    PROVE  /\ Max({a, b}) \in {a, b} /\ Max({a, b}) >= a /\ Max({a, b}) >= b
           /\ Min({a, b}) \in {a, b} /\ Min({a, b}) <= a /\ Min({a, b}) <= b
<1>1. \E x \in {a, b} : \A y \in {a, b} : x >= y
  BY a >= b \/ b >= a
<1>2. \E x \in {a, b} : \A y \in {a, b} : x <= y
  BY a >= b \/ b >= a
<1>3. Max({a, b}) \in {a, b} /\ \A y \in {a, b} : Max({a, b}) >= y
  BY <1>1 DEF Max
<1>4. Min({a, b}) \in {a, b} /\ \A y \in {a, b} : Min({a, b}) <= y
  BY <1>2 DEF Min
<1>5. QED
  BY <1>3, <1>4

\* What holds when a decision is logged
LEMMA AtDecision ==
    ASSUME RunInv, LogInv, VerdictInv, NEW h \in Run, LogDecision(h)
    PROVE  LET t == Head(run[h].todo)
           IN  /\ t \in Lamp /\ VerdictHolds(t, run[h].verdict, run[h].raced)
               /\ sinceOn[t] \in Nat /\ sinceHint[t] \in Nat
               /\ Plan[t].debounce \in Nat /\ Plan[t].cooldown \in Nat
<1>1. run[h].pc = "log"
  BY DEF LogDecision
<1>2. GoodRun(run[h])
  BY <1>1 DEF RunInv, IdleRun
<1>3. Head(run[h].todo) \in Lamp
  BY <1>1, <1>2 DEF GoodRun
<1>4. QED
  BY <1>1, <1>3, PlanAssumption DEF VerdictInv, LogInv

\* A light or group is activated again only after its debounce and cooldown, but
\* for the exceptions: no waiting run, row of a webhook, or edit of the operator
\* gets between a decision and its row in the log.
THEOREM CooldownKept == Spec => CooldownHolds
<1> DEFINE Kept(h) ==
             LogDecision(h) /\ run[h].verdict = "accepted" =>
               LET t == Head(run[h].todo)
               IN  \/ sinceOn[t] >= Max({Plan[t].debounce, Plan[t].cooldown})
                   \/ run[h].raced
                   \/ t \in lost
<1>1. ASSUME RunInv, LogInv, VerdictInv, NEW h \in Run
      PROVE  Kept(h)
  <2> DEFINE t == Head(run[h].todo)
             d == Plan[t].debounce
             c == Plan[t].cooldown
  <2>1. SUFFICES ASSUME LogDecision(h), run[h].verdict = "accepted"
                 PROVE  sinceOn[t] >= Max({d, c}) \/ run[h].raced \/ t \in lost
    OBVIOUS
  <2>2. /\ Rested(t) \/ run[h].raced \/ t \in lost
        /\ sinceOn[t] \in Nat /\ d \in Nat /\ c \in Nat
    BY <1>1, <2>1, AtDecision DEF VerdictHolds
  <2>3. Rested(t) => sinceOn[t] >= d /\ sinceOn[t] >= c
    BY DEF Rested
  <2> HIDE DEF d, c, t
  <2>4. Max({d, c}) \in {d, c}
    BY <2>2, OfTwo
  <2>5. Rested(t) => sinceOn[t] >= Max({d, c})
    BY <2>2, <2>3, <2>4
  <2>6. QED
    BY <2>2, <2>5
<1>2. RunInv /\ LogInv /\ VerdictInv => [\A h \in Run : Kept(h)]_vars
  BY <1>1
<1>3. QED
  BY <1>2, PolicyInvs, PTL DEF CooldownHolds

\* An event is refused for debounce or cooldown only if there was an activation,
\* or a valid webhook, that recently.
THEOREM RefusalHasCause == Spec => CooldownHasCause
<1> DEFINE Caused(h) ==
             LogDecision(h) /\ run[h].verdict \in {"debounce_violation", "cooldown_violation"} =>
               LET t == Head(run[h].todo)
               IN  Min({sinceOn[t], sinceHint[t]}) < Max({Plan[t].debounce, Plan[t].cooldown})
<1>1. ASSUME RunInv, LogInv, VerdictInv, NEW h \in Run
      PROVE  Caused(h)
  <2> DEFINE t == Head(run[h].todo)
             d == Plan[t].debounce
             c == Plan[t].cooldown
             a == sinceOn[t]
             b == sinceHint[t]
  <2>1. SUFFICES ASSUME LogDecision(h),
                        run[h].verdict \in {"debounce_violation", "cooldown_violation"}
                 PROVE  Min({a, b}) < Max({d, c})
    OBVIOUS
  <2>2. /\ a < d \/ a < c \/ b < d \/ b < c
        /\ a \in Nat /\ b \in Nat /\ d \in Nat /\ c \in Nat
    BY <1>1, <2>1, AtDecision DEF VerdictHolds, Recent
  <2> HIDE DEF a, b, c, d
  <2>3. /\ Max({d, c}) \in Nat /\ Max({d, c}) >= d /\ Max({d, c}) >= c
        /\ Min({a, b}) \in Nat /\ Min({a, b}) <= a /\ Min({a, b}) <= b
    BY <2>2, OfTwo
  <2>4. QED
    BY <2>2, <2>3
<1>2. RunInv /\ LogInv /\ VerdictInv => [\A h \in Run : Caused(h)]_vars
  BY <1>1
<1>3. QED
  BY <1>2, PolicyInvs, PTL DEF CooldownHasCause

\* Outside test mode a light or group is activated only within its schedule and
\* never with its automation off.
THEOREM WithinSchedule == Spec => OnlyInWindow
<1> DEFINE Inside(h) ==
             LogDecision(h) /\ IsAccepted(run[h].verdict) =>
               LET t == Head(run[h].todo)
               IN  row[t] = "test" \/ (row[t] = "on" /\ clock \in Allowed(Plan[t]))
<1>1. ASSUME RunInv, LogInv, VerdictInv, NEW h \in Run
      PROVE  Inside(h)
  BY <1>1, AtDecision DEF VerdictHolds, InWindow
<1>2. RunInv /\ LogInv /\ VerdictInv => [\A h \in Run : Inside(h)]_vars
  BY <1>1
<1>3. QED
  BY <1>2, PolicyInvs, PTL DEF OnlyInWindow

-----------------------------------------------------------------------------
\* Events of a condition

\* No condition is twice in the list.
Once(todo) == \A i, j \in DOMAIN todo : todo[i] = todo[j] /\ todo[i] \in Cond => i = j

\* The run r still has the condition c ahead of it.
Ahead(r, c) == /\ r # IdleRun /\ c \in Range(r.todo) /\ r.pc # "own"
               /\ ~(r.pc = "wait" /\ Head(r.todo) = c)

\* But for the conditions left behind: every run to come agrees with the last
\* event, and without one so does the last execution.
WishInv ==
    /\ \A h \in Run : run[h] # IdleRun => Once(run[h].todo)
    /\ \A c \in Cond \ behind :
          /\ \A h \in Run : Ahead(run[h], c) => run[h].want = wish[c]
          /\ (\A h \in Run : ~Ahead(run[h], c)) => asked[c] = wish[c]

LEMMA ListSplit ==
    ASSUME NEW s \in Seq(Target), s # <<>>
    PROVE  /\ Range(s) = {Head(s)} \cup Range(Tail(s))
           /\ Once(s) => Once(Tail(s)) /\ (Head(s) \in Cond => Head(s) \notin Range(Tail(s)))
<1>1. Len(s) \in Nat /\ Len(s) > 0 /\ DOMAIN s = 1..Len(s) /\ Head(s) = s[1]
  BY HeadTailProperties, EmptySeq, LenProperties
<1>2. /\ Tail(s) \in Seq(Target) /\ Len(Tail(s)) = Len(s) - 1 /\ DOMAIN Tail(s) = 1..Len(s) - 1
      /\ \A i \in 1..Len(s) - 1 : Tail(s)[i] = s[i + 1]
  BY <1>1, HeadTailProperties, LenProperties
<1>3. \A i \in 1..Len(s) : i = 1 \/ (i - 1 \in 1..Len(s) - 1 /\ Tail(s)[i - 1] = s[i])
  BY <1>1, <1>2
<1>4. Range(s) = {Head(s)} \cup Range(Tail(s))
  <2>1. ASSUME NEW x \in Range(s) PROVE x = Head(s) \/ x \in Range(Tail(s))
    <3>1. PICK i \in 1..Len(s) : x = s[i]
      BY <1>1 DEF Range
    <3>2. QED
      BY <1>1, <1>2, <1>3, <3>1 DEF Range
  <2>2. Head(s) \in Range(s)
    BY <1>1 DEF Range
  <2>3. ASSUME NEW x \in Range(Tail(s)) PROVE x \in Range(s)
    <3>1. PICK i \in 1..Len(s) - 1 : x = s[i + 1]
      BY <1>2 DEF Range
    <3>2. i + 1 \in 1..Len(s)
      BY <1>1
    <3>3. QED
      BY <1>1, <3>1, <3>2 DEF Range
  <2>4. QED
    BY <2>1, <2>2, <2>3
<1>5. ASSUME Once(s) PROVE Once(Tail(s))
  <2>1. SUFFICES ASSUME NEW i \in 1..Len(s) - 1, NEW j \in 1..Len(s) - 1,
                        Tail(s)[i] = Tail(s)[j], Tail(s)[i] \in Cond
                 PROVE  i = j
    BY <1>2 DEF Once
  <2>2. i + 1 \in 1..Len(s) /\ j + 1 \in 1..Len(s) /\ s[i + 1] = s[j + 1] /\ s[i + 1] \in Cond
    BY <1>1, <1>2, <2>1
  <2>3. i + 1 = j + 1
    BY <1>1, <1>5, <2>2 DEF Once
  <2>4. QED
    BY <1>1, <2>3
<1>6. ASSUME Once(s), Head(s) \in Cond PROVE Head(s) \notin Range(Tail(s))
  <2>1. SUFFICES ASSUME NEW i \in 1..Len(s) - 1, Tail(s)[i] = Head(s) PROVE FALSE
    BY <1>2 DEF Range
  <2>2. i + 1 \in 1..Len(s) /\ 1 \in 1..Len(s) /\ s[i + 1] = s[1] /\ s[1] \in Cond
    BY <1>1, <1>2, <1>6, <2>1
  <2>3. i + 1 = 1
    BY <1>1, <1>6, <2>2 DEF Once
  <2>4. QED
    BY <1>1, <2>3
<1>7. QED
  BY <1>4, <1>5, <1>6

\* What the lifecycle of an event asks for
LEMMA Intends ==
    ASSUME NEW p \in Payload
    PROVE  LET e == Event[p]
           IN  /\ e.via = p.via
               /\ Intent(e) = "trigger" <=> Starts(p)
               /\ Intent(e) = "restore" <=> Ends(p)
<1> DEFINE e == Event[p]
<1>1. e = Normalize(p, Cameras, Guarded)
  BY DEF Event
<1>2. p.via \in {"api", "webhook", "access"} /\ (p.via = "api" => p.end \in BOOLEAN)
  BY PayloadAssumption
<1>3. CASE p.via = "api"
  <2>1. e.via = "api" /\ e.life = p.life /\ e.end = p.end
    BY <1>1, <1>3 DEF Normalize, NormalizeApi
  <2> HIDE DEF e
  <2>2. e.end \in BOOLEAN
    BY <1>2, <1>3, <2>1
  <2>3. /\ Intent(e) = "trigger" <=> e.life = "add"
        /\ Intent(e) = "restore" <=> (e.life = "end" \/ (e.life = "update" /\ e.end))
    BY <2>1, <2>2 DEF Intent
  <2>4. QED
    BY <1>3, <2>1, <2>3 DEF e, Starts, Ends
<1>4. CASE p.via = "webhook"
  <2>1. e.via = "webhook" /\ e.life = "none"
    BY <1>1, <1>4 DEF Normalize, HandleWebhook, NormalizeWebhook
  <2>2. Intent(e) = "trigger"
    BY <2>1 DEF Intent
  <2>3. QED
    BY <1>4, <2>1, <2>2 DEF Starts, Ends
<1>5. CASE p.via = "access"
  <2>1. e.via = "access" /\ e.life = "none"
    BY <1>1, <1>5 DEF Normalize, NormalizeAccess
  <2>2. Intent(e) = "neither"
    BY <2>1 DEF Intent
  <2>3. QED
    BY <1>5, <2>1, <2>2 DEF Starts, Ends
<1>6. QED
  BY <1>2, <1>3, <1>4, <1>5

\* A match is executed if its route is live and its event is authentic.
LEMMA Executes ==
    ASSUME RouteInv, NEW e, e.via # "access", NEW i \in 1..MaxRoutes, routes[i].target # NoTarget
    PROVE  i \in Executable(e) <=> /\ Live(routes[i]) /\ Matches(routes[i], e)
                                   /\ e.via = "webhook" => e.valid
<1>1. routes[i] # NoRoute => routes[i].enabled \in BOOLEAN
  BY DEF RouteInv, Saved, IsRoute
<1>2. routes[i] # NoRoute =>
         (Rejection(routes[i], e) = "none" <=> /\ routes[i].binding = "resolved" /\ routes[i].enabled
                                               /\ e.via = "webhook" => e.valid)
  BY <1>1 DEF Rejection
<1>3. QED
  BY <1>2 DEF Executable, Live

\* The run of a payload goes to the conditions it concerns, once each.
LEMMA GoesWhere ==
    ASSUME RouteInv, ControlInv, NEW p \in Payload
    PROVE  /\ Once(TargetsOf(Event[p]))
           /\ \A c \in Cond : c \in Range(TargetsOf(Event[p])) <=> Concerns(p, c)
<1> DEFINE e == Event[p]
           I == Goes(e)
           ids == InOrder(I)
           n == Cardinality(I)
           todo == TargetsOf(e)
<1>1. /\ I \subseteq 1..MaxRoutes /\ n \in Nat /\ ids \in [1..n -> I]
      /\ \A x \in I : \E k \in 1..n : ids[k] = x
      /\ Ascends(ids)
      /\ todo = [k \in 1..n |-> routes[ids[k]].target]
  BY TargetsAre
<1>2. /\ e.via = p.via
      /\ Intent(e) = "trigger" <=> Starts(p)
      /\ Intent(e) = "restore" <=> Ends(p)
  BY Intends
<1>3. p.via = "access" => ~Starts(p) /\ ~Ends(p)
  BY DEF Starts, Ends
<1> HIDE DEF e
<1>4. ASSUME NEW i \in 1..MaxRoutes, routes[i].target \in Cond
      PROVE  i \in I <=> /\ Starts(p) \/ Ends(p)
                         /\ p.via = "webhook" => e.valid
                         /\ Live(routes[i]) /\ Matches(routes[i], e)
  <2>1. routes[i].target # NoTarget
    BY <1>4, RouteAssumption DEF Target
  <2>2. CASE p.via = "access"
    BY <1>2, <1>3, <2>2 DEF Goes
  <2>3. CASE p.via # "access"
    BY <1>2, <1>4, <2>1, <2>3, Executes DEF Goes
  <2>4. QED
    BY <2>2, <2>3
<1> HIDE DEF I
<1>5. \A c \in Cond : c \in Range(todo) <=> \E i \in I : routes[i].target = c
  <2>1. ASSUME NEW c \in Cond, c \in Range(todo) PROVE \E i \in I : routes[i].target = c
    <3>1. PICK k \in 1..n : routes[ids[k]].target = c
      BY <1>1, <2>1 DEF Range
    <3>2. QED
      BY <1>1, <3>1
  <2>2. ASSUME NEW c \in Cond, NEW i \in I, routes[i].target = c PROVE c \in Range(todo)
    <3>1. PICK k \in 1..n : ids[k] = i
      BY <1>1
    <3>2. QED
      BY <1>1, <2>2, <3>1 DEF Range
  <2>3. QED
    BY <2>1, <2>2
<1>6. \A c \in Cond : c \in Range(todo) <=> Concerns(p, c)
  <2>1. ASSUME NEW c \in Cond PROVE (\E i \in I : routes[i].target = c) <=> Concerns(p, c)
    BY <1>1, <1>4, <2>1 DEF Concerns, e
  <2>2. QED
    BY <1>5, <2>1
<1>7. Once(todo)
  <2>1. SUFFICES ASSUME NEW k \in 1..n, NEW j \in 1..n, todo[k] = todo[j], todo[k] \in Cond
                 PROVE  k = j
    BY <1>1 DEF Once
  <2>2. /\ ids[k] \in I /\ ids[j] \in I /\ routes[ids[k]].target = todo[k]
        /\ routes[ids[j]].target = todo[k]
    BY <1>1, <2>1
  <2>3. ids[k] \in Controls(todo[k]) /\ ids[j] \in Controls(todo[k])
    BY <1>1, <1>4, <2>1, <2>2 DEF Controls
  <2>4. ids[k] = ids[j] /\ ids[k] \in Nat
    <3>1. ids[k] = ids[j]
      BY <2>1, <2>3 DEF ControlInv
    <3>2. ids[k] \in 1..MaxRoutes
      BY <1>1, <2>2
    <3>3. QED
      BY <3>1, <3>2
  <2>5. ~(k < j) /\ ~(j < k)
    BY <1>1, <2>4 DEF Ascends
  <2>6. QED
    BY <1>1, <2>5
<1>8. QED
  BY <1>6, <1>7 DEF e

Asks(p) == IF Starts(p) THEN "active" ELSE "inactive"

\* What one payload changes of the history
LEMMA NotedOne ==
    ASSUME NEW p, Noted(<<p>>), NEW c \in Cond
    PROVE  /\ Concerns(p, c) => wish'[c] = Asks(p) /\ (c \in behind' <=> Pending(c))
           /\ ~Concerns(p, c) => wish'[c] = wish[c] /\ (c \in behind' <=> c \in behind)
<1> DEFINE ps == <<p>>
           S == {i \in DOMAIN ps : Concerns(ps[i], c)}
<1>1. /\ wish'[c] = IF S = {} THEN wish[c]
                    ELSE IF Starts(ps[Max(S)]) THEN "active" ELSE "inactive"
      /\ c \in behind' <=> IF S = {} THEN c \in behind ELSE Pending(c) \/ Cardinality(S) > 1
  BY DEF Noted
<1>2. DOMAIN ps = {1} /\ ps[1] = p
  OBVIOUS
<1>3. CASE Concerns(p, c)
  <2>1. S = {1}
    BY <1>2, <1>3
  <2>2. Cardinality({1}) = 1
    BY FS_Singleton
  <2>3. Max({1}) = 1
    BY DEF Max
  <2> HIDE DEF S, ps
  <2>4. QED
    BY <1>1, <1>2, <1>3, <2>1, <2>2, <2>3 DEF Asks
<1>4. CASE ~Concerns(p, c)
  <2>1. S = {}
    BY <1>2, <1>4
  <2> HIDE DEF S, ps
  <2>2. QED
    BY <1>1, <1>4, <2>1
<1>5. QED
  BY <1>3, <1>4

\* What two payloads change of it
LEMMA NotedTwo ==
    ASSUME NEW p, NEW q, Noted(<<p, q>>), NEW c \in Cond
    PROVE  /\ Concerns(p, c) /\ Concerns(q, c) => c \in behind'
           /\ Concerns(p, c) /\ ~Concerns(q, c) => wish'[c] = Asks(p) /\ (c \in behind' <=> Pending(c))
           /\ ~Concerns(p, c) /\ Concerns(q, c) => wish'[c] = Asks(q) /\ (c \in behind' <=> Pending(c))
           /\ ~Concerns(p, c) /\ ~Concerns(q, c) =>
                 wish'[c] = wish[c] /\ (c \in behind' <=> c \in behind)
<1> DEFINE ps == <<p, q>>
           S == {i \in DOMAIN ps : Concerns(ps[i], c)}
<1>1. /\ wish'[c] = IF S = {} THEN wish[c]
                    ELSE IF Starts(ps[Max(S)]) THEN "active" ELSE "inactive"
      /\ c \in behind' <=> IF S = {} THEN c \in behind ELSE Pending(c) \/ Cardinality(S) > 1
  BY DEF Noted
<1>2. DOMAIN ps = {1, 2} /\ ps[1] = p /\ ps[2] = q
  OBVIOUS
<1>3. \A i \in {1, 2} : Cardinality({i}) = 1 /\ Max({i}) = i
  <2>1. \A i \in {1, 2} : Cardinality({i}) = 1
    BY FS_Singleton
  <2>2. \A i \in {1, 2} : Max({i}) = i
    BY DEF Max
  <2>3. QED
    BY <2>1, <2>2
<1>4. CASE Concerns(p, c) /\ Concerns(q, c)
  <2>1. S = 1..2
    BY <1>2, <1>4
  <2>2. Cardinality(1..2) = 2
    <3>1. Cardinality(1..2) = IF 1 > 2 THEN 0 ELSE 2 - 1 + 1
      BY 1 \in Int, 2 \in Int, FS_Interval
    <3>2. QED
      BY <3>1
  <2> HIDE DEF S, ps
  <2>3. QED
    BY <1>1, <1>4, <2>1, <2>2
<1>5. CASE Concerns(p, c) /\ ~Concerns(q, c)
  <2>1. S = {1}
    BY <1>2, <1>5
  <2> HIDE DEF S, ps
  <2>2. QED
    BY <1>1, <1>2, <1>3, <1>5, <2>1 DEF Asks
<1>6. CASE ~Concerns(p, c) /\ Concerns(q, c)
  <2>1. S = {2}
    BY <1>2, <1>6
  <2> HIDE DEF S, ps
  <2>2. QED
    BY <1>1, <1>2, <1>3, <1>6, <2>1 DEF Asks
<1>7. CASE ~Concerns(p, c) /\ ~Concerns(q, c)
  <2>1. S = {}
    BY <1>2, <1>7
  <2> HIDE DEF S, ps
  <2>2. QED
    BY <1>1, <1>7, <2>1
<1>8. QED
  BY <1>4, <1>5, <1>6, <1>7

LEMMA PendingIs ==
    ASSUME NEW c
    PROVE  Pending(c) <=> \E h \in Run : Ahead(run[h], c)
  BY DEF Pending, Ahead

\* The run of a payload has the conditions ahead that the payload concerns, and
\* wants what the payload asks for.
LEMMA BegunAhead ==
    ASSUME RouteInv, ControlInv, NEW p \in Payload
    PROVE  LET r == RunOf(Event[p])
           IN  /\ r # IdleRun => Once(r.todo)
               /\ \A c \in Cond : Ahead(r, c) <=> Concerns(p, c)
               /\ \A c \in Cond : Concerns(p, c) => r.want = Asks(p)
<1> DEFINE e == Event[p]
           r == RunOf(e)
<1>1. /\ r # IdleRun => /\ r.todo = TargetsOf(e)
                        /\ r.want = IF Intent(e) = "trigger" THEN "active" ELSE "inactive"
                        /\ r.pc = IF r.todo # <<>> THEN "route" ELSE "own"
      /\ r = IdleRun => TargetsOf(e) = <<>>
  BY BegunRun
<1>2. /\ Once(TargetsOf(e))
      /\ \A c \in Cond : c \in Range(TargetsOf(e)) <=> Concerns(p, c)
  BY GoesWhere
<1>3. Intent(e) = "trigger" <=> Starts(p)
  BY Intends
<1>4. \A c : c \notin Range(<<>>)
  BY DEF Range
<1> HIDE DEF r, e
<1>5. ASSUME NEW c \in Cond PROVE Ahead(r, c) <=> Concerns(p, c)
  <2>1. CASE r = IdleRun
    BY <1>1, <1>2, <1>4, <2>1 DEF Ahead
  <2>2. CASE r # IdleRun /\ r.todo = <<>>
    BY <1>1, <1>2, <1>4, <2>2 DEF Ahead
  <2>3. CASE r # IdleRun /\ r.todo # <<>>
    <3>1. r.pc = "route" /\ r.todo = TargetsOf(e)
      BY <1>1, <2>3
    <3>2. QED
      BY <1>2, <2>3, <3>1 DEF Ahead
  <2>4. QED
    BY <2>1, <2>2, <2>3
<1>6. ASSUME NEW c \in Cond, Concerns(p, c) PROVE r.want = Asks(p)
  <2>1. r # IdleRun
    BY <1>5, <1>6 DEF Ahead
  <2>2. QED
    BY <1>1, <1>3, <2>1 DEF Asks
<1>7. QED
  BY <1>1, <1>2, <1>5, <1>6 DEF r, e

LEMMA WishArrives ==
    ASSUME RouteInv, ControlInv, RunInv, WishInv, Arrive
    PROVE  WishInv'
<1>1. \A c : ~Ahead(IdleRun, c)
  BY DEF Ahead
<1>2. ASSUME NEW h \in Idle, NEW p \in Payload, Receive(h, p)
      PROVE  WishInv'
  <2>1. /\ h \in Run /\ run[h] = IdleRun /\ run'[h] = RunOf(Event[p])
        /\ \A g \in Run \ {h} : run'[g] = run[g]
        /\ asked' = asked /\ Noted(<<p>>)
    BY <1>2 DEF Receive, Idle, RunInv
  <2>2. \A g \in Run : run'[g] # IdleRun => Once(run'[g].todo)
    BY <2>1, BegunAhead DEF WishInv
  <2>3. ASSUME NEW c \in Cond, c \notin behind'
        PROVE  /\ \A g \in Run : Ahead(run'[g], c) => run'[g].want = wish'[c]
               /\ (\A g \in Run : ~Ahead(run'[g], c)) => asked'[c] = wish'[c]
    <3>1. CASE Concerns(p, c)
      <4>1. wish'[c] = Asks(p) /\ ~Pending(c)
        BY <2>1, <2>3, <3>1, NotedOne
      <4>2. Ahead(run'[h], c) /\ run'[h].want = Asks(p)
        BY <2>1, <3>1, BegunAhead
      <4>3. \A g \in Run \ {h} : ~Ahead(run'[g], c)
        BY <2>1, <4>1, PendingIs
      <4>4. QED
        BY <4>1, <4>2, <4>3, <2>1
    <3>2. CASE ~Concerns(p, c)
      <4>1. wish'[c] = wish[c] /\ c \notin behind
        BY <2>1, <2>3, <3>2, NotedOne
      <4>2. ~Ahead(run'[h], c) /\ ~Ahead(run[h], c)
        BY <1>1, <2>1, <3>2, BegunAhead
      <4>3. QED
        BY <2>1, <4>1, <4>2 DEF WishInv
    <3>3. QED
      BY <3>1, <3>2
  <2>4. QED
    BY <2>2, <2>3 DEF WishInv, Ahead, IdleRun
<1>3. ASSUME NEW h \in Idle, NEW g \in Idle \ {h}, NEW p \in Payload, NEW q \in Payload,
             ReceiveTogether(h, g, p, q)
      PROVE  WishInv'
  <2>1. /\ h \in Run /\ run[h] = IdleRun /\ run'[h] = RunOf(Event[p])
        /\ g \in Run /\ g # h /\ run[g] = IdleRun /\ run'[g] = RunOf(Event[q])
        /\ \A x \in Run \ {h, g} : run'[x] = run[x]
        /\ asked' = asked /\ Noted(<<p, q>>)
    BY <1>3 DEF ReceiveTogether, Idle, RunInv
  <2>2. \A x \in Run : run'[x] # IdleRun => Once(run'[x].todo)
    BY <2>1, BegunAhead DEF WishInv
  <2>3. ASSUME NEW c \in Cond, c \notin behind'
        PROVE  /\ \A x \in Run : Ahead(run'[x], c) => run'[x].want = wish'[c]
               /\ (\A x \in Run : ~Ahead(run'[x], c)) => asked'[c] = wish'[c]
    <3>1. /\ Ahead(run'[h], c) <=> Concerns(p, c)
          /\ Concerns(p, c) => run'[h].want = Asks(p)
          /\ Ahead(run'[g], c) <=> Concerns(q, c)
          /\ Concerns(q, c) => run'[g].want = Asks(q)
      BY <2>1, BegunAhead
    <3>2. ~(Concerns(p, c) /\ Concerns(q, c))
      BY <2>1, <2>3, NotedTwo
    <3>3. CASE Concerns(p, c) \/ Concerns(q, c)
      <4>1. /\ Concerns(p, c) => wish'[c] = Asks(p)
            /\ Concerns(q, c) => wish'[c] = Asks(q)
            /\ ~Pending(c)
        BY <2>1, <2>3, <3>2, <3>3, NotedTwo
      <4>2. \A x \in Run \ {h, g} : ~Ahead(run'[x], c)
        BY <2>1, <4>1, PendingIs
      <4>3. QED
        BY <2>1, <3>1, <3>3, <4>1, <4>2
    <3>4. CASE ~Concerns(p, c) /\ ~Concerns(q, c)
      <4>1. wish'[c] = wish[c] /\ c \notin behind
        BY <2>1, <2>3, <3>4, NotedTwo
      <4>2. /\ ~Ahead(run'[h], c) /\ ~Ahead(run[h], c)
            /\ ~Ahead(run'[g], c) /\ ~Ahead(run[g], c)
        BY <1>1, <2>1, <3>1, <3>4
      <4>3. QED
        BY <2>1, <4>1, <4>2 DEF WishInv
    <3>5. QED
      BY <3>3, <3>4
  <2>4. QED
    BY <2>2, <2>3 DEF WishInv, Ahead, IdleRun
<1>4. QED
  BY <1>2, <1>3 DEF Arrive

\* A step of the run h reaches its first target, or leaves what is ahead alone.
LEMMA WishGoes ==
    ASSUME RunInv, WishInv, NEW h \in Run, GoodRun(run[h]), Beside(h), UNCHANGED <<wish, behind>>,
           run'[h] # IdleRun => run'[h].want = run[h].want /\ Once(run'[h].todo),
           \A c \in Cond : \/ (Ahead(run'[h], c) <=> Ahead(run[h], c)) /\ asked'[c] = asked[c]
                           \/ Ahead(run[h], c) /\ ~Ahead(run'[h], c) /\ asked'[c] = run[h].want
    PROVE  WishInv'
<1>1. ASSUME NEW g \in Run \ {h}
      PROVE  /\ \A c : Ahead(run'[g], c) <=> Ahead(run[g], c)
             /\ run[g] # IdleRun => run'[g].want = run[g].want
             /\ run'[g] # IdleRun => run[g] # IdleRun /\ run'[g].todo = run[g].todo
  <2>1. CASE run'[g] = run[g]
    BY <2>1
  <2>2. CASE run[g] # IdleRun /\ run'[g] = [run[g] EXCEPT !.raced = TRUE]
    <3>1. GoodRun(run[g])
      BY <2>2 DEF RunInv
    <3>2. QED
      BY <2>2, <3>1, RacedRun DEF Ahead
  <2>3. QED
    BY <2>1, <2>2 DEF Beside
<1>2. \A g \in Run : run'[g] # IdleRun => Once(run'[g].todo)
  BY <1>1 DEF WishInv
<1>3. ASSUME NEW c \in Cond, c \notin behind'
      PROVE  /\ \A g \in Run : Ahead(run'[g], c) => run'[g].want = wish'[c]
             /\ (\A g \in Run : ~Ahead(run'[g], c)) => asked'[c] = wish'[c]
  <2>1. /\ \A g \in Run : Ahead(run[g], c) => run[g].want = wish[c]
        /\ (\A g \in Run : ~Ahead(run[g], c)) => asked[c] = wish[c]
        /\ wish'[c] = wish[c]
    BY <1>3 DEF WishInv
  <2>2. ASSUME NEW g \in Run, Ahead(run'[g], c) PROVE run'[g].want = wish'[c]
    <3>1. CASE g = h
      BY <2>1, <2>2, <3>1 DEF Ahead
    <3>2. CASE g # h
      BY <1>1, <2>1, <2>2, <3>2 DEF Ahead
    <3>3. QED
      BY <3>1, <3>2
  <2>3. ASSUME \A g \in Run : ~Ahead(run'[g], c) PROVE asked'[c] = wish'[c]
    <3>1. \A g \in Run \ {h} : ~Ahead(run[g], c)
      BY <1>1, <2>3
    <3>2. CASE Ahead(run[h], c)
      <4>1. asked'[c] = run[h].want
        BY <2>3, <3>2
      <4>2. QED
        BY <2>1, <3>2, <4>1
    <3>3. CASE ~Ahead(run[h], c)
      <4>1. asked'[c] = asked[c]
        BY <3>3
      <4>2. QED
        BY <2>1, <3>1, <3>3, <4>1
    <3>4. QED
      BY <3>2, <3>3
  <2>4. QED
    BY <2>2, <2>3
<1>4. QED
  BY <1>2, <1>3 DEF WishInv, Ahead, IdleRun

\* What the next positions of a run leave ahead of it
LEMMA AheadOf ==
    ASSUME NEW r, GoodRun(r), Once(r.todo), r.pc # "own", NEW x
    PROVE  LET t == Head(r.todo)
           IN  /\ x = [r EXCEPT !.pc = "wait"] \/ x = Onward(r) =>
                     /\ x # IdleRun => x.want = r.want /\ Once(x.todo)
                     /\ \A c \in Cond : Ahead(x, c) <=> c # t /\ c \in Range(r.todo)
               /\ \A c \in Cond : Ahead(r, c) <=> /\ c \in Range(r.todo)
                                                  /\ ~(r.pc = "wait" /\ c = t)
               /\ t \in Range(r.todo)
<1> DEFINE t == Head(r.todo)
<1>1. r.todo \in Seq(Target) /\ r.todo # <<>> /\ r # IdleRun
  BY DEF GoodRun, RunRow, IdleRun
<1>2. /\ Range(r.todo) = {t} \cup Range(Tail(r.todo))
      /\ Once(Tail(r.todo)) /\ (t \in Cond => t \notin Range(Tail(r.todo)))
  BY <1>1, ListSplit
<1>3. \A c \in Cond : Ahead(r, c) <=> c \in Range(r.todo) /\ ~(r.pc = "wait" /\ c = t)
  BY <1>1 DEF Ahead
<1>4. ASSUME x = [r EXCEPT !.pc = "wait"]
      PROVE  /\ x # IdleRun => x.want = r.want /\ Once(x.todo)
             /\ \A c \in Cond : Ahead(x, c) <=> c # t /\ c \in Range(r.todo)
  <2>1. x.pc = "wait" /\ x.todo = r.todo /\ x.want = r.want
    BY <1>4 DEF GoodRun, RunRow
  <2>2. x # IdleRun
    BY <2>1 DEF IdleRun
  <2>3. QED
    BY <2>1, <2>2 DEF Ahead
<1>5. ASSUME x = Onward(r)
      PROVE  /\ x # IdleRun => x.want = r.want /\ Once(x.todo)
             /\ \A c \in Cond : Ahead(x, c) <=> c # t /\ c \in Range(r.todo)
  <2>1. /\ x # IdleRun => /\ x.todo = Tail(r.todo) /\ x.want = r.want
                          /\ x.pc = IF Tail(r.todo) # <<>> THEN "route" ELSE "own"
        /\ x = IdleRun => Tail(r.todo) = <<>>
    BY <1>5, OnwardIs
  <2>2. \A c \in Cond : Ahead(x, c) <=> c \in Range(Tail(r.todo))
    <3>1. \A c : c \notin Range(<<>>)
      BY DEF Range
    <3>2. CASE Tail(r.todo) = <<>>
      BY <2>1, <3>1, <3>2 DEF Ahead
    <3>3. CASE Tail(r.todo) # <<>>
      <4>1. x # IdleRun /\ x.todo = Tail(r.todo) /\ x.pc = "route"
        BY <2>1, <3>3
      <4>2. QED
        BY <4>1 DEF Ahead
    <3>4. QED
      BY <3>2, <3>3
  <2>3. QED
    BY <1>2, <2>1, <2>2
<1>6. QED
  BY <1>2, <1>3, <1>4, <1>5

\* The steps of a run keep the agreement.
LEMMA WishSteps ==
    ASSUME RunInv, WishInv, NEW h \in Run, Step(h)
    PROVE  WishInv'
<1> DEFINE t == Head(run[h].todo)
<1>1. IdleRun.pc = "idle" /\ (run[h] # IdleRun => GoodRun(run[h]) /\ Once(run[h].todo))
  BY DEF IdleRun, RunInv, WishInv
<1>2. ASSUME run[h].pc \in {"route", "log", "wait"}
      PROVE  /\ GoodRun(run[h]) /\ Once(run[h].todo)
             /\ \A x \in {[run[h] EXCEPT !.pc = "wait"], Onward(run[h])} :
                   /\ x # IdleRun => x.want = run[h].want /\ Once(x.todo)
                   /\ \A c \in Cond : Ahead(x, c) <=> c # t /\ c \in Range(run[h].todo)
             /\ \A c \in Cond : Ahead(run[h], c) <=> /\ c \in Range(run[h].todo)
                                                     /\ ~(run[h].pc = "wait" /\ c = t)
             /\ t \in Range(run[h].todo)
  <2>1. GoodRun(run[h]) /\ Once(run[h].todo)
    BY <1>1, <1>2
  <2>2. QED
    BY <1>2, <2>1, AheadOf
<1>3. CASE DecideTarget(h)
  <2> DEFINE v == Decide(t, row[t], Plan[t], Settings, clock, log)
  <2>1. /\ run[h].pc = "route"
        /\ run' = [run EXCEPT ![h].pc = "log", ![h].verdict = v]
        /\ UNCHANGED <<asked, wish, behind>>
    BY <1>3 DEF DecideTarget
  <2>2. GoodRun(run[h]) /\ Once(run[h].todo)
    BY <1>2, <2>1
  <2> HIDE DEF v
  <2>3. /\ run'[h].pc = "log" /\ run'[h].todo = run[h].todo /\ run'[h].want = run[h].want
        /\ \A g \in Run \ {h} : run'[g] = run[g]
    BY <2>1, <2>2 DEF RunInv, GoodRun, RunRow
  <2>4. Beside(h)
    BY <2>3 DEF Beside
  <2>5. \A c \in Cond : Ahead(run'[h], c) <=> Ahead(run[h], c)
    BY <1>1, <2>1, <2>3 DEF Ahead
  <2>6. QED
    BY <2>1, <2>2, <2>3, <2>4, <2>5, WishGoes
<1>4. CASE LogDecision(h)
  <2>1. run[h].pc = "log" /\ UNCHANGED <<asked, wish, behind>>
    BY <1>4 DEF LogDecision
  <2>2. PICK x \in {[run[h] EXCEPT !.pc = "wait"], Onward(run[h])} :
           run' = [g \in Run |-> IF g = h THEN x
                                 ELSE IF IsAccepted(run[h].verdict) /\ g \in AlsoDecided(h, t)
                                      THEN [run[g] EXCEPT !.raced = TRUE]
                                      ELSE run[g]]
    BY <1>4 DEF LogDecision
  <2>3. run'[h] = x /\ Beside(h)
    BY <1>1, <2>2 DEF Beside, AlsoDecided
  <2>4. t \in Lamp /\ t \notin Cond
    BY <1>2, <2>1, RouteAssumption DEF GoodRun
  <2>5. \A c \in Cond : Ahead(run'[h], c) <=> Ahead(run[h], c)
    BY <1>2, <2>1, <2>2, <2>3, <2>4
  <2>6. QED
    BY <1>2, <2>1, <2>2, <2>3, <2>5, WishGoes
<1>5. CASE SubmitCondition(h)
  <2>1. /\ run[h].pc = "route" /\ t \in Cond /\ asked' = [asked EXCEPT ![t] = run[h].want]
        /\ UNCHANGED <<wish, behind>>
    BY <1>5 DEF SubmitCondition
  <2>2. PICK x \in {[run[h] EXCEPT !.pc = "wait"], Onward(run[h])} : run' = [run EXCEPT ![h] = x]
    BY <1>5 DEF SubmitCondition
  <2>3. run'[h] = x /\ Beside(h)
    BY <2>2 DEF RunInv, Beside
  <2>4. asked'[t] = run[h].want /\ \A c \in Cond \ {t} : asked'[c] = asked[c]
    BY <2>1 DEF RunInv
  <2>5. \A c \in Cond : \/ (Ahead(run'[h], c) <=> Ahead(run[h], c)) /\ asked'[c] = asked[c]
                        \/ Ahead(run[h], c) /\ ~Ahead(run'[h], c) /\ asked'[c] = run[h].want
    BY <1>2, <2>1, <2>2, <2>3, <2>4
  <2>6. QED
    BY <1>2, <2>1, <2>2, <2>3, <2>5, WishGoes
<1>6. CASE Answer(h)
  <2>1. /\ run[h].pc = "wait" /\ run' = [run EXCEPT ![h] = Onward(run[h])]
        /\ UNCHANGED <<asked, wish, behind>>
    BY <1>6 DEF Answer
  <2>2. run'[h] = Onward(run[h]) /\ Beside(h)
    BY <2>1 DEF RunInv, Beside
  <2>3. \A c \in Cond : Ahead(run'[h], c) <=> Ahead(run[h], c)
    BY <1>2, <2>1, <2>2
  <2>4. QED
    BY <1>2, <2>1, <2>2, <2>3, WishGoes
<1>7. CASE LogOwn(h)
  <2>1. /\ run[h].pc = "own" /\ run' = [run EXCEPT ![h] = IdleRun]
        /\ UNCHANGED <<asked, wish, behind>>
    BY <1>7 DEF LogOwn
  <2>2. run'[h] = IdleRun /\ Beside(h) /\ GoodRun(run[h])
    BY <1>1, <2>1 DEF RunInv, Beside
  <2>3. \A c \in Cond : ~Ahead(run'[h], c) /\ ~Ahead(run[h], c)
    BY <2>1, <2>2 DEF Ahead
  <2>4. QED
    BY <2>1, <2>2, <2>3, WishGoes
<1>8. QED
  BY <1>3, <1>4, <1>5, <1>6, <1>7 DEF Step

LEMMA WishStep ==
    ASSUME RouteInv, ControlInv, RunInv, WishInv, [Next]_vars
    PROVE  WishInv'
<1>1. ASSUME UNCHANGED <<run, asked, wish, behind>> PROVE WishInv'
  BY <1>1 DEF WishInv, Ahead, IdleRun
<1>2. CASE Tick
  BY <1>1, <1>2 DEF Tick
<1>3. CASE Operate
  BY <1>1, <1>3 DEF Operate, PostRoute, PatchRoute, Save, DeleteRoute, SwitchHook, SetRow
<1>4. CASE UNCHANGED vars
  BY <1>1, <1>4 DEF vars
<1>5. QED
  BY <1>2, <1>3, <1>4, WishArrives, WishSteps DEF Next

\* Once no event for a condition is on its way, the condition was last executed
\* with what the last event asks for, unless that event found an earlier one
\* waiting: the gate lets through what begins or ends an event and nothing else,
\* the planner executes exactly the matches of live routes, a condition comes once
\* in a run, and the run keeps what it wants while it waits at other routes.
THEOREM LastEventObeyed == Spec => []LastEventWins
<1>1. Init => WishInv
  BY DEF Init, WishInv, Ahead
<1>2. WishInv => LastEventWins
  BY PendingIs DEF WishInv, LastEventWins
<1>3. QED
  BY <1>1, <1>2, PolicyInvs, Controlled, WishStep, PTL DEF Spec
=============================================================================
