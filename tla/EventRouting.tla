---------------------------- MODULE EventRouting ----------------------------
(***************************************************************************)
(* From an event to its targets: the ingress dispatcher, the route         *)
(* evaluator, the lifecycle gate and the execution planner, the policy and *)
(* the event log behind every activation, and the operator's edits of      *)
(* routes, policies and semantic webhooks.                                 *)
(*                                                                         *)
(* The routes are evaluated when an event arrives, and the run of the      *)
(* event then goes through the matches in the order of their ids, waiting  *)
(* for the Shelly answers of a light or group and for the panel at each    *)
(* semantic condition. Node.js gives the turn to another callback only at  *)
(* these waits: the database driver is synchronous, so the awaits between  *)
(* a policy decision and its log row let no other callback run. Only the   *)
(* events of one callback (websocket messages of one chunk) alternate      *)
(* there; the order in which they do is left open.                         *)
(*                                                                         *)
(* A target is a light or group (module FloodlightTimers follows what its  *)
(* activation does) or a semantic condition (module SemanticWebhooks       *)
(* follows its zones; here it is enabled, and all that counts is the state *)
(* it was last executed with). All targets exist.                          *)
(***************************************************************************)
EXTENDS IngressEvents, TargetPolicy, FiniteSetsExt, Ascending

CONSTANTS
    Lamp,       \* floodlights and groups
    Cond,       \* semantic conditions
    Run,        \* events that may be in progress together
    Payload,    \* what may arrive
    Cameras,    \* protect_sources: id and listed identifiers of each camera
    Guarded,    \* lights and groups whose webhook has a shared secret
    Plan,       \* schedule and cooldown of each light or group
    Settings,   \* hub_settings: astro, sunset, sunrise
    FirstRoutes,\* the routes at first, by ascending id
    FirstHooks, \* conditions with an enabled semantic webhook at first
    Body,       \* bodies of the operator's route requests
    MaxRoutes,  \* bound on route ids
    MaxEdits,   \* bound on the operator's requests
    Keep,       \* EVENT_LOG_RETENTION_LIMIT
    MaxAge      \* bound on ages, which no debounce or cooldown exceeds

Target == Lamp \cup Cond

ASSUME RouteAssumption ==
    /\ Lamp \cap Cond = {}
    /\ NoTarget \notin Target /\ NoSource \notin DOMAIN Cameras
    /\ \A s, r \in DOMAIN Cameras : Cameras[s].id = Cameras[r].id => s = r
    /\ \A s \in DOMAIN Cameras : NoDevice # [name |-> Cameras[s].id, exact |-> TRUE]
    /\ Len(FirstRoutes) \in 0..MaxRoutes /\ FirstHooks \subseteq Cond
    /\ MaxRoutes \in Nat /\ MaxEdits \in Nat /\ Keep \in Nat \ {0}

\* Times of day are "HH:MM"; an offset may be negative.
ASSUME PlanAssumption ==
    /\ MaxAge \in Nat
    /\ \A t \in Lamp :
          /\ Plan[t].debounce \in 0..MaxAge /\ Plan[t].cooldown \in 0..MaxAge
          /\ Plan[t].mode = "fixed_window" => Plan[t].start \in 0..Day - 1 /\ Plan[t].end \in 0..Day - 1
          /\ Plan[t].mode = "astro_offset" => Plan[t].start \in Int /\ Plan[t].end \in Int
    /\ Settings.astro => Settings.sunset \in Int /\ Settings.sunrise \in Int

ASSUME PayloadAssumption ==
    \A p \in Payload : /\ p.via \in {"api", "webhook", "access"}
                       /\ p.via = "api" => p.end \in BOOLEAN
                       /\ p.via = "webhook" => p.hint \in Lamp \cup {NoTarget} /\ p.secret \in BOOLEAN

VARIABLES
    routes,     \* event_routes, by id
    hookOn,     \* conditions with an enabled semantic webhook
    row,        \* automation and test mode of each light or group
    clock,      \* the time of day
    log,        \* event_logs: target, accepted, and the age of the row
    run,        \* the runs in progress
    asked,      \* the state each condition was last executed with
    edits,      \* the operator's requests so far
    wish,       \* history: what the last event for a condition asks for
    behind,     \* history: conditions whose last event found an earlier one waiting
    sinceOn,    \* history: ticks since a light or group was activated by a route
    sinceHint,  \* history: ticks since a valid webhook named it
    lost        \* history: lights and groups whose accepted rows were trimmed

confVars == <<routes, hookOn, row, edits>>
timeVars == <<clock, sinceOn, sinceHint>>
vars == <<routes, hookOn, row, clock, log, run, asked, edits, wish, behind, sinceOn, sinceHint, lost>>

NoRoute == [binding |-> "none"]
IdleRun == [pc |-> "idle"]
LogRow  == [target : Target \cup {NoTarget}, accepted : BOOLEAN, age : 0..MaxAge]
State   == {"active", "inactive"}

\* A row of event_routes
RouteFields == {"source", "class", "kind", "objects", "binding", "target", "enabled"}
IsRoute(r) ==
    /\ DOMAIN r = RouteFields
    /\ r.source \in DOMAIN Cameras
    /\ r.class \in DOMAIN UpstreamType
    /\ r.target \in Target \cup {NoTarget}
    /\ r.enabled \in BOOLEAN

TypeOK ==
    /\ DOMAIN routes = 1..MaxRoutes
    /\ \A i \in 1..MaxRoutes : routes[i] # NoRoute => IsRoute(routes[i])
    /\ hookOn \subseteq Cond
    /\ row \in [Lamp -> {"on", "off", "test"}]
    /\ clock \in 0..Day - 1
    /\ Len(log) <= Keep /\ \A i \in DOMAIN log : log[i] \in LogRow
    /\ \A h \in Run : run[h] # IdleRun =>
          /\ run[h].pc \in {"route", "log", "wait", "own"}
          /\ run[h].want \in State
          /\ \A i \in DOMAIN run[h].todo : run[h].todo[i] \in Target
    /\ asked \in [Cond -> State] /\ wish \in [Cond -> State]
    /\ edits \in 0..MaxEdits
    /\ behind \subseteq Cond /\ lost \subseteq Lamp
    /\ sinceOn \in [Lamp -> 0..MaxAge] /\ sinceHint \in [Lamp -> 0..MaxAge]

-----------------------------------------------------------------------------
Live(r) == r # NoRoute /\ r.binding = "resolved" /\ r.enabled

\* What each payload is normalized to
Event == [p \in Payload |-> Normalize(p, Cameras, Guarded)]

\* Runs that have not come to a wait yet
Running == {h \in Run : run[h].pc \in {"route", "log", "own"}}

Idle == {h \in Run : run[h] = IdleRun}

\* The ids of the routes whose match the planner executes
Executable(e) ==
    {i \in 1..MaxRoutes : /\ routes[i] # NoRoute
                          /\ Matches(routes[i], e)
                          /\ Rejection(routes[i], e) = "none"}

\* The targets an event's run goes through, by ascending route id. Without a
\* trigger or restore the planner returns; a restore skips lights and groups.
TargetsOf(e) ==
    LET ids == InOrder({i \in Executable(e) :
                           \/ Intent(e) = "trigger"
                           \/ Intent(e) = "restore" /\ routes[i].target \in Cond})
    IN  [k \in DOMAIN ids |-> routes[ids[k]].target]

\* The row a webhook inserts for itself after its publication
OwnRow(e) ==
    IF e.via = "webhook" THEN <<[target |-> e.hint, accepted |-> e.valid, age |-> 0]>> ELSE <<>>

\* The run with the targets todo ahead of it
Going(todo, want, own) ==
    IF todo = <<>> /\ own = <<>> THEN IdleRun
    ELSE [pc |-> IF todo # <<>> THEN "route" ELSE "own", todo |-> todo, want |-> want,
          own |-> own, verdict |-> "none", raced |-> FALSE]

RunOf(e) == Going(TargetsOf(e), IF Intent(e) = "trigger" THEN "active" ELSE "inactive", OwnRow(e))

\* The run after its first target is done with
Onward(r) == Going(Tail(r.todo), r.want, r.own)

-----------------------------------------------------------------------------
\* An event begins, or it ends; any other news of it asks for nothing.
Starts(p) == p.via = "webhook" \/ (p.via = "api" /\ p.life = "add")
Ends(p)   == p.via = "api" /\ (p.life = "end" \/ (p.life = "update" /\ p.end))

\* The payload concerns the condition: an enabled route leads from it to c.
Concerns(p, c) ==
    LET e == Event[p]
    IN  /\ Starts(p) \/ Ends(p)
        /\ p.via = "webhook" => e.valid
        /\ \E i \in 1..MaxRoutes : Live(routes[i]) /\ routes[i].target = c /\ Matches(routes[i], e)

\* Some run still has the condition ahead of it.
Pending(c) == \E h \in Run : run[h] # IdleRun /\ c \in Range(run[h].todo) /\ run[h].pc # "own"
                             /\ ~(run[h].pc = "wait" /\ Head(run[h].todo) = c)

\* The payloads of ps arrive in this order.
Noted(ps) ==
    LET touched(c) == {i \in DOMAIN ps : Concerns(ps[i], c)}
    IN  /\ wish' = [c \in Cond |-> IF touched(c) = {} THEN wish[c]
                                   ELSE IF Starts(ps[Max(touched(c))]) THEN "active" ELSE "inactive"]
        /\ behind' = {c \in Cond : IF touched(c) = {} THEN c \in behind
                                   ELSE Pending(c) \/ Cardinality(touched(c)) > 1}

\* An event arrives: handleMessage or handleGroupWebhook to the first wait,
\* with the steps below.
Receive(h, p) ==
    /\ run' = [run EXCEPT ![h] = RunOf(Event[p])]
    /\ Noted(<<p>>)
    /\ UNCHANGED <<confVars, timeVars, log, asked, lost>>

\* Two websocket messages arrive in one chunk.
ReceiveTogether(h, g, p, q) ==
    /\ run' = [run EXCEPT ![h] = RunOf(Event[p]),
                          ![g] = RunOf(Event[q])]
    /\ Noted(<<p, q>>)
    /\ UNCHANGED <<confVars, timeVars, log, asked, lost>>

-----------------------------------------------------------------------------
\* The run comes to a light or group: the policy decides.
DecideTarget(h) ==
    /\ run[h].pc = "route"
    /\ Head(run[h].todo) \in Lamp
    /\ LET t == Head(run[h].todo)
       IN  run' = [run EXCEPT ![h].pc = "log",
                              ![h].verdict = Decide(t, row[t], Plan[t], Settings, clock, log)]
    /\ UNCHANGED <<confVars, timeVars, log, asked, wish, behind, lost>>

\* Faulty variant: the activation is not logged, only its refusal.
WriteRefusals(r) ==
    /\ log' = IF r.accepted THEN log ELSE InsertLog(log, r, Keep)
    /\ lost' = {t \in Lamp : LastAccepted(log', t) = 0 /\ (t \in lost \/ LastAccepted(log, t) # 0)}

\* The row joins the log, and the log is trimmed.
Write(r) ==
    /\ log' = InsertLog(log, r, Keep)
    /\ lost' = {t \in Lamp : LastAccepted(log', t) = 0 /\ (t \in lost \/ LastAccepted(log, t) # 0)}

\* Runs of the same callback whose decision for t is not logged yet
AlsoDecided(h, t) ==
    {g \in Run \ {h} : run[g].pc = "log" /\ Head(run[g].todo) = t}

\* logRouteEvent, and what follows to the next wait: the Shelly command of an
\* accepted activation, unless nothing is left to command (overrides, disabled
\* or missing members).
LogDecision(h) ==
    /\ run[h].pc = "log"
    /\ LET t    == Head(run[h].todo)
           ok   == IsAccepted(run[h].verdict)
           next == IF ok THEN {[run[h] EXCEPT !.pc = "wait"], Onward(run[h])} ELSE {Onward(run[h])}
       IN  /\ Write([target |-> t, accepted |-> ok, age |-> 0])
           /\ \E r \in next :
                 run' = [g \in Run |-> IF g = h THEN r
                                       ELSE IF ok /\ g \in AlsoDecided(h, t)
                                            THEN [run[g] EXCEPT !.raced = TRUE]
                                            ELSE run[g]]
           /\ sinceOn' = IF ok THEN [sinceOn EXCEPT ![t] = 0] ELSE sinceOn
    /\ UNCHANGED <<confVars, clock, sinceHint, asked, wish, behind>>

\* The run comes to a condition: executeSemanticConditionRoute submits the
\* state, and waits for the panel if a binding is enabled.
SubmitCondition(h) ==
    /\ run[h].pc = "route"
    /\ Head(run[h].todo) \in Cond
    /\ asked' = [asked EXCEPT ![Head(run[h].todo)] = run[h].want]
    /\ \E r \in {[run[h] EXCEPT !.pc = "wait"], Onward(run[h])} : run' = [run EXCEPT ![h] = r]
    /\ UNCHANGED <<confVars, timeVars, log, wish, behind, lost>>

\* The wait is over: the last Shelly answer or timeout, or the panel's. A
\* failure is caught, and the run goes on like after a success.
Answer(h) ==
    /\ Running = {}
    /\ run[h].pc = "wait"
    /\ run' = [run EXCEPT ![h] = Onward(run[h])]
    /\ UNCHANGED <<confVars, timeVars, log, asked, wish, behind, lost>>

\* After the publication a webhook inserts a row of its own.
LogOwn(h) ==
    /\ run[h].pc = "own"
    /\ LET r == run[h].own[1]
       IN  /\ Write(r)
           /\ sinceHint' = IF r.accepted THEN [sinceHint EXCEPT ![r.target] = 0] ELSE sinceHint
    /\ run' = [run EXCEPT ![h] = IdleRun]
    /\ UNCHANGED <<confVars, clock, sinceOn, asked, wish, behind>>

Aged(n) == IF n < MaxAge THEN n + 1 ELSE n

Tick ==
    /\ Running = {}
    /\ clock' = (clock + 1) % Day
    /\ log' = [i \in DOMAIN log |-> [log[i] EXCEPT !.age = Aged(@)]]
    /\ sinceOn' = [t \in Lamp |-> Aged(sinceOn[t])]
    /\ sinceHint' = [t \in Lamp |-> Aged(sinceHint[t])]
    /\ UNCHANGED <<confVars, run, asked, wish, behind, lost>>

-----------------------------------------------------------------------------
\* Faulty variant: an empty list of object types is stored as such.
StoreEmptyList(r) == IF r.class = "motion" THEN [r EXCEPT !.objects = AnyObject] ELSE r

\* serializeObjectTypes and normalizeDraftForEventClass
Stored(r) ==
    IF r.class = "motion" \/ r.objects = {} THEN [r EXCEPT !.objects = AnyObject] ELSE r

\* What the API accepts of a request before it looks at the row as a whole: a
\* camera and a target that exist
ASSUME BodyAssumption ==
    \A b \in Body : /\ DOMAIN b \subseteq RouteFields
                    /\ "source" \in DOMAIN b => b.source \in DOMAIN Cameras
                    /\ "target" \in DOMAIN b => b.target \in Target \cup {NoTarget}
                    /\ "enabled" \in DOMAIN b => b.enabled \in BOOLEAN

\* validateRouteDraft: the class, its type and objects, and the target
WellFormed(r) ==
    /\ r.class \in DOMAIN UpstreamType
    /\ r.kind \in {"none", UpstreamType[r.class]}
    /\ r.objects # AnyObject => r.objects \subseteq AllowedObjects[r.class]
    /\ r.binding = "resolved" => r.target # NoTarget

\* The database is not edited behind the API's back: the routes at first are such
\* as it stores, and no condition has two enabled routes, or an enabled route and
\* an enabled webhook.
ASSUME FirstAssumption ==
    \A i \in 1..Len(FirstRoutes) :
      /\ IsRoute(FirstRoutes[i]) /\ WellFormed(FirstRoutes[i]) /\ Stored(FirstRoutes[i]) = FirstRoutes[i]
      /\ Live(FirstRoutes[i]) /\ FirstRoutes[i].target \in Cond =>
            /\ FirstRoutes[i].target \notin FirstHooks
            /\ \A j \in 1..Len(FirstRoutes) :
                  Live(FirstRoutes[j]) /\ FirstRoutes[j].target = FirstRoutes[i].target => j = i

\* Faulty variant: only another route is in the way of a route.
FreeOfRoutes(r, i) ==
    (Live(r) /\ r.target \in Cond) =>
        \A j \in 1..MaxRoutes : j # i /\ Live(routes[j]) => routes[j].target # r.target

\* validateRouteDraft: a condition has no other enabled route, nor webhook.
NoConflict(r, i) ==
    (Live(r) /\ r.target \in Cond) =>
        /\ \A j \in 1..MaxRoutes : j # i /\ Live(routes[j]) => routes[j].target # r.target
        /\ r.target \notin hookOn

\* The route i becomes r, if the request passes the validation.
Save(i, r) ==
    /\ WellFormed(r)
    /\ NoConflict(r, i)
    /\ routes' = [routes EXCEPT ![i] = r]
    /\ edits' = edits + 1
    /\ UNCHANGED <<hookOn, row, timeVars, log, run, asked, wish, behind, lost>>

\* The fields of a request, and those of a row that it leaves out
Merge(body, r) ==
    [f \in DOMAIN body \cup DOMAIN r |-> IF f \in DOMAIN body THEN body[f] ELSE r[f]]

\* POST /api/routes: the fields left out of the request
Defaults(body) ==
    [kind |-> "none", objects |-> AnyObject, target |-> NoTarget,
     enabled |-> body.binding = "resolved"]

\* The new route's id comes after those of the routes there are.
PostRoute(body) ==
    /\ {"source", "class", "binding"} \subseteq DOMAIN body
    /\ \E i \in 1..MaxRoutes :
          /\ \A j \in i..MaxRoutes : routes[j] = NoRoute
          /\ i = 1 \/ routes[i - 1] # NoRoute
          /\ Save(i, Stored(Merge(body, Defaults(body))))

\* PATCH /api/routes/:id: the row as it will be is validated as a whole.
PatchRoute(i, body) ==
    /\ routes[i] # NoRoute
    /\ Save(i, Stored(Merge(body, routes[i])))

DeleteRoute(i) ==
    /\ routes[i] # NoRoute
    /\ routes' = [routes EXCEPT ![i] = NoRoute]
    /\ edits' = edits + 1
    /\ UNCHANGED <<hookOn, row, timeVars, log, run, asked, wish, behind, lost>>

\* POST, PATCH and DELETE of semantic webhooks, as far as enabled goes:
\* enabling one looks for a route of the condition (hasConflictingRoute).
SwitchHook(c) ==
    /\ c \notin hookOn => ~\E i \in 1..MaxRoutes : Live(routes[i]) /\ routes[i].target = c
    /\ hookOn' = IF c \in hookOn THEN hookOn \ {c} ELSE hookOn \cup {c}
    /\ edits' = edits + 1
    /\ UNCHANGED <<routes, row, timeVars, log, run, asked, wish, behind, lost>>

\* The operator changes automation or test mode, or a test mode's time ends.
SetRow(t, v) ==
    /\ v # row[t]
    /\ row' = [row EXCEPT ![t] = v]
    /\ edits' = edits + 1
    /\ UNCHANGED <<routes, hookOn, timeVars, log, run, asked, wish, behind, lost>>

-----------------------------------------------------------------------------
Init ==
    /\ routes = [i \in 1..MaxRoutes |-> IF i <= Len(FirstRoutes) THEN FirstRoutes[i] ELSE NoRoute]
    /\ hookOn = FirstHooks
    /\ row = [t \in Lamp |-> "on"]
    /\ clock = 0
    /\ log = <<>>
    /\ run = [h \in Run |-> IdleRun]
    /\ asked = [c \in Cond |-> "inactive"]
    /\ edits = 0
    /\ wish = asked
    /\ behind = {}
    /\ sinceOn = [t \in Lamp |-> MaxAge]
    /\ sinceHint = [t \in Lamp |-> MaxAge]
    /\ lost = {}

Arrive ==
    /\ Running = {}
    /\ \/ \E h \in Idle, p \in Payload : Receive(h, p)
       \/ \E h \in Idle : \E g \in Idle \ {h} :
             \E p, q \in {x \in Payload : x.via = "api"} : ReceiveTogether(h, g, p, q)

Operate ==
    /\ edits < MaxEdits
    /\ Running = {}
    /\ \/ \E b \in Body : PostRoute(b)
       \/ \E i \in 1..MaxRoutes, b \in Body : PatchRoute(i, b)
       \/ \E i \in 1..MaxRoutes : DeleteRoute(i)
       \/ \E c \in Cond : SwitchHook(c)
       \/ \E t \in Lamp, v \in {"on", "off", "test"} : SetRow(t, v)

Step(h) ==
    \/ DecideTarget(h)
    \/ LogDecision(h)
    \/ SubmitCondition(h)
    \/ Answer(h)
    \/ LogOwn(h)

Next ==
    \/ Arrive
    \/ \E h \in Run : Step(h)
    \/ Tick
    \/ Operate

Spec == Init /\ [][Next]_vars

-----------------------------------------------------------------------------
\* Safety: once no event for a condition is on its way, the condition was last
\* executed with what the last event asks for: active when an event begins or a
\* webhook reports one, inactive when it ends. The exception is an event that
\* arrived while an earlier one for the condition was waiting at a route before:
\* it overtakes it, and the earlier one has the last word (for: in
\* registerExecutionPlannerSubscriber). Normalization, source resolution, route
\* evaluation, the lifecycle gate and the planner stand between the two.
LastEventWins ==
    \A c \in Cond : ~Pending(c) /\ c \notin behind => asked[c] = wish[c]

\* Safety: a condition is controlled by one enabled resolved route or by one
\* enabled semantic webhook, whatever sequence of route and webhook requests
\* led here (validateRouteDraft, hasConflictingRoute).
OneController ==
    \A c \in Cond :
        LET n == Cardinality({i \in 1..MaxRoutes : Live(routes[i]) /\ routes[i].target = c})
        IN  n + (IF c \in hookOn THEN 1 ELSE 0) <= 1

\* The messages a console can send of a camera: the type goes with the class
\* of the detection, and the object types with the type.
ConsoleMessages ==
    {p \in [via : {"api"}, device : {[name |-> Cameras[s].id, exact |-> TRUE] : s \in DOMAIN Cameras},
            kind : {UpstreamType[c] : c \in DOMAIN UpstreamType \ {"loiter"}},
            objects : SUBSET UNION Range(AllowedObjects), life : {"add"}, end : {FALSE}] :
        \E c \in DOMAIN UpstreamType : p.kind = UpstreamType[c] /\ p.objects \subseteq AllowedObjects[c]}

ConsoleEvents == {NormalizeApi(p, Cameras) : p \in ConsoleMessages}

\* Safety: every enabled resolved route that the API stores can fire: some
\* message of its camera with the object types of its class matches it. Routes
\* of class loiter are left out: the API offers the class, and no event is
\* ever normalized to it (eventRoutes.ts:10, normalizeProtectApiEvent.ts:36).
EveryRouteCanFire ==
    \A i \in 1..MaxRoutes :
        Live(routes[i]) /\ routes[i].class # "loiter" => \E e \in ConsoleEvents : Matches(routes[i], e)

\* Action property: a light or group is activated again only after its debounce
\* and cooldown. The exceptions: test mode; events of one callback, which all
\* decide before the first of them is logged; an accepted row that the
\* retention of the event log has trimmed.
CooldownHolds ==
    [][\A h \in Run : LogDecision(h) /\ run[h].verdict = "accepted" =>
          LET t == Head(run[h].todo)
          IN  \/ sinceOn[t] >= Max({Plan[t].debounce, Plan[t].cooldown})
              \/ run[h].raced
              \/ t \in lost]_vars

\* Action property: an event is refused for debounce or cooldown only if the
\* light or group was activated, or named by a valid webhook, that recently.
CooldownHasCause ==
    [][\A h \in Run : LogDecision(h) /\ run[h].verdict \in {"debounce_violation", "cooldown_violation"} =>
          LET t == Head(run[h].todo)
          IN  Min({sinceOn[t], sinceHint[t]}) < Max({Plan[t].debounce, Plan[t].cooldown})]_vars

\* The moments of the window from s to e, which may pass midnight
Window(s, e) == {(s + k) % Day : k \in 0..((e - s) % Day)}

\* The moments a plan allows: a fixed window, or all but the daylight.
Allowed(plan) ==
    CASE plan.mode = "fixed_window" -> Window(plan.start, plan.end)
      [] plan.mode = "astro_offset" ->
            {m \in 0..Day - 1 : ~(m > Settings.sunrise + plan.end /\ m < Settings.sunset + plan.start)}
      [] plan.mode = "sunset_to_sunrise" ->
            {m \in 0..Day - 1 : ~(m > Settings.sunrise /\ m < Settings.sunset)}
      [] OTHER -> 0..Day - 1

\* Action property: outside test mode a light or group is activated only within
\* its schedule, with windows that pass midnight, and never with its automation
\* off: also not by a run that waited at other routes since its event arrived.
OnlyInWindow ==
    [][\A h \in Run : LogDecision(h) /\ IsAccepted(run[h].verdict) =>
          LET t == Head(run[h].todo)
          IN  row[t] = "test" \/ (row[t] = "on" /\ clock \in Allowed(Plan[t]))]_vars
=============================================================================
