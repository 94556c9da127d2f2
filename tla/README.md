# TLA+ models of Widgets Floodlight Hub

The hub (`src/src`, a Fastify server on Node with a synchronous SQLite driver) receives
events from webhooks, UniFi Access and UniFi Protect, decides which floodlights, groups or
semantic conditions they concern, and drives Shelly relays and a Savant security panel. It
switches floodlights off again after a time and restores conditions.

## 1. The system

### Components

| Component | State it keeps | Operations | What makes it correct |
|---|---|---|---|
| Activation (`services/execution/floodlightActivationService.ts`) | none of its own; works on `floodlights`, `groups`, `group_memberships` | `executeFloodlightActivation`, `executeGroupActivation` | a floodlight it lights gets a timer |
| Timer service (`services/timers`) | `active_timers`, the poll interval | `createOrRefreshGroupTimer`, `createOrRefreshFloodlightTimer`, `processExpired` | every timed floodlight goes off, none before its full duration; a refresh is never lost |
| Shelly client (`services/shelly`) | calls in flight | `setOutput` | every call ends |
| Floodlight and group API (`routes/floodlights.ts`, `routes/groups.ts`) | the tables above | edit, delete, on, off | `lastKnownOutput` tells the truth; edits strand no lit floodlight without a cause |
| Panel consumer (`services/virtualSecurityPanel/virtualSecurityPanelConsumer.ts`) | retained state and delivery status per zone, the chain of operations | `setDesiredState`, `resynchronize` | a connected controller ends up with every zone's state; requests apply in order |
| Savant transport (`savantTcpTransport.ts`) | listener, one client socket, lifecycle | accept, close and error events, `send`, `markUnhealthy`, `stop` | one client, the newest; only its own failure ends it |
| Semantic webhooks (`services/webhooks/semanticWebhook*.ts`) | in-memory timers | Active, Inactive, expiry | the last request decides; an auto-timeout condition is always restored, not before its time |
| Semantic execution and planner (`services/execution/semantic*.ts`, `executionPlannerSubscriber.ts`) | none | run over the enabled bindings | all zones of a condition agree |
| Semantic configuration API | `semantic_conditions`, `semantic_condition_webhooks`, `consumer_bindings` | create, patch, delete | one enabled binding per zone; no timer survives its webhook |
| Policy (`services/policy`) and log retention (`logRetentionService.ts`) | `event_logs`, trimmed by every insert | evaluate a floodlight or group, log the decision | activations keep to schedule, debounce and cooldown; refusals have a cause |
| Webhook ingress, dispatcher, route evaluation, lifecycle gate (`services/ingress`, `services/webhooks/webhookService.ts`, `lifecycleExecutionGate.ts`) | none | normalize an event, publish it to the subscribers in turn, evaluate the routes | the last event decides what a condition is |
| Event route API (`routes/eventRoutes.ts`) | `event_routes` | create, patch, delete | one controller per condition; no stored route that cannot fire |
| Access ingest (`services/accessApi`) | `access_ingest_state`, one timer handle, the poll in flight | start, stop, poll, restart | no entry lost or repeated without a cause; a stop ends the polling |
| Protect ingest and source sync (`services/protectApi`) | websocket, reconnect timer, `protect_sources` | connect, reconnect, sync | the loop neither dies nor doubles; a camera keeps its id |
| Cloud sync (`services/cloud`) | one timer, the device id | bootstrap, heartbeat | reports while the cloud answers, stops when told |
| Startup and shutdown (`app.ts`, `server.ts`) | how far the start is | onReady, listen, onClose | a hub that is down comes up again |
| ELK frames, settings, diagnostics, database, frontend, fixtures | | | see `PROJECT.json` |

### Interactions

Ingress events go through the dispatcher to the diagnostics subscriber, the semantic planner
and the route evaluator. The evaluator hands a matching route to the lifecycle gate and the
planner, which calls an executor. Executors and the timer service meet only in the database
and on the Shelly devices. Semantic requests meet at the panel's chain of operations.

### What is hard

Node runs one callback at a time and the database driver never waits, so the hub's own
interleavings happen only at Shelly calls, at the panel's writes and chain, and at sockets.
That is where state is read before a wait and used after it: the list of expired timers, the
webhook row that decides whether a timer is scheduled, the client that a failed write belongs
to. The other difficulties are expiry racing a retrigger, overlapping polls, commands that
fail, edits and deletions under a running timer, and restarts, which keep the tables and lose
everything else. An event's run waits at each of its targets while later events arrive, and the runs of
one websocket chunk alternate even between database statements. Polls and connections fail
half way, and timers whose handle was overwritten cannot be cancelled. `PROJECT.json` lists
each with its line.

## 2. Plan

1. `FloodlightTimers`, with `FloodlightTimers_proofs` (done).
2. `ZoneMirror` (abstract) and `VirtualSecurityPanel`, which implements it (done).
3. `SemanticWebhooks`, over the panel's chain seen from outside (done).
4. `IngressEvents` and `TargetPolicy`, pure functions, and `EventRouting` over them: an
   event's way to its targets, the policy and the log, the route API (done).
5. `AccessIngest` (done).
6. `ProtectIngest`, `CloudSync` and `Connectors`, which composes them with the start and the
   end of the process (done).
7. Proofs: every safety property that a passing run checks, and the safety part of the
   refinement of `ZoneMirror`, for every value of the constants (done; section 5). Liveness
   stays with TLC.
8. The inventory syncs of Access, and composing `EventRouting` with `FloodlightTimers`.

## 3. The modules and the code

### FloodlightTimers

`light`, `groups`, `members` and `timers` are the tables; inactive timer rows are never read
again and are left out, and `expiresAt` is kept as the ticks left until it. `act` holds the
route executions, `poll` the runs of `processExpired`, `wire` the Shelly calls without an
answer, `relay` the real outputs. `litBy`, `excuse`, `stay`, `blurred` and `hurried` are
history: no action's guard reads them, except that `Tick` also passes while `stay` counts.

A run gives way only at a Shelly call (`SendOn`, `SendOff`, `Manual`). The device may obey
(`Apply`) at any time until the call ends by `AnswerOk` or `AnswerFailed`; a timeout may come
before or after the device obeyed. `LoopFree` says that no other callback is taken up while a
run can go on. Two executions resumed in one callback may alternate between their database
statements; this is why `FindTimer` and `WriteTimer` are two actions. `StartGroup` and
`StartLight` may happen at any time: what the policy accepts is left free. A target's
duration is a constant, so edits of `autoOffSeconds` are not modelled; `overrideUntil` is
stored and never read by the code.

`excuse` names what the code does not handle: the floodlight was forced on or deleted when
its timer expired, its off command failed before the device obeyed, it left the group, it was
switched on while its target's row was being expired, or the hub restarted before the timer
was written. `LitIsCovered` says that nothing else strands a lit floodlight, and that its
timer never runs shorter than the last activation promised (`stay`).

`FullDuration` is the promise of README line 136, and the code breaks it. `FullDurationUnlessRaced`
says that two races alone do, and nothing else over all interleavings of executions,
overlapping polls, commands, edits and restarts. Either the row was read as expired while an
execution was still to refresh it, or beside a duplicate that was refreshed (`hurried`, set
by `PollStart`); or the floodlight was switched on while a poll already held the row
(`excuse`, set by `Apply`). For a floodlight lost for another cause of `excuse` nothing is
promised any more. A floodlight under two targets is promised the duration of the one
that lit it last.

### VirtualSecurityPanel and ZoneMirror

`retained` and `status` are `retainedStates`, `queue` and `op` the operation chain and the
operation at its head, `write` the write it waits for, `sock` the sockets by connection id.
Because operations run one after another, the transport's `writeChain` never holds more than
the write of the current operation and is not modelled apart. A socket that the hub destroyed
is still `this.client` until its close event is handled; writes on it fail at once.
`ZoneMirror` is the promise to users: requests apply in order and a linked controller is
told. `Mirror` maps the waiting requests of the chain to `requests`, `retained` to `current`,
and an open client to `linked`.

### SemanticWebhooks

`hook`, `condOn` and `bound` are the configuration tables, `timer` the timer manager's map,
`run` the requests and expirations in progress, `chain` and `busy` the panel's operations.
`Receive` is `handleSemanticWebhook` up to the panel: guards, the cancel of an Inactive, and
the submission through dispatcher and planner to the first binding. `Resume` takes a run to
its next zone or to its end, where an accepted Active schedules its timer with the values it
read before the wait. The panel is enabled and its zones are valid; requests that fail
authentication or whose configuration is invalid change nothing and are left out.
`autoRestoreSeconds` is one constant. The mode a webhook had when its Active began is kept in
the run (`arms`).

### IngressEvents, TargetPolicy and EventRouting

`IngressEvents` has no state: how a websocket message (`NormalizeApi`), a camera webhook
(`HandleWebhook`) or an Access entry becomes a normalized event, which camera it belongs to
(`Resolve`), what its lifecycle lets through (`Intent`), which routes match (`Matches`) and
which matches the planner refuses (`Rejection`). Event types keep the words the code looks
for in them; a device identifier is a name and whether it is spelled as the camera's record
has it. `TargetPolicy` is the policy: `Decide` serves floodlights and groups, whose two
functions differ only in the tables they name, and `InsertLog` trims the log.

In `EventRouting`, `routes`, `hookOn`, `row` and `log` are the tables, `run` the events in
progress and `clock` the time of day. `Receive` is everything from the arrival to the first
target: the routes are evaluated once, and the run then visits the matches in the order of
their ids. At a floodlight or group it decides (`DecideTarget`), logs (`LogDecision`) and
waits for Shelly; at a condition (`SubmitCondition`) it waits for the panel; a webhook ends
with a row of its own (`LogOwn`). `Running` says that no other callback is taken up before a
wait; `ReceiveTogether` is the exception, two websocket messages of one chunk, whose runs
alternate freely. What an activation does to the relays is left to `FloodlightTimers`, what
becomes of a condition's zones to `SemanticWebhooks`; a target may need no wait at all.
`PostRoute`, `PatchRoute` and `DeleteRoute` validate the row as it will be stored. History:
`wish` is what the last event asks of a condition, `behind` whether an earlier one was still
waiting when it came, `sinceOn`, `sinceHint` and `lost` what a cooldown goes back to. Ages
are counted to `MaxAge`, which no debounce and no cooldown exceeds. `Ascending` gives the
order in which routes and zones are visited: the list of a finite set in ascending order.

### AccessIngest

`cursor` is the row of `access_ingest_state`, `poll` the one poll in flight, with the time of
its request. `armed` is `pollTimer`, `stray` counts timers that still fire after their handle
was overwritten, `loops` the calls of `runBackgroundPoll` that wait for the poll and will each
schedule another. `Answer` is the whole of `performPoll` after the response: nothing in it
waits, because Access events reach no executor. `PublishFails` ends it at any entry. The
console answers with its newest entries; an entry may be logged late, and one without a
readable date gets the time of the poll. Not modelled: an entry without an id of its own,
whose fingerprint then contains that time.

### ProtectIngest, CloudSync and Connectors

`sockets` counts the websockets by state, `handle` and `timers` keep `reconnectTimeout` and
the timers that will really fire apart, so that a wrong handle shows. `conf` is what the
ingest read when it started; later changes of `settings` reach it only at the next start. A
PATCH may set several fields at once and clear the key (`PatchSettings`, to any of `NewSettings`).
`Closed` is the error and close of one socket. `AnswerSync` applies an answer to
`protect_sources` up to a row that fails, so it takes a list of any length. In `CloudSync`,
`due` is the one timer and `calls` the requests in flight. `Connectors` adds `phase`: `Ready`
is the `onReady` hook, in the order of the code, `Close` the `onClose` hook after a failed
start. A websocket that is still connecting when it is closed reports an error after its
listeners were removed, and the process ends (`CloseCrashes`). Everything in memory is gone
with the process (`ProtectLost`, `CloudLost`), and the supervisor starts it again.

## 4. The runs

| Run | Checks | Bounds |
|---|---|---|
| `timers_safety` | `TypeOK`, `LitIsCovered`, `KnownOutputAgrees`, `FullDurationUnlessRaced` | one floodlight and its group, two executions, two overlapping polls, one dashboard command, one edit or restart |
| `timers_autooff` | `LitIsCovered`, `FullDurationUnlessRaced`, `AutoOffHappens` (with fairness) | a group of up to two floodlights with a duration of 0, one of the two also a target with a duration of 2 ticks, one execution, one poll, no edit |
| `retrigger_cut` | `FullDuration` is violated | two floodlights in a group, one execution and one poll that overlap |
| `retrigger_lost` | `RefreshSurvives` is violated | one execution and one poll that overlap |
| `panel` | `TypeOK`, `ClientAgrees`, `OneClient`, `MirrorsZones` (with fairness) | two zones, one seeded, three connections, three requests |
| `panel_replacement_killed` | `OnlyOwnFailure` is violated | the same |
| `semantic` | `TypeOK`, `LastRequestWins`, `RestoreIsComing`, `AutoRestores` (with fairness), `FullDurationUnlessBusy` | two webhooks, three bound zones and a free one, two concurrent runs, one edit or restart |
| `restored_early` | `FullDuration` is violated | two runs, no edit |
| `timer_left_behind` | `NoTimerLeft` is violated | two runs, one edit |
| `routing` | `TypeOK`, `LastEventWins`, `OneController`, `EveryRouteCanFire`, `CooldownHolds`, `CooldownHasCause`, `OnlyInWindow` | one camera, one light with a night window and a cooldown, two conditions, six payloads, two events at once, four routes, two operator requests, a log of two rows |
| `access` | `TypeOK`, `NoEntryLost`, `ChainsExplained`, `RepeatsExplained`, `StopTakesHold`, `EventuallyPublished` (with fairness) | three entries, one without date, pages of two, three moments, three requests or restarts, one failed poll |
| `connectors` | `TypeOK`, `LinkAlive`, `CloudAlive`, `QuietAfterClose`, `SourceKeepsIdentity`, `LinksRecover`, `HubReturns` (with fairness) | two cameras, two syncs, one edit of the settings, one lost connection or outage of the console, one outage of the cloud, two device ids, one failed start or kill |

The bounds suffice for the hazards because each needs two actors at most: an execution and an
expiry, two expiries, a command and either, a connection and its replacement (three
connections let a replacement be replaced), two requests for one condition and an edit. A
run of an event overtakes another with two in progress and a light before a condition; a log
of two rows trims one that a cooldown of a tick needs; a window from the last moment of a day
of three to the first passes midnight. Pages of two with three entries push one off the page
and cut ties; three requests let a stop and a start meet a poll in flight. Two syncs overlap,
and one failed start is enough for a restart with a socket still connecting. A
duration of one tick distinguishes running, expired and refreshed timers; in
`timers_autooff` one of two ticks stands beside a group without a duration, for which the
code still writes a timer, due at once. Edits and restarts are left to `timers_safety`. The theorems
of section 5 remove the bounds for the safety part. `CHECK_DEADLOCK FALSE` is used throughout: an
idle hub whose events and edits are used up has nothing left to do.

What the violations show:

- `retrigger_cut`: the expired row is read, and its floodlights are switched off one by one,
  whatever an activation does meanwhile. A retrigger that has just lit a floodlight again is
  followed at once by the off command of the timer it was about to refresh.
- `retrigger_lost`: README line 136 says that group retriggers refresh the full duration.
  `processExpired` waits for Shelly calls between reading a row and deactivating it by id. A
  retrigger in that time refreshes a row that is then deactivated, and the floodlights it
  switched on have no timer.
- `panel_replacement_killed`: `markUnhealthy` destroys the client of the moment. When the
  failed write belonged to a client already replaced, the healthy one is closed. The zones
  are not lost, as `ClientAgrees` and `MirrorsZones` show.
- `restored_early`: an Active resets the timer only after its wait for the panel, so the old
  timer may fire meanwhile. `FullDurationUnlessBusy` shows that this is the only way.
- `timer_left_behind`: an Active that waits across a disable, delete or mode change schedules
  a timer afterwards. Its expiry is rejected by the revalidation unless the webhook was
  enabled again.

What the passing runs name as exceptions is what the code does not handle: an overtaken
restore, activations of one websocket chunk, an accepted row trimmed too early, a cooldown
started by a webhook that activated nothing, routes of the class `loiter` that never fire
(`LastEventWins`, `CooldownHolds`, `CooldownHasCause`, `EveryRouteCanFire`); an entry that is
logged after a later one was read or falls off the first page, the repetition of an entry
that shares its time with the one under the cursor, and chains of polls that a stop and a
start double (`NoEntryLost`, `RepeatsExplained`, `ChainsExplained`); a cloud that has
forgotten the hub and an API key that no header can carry (`LinksRecover`, `HubReturns`).

Two lines of the repository's README are older than its code. Line 168 says that the
evaluator does not execute routes; `app.ts` registers the lifecycle gate and the planner
behind it. Line 143 calls the Protect events diagnostics only; they reach the same evaluator.

### Fairness

`FloodlightTimers`: runs go on, every Shelly call ends (`AbortSignal.timeout`), the interval
keeps firing, time passes. Activations, edits, restarts and the device's obedience have none.
`VirtualSecurityPanel`: the chain goes on and a write ends. The code sets no timeout on
writes, so the latter assumes that the client reads or that the system gives the connection
up (keep-alive). `SemanticWebhooks`: the panel's chain moves on, by the above, and timers
fire. Requests and edits have none. `EventRouting` states no liveness. `AccessIngest`: timers
fire and a poll in flight returns, as `fetch` gives up by itself; polls may fail as often as
the bound allows, and requests, restarts and new entries have no fairness. `Connectors`: the
process is started again whenever it ended (`Restart=always` in the systemd unit of README
line 118), timers fire, a connection attempt ends, and a request to the cloud ends. The
network, the console and the cloud may change at any time.

## 5. The proofs

Each theorem holds for every value of the constants that the named assumptions of its module
allow; TLC evaluates the assumptions on every run. They say that constants are disjoint,
finite or within the range of the code's own types, and, for `EventRouting`, that the routes
and webhooks at first are ones the API stores. Every `TypeCorrect` is `Spec => []TypeOK`. Each
invariant below was checked by TLC before it was proved. One lemma per invariant goes through
the actions; where a run, a request and a timer meet, one per action.

| Module | Theorems | Inductive invariant |
|---|---|---|
| `FloodlightTimers_proofs` | `TypeCorrect`, `Inductive`, `LitCovered`, `DurationKept`, `OutputKnown` | `IInv`, `KnownInv` |
| `VirtualSecurityPanel_proofs` | `TypeCorrect`, `SingleClient`, `ClientInformed`, `PanelMirrors` | `OneClient` itself, `AgreeInv` |
| `SemanticWebhooks_proofs` | `TypeCorrect`, `LastRequest`, `RestoreComing`, `RestoredInFull` | `RunInv` |
| `EventRouting_proofs` | `TypeCorrect`, `Controller`, `StoredRoutesFire`, `CooldownKept`, `RefusalHasCause`, `WithinSchedule`, `LastEventObeyed` | `ControlInv`, `RouteInv`, `RunInv`, `LogInv`, `VerdictInv`, `WishInv` |
| `AccessIngest_proofs` | `TypeCorrect`, `ChainsCounted`, `NothingLost`, `RepeatsHaveCause` | `ChainInv`, `LogInv` |
| `Connectors_proofs` | `TypeCorrect`, `LoopAlive`, `TaskAlive`, `ClosedIsQuiet`, `IdentityKept` | `LinkInv`, `CloudInv`, `SourceInv`, `RestInv` |

`Ascending_proofs` has the lemmas the others share: a non-empty set of naturals has a least
member, a finite one a greatest, there is exactly one list of a finite set in ascending order,
and what `InOrder` returns.

### FloodlightTimers

`LitIsCovered` is not inductive: a deactivation removes a row, and whether a lit floodlight
still has another cover depends on what the expiring run did to it. `IInv` adds that row ids
are used once and refer to the target a run holds them for, that commands are on the wire
only for runs that wait, and that, for a target whose row is being expired, each floodlight
lit for it is still to be handled by that run, has an off command on its way, has another row
or execution that lasts long enough, or is excused (`LitInv`). Two parts are about time. No
floodlight is promised more than its target's duration (`Promised`), so a refresh always covers
the promise. And where a poll holds a row of the target that lit a floodlight, nothing is left
of the promise, unless the floodlight is `hurried` or excused (`DueWhenHeld`): when the poll
read the row, no execution and no refreshed row was there, so the expired row was the one that
covered the floodlight. `DurationKept` (`FullDurationUnlessRaced`) follows, because only a poll
that holds the row switches off. It assumes nothing about how runs overlap. `KnownInv` is
`KnownOutputAgrees` with commands still out: a floodlight that is not `blurred` has one at
most, and once it is applied the relay is as it says, which is what the answer writes to the
database.

### VirtualSecurityPanel

`ClientAgrees` speaks of an idle chain. `AgreeInv` says it at every moment and zone by zone:
the client was told the zone's state, or a resynchronization is queued or still has the zone
ahead of it, or the write in progress tells it, or a failed write is about to end the
connection (`Covered`). `PanelMirrors` is `Spec => Mirror!Spec`: initial states map to initial
states, and each action to a step of `ZoneMirror` or to a stutter. `Requests`, a recursive
function of the queue, is unfolded by a least place where it would fail. The run checks
`Mirror!FairSpec`, whose fairness is not proved.

### SemanticWebhooks

`RunInv` has four parts. `Lined`: a run in progress is on the panel's chain once or is being
written. `BoundOnce`: a zone has one binding. `Ordered`: the runs of a webhook that was not
edited pass through its zones in ascending order, the run of the last request comes after the
rest, and a zone no run has still to set has the state last asked for; this gives
`LastRequestWins`, and with `Timed` `RestoreIsComing`. `Timed`: an accepted Active that nothing
followed has a timer, whose remaining time and the age of the request make up the full
duration at least.

### EventRouting

`ControlInv` says without counting that two enabled routes of a condition are one and that no
enabled webhook is beside it: a saved route is checked against both tables, and a webhook when
it is enabled. `RouteInv` says that a stored route passes `validateRouteDraft`, whatever was
patched in which order; a matching event is constructed from its class, type and objects.
`LogInv` relates the newest accepted row of a target to the ticks since its last activation or
webhook, unless the log was trimmed; `VerdictInv` says that a verdict, taken before the row is written, still rests
on the log, the clock and the settings it was taken from, because nothing but a run of the
same callback comes between. `WishInv` is about every run that has a condition ahead of it: it
wants what the last event for the condition asks, unless that event overtook another.

### AccessIngest

`ChainInv` adds to `ChainsExplained` that no timer is armed unless polling is said to run:
without that, a stop could leave a timer that a later start takes for none. `LogInv` adds to
`NoEntryLost` that nothing is dated in the future of the poll that reads it (`Past`), that the
cursor names a published entry (`CursorTold`) and that nothing dated was published beyond it
but by a poll that failed (`ToldRead`).

### Connectors

`LinkInv` adds to `LinkAlive` that an ingest of a process that is down is not started;
`CloudInv` adds to `CloudAlive` that a service is stopped exactly while the app is closing, so
that the answer of a request in flight schedules nothing. `SourceInv` says that the ids of
cameras are distinct and are the first numbers, so that an insert, also one of a sync that
overlapped another, gives an id that no camera has. `RestInv` has the ranges the others leave
out.

### Only model-checked

All liveness properties: `AutoOffHappens`, `AutoRestores`, `StopTakesHold`,
`EventuallyPublished`, `LinksRecover`, `HubReturns`, and the fairness part of `MirrorsZones`.
Fairness and `ENABLED` are outside of what the prover handles. Induction over data is, too;
where a proof needed one (lists, queues, greatest members) it takes the least
counterexample of a set of naturals instead.

## 6. Not modelled

`PROJECT.json` gives each component's status and reason. The frontend, the diagnostics
routes, database setup, secrets and the test fixtures keep no state that interacts with the
rest, or are infrastructure. The ELK frame is a total function of a zone and a state, and the
modules take the pair for it. Left out of modelled parts: the Access inventory syncs of users
and doors, which nothing else reads; the delays of reconnects, polls and cloud tasks; a
connection that hangs without an error; names, notes and secrets beyond whether they match;
requests that are refused and change nothing; the command log and the execution diagnostics,
which are only shown. Passwords that cannot be decrypted are no case of their own:
`decryptString` returns nothing for them.
