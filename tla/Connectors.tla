------------------------------ MODULE Connectors ------------------------------
(***************************************************************************)
(* The hub's life around its connectors: server.ts starts the app, whose   *)
(* onReady hook starts the panel, the cloud and the Protect ingest (after  *)
(* the timer service and the Access ingest, which other modules follow),   *)
(* and then listens for requests. If any of it fails the app is closed and *)
(* the process exits; a supervisor starts it again.                        *)
(*                                                                         *)
(* The onReady hook runs in one turn once the panel listens. Closing runs  *)
(* the onClose hook, which stops the connectors, and then waits for the    *)
(* panel; callbacks of requests in flight may still come.                  *)
(***************************************************************************)
EXTENDS ProtectIngest, CloudSync

CONSTANT MaxTroubles    \* bound on failed starts and kills

ASSUME TroubleAssumption == MaxTroubles \in Nat

VARIABLES
    phase,      \* how far start() of server.ts is
    troubles    \* failed starts and kills so far

vars == <<protectVars, cloudVars, phase, troubles>>

Phase == {"down", "ready", "up", "failed", "closing"}

TypeOK ==
    /\ ProtectTypeOK
    /\ CloudTypeOK
    /\ phase \in Phase
    /\ troubles \in 0..MaxTroubles

Trouble == troubles < MaxTroubles /\ troubles' = troubles + 1

ProtectRest == UNCHANGED <<settings, reachable, sources, syncing, edits, syncs, drops>>
CloudRest   == UNCHANGED <<cloudConf, cloudUp, cloudId, outages>>

-----------------------------------------------------------------------------
\* onReady: the panel cannot listen, and nothing else is started.
PanelFails ==
    /\ phase = "down"
    /\ Trouble
    /\ phase' = "failed"
    /\ UNCHANGED <<protectVars, cloudVars>>

\* onReady: the connectors are started, the Protect ingest last.
Ready ==
    /\ phase = "down"
    /\ CloudStart /\ CloudRest
    /\ ProtectStart /\ ProtectRest
    /\ phase' = IF Throws(settings) THEN "failed" ELSE "ready"
    /\ UNCHANGED troubles

\* app.listen
Listen ==
    /\ phase = "ready"
    /\ phase' = "up"
    /\ UNCHANGED <<protectVars, cloudVars, troubles>>

\* The port is taken, or the test fixture cannot be started.
ListenFails ==
    /\ phase = "ready"
    /\ Trouble
    /\ phase' = "failed"
    /\ UNCHANGED <<protectVars, cloudVars>>

\* app.close after a failure: onClose stops the connectors.
Close ==
    /\ phase = "failed"
    /\ sockets.connecting = 0
    /\ CloudStop /\ CloudRest
    /\ ProtectStop /\ ProtectRest
    /\ phase' = "closing"
    /\ UNCHANGED troubles

\* The same while the websocket connects: closing it reports an error, which
\* has no listener any more and ends the process.
CloseCrashes ==
    /\ phase = "failed"
    /\ sockets.connecting > 0
    /\ ProtectLost /\ CloudLost
    /\ phase' = "down"
    /\ UNCHANGED troubles

\* The app is closed, and the process exits.
Exit ==
    /\ phase = "closing"
    /\ ProtectLost /\ CloudLost
    /\ phase' = "down"
    /\ UNCHANGED troubles

\* The process is killed; no hook runs.
Kill ==
    /\ phase \in {"ready", "up"}
    /\ Trouble
    /\ ProtectLost /\ CloudLost
    /\ phase' = "down"

-----------------------------------------------------------------------------
Init == ProtectInit /\ CloudInit /\ phase = "down" /\ troubles = 0

Life ==
    \/ PanelFails
    \/ Ready
    \/ Listen
    \/ ListenFails
    \/ Close
    \/ CloseCrashes
    \/ Exit
    \/ Kill

ByProtect == UNCHANGED <<cloudVars, phase, troubles>>
ByCloud   == UNCHANGED <<protectVars, phase, troubles>>

AttemptEnds  == phase # "down" /\ (Opened \/ Refused) /\ ByProtect
RetryFires   == phase # "down" /\ Reconnect /\ ByProtect
TaskGoesOn   == phase # "down" /\ CloudCallback /\ ByCloud
ConsoleSends == phase # "down" /\ ConsoleCallback /\ ByProtect
Request      == phase = "up" /\ ProtectRequest /\ ByProtect
NetworkMoves == (Reach /\ ByProtect) \/ (CloudChanges /\ ByCloud)

Next ==
    \/ Life
    \/ AttemptEnds
    \/ RetryFires
    \/ TaskGoesOn
    \/ ConsoleSends
    \/ Request
    \/ NetworkMoves

\* The process is started and stopped to the end, timers fire, a connection
\* attempt ends, and the cloud answers or does not.
Fairness ==
    /\ WF_vars(Ready) /\ WF_vars(Listen) /\ WF_vars(Close \/ CloseCrashes) /\ WF_vars(Exit)
    /\ WF_vars(AttemptEnds) /\ WF_vars(RetryFires) /\ WF_vars(TaskGoesOn)

Spec == Init /\ [][Next]_vars /\ Fairness

-----------------------------------------------------------------------------
One(b) == IF b THEN 1 ELSE 0

\* Safety: an ingest that was started with usable settings and not stopped has
\* exactly one websocket or one reconnect timer, however connections end: the
\* loop neither dies nor doubles; and the status it shows is the socket's.
LinkAlive ==
    /\ sockets.connecting + sockets.open + timers = One(Usable(conf) /\ ~stopped)
    /\ connected = (sockets.open > 0)
    /\ handle = (timers > 0)

\* Safety: a started cloud service has exactly one task, due or in progress,
\* whatever fails, and a heartbeat only with an id from a bootstrap.
CloudAlive ==
    LET tasks == One(due # "none") + calls.bootstrap + calls.heartbeat
    IN  /\ tasks <= 1
        /\ phase \in {"ready", "up"} /\ cloudConf = "on" => tasks = 1
        /\ due = "heartbeat" \/ calls.heartbeat > 0 => deviceId # NoId

\* Safety: once a failed start is being closed nothing is scheduled any more,
\* not even by a request to the cloud that was in flight.
QuietAfterClose ==
    phase = "closing" => due = "none" /\ timers = 0 /\ sockets = NoSocket /\ ~connected

\* Action property: a camera once known keeps the id that event routes refer
\* to, through every sync, its failures and restarts; no sync makes it unseen or
\* older, and no two cameras get the same id.
SourceKeepsIdentity ==
    [][/\ \A c \in Camera : sources[c] # NoRow =>
             /\ sources'[c] # NoRow
             /\ sources'[c].id = sources[c].id
             /\ sources'[c].at >= sources[c].at
             /\ sources[c].seen => sources'[c].seen
       /\ \A c, d \in Camera : c # d /\ NoRow \notin {sources'[c], sources'[d]} =>
             sources'[c].id # sources'[d].id]_vars

\* Liveness: while the hub stays up, it is connected in the end to a console
\* that stays in reach, and reports to a cloud that stays up; the exception is
\* a cloud that has forgotten the device, after which every heartbeat fails
\* (runHeartbeat never goes back to bootstrap on a failure).
LinksRecover ==
    /\ <>[](phase = "up" /\ reachable) => <>[](Usable(conf) => connected)
    /\ <>[](phase = "up" /\ cloudUp /\ deviceId \in {NoId, cloudId})
          => <>[](cloudConf = "on" => status.heartbeat = "success")

\* Liveness: a hub that is down comes up again, unless the persisted API key
\* cannot be sent as a header: then start() of the ingest throws, and with it
\* every start of the hub.
HubReturns == phase = "down" ~> (phase = "up" \/ settings.key = "bad")
=============================================================================
