-------------------------- MODULE Connectors_proofs --------------------------
(***************************************************************************)
(* Proofs about Connectors, for any cameras and settings and any number of *)
(* failures, edits and outages.                                            *)
(***************************************************************************)
EXTENDS Connectors, Ascending_proofs

\* Next, one disjunct per action.
LEMMA NextActions ==
    ASSUME Next
    PROVE  \/ PanelFails \/ Ready \/ Listen \/ ListenFails
           \/ Close \/ CloseCrashes \/ Exit \/ Kill
           \/ Opened /\ ByProtect
           \/ Refused /\ ByProtect
           \/ Reconnect /\ ByProtect
           \/ Dropped /\ ByProtect
           \/ \E c \in Camera : Message(c) /\ ByProtect
           \/ \E l \in Answers : AnswerSync(l) /\ ByProtect
           \/ \E s \in NewSettings : PatchSettings(s) /\ ByProtect
           \/ AskSync /\ ByProtect
           \/ Reach /\ ByProtect
           \/ \E t \in Task : RunTask(t) /\ ByCloud
           \/ BootstrapDone /\ ByCloud
           \/ BootstrapFailed /\ ByCloud
           \/ HeartbeatDone /\ ByCloud
           \/ HeartbeatFailed /\ ByCloud
           \/ CloudChanges /\ ByCloud
  BY DEF Next, Life, AttemptEnds, RetryFires, TaskGoesOn, ConsoleSends, Request, NetworkMoves,
         CloudCallback, ConsoleCallback, ProtectRequest

-----------------------------------------------------------------------------
\* The websocket and its reconnect loop

\* Attempts, connections and reconnect timers
Links == sockets.connecting + sockets.open + timers

\* At most one of them, and exactly one while the ingest is started with usable
\* settings and not stopped; an ingest that is down was not started yet.
LinkInv ==
    /\ sockets \in [connecting : Nat, open : Nat]
    /\ timers \in Nat
    /\ connected \in BOOLEAN /\ handle \in BOOLEAN /\ stopped \in BOOLEAN
    /\ Usable(conf) /\ ~stopped => Links = 1
    /\ ~(Usable(conf) /\ ~stopped) => Links = 0
    /\ connected <=> sockets.open > 0
    /\ handle <=> timers > 0
    /\ phase = "down" => conf = Off /\ ~stopped
    /\ phase = "closing" => stopped

\* Everything LinkInv is about, as a tuple
linkState == <<conf, sockets, connected, handle, timers, stopped, phase>>

LEMMA LinkUnchanged ==
    ASSUME LinkInv, UNCHANGED linkState
    PROVE  LinkInv'
  BY DEF LinkInv, linkState, Links, Usable, Complete

\* Nothing is left when the process is gone.
LEMMA LinkGone ==
    ASSUME ProtectLost, phase' = "down"
    PROVE  LinkInv'
<1>1. ~Usable(conf')
  BY DEF ProtectLost, Usable, Complete, Off
<1>2. /\ sockets' = [connecting |-> 0, open |-> 0] /\ timers' = 0
      /\ connected' = FALSE /\ handle' = FALSE /\ stopped' = FALSE /\ conf' = Off
  BY DEF ProtectLost, NoSocket
<1>3. /\ sockets' \in [connecting : Nat, open : Nat] /\ timers' \in Nat
      /\ Links' = 0 /\ ~(sockets'.open > 0) /\ ~(timers' > 0)
  BY <1>2 DEF Links
<1>4. ~connected' /\ ~handle' /\ ~stopped' /\ conf' = Off
  BY <1>2
<1>5. connected' \in BOOLEAN /\ handle' \in BOOLEAN /\ stopped' \in BOOLEAN
  BY <1>2
<1>6. ~Usable(conf)'
  BY <1>1 DEF Usable, Complete
<1>7. QED
  BY <1>3, <1>4, <1>5, <1>6 DEF LinkInv

\* When a socket is closed, it was the only one, and a timer takes its place.
LEMMA LinkClosed ==
    ASSUME LinkInv, NEW s \in {"connecting", "open"}, Closed(s), ByProtect
    PROVE  LinkInv'
<1>1. sockets[s] > 0
  BY DEF Closed
<1>2. Links >= 1
  BY <1>1 DEF LinkInv, Links
<1>3. Usable(conf) /\ ~stopped /\ Links = 1
  BY <1>2 DEF LinkInv
<1>4. timers = 0 /\ handle = FALSE /\ sockets[s] = 1
      /\ sockets.connecting + sockets.open = 1
  BY <1>1, <1>3 DEF LinkInv, Links
<1>5. conf.enabled
  BY <1>3 DEF Usable, Complete
<1>6. handle' = TRUE /\ timers' = timers + 1
  BY <1>3, <1>4, <1>5 DEF Closed, ScheduleReconnect
<1>7. /\ sockets' \in [connecting : Nat, open : Nat]
      /\ sockets'.connecting = 0 /\ sockets'.open = 0
  <2>1. sockets' = [sockets EXCEPT ![s] = sockets[s] - 1]
    BY DEF Closed
  <2>2. CASE s = "connecting"
    BY <1>4, <2>1, <2>2 DEF LinkInv
  <2>3. CASE s = "open"
    BY <1>4, <2>1, <2>3 DEF LinkInv
  <2>4. QED
    BY <2>2, <2>3
<1>8. connected' = FALSE /\ conf' = conf /\ stopped' = stopped /\ phase' = phase
  BY DEF Closed, ByProtect
<1>9. /\ Links' = 1 /\ timers' \in Nat
      /\ ~(sockets'.open > 0) /\ timers' > 0
  BY <1>4, <1>6, <1>7 DEF Links
<1>10. /\ connected' \in BOOLEAN /\ handle' \in BOOLEAN /\ stopped' \in BOOLEAN
       /\ ~connected' /\ handle'
  BY <1>6, <1>8 DEF LinkInv
<1>11. Usable(conf)' /\ ~stopped'
  BY <1>3, <1>8 DEF Usable, Complete
<1>12. (phase = "down" => conf = Off) /\ Usable(conf) /\ phase # "closing"
  BY <1>3 DEF LinkInv
<1>13. phase # "down"
  BY <1>12 DEF Usable, Complete, Off
<1>14. QED
  BY <1>7, <1>8, <1>9, <1>10, <1>11, <1>12, <1>13 DEF LinkInv

\* A step of start() that touches no socket, to another phase than closing
LEMMA LinkPhase ==
    ASSUME LinkInv, UNCHANGED protectVars, phase' \notin {"down", "closing"}
    PROVE  LinkInv'
  BY DEF LinkInv, protectVars, linkVars, Links, Usable, Complete

\* The ingest starts with the settings of now, and opens one websocket if they
\* are usable.
LEMMA LinkReady ==
    ASSUME LinkInv, Ready
    PROVE  LinkInv'
<1>1. conf = Off /\ ~stopped
  BY DEF Ready, LinkInv
<1>2. Links = 0
  BY <1>1 DEF LinkInv, Usable, Complete, Off
<1>3. sockets.connecting = 0 /\ sockets.open = 0 /\ timers = 0
  BY <1>2 DEF LinkInv, Links
<1>4. /\ conf' = settings /\ timers' = timers
      /\ sockets' = IF Usable(settings) THEN [sockets EXCEPT !.connecting = @ + 1] ELSE sockets
  BY <1>1 DEF Ready, ProtectStart, Connect
<1>5. connected' = connected /\ handle' = handle /\ stopped' = stopped
  BY DEF Ready, ProtectStart
<1>6. /\ sockets' \in [connecting : Nat, open : Nat] /\ timers' \in Nat
      /\ ~(sockets'.open > 0) /\ ~(timers' > 0)
      /\ Usable(settings) => Links' = 1
      /\ ~Usable(settings) => Links' = 0
  BY <1>3, <1>4 DEF LinkInv, Links
<1>7. Usable(conf)' <=> Usable(settings)
  BY <1>4 DEF Usable, Complete
<1>8. ~connected /\ ~handle
  BY <1>3 DEF LinkInv
<1>9. phase' \notin {"down", "closing"}
  BY DEF Ready
<1>10. QED
  BY <1>1, <1>5, <1>6, <1>7, <1>8, <1>9 DEF LinkInv

\* A stopped ingest has nothing left.
LEMMA LinkClose ==
    ASSUME LinkInv, Close
    PROVE  LinkInv' /\ sockets' = NoSocket /\ timers' = 0 /\ ~connected'
<1>1. /\ sockets.connecting = 0 /\ stopped' = TRUE /\ handle' = FALSE /\ connected' = FALSE
      /\ phase' = "closing" /\ conf' = conf
  BY DEF Close, ProtectStop
<1>2. /\ timers' = IF handle THEN timers - 1 ELSE timers
      /\ sockets' = IF sockets.open > 0 THEN [sockets EXCEPT !.open = @ - 1] ELSE sockets
  <2>1. ~(sockets.connecting > 0)
    BY <1>1
  <2>2. sockets' = CASE sockets.connecting > 0 -> [sockets EXCEPT !.connecting = @ - 1]
                     [] sockets.connecting = 0 /\ sockets.open > 0 -> [sockets EXCEPT !.open = @ - 1]
                     [] OTHER -> sockets
    BY DEF Close, ProtectStop
  <2>3. timers' = IF handle THEN timers - 1 ELSE timers
    BY DEF Close, ProtectStop
  <2>4. CASE sockets.open > 0
    BY <1>1, <2>1, <2>2, <2>3, <2>4
  <2>5. CASE ~(sockets.open > 0)
    BY <1>1, <2>1, <2>2, <2>3, <2>5
  <2>6. QED
    BY <2>4, <2>5
<1>3. Links \in 0..1
  BY DEF LinkInv
<1>4. sockets.open + timers <= 1 /\ sockets.open \in Nat /\ timers \in Nat
  BY <1>1, <1>3 DEF LinkInv, Links
<1>5. timers' = 0
  BY <1>2, <1>4 DEF LinkInv
<1>6. sockets' = [connecting |-> 0, open |-> 0]
  BY <1>1, <1>2, <1>4 DEF LinkInv
<1>7. /\ sockets' \in [connecting : Nat, open : Nat] /\ timers' \in Nat
      /\ Links' = 0 /\ ~(sockets'.open > 0) /\ ~(timers' > 0)
  BY <1>5, <1>6 DEF Links
<1>8. /\ connected' \in BOOLEAN /\ handle' \in BOOLEAN /\ stopped' \in BOOLEAN
      /\ ~connected' /\ ~handle' /\ stopped' /\ phase' = "closing"
  BY <1>1
<1>9. LinkInv'
  BY <1>7, <1>8 DEF LinkInv
<1>10. QED
  BY <1>5, <1>6, <1>8, <1>9 DEF NoSocket

\* An attempt that succeeds makes the one websocket an open one.
LEMMA LinkOpened ==
    ASSUME LinkInv, Opened, ByProtect
    PROVE  LinkInv'
<1>1. sockets.connecting > 0
  BY DEF Opened
<1>2. Links >= 1
  BY <1>1 DEF LinkInv, Links
<1>3. Usable(conf) /\ ~stopped /\ Links = 1
  BY <1>2 DEF LinkInv
<1>4. sockets.connecting = 1 /\ sockets.open = 0 /\ timers = 0
  BY <1>1, <1>3 DEF LinkInv, Links
<1>5. /\ sockets' = [connecting |-> sockets.connecting - 1, open |-> sockets.open + 1]
      /\ timers' = timers
  BY DEF Opened
<1>6. /\ sockets' \in [connecting : Nat, open : Nat] /\ timers' \in Nat
      /\ Links' = 1 /\ sockets'.open > 0 /\ ~(timers' > 0)
  BY <1>4, <1>5 DEF Links
<1>7. /\ connected' = TRUE /\ handle' = handle /\ conf' = conf /\ stopped' = stopped
      /\ phase' = phase
  BY DEF Opened, ByProtect
<1>8. ~handle
  BY <1>4 DEF LinkInv
<1>9. Usable(conf)'
  BY <1>3, <1>7 DEF Usable, Complete
<1>10. QED
  BY <1>3, <1>6, <1>7, <1>8, <1>9 DEF LinkInv

\* The timer that fires makes way for one websocket.
LEMMA LinkReconnect ==
    ASSUME LinkInv, Reconnect, ByProtect
    PROVE  LinkInv'
<1>1. timers > 0
  BY DEF Reconnect
<1>2. Links >= 1
  BY <1>1 DEF LinkInv, Links
<1>3. Usable(conf) /\ ~stopped /\ Links = 1
  BY <1>2 DEF LinkInv
<1>4. sockets.connecting = 0 /\ sockets.open = 0 /\ timers = 1
  BY <1>1, <1>3 DEF LinkInv, Links
<1>5. sockets' = [sockets EXCEPT !.connecting = @ + 1] /\ timers' = timers - 1
  BY <1>3 DEF Reconnect, Connect
<1>6. /\ sockets' \in [connecting : Nat, open : Nat] /\ timers' \in Nat
      /\ Links' = 1 /\ ~(sockets'.open > 0) /\ ~(timers' > 0)
  BY <1>4, <1>5 DEF Links, LinkInv
<1>7. /\ connected' = connected /\ handle' = FALSE /\ conf' = conf /\ stopped' = stopped
      /\ phase' = phase
  BY DEF Reconnect, ClearHandle, ByProtect
<1>8. ~connected
  BY <1>4 DEF LinkInv
<1>9. Usable(conf)'
  BY <1>3, <1>7 DEF Usable, Complete
<1>10. QED
  BY <1>3, <1>6, <1>7, <1>8, <1>9 DEF LinkInv

\* LinkInv is preserved by every step.
LEMMA LinkStep ==
    ASSUME LinkInv, [Next]_vars
    PROVE  LinkInv'
<1>1. CASE PanelFails \/ Listen \/ ListenFails
  BY <1>1, LinkPhase DEF PanelFails, Listen, ListenFails
<1>2. CASE Ready
  BY <1>2, LinkReady
<1>3. CASE Close
  BY <1>3, LinkClose
<1>4. CASE CloseCrashes \/ Exit \/ Kill
  BY <1>4, LinkGone DEF CloseCrashes, Exit, Kill
<1>5. CASE Opened /\ ByProtect
  BY <1>5, LinkOpened
<1>6. CASE Refused /\ ByProtect
  BY <1>6, LinkClosed DEF Refused
<1>7. CASE Reconnect /\ ByProtect
  BY <1>7, LinkReconnect
<1>8. CASE Dropped /\ ByProtect
  BY <1>8, LinkClosed DEF Dropped
<1>9. ASSUME NEW c \in Camera, Message(c), ByProtect PROVE LinkInv'
  BY <1>9, LinkUnchanged DEF Message, ByProtect, linkVars, linkState
<1>10. ASSUME NEW l \in Answers, AnswerSync(l), ByProtect PROVE LinkInv'
  BY <1>10, LinkUnchanged, Zenon DEF AnswerSync, ByProtect, linkVars, linkState
<1>11. ASSUME NEW s \in NewSettings, PatchSettings(s), ByProtect PROVE LinkInv'
  BY <1>11, LinkUnchanged DEF PatchSettings, ByProtect, linkVars, linkState
<1>12. CASE AskSync /\ ByProtect
  BY <1>12, LinkUnchanged DEF AskSync, ByProtect, linkVars, linkState
<1>13. CASE Reach /\ ByProtect
  BY <1>13, LinkUnchanged DEF Reach, ByProtect, linkVars, linkState
<1>14. CASE ByCloud
  BY <1>14, LinkUnchanged DEF ByCloud, protectVars, linkVars, linkState
<1>15. CASE UNCHANGED vars
  BY <1>15, LinkUnchanged DEF vars, protectVars, linkVars, linkState
<1>16. QED
  BY <1>1, <1>2, <1>3, <1>4, <1>5, <1>6, <1>7, <1>8, <1>9, <1>10, <1>11, <1>12, <1>13,
     <1>14, <1>15, NextActions

\* LinkInv holds in every reachable state.
THEOREM LinksCounted == Spec => []LinkInv
<1>1. Init => LinkInv
  <2> SUFFICES ASSUME Init PROVE LinkInv
    OBVIOUS
  <2>1. /\ conf = Off /\ sockets = [connecting |-> 0, open |-> 0] /\ timers = 0
        /\ phase = "down"
    BY DEF Init, ProtectInit, NoSocket
  <2>2. connected = FALSE /\ handle = FALSE /\ stopped = FALSE
    BY DEF Init, ProtectInit
  <2>3. Links = 0 /\ ~Usable(conf)
    BY <2>1 DEF Links, Usable, Complete, Off
  <2>4. ~(sockets.open > 0) /\ ~(timers > 0)
    BY <2>1
  <2>5. sockets \in [connecting : Nat, open : Nat] /\ timers \in Nat
    BY <2>1
  <2>6. QED
    BY <2>1, <2>2, <2>3, <2>4, <2>5 DEF LinkInv
<1>2. LinkInv /\ [Next]_vars => LinkInv'
  BY LinkStep
<1>3. QED
  BY <1>1, <1>2, PTL DEF Spec

\* An ingest that was started with usable settings and not stopped has exactly
\* one websocket or one reconnect timer, however connections end, and its status
\* and its handle are those of the socket and the timer there are.
THEOREM LoopAlive == Spec => []LinkAlive
<1>1. LinkInv => LinkAlive
  <2> SUFFICES ASSUME LinkInv PROVE LinkAlive
    OBVIOUS
  <2>1. sockets.connecting + sockets.open + timers = One(Usable(conf) /\ ~stopped)
    BY DEF LinkInv, Links, One
  <2>2. (connected <=> sockets.open > 0) /\ (handle <=> timers > 0)
        /\ connected \in BOOLEAN /\ handle \in BOOLEAN
    BY DEF LinkInv
  <2>3. connected = (sockets.open > 0) /\ handle = (timers > 0)
    BY <2>2
  <2>4. QED
    BY <2>1, <2>3 DEF LinkAlive
<1>2. QED
  BY <1>1, LinksCounted, PTL

-----------------------------------------------------------------------------
\* The cloud's task

\* Tasks that are due or in progress
Tasks == One(due # "none") + calls["bootstrap"] + calls["heartbeat"]

\* At most one task, exactly one while the hub is up and provisioned, none due
\* once the service is stopped, and no heartbeat without an id.
CloudInv ==
    /\ due \in Task \cup {"none"}
    /\ calls \in [Task -> Nat]
    /\ cloudId \in 1..MaxIds
    /\ Tasks <= 1
    /\ phase \in {"ready", "up"} /\ cloudConf = "on" => Tasks = 1
    /\ due = "heartbeat" \/ calls["heartbeat"] > 0 => deviceId # NoId
    /\ phase = "down" => Tasks = 0
    /\ cloudStopped <=> phase = "closing"
    /\ cloudStopped \in BOOLEAN
    /\ phase = "closing" => due = "none"

LEMMA CloudUnchanged ==
    ASSUME CloudInv, UNCHANGED <<cloudVars, phase>>
    PROVE  CloudInv'
  BY DEF CloudInv, cloudVars, taskVars, Tasks, One

\* Nothing is left when the process is gone.
LEMMA CloudGone ==
    ASSUME CloudInv, CloudLost, phase' = "down"
    PROVE  CloudInv'
<1>1. /\ due' = "none" /\ calls' = [t \in Task |-> 0] /\ cloudStopped' = FALSE
      /\ cloudId' = cloudId
  BY DEF CloudLost
<1>2. Tasks' = 0 /\ calls' \in [Task -> Nat] /\ ~(calls'["heartbeat"] > 0)
  BY <1>1 DEF Tasks, Task, One
<1>3. Tasks' <= 1 /\ due' # "heartbeat" /\ due' \in Task \cup {"none"}
  BY <1>1, <1>2
<1>4. (cloudStopped' <=> phase' = "closing") /\ cloudStopped' \in BOOLEAN
  BY <1>1
<1>5. ~(phase' \in {"ready", "up"}) /\ phase' # "closing" /\ cloudId' \in 1..MaxIds
  BY <1>1 DEF CloudInv
<1>6. QED
  BY <1>2, <1>3, <1>4, <1>5 DEF CloudInv

\* A step of start() before or after the connectors are started
LEMMA CloudPhase ==
    ASSUME CloudInv, UNCHANGED cloudVars,
           \/ phase' = "failed" /\ phase # "closing"
           \/ phase = "ready" /\ phase' = "up"
    PROVE  CloudInv'
  BY DEF CloudInv, cloudVars, taskVars, Tasks, One

\* The service starts with a bootstrap, if the hub is provisioned.
LEMMA CloudReady ==
    ASSUME CloudInv, Ready
    PROVE  CloudInv'
<1>1. /\ due' = IF cloudConf = "on" THEN "bootstrap" ELSE due
      /\ calls' = calls /\ cloudStopped' = cloudStopped /\ deviceId' = deviceId
      /\ cloudConf' = cloudConf /\ cloudId' = cloudId
      /\ phase = "down" /\ phase' \in {"ready", "failed"}
  BY DEF Ready, CloudStart, CloudRest
<1>2. due = "none" /\ calls["bootstrap"] = 0 /\ calls["heartbeat"] = 0
  BY <1>1 DEF CloudInv, Tasks, Task, One
<1>3. Tasks' <= 1 /\ (cloudConf = "on" => Tasks' = 1) /\ due' \in {"none", "bootstrap"}
  BY <1>1, <1>2 DEF Tasks, One
<1>4. ~(calls'["heartbeat"] > 0)
  BY <1>1, <1>2
<1>5. QED
  BY <1>1, <1>3, <1>4 DEF CloudInv, Task

\* A stopped service has no task that is due.
LEMMA CloudClose ==
    ASSUME CloudInv, Close
    PROVE  CloudInv'
<1>1. /\ due' = "none" /\ calls' = calls /\ cloudStopped' = TRUE /\ deviceId' = deviceId
      /\ cloudId' = cloudId /\ phase' = "closing"
  BY DEF Close, CloudStop, CloudRest
<1>2. Tasks' <= 1
  BY <1>1 DEF CloudInv, Tasks, Task, One
<1>3. QED
  BY <1>1, <1>2 DEF CloudInv

\* A task that fires is in progress afterwards.
LEMMA CloudRuns ==
    ASSUME CloudInv, NEW t \in Task, RunTask(t), ByCloud
    PROVE  CloudInv'
<1>1. /\ due = t /\ due' = "none" /\ calls' = [calls EXCEPT ![t] = @ + 1]
      /\ UNCHANGED <<cloudConf, cloudStopped, deviceId, cloudId, phase>>
  BY DEF RunTask, ByCloud
<1>2. calls' \in [Task -> Nat] /\ Tasks' = Tasks
  <2>1. CASE t = "bootstrap"
    BY <1>1, <2>1 DEF CloudInv, Tasks, Task, One
  <2>2. CASE t = "heartbeat"
    BY <1>1, <2>2 DEF CloudInv, Tasks, Task, One
  <2>3. QED
    BY <2>1, <2>2 DEF Task
<1>3. calls'["heartbeat"] > 0 => deviceId # NoId
  BY <1>1 DEF CloudInv, Task
<1>4. QED
  BY <1>1, <1>2, <1>3 DEF CloudInv

\* When the request of one task ends, the next task takes its place, unless the
\* service was stopped.
LEMMA CloudEnds ==
    ASSUME CloudInv, NEW t \in Task, NEW r, TaskEnds(t, r), ByCloud,
           NEW u \in Task, ScheduleTask(u),
           u = "heartbeat" => deviceId' # NoId
    PROVE  CloudInv'
<1>1. /\ calls[t] > 0 /\ calls' = [calls EXCEPT ![t] = @ - 1]
      /\ UNCHANGED <<cloudConf, cloudStopped, cloudId, phase>>
      /\ due' = IF cloudStopped THEN due ELSE u
  BY DEF TaskEnds, ByCloud, ScheduleTask
<1>2. due = "none" /\ Tasks = 1
  BY <1>1 DEF CloudInv, Tasks, Task, One
<1>3. calls' \in [Task -> Nat] /\ calls'["bootstrap"] = 0 /\ calls'["heartbeat"] = 0
  <2>1. CASE t = "bootstrap"
    BY <1>1, <1>2, <2>1 DEF CloudInv, Tasks, Task, One
  <2>2. CASE t = "heartbeat"
    BY <1>1, <1>2, <2>2 DEF CloudInv, Tasks, Task, One
  <2>3. QED
    BY <2>1, <2>2 DEF Task
<1>4. CASE cloudStopped
  <2>1. due' = "none" /\ Tasks' = 0
    BY <1>1, <1>2, <1>3, <1>4 DEF Tasks, One
  <2>2. QED
    BY <1>1, <1>3, <1>4, <2>1 DEF CloudInv
<1>5. CASE ~cloudStopped
  <2>1. due' = u /\ Tasks' = 1
    BY <1>1, <1>3, <1>5 DEF Tasks, Task, One
  <2>2. phase # "down" /\ phase # "closing"
    BY <1>2, <1>5 DEF CloudInv
  <2>3. QED
    BY <1>1, <1>3, <1>5, <2>1, <2>2 DEF CloudInv
<1>6. QED
  BY <1>4, <1>5

\* CloudInv is preserved by every step.
LEMMA CloudStep ==
    ASSUME CloudInv, [Next]_vars
    PROVE  CloudInv'
<1>1. CASE PanelFails \/ Listen \/ ListenFails
  BY <1>1, CloudPhase DEF PanelFails, Listen, ListenFails
<1>2. CASE Ready
  BY <1>2, CloudReady
<1>3. CASE Close
  BY <1>3, CloudClose
<1>4. CASE CloseCrashes \/ Exit \/ Kill
  BY <1>4, CloudGone DEF CloseCrashes, Exit, Kill
<1>5. CASE ByProtect
  BY <1>5, CloudUnchanged DEF ByProtect
<1>6. ASSUME NEW t \in Task, RunTask(t), ByCloud PROVE CloudInv'
  BY <1>6, CloudRuns
<1>7. CASE BootstrapDone /\ ByCloud
  <2>1. deviceId' # NoId
    BY <1>7, CloudBounds DEF BootstrapDone, CloudInv
  <2>2. QED
    BY <1>7, <2>1, CloudEnds DEF BootstrapDone, Task
<1>8. CASE BootstrapFailed /\ ByCloud
  BY <1>8, CloudEnds DEF BootstrapFailed, RetryBootstrap, Task
<1>9. CASE (HeartbeatDone \/ HeartbeatFailed) /\ ByCloud
  <2>1. calls["heartbeat"] > 0 /\ deviceId' = deviceId
    BY <1>9 DEF HeartbeatDone, HeartbeatFailed, TaskEnds
  <2>2. deviceId' # NoId
    BY <2>1 DEF CloudInv
  <2>3. QED
    BY <1>9, <2>2, CloudEnds DEF HeartbeatDone, HeartbeatFailed, Task
<1>10. CASE CloudChanges /\ ByCloud
  <2>1. UNCHANGED <<cloudConf, due, calls, cloudStopped, deviceId, phase>>
    BY <1>10 DEF CloudChanges, taskVars, ByCloud
  <2>2. cloudId' \in 1..MaxIds
    BY <1>10, CloudBounds DEF CloudChanges, CloudInv
  <2>3. QED
    BY <2>1, <2>2 DEF CloudInv, Tasks, One
<1>11. CASE UNCHANGED vars
  BY <1>11, CloudUnchanged DEF vars
<1>12. QED
  BY <1>1, <1>2, <1>3, <1>4, <1>5, <1>6, <1>7, <1>8, <1>9, <1>10, <1>11, NextActions

\* CloudInv holds in every reachable state.
THEOREM TasksCounted == Spec => []CloudInv
<1>1. Init => CloudInv
  <2> SUFFICES ASSUME Init PROVE CloudInv
    OBVIOUS
  <2>1. /\ due = "none" /\ calls = [t \in Task |-> 0] /\ cloudStopped = FALSE
        /\ cloudId = 1 /\ phase = "down"
    BY DEF Init, CloudInit
  <2>2. Tasks = 0 /\ ~(calls["heartbeat"] > 0) /\ calls \in [Task -> Nat]
    BY <2>1 DEF Tasks, Task, One
  <2>3. Tasks <= 1 /\ due # "heartbeat" /\ due \in Task \cup {"none"}
    BY <2>1, <2>2
  <2>4. (cloudStopped <=> phase = "closing") /\ cloudStopped \in BOOLEAN
    BY <2>1
  <2>5. ~(phase \in {"ready", "up"}) /\ phase # "closing" /\ cloudId \in 1..MaxIds
    BY <2>1, CloudBounds
  <2>6. QED
    BY <2>2, <2>3, <2>4, <2>5 DEF CloudInv
<1>2. CloudInv /\ [Next]_vars => CloudInv'
  BY CloudStep
<1>3. QED
  BY <1>1, <1>2, PTL DEF Spec

\* A started cloud service has exactly one task, due or in progress, whatever
\* fails, and a heartbeat only with an id from a bootstrap.
THEOREM TaskAlive == Spec => []CloudAlive
<1>1. CloudInv => CloudAlive
  BY DEF CloudInv, CloudAlive, Tasks
<1>2. QED
  BY <1>1, TasksCounted, PTL

\* Once a failed start is being closed, no task, timer or websocket is left, and
\* none comes back by the answer of a request that was in flight.
THEOREM ClosedIsQuiet == Spec => []QuietAfterClose
<1>1. LinkInv /\ CloudInv => QuietAfterClose
  <2> SUFFICES ASSUME LinkInv, CloudInv, phase = "closing"
               PROVE  due = "none" /\ timers = 0 /\ sockets = NoSocket /\ ~connected
    BY DEF QuietAfterClose
  <2>1. due = "none"
    BY DEF CloudInv
  <2>2. Links = 0
    BY DEF LinkInv
  <2>3. timers = 0 /\ sockets.connecting = 0 /\ sockets.open = 0
    BY <2>2 DEF LinkInv, Links
  <2>4. sockets = NoSocket
    BY <2>3 DEF LinkInv, NoSocket
  <2>5. ~connected
    BY <2>3 DEF LinkInv
  <2>6. QED
    BY <2>1, <2>3, <2>4, <2>5
<1>2. QED
  BY <1>1, LinksCounted, TasksCounted, PTL

-----------------------------------------------------------------------------
\* The table of cameras

\* Ids are distinct and as many as there are rows at most, and no row is newer
\* than the last answer.
SourceInv ==
    /\ sources \in [Camera -> SourceRow \cup {NoRow}]
    /\ syncs \in 0..MaxSyncs /\ syncing \in 0..syncs
    /\ \A c \in Known : /\ sources[c].id <= Cardinality(Known)
                        /\ sources[c].at <= syncs - syncing
    /\ \A c, d \in Known : c # d => sources[c].id # sources[d].id

\* What SourceInv is about, as a tuple
sourceState == <<sources, syncing, syncs>>

LEMMA SourceUnchanged ==
    ASSUME SourceInv, UNCHANGED sourceState
    PROVE  SourceInv'
<1>1. sources' = sources /\ syncing' = syncing /\ syncs' = syncs
  BY DEF sourceState
<1>2. Known' = Known
  BY <1>1 DEF Known
<1>3. QED
  BY <1>1, <1>2 DEF SourceInv

\* Sets of cameras are finite.
LEMMA CamerasFinite ==
    ASSUME NEW S \in SUBSET Camera
    PROVE  IsFiniteSet(S) /\ Cardinality(S) \in Nat /\ Cardinality(S) <= Cardinality(Camera)
  BY CameraAssumption, FS_Subset, FS_CardinalityType

\* A known camera has a row, and a row is not NoRow.
LEMMA RowsKnown ==
    ASSUME SourceInv
    PROVE  /\ \A c \in Camera : c \in Known <=> sources[c] \in SourceRow
           /\ \A r \in SourceRow : r # NoRow
           /\ Cardinality(Camera) \in Nat
<1>1. \A r \in SourceRow : r # NoRow
  BY CameraAssumption, ProtectBounds, CamerasFinite DEF SourceRow
<1>2. QED
  BY <1>1, CamerasFinite DEF SourceInv, Known

\* The id of an insertion comes after those there are, and leaves no more than
\* one for each row.
LEMMA NextIdIs ==
    ASSUME SourceInv
    PROVE  /\ NextId \in 1..(Cardinality(Known) + 1)
           /\ \A c \in Known : sources[c].id < NextId
<1> DEFINE Ids == {0} \cup {sources[c].id : c \in Known}
<1>1. Cardinality(Known) \in Nat
  BY CamerasFinite DEF Known
<1>2. \A c \in Known : sources[c].id \in Nat /\ sources[c].id <= Cardinality(Known)
  BY RowsKnown DEF SourceInv, SourceRow, Known
<1>3. Ids \in SUBSET Nat /\ Ids # {} /\ \A x \in Ids : x <= Cardinality(Known)
  BY <1>1, <1>2
<1>4. NextId = 1 + Max(Ids)
  BY DEF NextId
<1>5. \A c \in Known : sources[c].id \in Ids
  OBVIOUS
<1> HIDE DEF Ids
<1>6. Max(Ids) \in Ids /\ \A x \in Ids : x <= Max(Ids)
  BY <1>1, <1>3, MaxOf
<1>7. Max(Ids) \in Nat /\ Max(Ids) <= Cardinality(Known)
  BY <1>3, <1>6
<1>8. NextId \in 1..(Cardinality(Known) + 1)
  BY <1>1, <1>4, <1>7
<1>9. ASSUME NEW c \in Known PROVE sources[c].id < NextId
  <2>1. sources[c].id <= Max(Ids) /\ sources[c].id \in Nat
    BY <1>2, <1>5, <1>6
  <2>2. QED
    BY <1>4, <1>7, <2>1
<1>10. QED
  BY <1>8, <1>9

\* Of two new cameras of an answer, the later one is after the earlier one and
\* after all that are before that one.
LEMMA BeforeGrows ==
    ASSUME NEW l \in Answers, NEW i \in DOMAIN l, NEW j \in DOMAIN l, i < j,
           l[i] \in Camera \ Known
    PROVE  Cardinality(NewBefore(l, l[i])) < Cardinality(NewBefore(l, l[j]))
<1> DEFINE A == NewBefore(l, l[i])
           B == NewBefore(l, l[j])
<1>1. PICK n \in 0..Cardinality(Camera) : l \in [1..n -> Camera]
  BY DEF Answers
<1>2. \A p, q \in DOMAIN l : p # q => l[p] # l[q]
  BY DEF Answers
<1>3. DOMAIN l = 1..n /\ n \in Nat
  BY <1>1, CamerasFinite
<1>4. l[i] \notin A
  <2> SUFFICES ASSUME l[i] \in A PROVE FALSE
    OBVIOUS
  <2>1. PICK p, q \in DOMAIN l : p < q /\ l[p] = l[i] /\ l[q] = l[i]
    BY DEF NewBefore
  <2>2. p = q
    BY <1>2, <2>1
  <2>3. QED
    BY <1>3, <2>1, <2>2
<1>5. l[i] \in B
  BY DEF NewBefore
<1>6. A \subseteq B
  <2> SUFFICES ASSUME NEW d \in A PROVE d \in B
    OBVIOUS
  <2>1. d \in Camera \ Known
    BY DEF NewBefore
  <2>2. PICK p, q \in DOMAIN l : p < q /\ l[p] = d /\ l[q] = l[i]
    BY DEF NewBefore
  <2>3. q = i
    BY <1>2, <2>2
  <2>4. p < j
    BY <1>3, <2>2, <2>3
  <2>5. QED
    BY <2>1, <2>2, <2>4 DEF NewBefore
<1>7. A \in SUBSET Camera /\ B \in SUBSET Camera
  BY DEF NewBefore
<1> HIDE DEF A, B
<1>8. IsFiniteSet(A) /\ IsFiniteSet(B) /\ Cardinality(A) \in Nat /\ Cardinality(B) \in Nat
  BY <1>7, CamerasFinite
<1>9. Cardinality(A \cup {l[i]}) = Cardinality(A) + 1
  BY <1>4, <1>8, FS_AddElement
<1>10. A \cup {l[i]} \in SUBSET B
  BY <1>5, <1>6
<1>11. Cardinality(A \cup {l[i]}) <= Cardinality(B)
  BY <1>8, <1>10, FS_Subset
<1>12. Cardinality(A) < Cardinality(B)
  BY <1>8, <1>9, <1>11
<1>13. QED
  BY <1>12 DEF A, B

\* An answer inserts the new cameras with ids of their own, and updates no more
\* than the time of the others.
LEMMA AnswerKeeps ==
    ASSUME SourceInv, NEW l \in Answers, AnswerSync(l)
    PROVE  /\ SourceInv'
           /\ \A c \in Known : /\ c \in Known'
                               /\ sources'[c].id = sources[c].id
                               /\ sources'[c].at >= sources[c].at
                               /\ sources'[c].seen = sources[c].seen
<1> DEFINE Rank(c) == Cardinality(NewBefore(l, c))
           Row(c) == [id |-> NextId + Rank(c), at |-> ThisAnswer, seen |-> FALSE]
           New == Range(l) \ Known
<1>1. /\ sources' = [c \in Camera |-> IF c \in Range(l) THEN UpsertRow(c, Rank(c)) ELSE sources[c]]
      /\ syncing > 0 /\ syncing' = syncing - 1 /\ syncs' = syncs
  BY DEF AnswerSync
<1>2. PICK n \in 0..Cardinality(Camera) : l \in [1..n -> Camera]
  BY DEF Answers
<1>3. Range(l) \subseteq Camera /\ \A c \in Range(l) : \E i \in DOMAIN l : l[i] = c
  BY <1>2 DEF Range
<1>4. /\ syncs \in Nat /\ syncing \in Nat /\ syncing <= syncs /\ syncs <= MaxSyncs
      /\ MaxSyncs \in Nat /\ ThisAnswer \in 1..MaxSyncs
      /\ syncs' - syncing' = ThisAnswer /\ syncs - syncing < ThisAnswer
      /\ syncing' \in 0..syncs' /\ syncs' \in 0..MaxSyncs
  BY <1>1, ProtectBounds DEF SourceInv, ThisAnswer
<1>5. \A c \in Camera : Rank(c) \in Nat /\ NewBefore(l, c) \in SUBSET Camera
  BY CamerasFinite DEF NewBefore
<1>6. /\ NextId \in 1..(Cardinality(Known) + 1) /\ Known \in SUBSET Camera
      /\ Cardinality(Known) \in Nat /\ IsFiniteSet(Known)
      /\ \A c \in Known : sources[c].id < NextId
  BY NextIdIs, CamerasFinite DEF Known
<1>7. ASSUME NEW c \in New PROVE sources'[c] = Row(c)
  BY <1>1, <1>3 DEF UpsertRow
<1>8. ASSUME NEW c \in Known
      PROVE  /\ sources[c] \in SourceRow
             /\ sources'[c] \in SourceRow
             /\ sources'[c].id = sources[c].id
             /\ sources'[c].at >= sources[c].at
             /\ sources'[c].at <= ThisAnswer
             /\ sources'[c].seen = sources[c].seen
  <2>1. c \in Camera /\ sources[c] \in SourceRow /\ sources[c].at <= syncs - syncing
    BY <1>6, RowsKnown DEF SourceInv
  <2>2. CASE c \in Range(l)
    <3>1. sources'[c] = [sources[c] EXCEPT !.at = ThisAnswer]
      BY <1>1, <2>1, <2>2 DEF UpsertRow
    <3>2. QED
      BY <1>4, <2>1, <3>1 DEF SourceRow
  <2>3. CASE c \notin Range(l)
    <3>1. sources'[c] = sources[c]
      BY <1>1, <2>1, <2>3
    <3>2. QED
      BY <1>4, <2>1, <3>1 DEF SourceRow
  <2>4. QED
    BY <2>2, <2>3
<1>9. ASSUME NEW c \in Camera \ (Known \cup New) PROVE sources'[c] = NoRow
  BY <1>1, <1>9 DEF Known
<1>10. ASSUME NEW c \in New
       PROVE  /\ c \in Camera \ Known
              /\ NextId + Rank(c) \in 1..Cardinality(Known \cup New)
              /\ NextId <= NextId + Rank(c)
  <2> DEFINE Before == NewBefore(l, c)
             Up == (Known \cup Before) \cup {c}
  <2>1. c \in Camera \ Known
    BY <1>3
  <2>2. \A d \in Before : d \in Camera \ Known /\ d \in New
    BY DEF NewBefore, Range
  <2>3. Before \in SUBSET Camera /\ Known \cap Before = {} /\ Up \in SUBSET (Known \cup New)
    BY <2>1, <2>2
  <2>4. c \notin Before
    <3>1. \A p, q \in DOMAIN l : p # q => l[p] # l[q]
      BY DEF Answers
    <3>2. DOMAIN l \subseteq Int
      BY <1>2
    <3>3. ~\E i, j \in DOMAIN l : i < j /\ l[i] = c /\ l[j] = c
      BY <3>1, <3>2
    <3>4. QED
      BY <3>3 DEF NewBefore
  <2>5. Rank(c) = Cardinality(Before)
    OBVIOUS
  <2>6. Known \cup New \in SUBSET Camera
    BY <1>3, <1>6
  <2> HIDE DEF Before, New, Rank
  <2>7. IsFiniteSet(Before) /\ Cardinality(Before) \in Nat
    BY <2>3, CamerasFinite
  <2>8. IsFiniteSet(Known \cup Before)
        /\ Cardinality(Known \cup Before) = Cardinality(Known) + Cardinality(Before) - 0
    BY <1>6, <2>3, <2>7, FS_Union, FS_EmptySet
  <2>9. Cardinality(Up) = Cardinality(Known \cup Before) + 1
    BY <2>1, <2>4, <2>8, FS_AddElement
  <2>10. IsFiniteSet(Known \cup New) /\ Cardinality(Known \cup New) \in Nat
    BY <2>6, CamerasFinite
  <2>11. Cardinality(Up) <= Cardinality(Known \cup New)
    BY <2>3, <2>10, FS_Subset
  <2>12. QED
    BY <1>6, <2>1, <2>5, <2>7, <2>8, <2>9, <2>10, <2>11
<1>11. \A c \in New : sources'[c].id = NextId + Rank(c) /\ sources'[c].at = ThisAnswer
  <2> HIDE DEF New, Rank
  <2> SUFFICES ASSUME NEW c \in New
               PROVE  sources'[c].id = NextId + Rank(c) /\ sources'[c].at = ThisAnswer
    OBVIOUS
  <2>1. sources'[c] = [id |-> NextId + Rank(c), at |-> ThisAnswer, seen |-> FALSE]
    BY <1>7
  <2>2. QED
    BY <2>1
<1>12. \A c \in New : sources'[c] \in SourceRow
  <2> SUFFICES ASSUME NEW c \in New PROVE sources'[c] \in SourceRow
    OBVIOUS
  <2>1. Known \cup New \in SUBSET Camera
    BY <1>3, <1>6
  <2> HIDE DEF New, Rank
  <2>2. Cardinality(Known \cup New) \in Nat /\ Cardinality(Known \cup New) <= Cardinality(Camera)
    BY <2>1, CamerasFinite
  <2>3. NextId + Rank(c) \in 1..Cardinality(Camera)
    BY <1>10, <2>2, CamerasFinite
  <2>4. sources'[c] = [id |-> NextId + Rank(c), at |-> ThisAnswer, seen |-> FALSE]
    BY <1>7
  <2> HIDE DEF Row
  <2>5. QED
    BY <1>4, <2>3, <2>4 DEF SourceRow
<1>13. Known' = Known \cup New
  <2>1. \A r \in SourceRow : r # NoRow
    BY RowsKnown
  <2>2. Known' = {c \in Camera : sources'[c] # NoRow}
    BY DEF Known
  <2>3. \A c \in Known \cup New : c \in Camera
    BY <1>3, <1>6
  <2>4. \A c \in Known : sources'[c] # NoRow
    BY <1>8, <2>1
  <2>5. \A c \in New : sources'[c] # NoRow
    BY <1>12, <2>1
  <2>6. \A c \in Camera : c \notin Known \cup New => sources'[c] = NoRow
    BY <1>9
  <2> HIDE DEF New
  <2>7. QED
    BY <2>2, <2>3, <2>4, <2>5, <2>6
<1>14. sources' \in [Camera -> SourceRow \cup {NoRow}]
  <2>1. sources' = [c \in Camera |-> sources'[c]]
    BY <1>1
  <2>2. \A c \in Camera : sources'[c] \in SourceRow \cup {NoRow}
    BY <1>8, <1>9, <1>12
  <2>3. QED
    BY <2>1, <2>2
<1>15. ASSUME NEW c \in New, NEW d \in New, c # d PROVE Rank(c) # Rank(d)
  <2>1. PICK i, j \in DOMAIN l : l[i] = c /\ l[j] = d
    BY <1>3
  <2>2. DOMAIN l \subseteq Int
    BY <1>2
  <2>3. i < j \/ j < i
    BY <1>15, <2>1, <2>2
  <2>4. c \in Camera \ Known /\ d \in Camera \ Known
    BY <1>3
  <2>5. Rank(c) < Rank(d) \/ Rank(d) < Rank(c)
    BY <2>1, <2>3, <2>4, BeforeGrows
  <2>6. QED
    BY <1>5, <2>4, <2>5
<1> HIDE DEF New, Rank, Row
<1>16. \A c \in Known' : sources'[c].id <= Cardinality(Known)' /\ sources'[c].at <= syncs' - syncing'
  <2> SUFFICES ASSUME NEW c \in Known \cup New
               PROVE  sources'[c].id <= Cardinality(Known \cup New) /\ sources'[c].at <= ThisAnswer
    BY <1>4, <1>13
  <2>0. Known \cup New \in SUBSET Camera
    BY <1>6, <1>10
  <2>1. CASE c \in New
    <3>1. NextId + Rank(c) \in 1..Cardinality(Known \cup New) /\ ThisAnswer \in Nat
      BY <1>4, <1>10, <2>1
    <3>2. sources'[c].id = NextId + Rank(c) /\ sources'[c].at = ThisAnswer
      BY <1>11, <2>1
    <3>3. Cardinality(Known \cup New) \in Nat
      BY <2>0, CamerasFinite
    <3>4. QED
      BY <3>1, <3>2, <3>3
  <2>2. CASE c \in Known
    <3>1. sources[c].id \in Nat /\ sources[c].id <= Cardinality(Known)
      BY <1>8, <2>2 DEF SourceInv, SourceRow
    <3>2. Cardinality(Known) <= Cardinality(Known \cup New) /\ Cardinality(Known \cup New) \in Nat
      BY <2>0, CamerasFinite, FS_Subset
    <3>3. QED
      BY <1>6, <1>8, <2>2, <3>1, <3>2
  <2>3. QED
    BY <2>1, <2>2
<1>17. \A c, d \in Known' : c # d => sources'[c].id # sources'[d].id
  <2> SUFFICES ASSUME NEW c \in Known \cup New, NEW d \in Known \cup New, c # d
               PROVE  sources'[c].id # sources'[d].id
    BY <1>13
  <2>0. /\ \A e \in New : e \in Camera /\ Rank(e) \in Nat
        /\ \A e \in Known : sources[e].id \in Nat
        /\ NextId \in Nat
    BY <1>5, <1>6, <1>8, <1>10 DEF SourceRow
  <2>1. CASE c \in Known /\ d \in Known
    BY <1>8, <2>1 DEF SourceInv
  <2>2. CASE c \in New /\ d \in New
    BY <1>11, <1>15, <2>0, <2>2
  <2>3. CASE c \in Known /\ d \in New
    BY <1>6, <1>8, <1>11, <2>0, <2>3
  <2>4. CASE c \in New /\ d \in Known
    BY <1>6, <1>8, <1>11, <2>0, <2>4
  <2>5. QED
    BY <2>1, <2>2, <2>3, <2>4
<1>18. SourceInv'
  BY <1>4, <1>14, <1>16, <1>17 DEF SourceInv
<1>19. \A c \in Known : c \in Known'
  BY <1>13
<1>20. QED
  BY <1>8, <1>18, <1>19

\* A message marks the row of its camera, and changes nothing else of it.
LEMMA MessageKeeps ==
    ASSUME SourceInv, NEW k \in Camera, Message(k)
    PROVE  /\ SourceInv'
           /\ \A c \in Known : /\ c \in Known'
                               /\ sources'[c].id = sources[c].id
                               /\ sources'[c].at >= sources[c].at
                               /\ sources[c].seen => sources'[c].seen
<1>1. /\ sources[k] # NoRow /\ sources' = [sources EXCEPT ![k].seen = TRUE]
      /\ syncing' = syncing /\ syncs' = syncs
  BY DEF Message
<1>2. \A c \in Camera : sources'[c] = IF c = k THEN [sources[c] EXCEPT !.seen = TRUE] ELSE sources[c]
  BY <1>1 DEF SourceInv
<1>3. ASSUME NEW c \in Known
      PROVE  /\ c \in Camera /\ sources[c] \in SourceRow /\ sources'[c] \in SourceRow
             /\ sources'[c].id = sources[c].id
             /\ sources'[c].at = sources[c].at
             /\ sources[c].seen => sources'[c].seen
  <2>1. c \in Camera /\ sources[c] \in SourceRow
    BY RowsKnown DEF Known
  <2>2. CASE c = k
    <3>1. sources'[c] = [sources[c] EXCEPT !.seen = TRUE]
      BY <1>2, <2>1, <2>2
    <3>2. QED
      BY <2>1, <3>1 DEF SourceRow
  <2>3. CASE c # k
    BY <1>2, <2>1, <2>3
  <2>4. QED
    BY <2>2, <2>3
<1>4. Known' = Known
  <2>1. \A c \in Known : sources'[c] # NoRow
    BY <1>3, RowsKnown
  <2>2. \A c \in Camera : c \notin Known => sources'[c] = NoRow
    BY <1>1, <1>2 DEF Known
  <2>3. QED
    BY <2>1, <2>2 DEF Known
<1>5. sources' \in [Camera -> SourceRow \cup {NoRow}]
  <2>1. sources' = [c \in Camera |-> sources'[c]]
    BY <1>1 DEF SourceInv
  <2>2. \A c \in Camera : sources'[c] \in SourceRow \cup {NoRow}
    <3> SUFFICES ASSUME NEW c \in Camera PROVE sources'[c] \in SourceRow \cup {NoRow}
      OBVIOUS
    <3>1. CASE c \in Known
      BY <1>3, <3>1
    <3>2. CASE c \notin Known
      BY <1>1, <1>2, <3>2 DEF Known
    <3>3. QED
      BY <3>1, <3>2
  <2>3. QED
    BY <2>1, <2>2
<1>6. \A c \in Known : sources[c].at \in Nat
  BY <1>3, ProtectBounds DEF SourceRow
<1>7. SourceInv'
  BY <1>1, <1>3, <1>4, <1>5 DEF SourceInv
<1>8. QED
  BY <1>3, <1>4, <1>6, <1>7

\* A process that is gone waits for no answer.
LEMMA SourceGone ==
    ASSUME SourceInv, ProtectLost
    PROVE  SourceInv'
<1>1. sources' = sources /\ syncs' = syncs /\ syncing' = 0
  BY DEF ProtectLost
<1>2. Known' = Known
  BY <1>1 DEF Known
<1>3. ASSUME NEW c \in Known PROVE sources[c].at \in Nat /\ sources[c].at <= syncs
  <2>1. sources[c].at \in 1..MaxSyncs
    BY RowsKnown DEF Known, SourceRow
  <2>2. sources[c].at <= syncs - syncing /\ syncs \in Nat /\ syncing \in Nat
    BY ProtectBounds DEF SourceInv
  <2>3. QED
    BY <2>1, <2>2, ProtectBounds
<1>4. QED
  BY <1>1, <1>2, <1>3, ProtectBounds DEF SourceInv

\* SourceInv is preserved by every step, and so are the cameras' rows.
LEMMA SourceStep ==
    ASSUME SourceInv, [Next]_vars
    PROVE  /\ SourceInv'
           /\ \A c \in Known : /\ c \in Known'
                               /\ sources'[c].id = sources[c].id
                               /\ sources'[c].at >= sources[c].at
                               /\ sources[c].seen => sources'[c].seen
<1> DEFINE Kept == \A c \in Known : /\ c \in Known'
                                    /\ sources'[c].id = sources[c].id
                                    /\ sources'[c].at >= sources[c].at
                                    /\ sources[c].seen => sources'[c].seen
<1>0. ASSUME sources' = sources PROVE Kept
  <2>1. \A c \in Known : sources[c].at \in Nat
    BY RowsKnown, ProtectBounds DEF Known, SourceRow
  <2>2. Known' = Known
    BY <1>0 DEF Known
  <2>3. QED
    BY <1>0, <2>1, <2>2
<1> SUFFICES SourceInv' /\ Kept
  OBVIOUS
<1> HIDE DEF Kept
<1>1. ASSUME UNCHANGED sourceState PROVE SourceInv' /\ Kept
  BY <1>0, <1>1, SourceUnchanged DEF sourceState
<1>2. CASE PanelFails \/ Listen \/ ListenFails
  BY <1>1, <1>2 DEF PanelFails, Listen, ListenFails, protectVars, sourceState
<1>3. CASE Ready \/ Close
  BY <1>1, <1>3 DEF Ready, Close, ProtectRest, sourceState
<1>4. CASE CloseCrashes \/ Exit \/ Kill
  <2>1. ProtectLost
    BY <1>4 DEF CloseCrashes, Exit, Kill
  <2>2. sources' = sources
    BY <2>1 DEF ProtectLost
  <2>3. QED
    BY <1>0, <2>1, <2>2, SourceGone
<1>5. CASE Opened \/ Refused \/ Reconnect \/ Dropped
  BY <1>1, <1>5 DEF Opened, Refused, Reconnect, Dropped, Closed, sourceState
<1>6. ASSUME NEW c \in Camera, Message(c) PROVE SourceInv' /\ Kept
  BY <1>6, MessageKeeps DEF Kept
<1>7. ASSUME NEW l \in Answers, AnswerSync(l) PROVE SourceInv' /\ Kept
  BY <1>7, AnswerKeeps DEF Kept
<1>8. ASSUME NEW s \in NewSettings, PatchSettings(s) PROVE SourceInv' /\ Kept
  BY <1>1, <1>8 DEF PatchSettings, sourceState
<1>9. CASE AskSync
  <2>1. /\ sources' = sources /\ syncs' = syncs + 1 /\ syncing' = syncing + 1 /\ syncs < MaxSyncs
    BY <1>9 DEF AskSync
  <2>2. Known' = Known
    BY <2>1 DEF Known
  <2>3. /\ syncs' \in 0..MaxSyncs /\ syncing' \in 0..syncs'
        /\ syncs' - syncing' = syncs - syncing
    BY <2>1, ProtectBounds DEF SourceInv
  <2>4. SourceInv'
    BY <2>1, <2>2, <2>3 DEF SourceInv
  <2>5. QED
    BY <1>0, <2>1, <2>4
<1>10. CASE Reach
  BY <1>1, <1>10 DEF Reach, sourceState
<1>11. CASE ByCloud
  BY <1>1, <1>11 DEF ByCloud, protectVars, sourceState
<1>12. CASE UNCHANGED vars
  BY <1>1, <1>12 DEF vars, protectVars, sourceState
<1>13. QED
  BY <1>2, <1>3, <1>4, <1>5, <1>6, <1>7, <1>8, <1>9, <1>10, <1>11, <1>12, NextActions

LEMMA SourceInit == Init => SourceInv
<1> SUFFICES ASSUME Init PROVE SourceInv
  OBVIOUS
<1>1. sources = [c \in Camera |-> NoRow] /\ syncing = 0 /\ syncs = 0
  BY DEF Init, ProtectInit
<1>2. Known = {}
  BY <1>1 DEF Known
<1>3. QED
  BY <1>1, <1>2, ProtectBounds DEF SourceInv

\* The table's invariant holds in every reachable state.
LEMMA SourcesCounted == Spec => []SourceInv
<1>1. SourceInv /\ [Next]_vars => SourceInv'
  BY SourceStep
<1>2. QED
  BY <1>1, SourceInit, PTL DEF Spec

\* A camera once known keeps the id that event routes refer to, through every
\* sync, its failures and restarts; no sync makes it unseen or older, and no two
\* cameras get the same id.
THEOREM IdentityKept == Spec => SourceKeepsIdentity
<1> DEFINE Keeps ==
             /\ \A c \in Camera : sources[c] # NoRow =>
                   /\ sources'[c] # NoRow
                   /\ sources'[c].id = sources[c].id
                   /\ sources'[c].at >= sources[c].at
                   /\ sources[c].seen => sources'[c].seen
             /\ \A c, d \in Camera : c # d /\ NoRow \notin {sources'[c], sources'[d]} =>
                   sources'[c].id # sources'[d].id
<1>1. ASSUME SourceInv, [Next]_vars PROVE Keeps
  <2>1. SourceInv'
    BY <1>1, SourceStep
  <2>2. \A c, d \in Known' : c # d => sources'[c].id # sources'[d].id
    BY <2>1 DEF SourceInv
  <2>3. \A c \in Known : /\ c \in Known'
                         /\ sources'[c].id = sources[c].id
                         /\ sources'[c].at >= sources[c].at
                         /\ sources[c].seen => sources'[c].seen
    BY <1>1, SourceStep
  <2>4. /\ \A c \in Camera : c \in Known <=> sources[c] # NoRow
        /\ \A c \in Camera : c \in Known' <=> sources'[c] # NoRow
    BY DEF Known
  <2>5. QED
    BY <2>2, <2>3, <2>4
<1>2. SourceInv /\ [Next]_vars => [Keeps]_vars
  BY <1>1
<1>3. QED
  BY <1>2, SourcesCounted, PTL DEF SourceKeepsIdentity, Spec

-----------------------------------------------------------------------------
\* The types

\* What the invariants above leave out
RestInv ==
    /\ settings \in Settings /\ conf \in Settings
    /\ reachable \in BOOLEAN
    /\ edits \in 0..MaxEdits /\ drops \in 0..MaxDrops
    /\ cloudConf \in Provisioned
    /\ cloudUp \in BOOLEAN
    /\ deviceId \in 1..MaxIds \cup {NoId}
    /\ status \in [bootstrap : {"disabled", "not_configured", "idle", "success", "failure"},
                   heartbeat : {"idle", "success", "failure"}]
    /\ outages \in 0..MaxOutages
    /\ phase \in Phase
    /\ troubles \in 0..MaxTroubles

\* The parts of RestInv
LinkRest  == settings \in Settings /\ conf \in Settings /\ reachable \in BOOLEAN
                /\ edits \in 0..MaxEdits /\ drops \in 0..MaxDrops
TaskRest  == /\ cloudConf \in Provisioned
             /\ cloudUp \in BOOLEAN
             /\ deviceId \in 1..MaxIds \cup {NoId}
             /\ status \in [bootstrap : {"disabled", "not_configured", "idle", "success", "failure"},
                            heartbeat : {"idle", "success", "failure"}]
             /\ outages \in 0..MaxOutages
PhaseRest == phase \in Phase /\ troubles \in 0..MaxTroubles

LEMMA RestParts == RestInv <=> LinkRest /\ TaskRest /\ PhaseRest
  BY DEF RestInv, LinkRest, TaskRest, PhaseRest

LEMMA LinkRestUnchanged ==
    ASSUME LinkRest, UNCHANGED protectVars
    PROVE  LinkRest'
  BY DEF LinkRest, protectVars, linkVars

LEMMA TaskRestUnchanged ==
    ASSUME TaskRest, UNCHANGED cloudVars
    PROVE  TaskRest'
  BY DEF TaskRest, cloudVars, taskVars

LEMMA PhaseRestUnchanged ==
    ASSUME PhaseRest, UNCHANGED <<phase, troubles>>
    PROVE  PhaseRest'
  BY DEF PhaseRest

\* Off is one of the settings.
LEMMA OffIsSettings == Off \in Settings
  BY DEF Off, Settings, Text

\* The steps of the process
LEMMA LifeRest ==
    ASSUME RestInv, Life
    PROVE  RestInv'
<1>0. LinkRest /\ TaskRest /\ PhaseRest
  BY RestParts
<1>1. PhaseRest'
  <2>1. phase' \in Phase
    BY DEF Life, PanelFails, Ready, Listen, ListenFails, Close, CloseCrashes, Exit, Kill, Phase
  <2>2. troubles' \in 0..MaxTroubles
    BY <1>0, TroubleAssumption
    DEF PhaseRest, Life, PanelFails, Ready, Listen, ListenFails, Close, CloseCrashes, Exit, Kill,
        Trouble
  <2>3. QED
    BY <2>1, <2>2 DEF PhaseRest
<1>2. LinkRest'
  <2>1. CASE PanelFails \/ Listen \/ ListenFails
    BY <1>0, <2>1, LinkRestUnchanged DEF PanelFails, Listen, ListenFails
  <2>2. CASE Ready \/ Close
    BY <1>0, <2>2 DEF Ready, Close, ProtectStart, ProtectStop, ProtectRest, LinkRest
  <2>3. CASE CloseCrashes \/ Exit \/ Kill
    BY <1>0, <2>3, OffIsSettings DEF CloseCrashes, Exit, Kill, ProtectLost, LinkRest
  <2>4. QED
    BY <2>1, <2>2, <2>3 DEF Life
<1>3. TaskRest'
  <2>1. CASE PanelFails \/ Listen \/ ListenFails
    BY <1>0, <2>1, TaskRestUnchanged DEF PanelFails, Listen, ListenFails
  <2>2. CASE Ready
    <3>1. /\ status' = [status EXCEPT !.bootstrap = status'.bootstrap]
          /\ status'.bootstrap \in {"disabled", "not_configured", status.bootstrap}
      BY <1>0, <2>2 DEF Ready, CloudStart, TaskRest, Provisioned
    <3>2. UNCHANGED <<cloudConf, cloudUp, deviceId, outages>>
      BY <2>2 DEF Ready, CloudStart, CloudRest
    <3>3. QED
      BY <1>0, <3>1, <3>2 DEF TaskRest
  <2>3. CASE Close
    BY <1>0, <2>3 DEF Close, CloudStop, CloudRest, TaskRest
  <2>4. CASE CloseCrashes \/ Exit \/ Kill
    BY <1>0, <2>4 DEF CloseCrashes, Exit, Kill, CloudLost, FirstStatus, TaskRest
  <2>5. QED
    BY <2>1, <2>2, <2>3, <2>4 DEF Life
<1>4. QED
  BY <1>1, <1>2, <1>3 DEF RestInv, LinkRest, TaskRest, PhaseRest

\* The steps of the ingest and of the camera table
LEMMA LinkRestStep ==
    ASSUME LinkRest, ByProtect,
           \/ Opened \/ Refused \/ Reconnect \/ Dropped \/ AskSync \/ Reach
           \/ \E c \in Camera : Message(c)
           \/ \E l \in Answers : AnswerSync(l)
           \/ ProtectRequest
    PROVE  LinkRest'
<1>1. CASE Opened \/ Refused \/ Reconnect \/ AskSync
  BY <1>1 DEF Opened, Refused, Closed, Reconnect, AskSync, linkVars, LinkRest
<1>2. CASE Dropped
  <2>1. UNCHANGED <<settings, conf, reachable, edits>> /\ drops < MaxDrops /\ drops' = drops + 1
    BY <1>2 DEF Dropped, Closed
  <2>2. QED
    BY <2>1, ProtectBounds DEF LinkRest
<1>3. ASSUME NEW c \in Camera, Message(c) PROVE LinkRest'
  BY <1>3 DEF Message, linkVars, LinkRest
<1>4. ASSUME NEW l \in Answers, AnswerSync(l) PROVE LinkRest'
  <2>1. UNCHANGED <<settings, conf, reachable, edits, drops>>
    BY <1>4, Zenon DEF AnswerSync, linkVars
  <2>2. QED
    BY <2>1 DEF LinkRest
<1>5. CASE Reach
  <2>1. UNCHANGED <<settings, conf, edits>> /\ reachable' \in BOOLEAN
    BY <1>5 DEF Reach, linkVars
  <2>2. drops' \in 0..MaxDrops
    BY <1>5, ProtectBounds DEF Reach, LinkRest
  <2>3. QED
    BY <2>1, <2>2 DEF LinkRest
<1>6. ASSUME NEW s \in NewSettings, PatchSettings(s) PROVE LinkRest'
  <2>1. settings' = s /\ edits < MaxEdits /\ edits' = edits + 1
        /\ UNCHANGED <<conf, reachable, drops>>
    BY <1>6 DEF PatchSettings, linkVars
  <2>2. settings' \in Settings
    BY <2>1, SettingsAssumption
  <2>3. QED
    BY <2>1, <2>2, ProtectBounds DEF LinkRest
<1>7. QED
  BY <1>1, <1>2, <1>3, <1>4, <1>5, <1>6 DEF ProtectRequest

\* The steps of the cloud service and of the cloud
LEMMA TaskRestStep ==
    ASSUME TaskRest, CloudInv, CloudCallback \/ CloudChanges
    PROVE  TaskRest'
<1> DEFINE Results == {"success", "failure"}
<1>0. ASSUME NEW t \in Task, NEW r \in Results, TaskEnds(t, r),
             deviceId' \in 1..MaxIds \cup {NoId}
      PROVE  TaskRest'
  <2>1. status' = [status EXCEPT ![t] = r] /\ UNCHANGED <<cloudConf, cloudUp, outages>>
    BY <1>0 DEF TaskEnds
  <2>2. QED
    BY <1>0, <2>1 DEF TaskRest, Task
<1>1. ASSUME NEW t \in Task, RunTask(t) PROVE TaskRest'
  BY <1>1 DEF RunTask, TaskRest
<1>2. CASE BootstrapDone
  <2>1. deviceId' \in 1..MaxIds \cup {NoId}
    BY <1>2 DEF BootstrapDone, CloudInv
  <2>2. QED
    BY <1>0, <1>2, <2>1 DEF BootstrapDone, Task
<1>3. CASE BootstrapFailed
  BY <1>0, <1>3 DEF BootstrapFailed, Task, TaskRest
<1>4. CASE HeartbeatDone \/ HeartbeatFailed
  BY <1>0, <1>4 DEF HeartbeatDone, HeartbeatFailed, Task, TaskRest
<1>5. CASE CloudChanges
  <2>1. UNCHANGED <<cloudConf, deviceId, status>>
    BY <1>5 DEF CloudChanges, taskVars
  <2>2. cloudUp' \in BOOLEAN
    BY <1>5 DEF CloudChanges, TaskRest
  <2>3. outages' \in 0..MaxOutages
    BY <1>5, CloudBounds DEF CloudChanges, TaskRest
  <2>4. QED
    BY <2>1, <2>2, <2>3 DEF TaskRest
<1>6. QED
  BY <1>1, <1>2, <1>3, <1>4, <1>5 DEF CloudCallback

LEMMA RestStep ==
    ASSUME RestInv, CloudInv, [Next]_vars
    PROVE  RestInv'
<1>0. LinkRest /\ TaskRest /\ PhaseRest
  BY RestParts
<1>1. CASE Life
  BY <1>1, LifeRest
<1>2. CASE AttemptEnds \/ RetryFires \/ ConsoleSends \/ Request \/ (Reach /\ ByProtect)
  <2>1. ByProtect
    BY <1>2 DEF AttemptEnds, RetryFires, ConsoleSends, Request
  <2>2. LinkRest'
    BY <1>0, <1>2, <2>1, LinkRestStep
    DEF AttemptEnds, RetryFires, ConsoleSends, ConsoleCallback, Request
  <2>3. TaskRest' /\ PhaseRest'
    BY <1>0, <2>1, TaskRestUnchanged, PhaseRestUnchanged DEF ByProtect
  <2>4. QED
    BY <2>2, <2>3 DEF RestInv, LinkRest, TaskRest, PhaseRest
<1>3. CASE TaskGoesOn \/ (CloudChanges /\ ByCloud)
  <2>1. ByCloud /\ (CloudCallback \/ CloudChanges)
    BY <1>3 DEF TaskGoesOn
  <2>2. TaskRest'
    BY <1>0, <2>1, TaskRestStep
  <2>3. LinkRest' /\ PhaseRest'
    BY <1>0, <2>1, LinkRestUnchanged, PhaseRestUnchanged DEF ByCloud
  <2>4. QED
    BY <2>2, <2>3 DEF RestInv, LinkRest, TaskRest, PhaseRest
<1>4. CASE UNCHANGED vars
  <2>1. LinkRest' /\ TaskRest' /\ PhaseRest'
    BY <1>0, <1>4, LinkRestUnchanged, TaskRestUnchanged, PhaseRestUnchanged DEF vars
  <2>2. QED
    BY <2>1 DEF RestInv, LinkRest, TaskRest, PhaseRest
<1>5. QED
  BY <1>1, <1>2, <1>3, <1>4 DEF Next, NetworkMoves

\* Every state is of its type: the loops keep their one socket, timer or task, a
\* camera's row has an id and a time in range, and an id is one the cloud gave.
THEOREM TypeCorrect == Spec => []TypeOK
<1>1. Init => RestInv
  <2> SUFFICES ASSUME Init PROVE RestInv
    OBVIOUS
  <2>1. LinkRest
    BY SettingsAssumption, OffIsSettings, ProtectBounds DEF Init, ProtectInit, LinkRest
  <2>2. TaskRest
    BY CloudBounds DEF Init, CloudInit, FirstStatus, TaskRest
  <2>3. PhaseRest
    BY TroubleAssumption DEF Init, PhaseRest, Phase
  <2>4. QED
    BY <2>1, <2>2, <2>3, RestParts
<1>2. CloudInv /\ RestInv /\ [Next]_vars => RestInv'
  BY RestStep
<1>3. LinkInv /\ CloudInv /\ SourceInv /\ RestInv => TypeOK
  <2> SUFFICES ASSUME LinkInv, CloudInv, SourceInv, RestInv PROVE TypeOK
    OBVIOUS
  <2>1. syncing \in 0..MaxSyncs
    BY ProtectBounds DEF SourceInv
  <2>2. ProtectTypeOK
    BY <2>1 DEF LinkInv, SourceInv, RestInv, ProtectTypeOK
  <2>3. CloudTypeOK
    BY DEF CloudInv, RestInv, CloudTypeOK
  <2>4. QED
    BY <2>2, <2>3 DEF TypeOK, RestInv
<1>4. QED
  BY <1>1, <1>2, <1>3, LinksCounted, TasksCounted, SourcesCounted, PTL DEF Spec
=============================================================================
