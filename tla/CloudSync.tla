------------------------------ MODULE CloudSync ------------------------------
(***************************************************************************)
(* CloudSyncService: one task at a time registers the hub with the cloud   *)
(* (bootstrap) and then reports that it is online (heartbeat), each time   *)
(* scheduling the next. A heartbeat uses the device id of the bootstrap.   *)
(*                                                                         *)
(* How long a task waits is left out. The two checks of runHeartbeat for a *)
(* missing identity are as well: CloudAlive shows that no heartbeat is     *)
(* scheduled without one.                                                  *)
(***************************************************************************)
EXTENDS Integers

CONSTANTS
    NoId,           \* runtimeDeviceId: null
    MaxIds,         \* bound on the ids the cloud gives the hub
    MaxOutages      \* bound on outages of the cloud

ASSUME CloudBounds == MaxIds \in Nat \ {0} /\ MaxOutages \in Nat /\ NoId \notin 1..MaxIds

VARIABLES
    cloudConf,      \* the provisioning file: off, without identity, or complete
    due,            \* the task of CloudSyncService.timeout, while it is to fire
    calls,          \* requests of each task that wait for the cloud
    cloudStopped,   \* CloudSyncService.stopped
    deviceId,       \* runtimeDeviceId, and with it runtimeIdentity
    status,         \* status of bootstrap and heartbeat
    cloudUp,        \* the cloud answers, with what CloudApiClient accepts
    cloudId,        \* the id under which the cloud knows the hub
    outages         \* outages so far

taskVars  == <<due, calls, cloudStopped, deviceId, status>>
cloudVars == <<cloudConf, taskVars, cloudUp, cloudId, outages>>

Task == {"bootstrap", "heartbeat"}

\* What the service is given: cloud integration not enabled (a provisioning file
\* that is missing or cannot be read counts as that), enabled without serial
\* number or secret, or enabled with both.
Provisioned == {"off", "no_identity", "on"}

CloudTypeOK ==
    /\ cloudConf \in Provisioned
    /\ due \in Task \cup {"none"}
    /\ calls \in [Task -> Nat]
    /\ cloudStopped \in BOOLEAN /\ cloudUp \in BOOLEAN
    /\ deviceId \in 1..MaxIds \cup {NoId} /\ cloudId \in 1..MaxIds
    /\ status \in [bootstrap : {"disabled", "not_configured", "idle", "success", "failure"},
                   heartbeat : {"idle", "success", "failure"}]
    /\ outages \in 0..MaxOutages

-----------------------------------------------------------------------------
\* Faulty variant: a task is scheduled although the service was stopped.
ScheduleAfterStop(t) == due' = t

\* schedule: the timeout before, if it has not fired, is cleared.
ScheduleTask(t) == due' = IF cloudStopped THEN due ELSE t

\* CloudSyncService.start
CloudStart ==
    /\ due' = IF cloudConf = "on" THEN "bootstrap" ELSE due
    /\ status' = [status EXCEPT !.bootstrap =
                      CASE cloudConf = "off"         -> "disabled"
                        [] cloudConf = "no_identity" -> "not_configured"
                        [] cloudConf = "on"          -> @]
    /\ UNCHANGED <<calls, cloudStopped, deviceId>>

\* CloudSyncService.stop
CloudStop ==
    /\ cloudStopped' = TRUE
    /\ due' = "none"
    /\ UNCHANGED <<calls, deviceId, status>>

\* The timeout fires: runBootstrap or runHeartbeat sends its request.
RunTask(t) ==
    /\ due = t
    /\ due' = "none"
    /\ calls' = [calls EXCEPT ![t] = @ + 1]
    /\ UNCHANGED <<cloudConf, cloudStopped, deviceId, status, cloudUp, cloudId, outages>>

\* The request of t is over, with the result r.
TaskEnds(t, r) ==
    /\ calls[t] > 0
    /\ calls' = [calls EXCEPT ![t] = @ - 1]
    /\ status' = [status EXCEPT ![t] = r]
    /\ UNCHANGED <<cloudConf, cloudStopped, cloudUp, cloudId, outages>>

BootstrapDone ==
    /\ cloudUp
    /\ TaskEnds("bootstrap", "success")
    /\ deviceId' = cloudId
    /\ ScheduleTask("heartbeat")

\* Faulty variant: a bootstrap that failed is not tried again.
NoRetry == due' = due

RetryBootstrap == ScheduleTask("bootstrap")

BootstrapFailed ==
    /\ ~cloudUp
    /\ TaskEnds("bootstrap", "failure")
    /\ RetryBootstrap
    /\ UNCHANGED deviceId

\* The cloud takes a heartbeat of a device that it knows.
HeartbeatDone ==
    /\ cloudUp /\ deviceId = cloudId
    /\ TaskEnds("heartbeat", "success")
    /\ ScheduleTask("heartbeat")
    /\ UNCHANGED deviceId

\* A heartbeat that fails is followed by the next heartbeat, whatever the
\* reason: also when the cloud no longer knows the device.
HeartbeatFailed ==
    /\ ~cloudUp \/ deviceId # cloudId
    /\ TaskEnds("heartbeat", "failure")
    /\ ScheduleTask("heartbeat")
    /\ UNCHANGED deviceId

\* The cloud fails or recovers, or registers the hub anew.
CloudChanges ==
    /\ \/ /\ cloudUp => outages < MaxOutages
          /\ cloudUp' = ~cloudUp
          /\ outages' = IF cloudUp THEN outages + 1 ELSE outages
          /\ UNCHANGED cloudId
       \/ /\ cloudId < MaxIds
          /\ cloudId' = cloudId + 1
          /\ UNCHANGED <<cloudUp, outages>>
    /\ UNCHANGED <<cloudConf, taskVars>>

-----------------------------------------------------------------------------
\* The status of a new CloudSyncService
FirstStatus(c) ==
    [bootstrap |-> IF c = "off" THEN "disabled" ELSE "idle", heartbeat |-> "idle"]

CloudInit ==
    /\ cloudConf \in Provisioned
    /\ due = "none" /\ calls = [t \in Task |-> 0] /\ cloudStopped = FALSE
    /\ deviceId = NoId /\ status = FirstStatus(cloudConf)
    /\ cloudUp = TRUE /\ cloudId = 1 /\ outages = 0

\* The process is gone.
CloudLost ==
    /\ due' = "none" /\ calls' = [t \in Task |-> 0] /\ cloudStopped' = FALSE
    /\ deviceId' = NoId /\ status' = FirstStatus(cloudConf)
    /\ UNCHANGED <<cloudConf, cloudUp, cloudId, outages>>

CloudCallback ==
    \/ \E t \in Task : RunTask(t)
    \/ BootstrapDone
    \/ BootstrapFailed
    \/ HeartbeatDone
    \/ HeartbeatFailed
=============================================================================
