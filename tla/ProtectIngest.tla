---------------------------- MODULE ProtectIngest ----------------------------
(***************************************************************************)
(* The connection to a UniFi Protect console: the persisted settings, the  *)
(* websocket of ProtectApiIngestService with its reconnect loop, and the   *)
(* table of cameras that ProtectSourceSyncService fills.                   *)
(*                                                                         *)
(* The ingest reads the settings when it starts and keeps them; a sync of  *)
(* the cameras reads them each time. How long a reconnect waits is left    *)
(* out. The database driver is synchronous, so the answer of a sync is     *)
(* applied in one turn; the loop may end early at a row that fails.        *)
(* Module IngressEvents has what becomes of a message, and module          *)
(* EventRouting where it leads.                                            *)
(***************************************************************************)
EXTENDS Integers, FiniteSets, FiniteSetsExt, Functions

CONSTANTS
    Camera,         \* cameras of the console
    NoRow,          \* a camera that protect_sources does not have
    FirstSettings,  \* hub_settings at first
    NewSettings,    \* what the settings may be changed to
    MaxEdits,       \* bound on changes of the settings
    MaxSyncs,       \* bound on syncs of the cameras
    MaxDrops        \* bound on connections the console or the network ends

ASSUME ProtectBounds == MaxEdits \in Nat /\ MaxSyncs \in Nat /\ MaxDrops \in Nat

ASSUME CameraAssumption ==
    IsFiniteSet(Camera) /\ NoRow \notin [id : Nat, at : Nat, seen : BOOLEAN]

VARIABLES
    settings,   \* hub_settings: enabled, host and API key
    conf,       \* protectApiConfig: the settings as the ingest read them
    sockets,    \* the websockets by state; this.socket is the newest
    connected,  \* status.connected
    handle,     \* reconnectTimeout is set
    timers,     \* reconnect timers that are due to fire
    stopped,    \* ProtectApiIngestService.stopped
    reachable,  \* the console can be connected to
    sources,    \* protect_sources by camera: id, lastSeenAt as the number of an
                \* answer, and whether an event was seen
    syncing,    \* syncs that wait for the console
    edits,      \* changes of the settings so far
    syncs,      \* syncs so far
    drops       \* connections ended so far

linkVars    == <<conf, sockets, connected, handle, timers, stopped>>
protectVars == <<settings, linkVars, reachable, sources, syncing, edits, syncs, drops>>

\* A text is missing, one that cannot be used (no URL, no header value), or good.
Text     == {"none", "bad", "good"}
Settings == [enabled : BOOLEAN, host : Text, key : Text]
Off      == [enabled |-> FALSE, host |-> "none", key |-> "none"]
NoSocket == [connecting |-> 0, open |-> 0]

ASSUME SettingsAssumption == FirstSettings \in Settings /\ NewSettings \subseteq Settings

SourceRow == [id : 1..Cardinality(Camera), at : 1..MaxSyncs, seen : BOOLEAN]

ProtectTypeOK ==
    /\ settings \in Settings /\ conf \in Settings
    /\ sockets \in [connecting : Nat, open : Nat]
    /\ connected \in BOOLEAN /\ handle \in BOOLEAN /\ stopped \in BOOLEAN /\ reachable \in BOOLEAN
    /\ timers \in Nat
    /\ sources \in [Camera -> SourceRow \cup {NoRow}]
    /\ syncing \in 0..MaxSyncs
    /\ edits \in 0..MaxEdits /\ syncs \in 0..MaxSyncs /\ drops \in 0..MaxDrops

\* start and syncSources go on with these settings.
Complete(s) == s.enabled /\ s.host # "none" /\ s.key # "none"

\* A websocket can be opened with them: the URL is one, and so is the header.
Usable(s) == Complete(s) /\ s.host = "good" /\ s.key = "good"

\* Faulty variant: an invalid URL is not caught.
ThrowsUncaught(s) == Complete(s) /\ "bad" \in {s.host, s.key}

\* The websocket constructor throws: the API key is no header value.
Throws(s) == Complete(s) /\ s.host = "good" /\ s.key = "bad"

-----------------------------------------------------------------------------
\* connect with the configuration c: an invalid URL is logged, and that is all.
Connect(c) ==
    sockets' = IF ~stopped /\ Usable(c) THEN [sockets EXCEPT !.connecting = @ + 1] ELSE sockets

\* ProtectApiIngestService.start, with the settings of now
ProtectStart ==
    /\ conf' = settings
    /\ Connect(settings)
    /\ UNCHANGED <<connected, handle, timers, stopped>>

\* ProtectApiIngestService.stop: the socket's listeners are removed first, so
\* that its close is not noticed.
ProtectStop ==
    /\ stopped' = TRUE
    /\ handle' = FALSE
    /\ timers' = IF handle THEN timers - 1 ELSE timers
    /\ connected' = FALSE
    /\ sockets' = CASE sockets.connecting > 0 -> [sockets EXCEPT !.connecting = @ - 1]
                    [] sockets.connecting = 0 /\ sockets.open > 0 -> [sockets EXCEPT !.open = @ - 1]
                    [] OTHER -> sockets
    /\ UNCHANGED conf

\* on('open')
Opened ==
    /\ reachable
    /\ sockets.connecting > 0
    /\ sockets' = [connecting |-> sockets.connecting - 1, open |-> sockets.open + 1]
    /\ connected' = TRUE
    /\ UNCHANGED <<settings, conf, handle, timers, stopped, reachable, sources, syncing, edits, syncs, drops>>

\* Faulty variant: only a connection that had opened is followed by another.
ReconnectIfOpened ==
    IF stopped \/ ~conf.enabled \/ handle \/ ~connected
    THEN UNCHANGED <<handle, timers>>
    ELSE handle' = TRUE /\ timers' = timers + 1

\* scheduleReconnect
ScheduleReconnect ==
    IF stopped \/ ~conf.enabled \/ handle
    THEN UNCHANGED <<handle, timers>>
    ELSE handle' = TRUE /\ timers' = timers + 1

\* on('error') and on('close') of a socket in state s
Closed(s) ==
    /\ sockets[s] > 0
    /\ sockets' = [sockets EXCEPT ![s] = @ - 1]
    /\ connected' = FALSE
    /\ ScheduleReconnect
    /\ UNCHANGED <<settings, conf, stopped, reachable, sources, syncing, edits, syncs>>

\* The attempt fails: nobody answers.
Refused == ~reachable /\ Closed("connecting") /\ UNCHANGED drops

\* The console or the network ends an attempt or a connection.
Dropped ==
    /\ drops < MaxDrops
    /\ drops' = drops + 1
    /\ \E s \in {"connecting", "open"} : Closed(s)

\* Faulty variant: the handle of the timer that fired is kept.
ClearNothing == UNCHANGED handle

ClearHandle == handle' = FALSE

\* The reconnect timer fires.
Reconnect ==
    /\ timers > 0
    /\ timers' = timers - 1
    /\ ClearHandle
    /\ Connect(conf)
    /\ UNCHANGED <<settings, conf, connected, stopped, reachable, sources, syncing, edits, syncs, drops>>

\* The console goes out of reach, or comes back.
Reach ==
    /\ reachable => drops < MaxDrops
    /\ reachable' = ~reachable
    /\ drops' = IF reachable THEN drops + 1 ELSE drops
    /\ UNCHANGED <<settings, linkVars, sources, syncing, edits, syncs>>

-----------------------------------------------------------------------------
\* handleMessage up to the publication: resolveProtectSource marks the camera
\* that the message is from, if the table has it.
Message(c) ==
    /\ sockets.open > 0
    /\ sources[c] # NoRow
    /\ sources' = [sources EXCEPT ![c].seen = TRUE]
    /\ UNCHANGED <<settings, linkVars, reachable, syncing, edits, syncs, drops>>

\* PATCH /api/settings. The body is copied into the row, so one request may
\* change several fields, and a null for the encrypted key removes the key; an
\* empty protectApiKey is ignored. A stored key that does not decrypt reads as
\* none.
PatchSettings(s) ==
    /\ edits < MaxEdits
    /\ settings' = s
    /\ edits' = edits + 1
    /\ UNCHANGED <<linkVars, reachable, sources, syncing, syncs, drops>>

\* syncSources up to the request: the settings of now are used.
AskSync ==
    /\ syncs < MaxSyncs
    /\ Usable(settings)
    /\ syncs' = syncs + 1
    /\ syncing' = syncing + 1
    /\ UNCHANGED <<settings, linkVars, reachable, sources, edits, drops>>

\* The cameras that have a row
Known == {c \in Camera : sources[c] # NoRow}

\* The id of the next row that is inserted
NextId == 1 + Max({0} \cup {sources[c].id : c \in Known})

\* The number of the answer that is there now
ThisAnswer == syncs - syncing + 1

\* Faulty variants: the row is replaced; the row is updated as a whole.
ReplaceRow(c, n) == [id |-> NextId + n, at |-> ThisAnswer, seen |-> FALSE]

RewriteRow(c, n) ==
    [id |-> IF c \in Known THEN sources[c].id ELSE NextId + n, at |-> ThisAnswer, seen |-> FALSE]

\* The row of camera c is inserted, after n others of the same answer, or
\* updated in what the answer has.
UpsertRow(c, n) ==
    IF c \in Known
    THEN [sources[c] EXCEPT !.at = ThisAnswer]
    ELSE [id |-> NextId + n, at |-> ThisAnswer, seen |-> FALSE]

\* The new cameras that come before c in the list
NewBefore(list, c) ==
    {d \in Camera \ Known : \E i, j \in DOMAIN list : i < j /\ list[i] = d /\ list[j] = c}

\* syncSources with the console's answer, a list of cameras: of which the rows
\* up to one that cannot be written are updated or inserted, in this order.
AnswerSync(list) ==
    /\ syncing > 0
    /\ syncing' = syncing - 1
    /\ sources' = [c \in Camera |-> IF c \in Range(list)
                                    THEN UpsertRow(c, Cardinality(NewBefore(list, c)))
                                    ELSE sources[c]]
    /\ UNCHANGED <<settings, linkVars, reachable, edits, syncs, drops>>

\* The cameras of an answer in its order, as far as their rows are written
Answers == {l \in UNION {[1..n -> Camera] : n \in 0..Cardinality(Camera)} :
            \A i, j \in DOMAIN l : i # j => l[i] # l[j]}

-----------------------------------------------------------------------------
ProtectInit ==
    /\ settings = FirstSettings /\ conf = Off
    /\ sockets = NoSocket /\ connected = FALSE
    /\ handle = FALSE /\ timers = 0 /\ stopped = FALSE
    /\ reachable = TRUE
    /\ sources = [c \in Camera |-> NoRow]
    /\ syncing = 0
    /\ edits = 0 /\ syncs = 0 /\ drops = 0

\* The process is gone; the database and the console stay.
ProtectLost ==
    /\ conf' = Off
    /\ sockets' = NoSocket /\ connected' = FALSE
    /\ handle' = FALSE /\ timers' = 0 /\ stopped' = FALSE
    /\ syncing' = 0
    /\ UNCHANGED <<settings, reachable, sources, edits, syncs, drops>>

\* What the console does to a connection or answers, beside ending an attempt
ConsoleCallback ==
    \/ Dropped
    \/ \E c \in Camera : Message(c)
    \/ \E l \in Answers : AnswerSync(l)

\* Requests that the hub takes while it is up
ProtectRequest ==
    \/ \E s \in NewSettings \ {settings} : PatchSettings(s)
    \/ AskSync
=============================================================================
