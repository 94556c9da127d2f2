------------------------ MODULE VirtualSecurityPanel ------------------------
(***************************************************************************)
(* SavantVirtualSecurityPanelConsumer and SavantTcpTransport: the retained *)
(* state of each zone, the chain of operations that set and resynchronize  *)
(* them, and the listener with its one client socket.                      *)
(*                                                                         *)
(* The operations run one after another, so the transport's own chain of   *)
(* writes never holds more than the write of the current operation, which  *)
(* starts in the same run of the event loop as send. The only wait inside  *)
(* an operation is for that write; everything else in it is synchronous.   *)
(***************************************************************************)
EXTENDS Naturals, Sequences, FiniteSetsExt

CONSTANTS
    Zone,           \* zone numbers
    Seeded,         \* zones of the enabled bindings at startup
    MaxConnections, \* bound on the connections of a process's life
    MaxRequests     \* bound on the requests of a process's life

ASSUME ZoneAssumption == Zone \subseteq Nat \ {0} /\ Seeded \subseteq Zone
ASSUME BoundAssumption == MaxConnections \in Nat /\ MaxRequests \in Nat

VARIABLES
    lifecycle,  \* of the transport
    client,     \* the connection id of this.client, 0 for none
    lastId,     \* connectionId
    sock,       \* the sockets accepted so far
    retained,   \* retainedStates: currentState, Unset for a missing key
    status,     \* retainedStates: deliveryStatus
    queue,      \* operations waiting on operationChain
    op,         \* the operation in progress
    write,      \* the write it waits for
    made,       \* requests made so far
    told        \* history: last state written on the client's connection

panelVars     == <<retained, status, queue, op>>
transportVars == <<lifecycle, client, lastId, sock>>
vars == <<lifecycle, client, lastId, sock, retained, status, queue, op, write, made, told>>

State == {"Normal", "Violated"}
Unset == "unset"
Conn  == 1..MaxConnections

\* A socket is destroyed by the hub before its close event is handled.
SocketState == {"none", "open", "destroyed", "closed"}
Lifecycle   == {"starting", "listening", "connected", "stopping", "stopped", "faulted"}
Delivery    == {"never_sent", "pending_reconnect", "sent", "send_failed"}

SetOp(z, s)    == [kind |-> "set", zone |-> z, state |-> s]
ResyncOp(todo) == [kind |-> "resync", todo |-> todo]
NoOp    == [kind |-> "none"]
NoWrite == [conn |-> 0, zone |-> 0, result |-> "none"]

Request == {SetOp(z, s) : z \in Zone, s \in State}
Resync  == {ResyncOp(todo) : todo \in SUBSET Zone}

TypeOK ==
    /\ lifecycle \in Lifecycle
    /\ client \in 0..lastId
    /\ lastId \in 0..MaxConnections
    /\ sock \in [Conn -> SocketState]
    /\ retained \in [Zone -> State \cup {Unset}]
    /\ status \in [Zone -> Delivery]
    /\ queue \in Seq(Request \cup Resync)
    /\ op \in Request \cup Resync \cup {NoOp}
    /\ write \in {NoWrite} \cup [conn : Conn, zone : Zone, result : {"pending", "ok", "failed"}]
    /\ made \in 0..MaxRequests
    /\ told \in [Zone -> State \cup {Unset}]

-----------------------------------------------------------------------------
Pending == write.result = "pending"
Idle    == op = NoOp /\ queue = <<>>

\* No callback is taken up while an operation can go on.
LoopFree == Pending \/ Idle

Retained   == {z \in Zone : retained[z] # Unset}
ClientOpen == client # 0 /\ sock[client] = "open"

\* socket.destroy(), for the sockets of a set
Destroyed(C) == [c \in Conn |-> IF c \in C /\ sock[c] = "open" THEN "destroyed" ELSE sock[c]]

\* The write waiting on connection c fails when the socket is gone.
WriteLost(c) == write' = IF Pending /\ write.conn = c THEN [write EXCEPT !.result = "failed"]
                                                      ELSE write

-----------------------------------------------------------------------------
\* The transport's callbacks

\* bind succeeds or fails
Listen ==
    /\ LoopFree
    /\ lifecycle = "starting"
    /\ lifecycle' \in {"listening", "faulted"}
    /\ UNCHANGED <<client, lastId, sock, panelVars, write, made, told>>

\* Faulty variant: the connection before is left open.
AcceptBeside ==
    LET c == lastId + 1
    IN  /\ LoopFree
        /\ lifecycle \in {"listening", "connected"}
        /\ lastId < MaxConnections
        /\ lastId' = c
        /\ client' = c
        /\ lifecycle' = "connected"
        /\ sock' = [sock EXCEPT ![c] = "open"]
        /\ queue' = Append(queue, ResyncOp({}))
        /\ told' = [z \in Zone |-> Unset]
        /\ UNCHANGED <<retained, status, op, write, made>>

\* acceptClient: the newest connection takes the place of the one before, and
\* its resynchronization joins the chain.
AcceptClient ==
    LET c == lastId + 1
    IN  /\ LoopFree
        /\ lifecycle \in {"listening", "connected"}
        /\ lastId < MaxConnections
        /\ lastId' = c
        /\ client' = c
        /\ lifecycle' = "connected"
        /\ sock' = [Destroyed({client}) EXCEPT ![c] = "open"]
        /\ queue' = Append(queue, ResyncOp({}))
        /\ told' = [z \in Zone |-> Unset]
        /\ UNCHANGED <<retained, status, op, write, made>>

\* handleUnavailable: events of a socket that is not the client are dropped.
HandleUnavailable(c) ==
    /\ client' = IF client = c THEN 0 ELSE client
    /\ lifecycle' = IF client = c /\ lifecycle \notin {"stopping", "stopped"}
                    THEN "listening" ELSE lifecycle

\* The close or error event of a socket: of one that the hub destroyed, or of
\* an open one whose peer went away.
SocketGone(c) ==
    /\ LoopFree
    /\ sock[c] \in {"open", "destroyed"}
    /\ sock' = [sock EXCEPT ![c] = "closed"]
    /\ HandleUnavailable(c)
    /\ WriteLost(c)
    /\ UNCHANGED <<lastId, panelVars, made, told>>

\* The write completes: its callback, and drain after backpressure. It may be
\* reported done after the socket was destroyed, but not after its close event.
WriteDone ==
    /\ Pending
    /\ write' = [write EXCEPT !.result = "ok"]
    /\ UNCHANGED <<transportVars, panelVars, made, told>>

\* The callback of the write reports an error.
WriteError ==
    /\ Pending
    /\ WriteLost(write.conn)
    /\ UNCHANGED <<transportVars, panelVars, made, told>>

\* stop: teardown up to the wait for the listener to close
Stop ==
    /\ LoopFree
    /\ lifecycle \in {"listening", "connected", "faulted"}
    /\ lifecycle' = "stopping"
    /\ client' = 0
    /\ sock' = Destroyed({client})
    /\ UNCHANGED <<lastId, panelVars, write, made, told>>

Stopped ==
    /\ LoopFree
    /\ lifecycle = "stopping"
    /\ \A c \in Conn : sock[c] \in {"none", "closed"}
    /\ lifecycle' = "stopped"
    /\ UNCHANGED <<client, lastId, sock, panelVars, write, made, told>>

-----------------------------------------------------------------------------
\* The consumer's operations

\* Faulty variant: the binding and the state are not validated.
SetAnyState(z, s) ==
    /\ LoopFree
    /\ lifecycle \notin {"starting", "faulted"}
    /\ made < MaxRequests
    /\ made' = made + 1
    /\ queue' = Append(queue, SetOp(z, s))
    /\ UNCHANGED <<transportVars, retained, status, op, write, told>>

\* setDesiredState: an invalid binding or state is rejected, others wait their
\* turn. The adapter is registered once the transport listens.
SetDesiredState(z, s) ==
    /\ LoopFree
    /\ z \in Zone /\ s \in State
    /\ lifecycle \notin {"starting", "faulted"}
    /\ made < MaxRequests
    /\ made' = made + 1
    /\ queue' = Append(queue, SetOp(z, s))
    /\ UNCHANGED <<transportVars, retained, status, op, write, told>>

Free == op = NoOp /\ queue # <<>>
IsSet(o) == o.kind = "set"

\* applyState: nothing to do
ApplyUnchanged ==
    LET o == Head(queue)
    IN  /\ Free /\ IsSet(o)
        /\ retained[o.zone] = o.state
        /\ queue' = Tail(queue)
        /\ UNCHANGED <<transportVars, retained, status, op, write, made, told>>

\* applyState without a client: retained for the next one
ApplyRetained ==
    LET o == Head(queue)
    IN  /\ Free /\ IsSet(o)
        /\ retained[o.zone] # o.state
        /\ client = 0
        /\ queue' = Tail(queue)
        /\ retained' = [retained EXCEPT ![o.zone] = o.state]
        /\ status' = [status EXCEPT ![o.zone] = "pending_reconnect"]
        /\ UNCHANGED <<transportVars, op, write, made, told>>

\* send: the frame is written to the client's socket. A socket that is gone
\* makes it fail at once, and there is nothing left to destroy.
Send(z, s) ==
    /\ ClientOpen
    /\ write' = [conn |-> client, zone |-> z, result |-> "pending"]
    /\ told' = [told EXCEPT ![z] = s]

\* applyState with a client
ApplySend ==
    LET o == Head(queue)
    IN  /\ Free /\ IsSet(o)
        /\ retained[o.zone] # o.state
        /\ Send(o.zone, o.state)
        /\ queue' = Tail(queue)
        /\ op' = o
        /\ retained' = [retained EXCEPT ![o.zone] = o.state]
        /\ status' = [status EXCEPT ![o.zone] = "never_sent"]
        /\ UNCHANGED <<transportVars, made>>

ApplyFails ==
    LET o == Head(queue)
    IN  /\ Free /\ IsSet(o)
        /\ retained[o.zone] # o.state
        /\ client # 0 /\ ~ClientOpen
        /\ queue' = Tail(queue)
        /\ retained' = [retained EXCEPT ![o.zone] = o.state]
        /\ status' = [status EXCEPT ![o.zone] = "send_failed"]
        /\ UNCHANGED <<transportVars, op, write, made, told>>

\* Faulty variant: zones sent on an earlier connection are not listed.
ResyncUnsent ==
    /\ Free /\ ~IsSet(Head(queue))
    /\ queue' = Tail(queue)
    /\ op' = ResyncOp({z \in Retained : status[z] # "sent"})
    /\ UNCHANGED <<transportVars, retained, status, write, made, told>>

\* resynchronize: the keys are listed ...
ResyncStart ==
    /\ Free /\ ~IsSet(Head(queue))
    /\ queue' = Tail(queue)
    /\ op' = ResyncOp(Retained)
    /\ UNCHANGED <<transportVars, retained, status, write, made, told>>

Syncing == op.kind = "resync" /\ write = NoWrite

\* ... and each zone is sent, in ascending order, to whoever is the client ...
ResyncSend ==
    /\ Syncing
    /\ op.todo # {}
    /\ LET z == Min(op.todo)
       IN  /\ Send(z, retained[z])
           /\ op' = ResyncOp(op.todo \ {z})
    /\ UNCHANGED <<transportVars, retained, status, queue, made>>

\* ... until there is none, or all are sent.
ResyncFails ==
    /\ Syncing
    /\ op.todo # {}
    /\ ~ClientOpen
    /\ op' = NoOp
    /\ status' = [status EXCEPT ![Min(op.todo)] = "send_failed"]
    /\ UNCHANGED <<transportVars, retained, queue, write, made, told>>

ResyncDone ==
    /\ Syncing
    /\ op.todo = {}
    /\ op' = NoOp
    /\ UNCHANGED <<transportVars, retained, status, queue, write, made, told>>

\* The write was done: the operation goes on.
Sent ==
    /\ write.result = "ok"
    /\ write' = NoWrite
    /\ status' = [status EXCEPT ![write.zone] = "sent"]
    /\ op' = IF IsSet(op) THEN NoOp ELSE op
    /\ UNCHANGED <<transportVars, retained, queue, made, told>>

\* Faulty variant: the client whose write failed is kept.
SendFailedKept ==
    /\ write.result = "failed"
    /\ write' = NoWrite
    /\ status' = [status EXCEPT ![write.zone] = "send_failed"]
    /\ op' = NoOp
    /\ UNCHANGED <<transportVars, retained, queue, made, told>>

\* The write failed: the operation ends, and whoever is the client by now is
\* destroyed (by send, if it is still the socket written to; by markUnhealthy,
\* whoever it is).
SendFailed ==
    /\ write.result = "failed"
    /\ write' = NoWrite
    /\ status' = [status EXCEPT ![write.zone] = "send_failed"]
    /\ op' = NoOp
    /\ sock' = Destroyed({client})
    /\ UNCHANGED <<lifecycle, client, lastId, retained, queue, made, told>>

-----------------------------------------------------------------------------
\* The startup seeds every configured zone, then starts the transport.
Init ==
    /\ lifecycle = "starting"
    /\ client = 0
    /\ lastId = 0
    /\ sock = [c \in Conn |-> "none"]
    /\ retained = [z \in Zone |-> IF z \in Seeded THEN "Normal" ELSE Unset]
    /\ status = [z \in Zone |-> "pending_reconnect"]
    /\ queue = <<>>
    /\ op = NoOp
    /\ write = NoWrite
    /\ made = 0
    /\ told = [z \in Zone |-> Unset]

Operation ==
    \/ ApplyUnchanged \/ ApplyRetained \/ ApplySend \/ ApplyFails
    \/ ResyncStart \/ ResyncSend \/ ResyncFails \/ ResyncDone
    \/ Sent \/ SendFailed

Next ==
    \/ Operation
    \/ Listen
    \/ AcceptClient
    \/ \E c \in Conn : SocketGone(c)
    \/ WriteDone
    \/ WriteError
    \/ Stop
    \/ Stopped
    \/ \E z \in Zone \cup {0}, s \in State \cup {Unset} : SetDesiredState(z, s)

Spec == Init /\ [][Next]_vars

\* The chain of operations goes on. A write ends: the client reads what it is
\* sent, or the system gives the connection up.
Fairness == WF_vars(Operation) /\ WF_vars(WriteDone \/ WriteError)

FairSpec == Spec /\ Fairness

-----------------------------------------------------------------------------
\* Properties

\* With no operation left to run, an open client has been sent the retained
\* state of every zone, as the last frame for the zone on its connection, and
\* the delivery status says so: no overlap of replacements, failures and queued
\* changes leaves a connected controller with a stale or missing zone.
ClientAgrees ==
    (Idle /\ ClientOpen) =>
        \A z \in Retained : told[z] = retained[z] /\ status[z] = "sent"

\* The only socket left open is the client's, it is the newest one accepted,
\* and the lifecycle says connected exactly while there is a client: a replaced,
\* failed or stopped connection is never leaked or reported.
OneClient ==
    /\ \A c \in Conn : sock[c] = "open" => c = client
    /\ client # 0 => client = lastId
    /\ lifecycle = "connected" <=> client # 0

\* The hub closes the client's connection only to replace it, to stop, or
\* because a write to that very connection failed.
OnlyOwnFailure ==
    [][(ClientOpen /\ client' = client /\ sock'[client] = "destroyed")
          => write.conn = client]_vars

\* The requests waiting in a queue, oldest first
RequestOf(o) == [zone |-> o.zone, state |-> o.state]
Requests(q)  ==
    LET upTo[i \in 0..Len(q)] ==
            IF i = 0 THEN <<>>
            ELSE IF IsSet(q[i]) THEN Append(upTo[i - 1], RequestOf(q[i])) ELSE upTo[i - 1]
    IN  upTo[Len(q)]

\* What the client, if there is one, was told on its connection
Heard == IF ClientOpen THEN told ELSE [z \in Zone |-> Unset]

\* The panel implements ZoneMirror: requests apply in order, and a controller
\* that stays connected is told every zone.
Mirror == INSTANCE ZoneMirror WITH
    requests <- Requests(queue),
    current <- retained,
    linked <- ClientOpen,
    told <- Heard

MirrorsZones == Mirror!FairSpec

=============================================================================
