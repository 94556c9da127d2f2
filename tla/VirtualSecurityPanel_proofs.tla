-------------------- MODULE VirtualSecurityPanel_proofs --------------------
(***************************************************************************)
(* Proofs about VirtualSecurityPanel, for any zones and any number of      *)
(* connections and requests.                                               *)
(***************************************************************************)
EXTENDS VirtualSecurityPanel, Ascending_proofs, SequenceTheorems

\* Next, one disjunct per action.
LEMMA NextActions ==
    ASSUME Next
    PROVE  \/ ApplyUnchanged \/ ApplyRetained \/ ApplySend \/ ApplyFails
           \/ ResyncStart \/ ResyncSend \/ ResyncFails \/ ResyncDone
           \/ Sent \/ SendFailed
           \/ Listen
           \/ AcceptClient
           \/ \E c \in Conn : SocketGone(c)
           \/ WriteDone
           \/ WriteError
           \/ Stop
           \/ Stopped
           \/ \E z \in Zone \cup {0}, s \in State \cup {Unset} : SetDesiredState(z, s)
  BY DEF Next, Operation

-----------------------------------------------------------------------------
\* Numbers, sequences and sockets

\* The chain of operations and its first and last members
Operations == Request \cup Resync

LEMMA QueueHead ==
    ASSUME queue \in Seq(Operations), queue # <<>>
    PROVE  /\ Head(queue) \in Operations /\ Tail(queue) \in Seq(Operations)
           /\ Len(queue) \in Nat /\ Len(queue) >= 1 /\ Head(queue) = queue[1]
           /\ Len(Tail(queue)) = Len(queue) - 1
           /\ \A i \in 1..Len(queue) - 1 : Tail(queue)[i] = queue[i + 1]
  BY HeadTailProperties, LenProperties

LEMMA QueueLast ==
    ASSUME queue \in Seq(Operations), NEW o \in Operations
    PROVE  /\ Append(queue, o) \in Seq(Operations)
           /\ Len(queue) \in Nat /\ Len(Append(queue, o)) = Len(queue) + 1
           /\ \A i \in 1..Len(queue) : Append(queue, o)[i] = queue[i]
           /\ Append(queue, o)[Len(queue) + 1] = o
  BY AppendProperties, LenProperties

\* Requests and resynchronizations differ by their kind.
LEMMA Kinds ==
    /\ \A o \in Request : IsSet(o) /\ o.zone \in Zone /\ o.state \in State /\ o # NoOp
    /\ \A o \in Resync : ~IsSet(o) /\ o.kind = "resync" /\ o.todo \subseteq Zone /\ o # NoOp
    /\ ~IsSet(NoOp) /\ NoOp.kind # "resync"
  BY DEF Request, Resync, SetOp, ResyncOp, NoOp, IsSet

\* Destroying sockets keeps them in range.
LEMMA DestroyedType ==
    ASSUME sock \in [Conn -> SocketState], NEW C
    PROVE  Destroyed(C) \in [Conn -> SocketState]
  BY DEF Destroyed, SocketState

Write == {NoWrite} \cup [conn : Conn, zone : Zone, result : {"pending", "ok", "failed"}]

LEMMA WriteLostType ==
    ASSUME write \in Write, NEW c, WriteLost(c)
    PROVE  write' \in Write
  BY DEF Write, WriteLost, Pending, NoWrite

-----------------------------------------------------------------------------
\* Type correctness

\* An operation is applied, or retained, or its frame is written.
LEMMA ApplyType ==
    ASSUME TypeOK, ApplyUnchanged \/ ApplyRetained \/ ApplySend \/ ApplyFails
    PROVE  TypeOK'
<1>1. queue \in Seq(Operations) /\ queue # <<>> /\ IsSet(Head(queue))
  BY DEF TypeOK, Operations, ApplyUnchanged, ApplyRetained, ApplySend, ApplyFails, Free
<1>2. Head(queue) \in Request /\ Tail(queue) \in Seq(Operations)
  BY <1>1, QueueHead, Kinds DEF Operations
<1>3. Head(queue).zone \in Zone /\ Head(queue).state \in State
  BY <1>2, Kinds
<1>4. CASE ApplyUnchanged
  BY <1>2, <1>4 DEF TypeOK, Operations, ApplyUnchanged, transportVars
<1>5. CASE ApplyRetained
  BY <1>2, <1>3, <1>5 DEF TypeOK, Operations, ApplyRetained, transportVars, Delivery
<1>6. CASE ApplyFails
  BY <1>2, <1>3, <1>6 DEF TypeOK, Operations, ApplyFails, transportVars, Delivery
<1>7. CASE ApplySend
  <2>1. client \in Conn
    BY <1>7, BoundAssumption DEF ApplySend, Send, ClientOpen, TypeOK, Conn
  <2>2. write' \in Write
    BY <1>3, <1>7, <2>1 DEF ApplySend, Send, Write
  <2>3. /\ told' \in [Zone -> State \cup {Unset}]
        /\ retained' \in [Zone -> State \cup {Unset}]
        /\ status' \in [Zone -> Delivery]
    BY <1>3, <1>7 DEF ApplySend, Send, TypeOK, Delivery
  <2>4. QED
    BY <1>2, <1>7, <2>2, <2>3 DEF TypeOK, Operations, ApplySend, transportVars, Write
<1>8. QED
  BY <1>4, <1>5, <1>6, <1>7

\* A resynchronization goes on with the zones of its list.
LEMMA ResyncType ==
    ASSUME TypeOK, ResyncStart \/ ResyncSend \/ ResyncFails \/ ResyncDone
    PROVE  TypeOK'
<1>1. CASE ResyncStart
  <2>1. Tail(queue) \in Seq(Operations)
    BY <1>1, QueueHead DEF TypeOK, ResyncStart, Free, Operations
  <2>2. op' \in Resync
    BY <1>1 DEF ResyncStart, Resync, Retained
  <2>3. QED
    BY <1>1, <2>1, <2>2 DEF TypeOK, ResyncStart, transportVars, Operations
<1>2. CASE ResyncSend \/ ResyncFails \/ ResyncDone
  <2>1. op \in Resync
    BY <1>2, Kinds DEF ResyncSend, ResyncFails, ResyncDone, Syncing, TypeOK, IsSet
  <2>2. op.todo # {} => Min(op.todo) \in op.todo /\ Min(op.todo) \in Zone
    BY <2>1, MinOf, ZoneAssumption, Kinds
  <2>3. CASE ResyncSend
    <3>1. client \in Conn
      BY <2>3, BoundAssumption DEF ResyncSend, Send, ClientOpen, TypeOK, Conn
    <3>2. write' \in Write /\ told' \in [Zone -> State \cup {Unset}]
      BY <2>2, <2>3, <3>1 DEF ResyncSend, Send, Write, TypeOK
    <3>3. op' \in Resync
      BY <2>1, <2>3, Kinds DEF ResyncSend, Resync
    <3>4. QED
      BY <2>3, <3>2, <3>3 DEF TypeOK, ResyncSend, transportVars, Write
  <2>4. CASE ResyncFails
    BY <2>2, <2>4 DEF TypeOK, ResyncFails, transportVars, Delivery
  <2>5. CASE ResyncDone
    BY <2>5 DEF TypeOK, ResyncDone, transportVars
  <2>6. QED
    BY <1>2, <2>3, <2>4, <2>5
<1>3. QED
  BY <1>1, <1>2

\* A write that has ended leaves its mark on the status of its zone.
LEMMA SentType ==
    ASSUME TypeOK, Sent \/ SendFailed
    PROVE  TypeOK'
<1>1. write.zone \in Zone
  BY DEF Sent, SendFailed, TypeOK, NoWrite
<1>2. CASE Sent
  BY <1>1, <1>2 DEF TypeOK, Sent, transportVars, Delivery
<1>3. CASE SendFailed
  BY <1>1, <1>3, DestroyedType DEF TypeOK, SendFailed, Delivery
<1>4. QED
  BY <1>2, <1>3

LEMMA TransportType ==
    ASSUME TypeOK,
           \/ Listen \/ AcceptClient \/ WriteDone \/ WriteError \/ Stop \/ Stopped
           \/ \E c \in Conn : SocketGone(c)
    PROVE  TypeOK'
<1>1. CASE Listen
  BY <1>1 DEF TypeOK, Listen, panelVars, Lifecycle
<1>2. CASE AcceptClient
  <2>1. lastId + 1 \in Conn /\ lastId + 1 \in 0..MaxConnections
    BY <1>2, BoundAssumption DEF TypeOK, AcceptClient, Conn
  <2>2. sock' \in [Conn -> SocketState]
    BY <1>2, <2>1, DestroyedType DEF TypeOK, AcceptClient, SocketState
  <2>3. ResyncOp({}) \in Operations
    BY DEF Operations, Resync
  <2>4. queue' \in Seq(Operations)
    BY <1>2, <2>3, QueueLast DEF TypeOK, AcceptClient, Operations
  <2>5. told' \in [Zone -> State \cup {Unset}]
    BY <1>2 DEF AcceptClient
  <2>6. client' \in 0..lastId' /\ lastId' \in 0..MaxConnections
    BY <1>2, <2>1 DEF AcceptClient, Conn
  <2>7. QED
    BY <1>2, <2>2, <2>4, <2>5, <2>6 DEF TypeOK, AcceptClient, Operations, Lifecycle
<1>3. CASE WriteDone
  BY <1>3 DEF TypeOK, WriteDone, transportVars, panelVars, Pending, NoWrite
<1>4. CASE WriteError
  BY <1>4, WriteLostType DEF TypeOK, WriteError, transportVars, panelVars, Write
<1>5. CASE Stop
  BY <1>5, DestroyedType DEF TypeOK, Stop, panelVars, Lifecycle
<1>6. CASE Stopped
  BY <1>6 DEF TypeOK, Stopped, panelVars, Lifecycle
<1>7. ASSUME NEW c \in Conn, SocketGone(c) PROVE TypeOK'
  <2>1. write' \in Write
    BY <1>7, WriteLostType DEF TypeOK, SocketGone, Write
  <2>2. client' \in 0..lastId /\ lifecycle' \in Lifecycle
    BY <1>7 DEF TypeOK, SocketGone, HandleUnavailable, Lifecycle
  <2>3. sock' \in [Conn -> SocketState]
    BY <1>7 DEF TypeOK, SocketGone, SocketState
  <2>4. QED
    BY <1>7, <2>1, <2>2, <2>3 DEF TypeOK, SocketGone, panelVars, Write
<1>8. QED
  BY <1>1, <1>2, <1>3, <1>4, <1>5, <1>6, <1>7

LEMMA RequestType ==
    ASSUME TypeOK, NEW z, NEW s, SetDesiredState(z, s)
    PROVE  TypeOK'
<1>1. SetOp(z, s) \in Operations
  BY DEF SetDesiredState, Operations, Request
<1>2. queue' \in Seq(Operations)
  BY <1>1, QueueLast DEF SetDesiredState, TypeOK, Operations
<1>3. made' \in 0..MaxRequests
  BY BoundAssumption DEF SetDesiredState, TypeOK
<1>4. QED
  BY <1>2, <1>3 DEF TypeOK, SetDesiredState, transportVars, Operations

\* Every variable stays in its range.
THEOREM TypeCorrect == Spec => []TypeOK
<1>1. Init => TypeOK
  <2> SUFFICES ASSUME Init PROVE TypeOK
    OBVIOUS
  <2>1. queue \in Seq(Operations)
    BY DEF Init
  <2>2. retained \in [Zone -> State \cup {Unset}] /\ status \in [Zone -> Delivery]
    BY DEF Init, State, Delivery
  <2>3. client \in 0..lastId /\ lastId \in 0..MaxConnections /\ made \in 0..MaxRequests
    BY BoundAssumption DEF Init
  <2>4. QED
    BY <2>1, <2>2, <2>3 DEF Init, TypeOK, Lifecycle, SocketState, Operations
<1>2. TypeOK /\ [Next]_vars => TypeOK'
  <2>1. TypeOK /\ Next => TypeOK'
    BY NextActions, ApplyType, ResyncType, SentType, TransportType, RequestType
  <2>2. TypeOK /\ UNCHANGED vars => TypeOK'
    BY DEF TypeOK, vars
  <2>3. QED
    BY <2>1, <2>2
<1>3. QED
  BY <1>1, <1>2, PTL DEF Spec

-----------------------------------------------------------------------------
\* One client

LEMMA OneClientStep ==
    ASSUME TypeOK, OneClient, [Next]_vars
    PROVE  OneClient'
<1> USE DEF OneClient
<1>1. CASE \/ ApplyUnchanged \/ ApplyRetained \/ ApplySend \/ ApplyFails
           \/ ResyncStart \/ ResyncSend \/ ResyncFails \/ ResyncDone
           \/ Sent \/ WriteDone \/ WriteError \/ UNCHANGED vars
           \/ \E z \in Zone \cup {0}, s \in State \cup {Unset} : SetDesiredState(z, s)
  <2>1. UNCHANGED transportVars
    BY <1>1 DEF ApplyUnchanged, ApplyRetained, ApplySend, ApplyFails, ResyncStart, ResyncSend,
                ResyncFails, ResyncDone, Sent, WriteDone, WriteError, SetDesiredState, vars,
                transportVars
  <2>2. QED
    BY <2>1 DEF transportVars
<1>2. CASE SendFailed
  BY <1>2 DEF SendFailed, Destroyed, TypeOK
<1>3. CASE Listen
  BY <1>3 DEF Listen
<1>4. CASE AcceptClient
  <2>1. lastId + 1 \in Conn
    BY <1>4, BoundAssumption DEF TypeOK, AcceptClient, Conn
  <2>2. \A c \in Conn : c # lastId + 1 => sock'[c] # "open"
    BY <1>4, <2>1 DEF AcceptClient, Destroyed, TypeOK
  <2>3. client' = lastId + 1 /\ lastId' = lastId + 1 /\ lifecycle' = "connected"
    BY <1>4 DEF AcceptClient
  <2>4. lastId + 1 # 0
    BY BoundAssumption DEF TypeOK
  <2>5. QED
    BY <2>2, <2>3, <2>4
<1>5. ASSUME NEW c \in Conn, SocketGone(c) PROVE OneClient'
  <2>1. \A d \in Conn : sock'[d] = "open" => d # c /\ sock[d] = "open"
    BY <1>5 DEF SocketGone, TypeOK
  <2>2. c # 0
    BY BoundAssumption DEF Conn
  <2>3. QED
    BY <1>5, <2>1, <2>2 DEF SocketGone, HandleUnavailable
<1>6. CASE Stop
  BY <1>6 DEF Stop, Destroyed, TypeOK
<1>7. CASE Stopped
  BY <1>7 DEF Stopped
<1>8. QED
  BY <1>1, <1>2, <1>3, <1>4, <1>5, <1>6, <1>7, NextActions

\* The only socket left open is the client's, it is the newest one, and the
\* lifecycle says connected exactly while there is a client: a replaced, failed
\* or stopped connection is never leaked or reported.
THEOREM SingleClient == Spec => []OneClient
<1>1. Init => OneClient
  BY DEF Init, OneClient
<1>2. TypeOK /\ OneClient /\ [Next]_vars => OneClient'
  BY OneClientStep
<1>3. QED
  BY <1>1, <1>2, TypeCorrect, PTL DEF Spec

-----------------------------------------------------------------------------
\* What a connected controller knows

\* A resynchronization waits in the queue.
ResyncQueued == \E i \in 1..Len(queue) : ~IsSet(queue[i])

\* The client was told the zone, or will be: by a resynchronization that waits
\* or still has the zone ahead of it, by the write in progress, or a failed
\* write is about to end the connection.
Covered(z) ==
    \/ told[z] = retained[z] /\ status[z] = "sent"
    \/ ResyncQueued
    \/ op.kind = "resync" /\ z \in op.todo
    \/ write.result = "failed"
    \/ /\ write.zone = z /\ write.conn = client /\ write # NoWrite
       /\ told[z] = retained[z]

\* A write belongs to the operation in progress and to a connection there was,
\* and a set operation in progress waits for its write.
AgreeInv ==
    /\ write # NoWrite => op # NoOp /\ write.conn <= lastId
    /\ IsSet(op) => write # NoWrite
    /\ ClientOpen => \A z \in Retained : Covered(z)

\* What an operation leaves of the queue
LEMMA QueuedAfterSet ==
    ASSUME TypeOK, queue # <<>>, IsSet(Head(queue)), queue' = Tail(queue), ResyncQueued
    PROVE  ResyncQueued'
<1>1. PICK i \in 1..Len(queue) : ~IsSet(queue[i])
  BY DEF ResyncQueued
<1>2. /\ Len(queue) \in Nat /\ Head(queue) = queue[1] /\ Len(Tail(queue)) = Len(queue) - 1
      /\ \A j \in 1..Len(queue) - 1 : Tail(queue)[j] = queue[j + 1]
  BY QueueHead DEF TypeOK, Operations
<1>3. i - 1 \in 1..Len(queue) - 1
  BY <1>1, <1>2
<1>4. Tail(queue)[i - 1] = queue[i]
  BY <1>2, <1>3
<1>5. QED
  BY <1>1, <1>2, <1>3, <1>4 DEF ResyncQueued, IsSet

LEMMA QueuedAfterAppend ==
    ASSUME TypeOK, NEW o \in Operations, queue' = Append(queue, o), ResyncQueued \/ ~IsSet(o)
    PROVE  ResyncQueued'
<1>1. /\ Len(queue) \in Nat /\ Len(queue') = Len(queue) + 1
      /\ \A i \in 1..Len(queue) : queue'[i] = queue[i]
      /\ queue'[Len(queue) + 1] = o
  BY QueueLast DEF TypeOK, Operations
<1>2. Len(queue) + 1 \in 1..Len(queue')
  BY <1>1
<1>3. \A i \in 1..Len(queue) : i \in 1..Len(queue')
  BY <1>1
<1>4. QED
  BY <1>1, <1>2, <1>3 DEF ResyncQueued, IsSet

\* The operations that change a zone
LEMMA AgreeApply ==
    ASSUME TypeOK, AgreeInv, ApplyUnchanged \/ ApplyRetained \/ ApplySend \/ ApplyFails
    PROVE  AgreeInv'
<1>1. /\ queue # <<>> /\ IsSet(Head(queue)) /\ queue' = Tail(queue) /\ op = NoOp
      /\ UNCHANGED <<client, lastId, sock>>
  BY DEF ApplyUnchanged, ApplyRetained, ApplySend, ApplyFails, Free, transportVars
<1>2. ResyncQueued => ResyncQueued'
  BY <1>1, QueuedAfterSet
<1>3. write = NoWrite
  BY <1>1 DEF AgreeInv
<1>4. ASSUME NEW z, Covered(z)
      PROVE  (told[z] = retained[z] /\ status[z] = "sent") \/ ResyncQueued'
  BY <1>1, <1>2, <1>3, <1>4, Kinds DEF Covered, NoWrite, NoOp
<1>5. CASE ApplyUnchanged
  <2>1. UNCHANGED <<op, write, told, retained, status>>
    BY <1>5 DEF ApplyUnchanged
  <2>2. QED
    BY <1>1, <1>4, <2>1 DEF AgreeInv, Covered, ClientOpen, Retained, ResyncQueued
<1>6. CASE ApplyRetained \/ ApplyFails
  <2>1. ~ClientOpen' /\ UNCHANGED <<op, write>>
    BY <1>1, <1>6 DEF ApplyRetained, ApplyFails, ClientOpen, transportVars
  <2>2. QED
    BY <1>1, <2>1 DEF AgreeInv, IsSet
<1>7. CASE ApplySend
  <2> DEFINE z == Head(queue).zone
             s == Head(queue).state
  <2>1. Head(queue) \in Request /\ z \in Zone /\ s \in State
    BY <1>1, QueueHead, Kinds DEF TypeOK, Operations
  <2>2. /\ write' = [conn |-> client, zone |-> z, result |-> "pending"] /\ op' = Head(queue)
        /\ told' = [told EXCEPT ![z] = s]
        /\ retained' = [retained EXCEPT ![z] = s]
        /\ status' = [status EXCEPT ![z] = "never_sent"]
        /\ ClientOpen
    BY <1>7 DEF ApplySend, Send
  <2>3. write' # NoWrite /\ write'.zone = z /\ write'.conn = client /\ op' # NoOp
    BY <2>1, <2>2, Kinds DEF NoWrite
  <2>4. write'.conn <= lastId'
    BY <1>1, <2>3, BoundAssumption DEF TypeOK
  <2>5. ASSUME NEW y \in Retained' PROVE Covered(y)'
    <3>1. y \in Zone
      BY DEF Retained
    <3>2. CASE y = z
      <4>1. told'[y] = retained'[y]
        BY <2>1, <2>2, <3>2 DEF TypeOK
      <4>2. QED
        BY <1>1, <2>3, <3>2, <4>1 DEF Covered
    <3>3. CASE y # z
      <4>1. told'[y] = told[y] /\ retained'[y] = retained[y] /\ status'[y] = status[y]
        BY <2>2, <3>1, <3>3 DEF TypeOK
      <4>2. Covered(y)
        BY <2>2, <3>1, <4>1 DEF AgreeInv, Retained
      <4>3. QED
        BY <1>4, <4>1, <4>2 DEF Covered
    <3>4. QED
      BY <3>2, <3>3
  <2>6. QED
    BY <2>3, <2>4, <2>5 DEF AgreeInv
<1>8. QED
  BY <1>5, <1>6, <1>7

\* The resynchronization
LEMMA AgreeResync ==
    ASSUME TypeOK, AgreeInv, ResyncStart \/ ResyncSend \/ ResyncFails \/ ResyncDone
    PROVE  AgreeInv'
<1>1. UNCHANGED <<client, lastId, sock, retained>>
  BY DEF ResyncStart, ResyncSend, ResyncFails, ResyncDone, transportVars
<1>2. ClientOpen' = ClientOpen /\ Retained' = Retained
  BY <1>1 DEF ClientOpen, Retained
<1>3. CASE ResyncStart
  <2>1. op' = ResyncOp(Retained) /\ UNCHANGED <<write, told, status>> /\ op = NoOp
    BY <1>3 DEF ResyncStart, Free
  <2>2. op' \in Resync /\ op'.kind = "resync" /\ op'.todo = Retained /\ op' # NoOp /\ ~IsSet(op')
    BY <2>1 DEF Resync, ResyncOp, Retained, NoOp, IsSet
  <2>3. \A z \in Retained : Covered(z)'
    BY <2>2 DEF Covered
  <2>4. write' = NoWrite
    BY <2>1 DEF AgreeInv
  <2>5. QED
    BY <1>2, <2>2, <2>3, <2>4 DEF AgreeInv, IsSet
<1>4. CASE ResyncSend
  <2>0. op \in Resync /\ op.kind = "resync" /\ write = NoWrite
    BY <1>4, Kinds DEF ResyncSend, Syncing, TypeOK, IsSet
  <2>1. PICK z \in op.todo : z = Min(op.todo)
    BY <1>4, <2>0, MinOf, ZoneAssumption, Kinds DEF ResyncSend
  <2>2. z \in Zone /\ client <= lastId
    BY <2>0, Kinds, BoundAssumption DEF TypeOK
  <2>3. /\ write' = [conn |-> client, zone |-> z, result |-> "pending"]
        /\ told' = [told EXCEPT ![z] = retained[z]]
        /\ op' = ResyncOp(op.todo \ {z})
        /\ UNCHANGED <<status, queue>>
    BY <1>4, <2>1 DEF ResyncSend, Send
  <2>4. /\ op'.kind = "resync" /\ op'.todo = op.todo \ {z} /\ op' # NoOp /\ ~IsSet(op')
        /\ write' # NoWrite /\ write'.zone = z /\ write'.conn = client'
    BY <1>1, <2>2, <2>3 DEF ResyncOp, NoOp, NoWrite, IsSet
  <2>5. ASSUME NEW y \in Retained, Covered(y) PROVE Covered(y)'
    <3>1. CASE y = z
      <4>1. told'[y] = retained'[y]
        BY <1>1, <2>2, <2>3, <3>1 DEF TypeOK
      <4>2. QED
        BY <2>4, <3>1, <4>1 DEF Covered
    <3>2. CASE y # z
      <4>1. told'[y] = told[y] /\ retained'[y] = retained[y] /\ status'[y] = status[y]
        BY <1>1, <2>3, <3>2 DEF TypeOK
      <4>2. y \in op.todo => y \in op'.todo
        BY <2>4, <3>2
      <4>3. QED
        BY <2>0, <2>3, <2>4, <2>5, <4>1, <4>2 DEF Covered, ResyncQueued, NoWrite
    <3>3. QED
      BY <3>1, <3>2
  <2>6. write'.conn <= lastId'
    BY <1>1, <2>2, <2>4
  <2>7. QED
    BY <1>2, <2>4, <2>5, <2>6 DEF AgreeInv, IsSet
<1>5. CASE ResyncFails
  <2>1. ~ClientOpen /\ write = NoWrite /\ UNCHANGED write /\ op' = NoOp
    BY <1>5 DEF ResyncFails, Syncing
  <2>2. QED
    BY <1>2, <2>1, Kinds DEF AgreeInv, IsSet
<1>6. CASE ResyncDone
  <2>1. /\ write = NoWrite /\ op.todo = {} /\ op' = NoOp
        /\ UNCHANGED <<write, told, status, queue>>
    BY <1>6 DEF ResyncDone, Syncing
  <2>2. \A z : Covered(z) => Covered(z)'
    BY <1>1, <2>1 DEF Covered, ResyncQueued, NoWrite
  <2>3. QED
    BY <1>2, <2>1, <2>2, Kinds DEF AgreeInv, IsSet
<1>7. QED
  BY <1>3, <1>4, <1>5, <1>6

\* A write that has ended well makes its zone sent; one that failed ends the
\* connection.
LEMMA AgreeSent ==
    ASSUME TypeOK, AgreeInv, Sent \/ SendFailed
    PROVE  AgreeInv'
<1>1. CASE Sent
  <2>1. /\ write.result = "ok" /\ write' = NoWrite
        /\ status' = [status EXCEPT ![write.zone] = "sent"]
        /\ op' = IF IsSet(op) THEN NoOp ELSE op
        /\ UNCHANGED <<client, lastId, sock, retained, queue, told>>
    BY <1>1 DEF Sent, transportVars
  <2>2. ASSUME NEW z \in Retained, Covered(z) PROVE Covered(z)'
    <3>1. z \in Zone /\ (status'[z] = status[z] \/ status'[z] = "sent")
      BY <2>1 DEF Retained, TypeOK
    <3>2. CASE op.kind = "resync" /\ z \in op.todo
      BY <2>1, <3>2 DEF Covered, IsSet
    <3>3. CASE write.zone = z /\ told[z] = retained[z]
      BY <2>1, <3>1, <3>3 DEF Covered, TypeOK
    <3>4. CASE (told[z] = retained[z] /\ status[z] = "sent") \/ ResyncQueued
      BY <2>1, <3>1, <3>4 DEF Covered, ResyncQueued
    <3>5. QED
      BY <2>1, <2>2, <3>2, <3>3, <3>4 DEF Covered
  <2>3. ~IsSet(op')
    BY <2>1, Kinds
  <2>4. QED
    BY <2>1, <2>2, <2>3 DEF AgreeInv, ClientOpen, Retained, IsSet
<1>2. CASE SendFailed
  <2>1. /\ write' = NoWrite /\ op' = NoOp /\ client' = client
        /\ sock' = Destroyed({client})
    BY <1>2 DEF SendFailed
  <2>2. ~ClientOpen'
    BY <2>1, BoundAssumption DEF ClientOpen, Destroyed, TypeOK, Conn
  <2>3. QED
    BY <2>1, <2>2, Kinds DEF AgreeInv, IsSet
<1>3. QED
  BY <1>1, <1>2

\* A new connection finds its resynchronization in the queue.
LEMMA AgreeAccept ==
    ASSUME TypeOK, AgreeInv, AcceptClient
    PROVE  AgreeInv'
<1>1. ResyncOp({}) \in Operations /\ ~IsSet(ResyncOp({}))
  BY DEF Operations, Resync, ResyncOp, IsSet
<1>2. ResyncQueued'
  BY <1>1, QueuedAfterAppend DEF AcceptClient
<1>3. lastId' = lastId + 1 /\ UNCHANGED <<op, write>> /\ lastId \in Nat
  BY BoundAssumption DEF AcceptClient, TypeOK
<1>4. write # NoWrite => write.conn <= lastId'
  <2>1. write # NoWrite => write.conn \in Nat
    BY BoundAssumption DEF TypeOK, Conn
  <2>2. QED
    BY <1>3, <2>1 DEF AgreeInv
<1>5. QED
  BY <1>2, <1>3, <1>4 DEF AgreeInv, Covered, IsSet

\* A connection that ends is not the client's any more, and a write to another
\* one, if it fails, is still in progress.
LEMMA AgreeGone ==
    ASSUME TypeOK, AgreeInv, NEW c \in Conn, SocketGone(c)
    PROVE  AgreeInv'
<1>1. /\ UNCHANGED <<lastId, retained, status, queue, op, told>>
      /\ client' = IF client = c THEN 0 ELSE client
      /\ sock' = [sock EXCEPT ![c] = "closed"]
      /\ WriteLost(c)
  BY DEF SocketGone, HandleUnavailable, panelVars
<1>2. /\ write = NoWrite => write' = NoWrite
      /\ write # NoWrite => /\ write' # NoWrite /\ write'.conn = write.conn
                            /\ write'.zone = write.zone
      /\ write' = write \/ write'.result = "failed"
  BY <1>1 DEF WriteLost, Pending, NoWrite, TypeOK
<1>3. ClientOpen' => ClientOpen /\ client' = client
  BY <1>1, BoundAssumption DEF ClientOpen, TypeOK, Conn
<1>4. ASSUME NEW z \in Retained, ClientOpen', Covered(z) PROVE Covered(z)'
  BY <1>1, <1>2, <1>3, <1>4 DEF Covered, ResyncQueued
<1>5. Retained' = Retained
  BY <1>1 DEF Retained
<1>6. QED
  BY <1>1, <1>2, <1>3, <1>4, <1>5 DEF AgreeInv, IsSet

\* The transport's other callbacks, and the requests
LEMMA AgreeRest ==
    ASSUME TypeOK, AgreeInv,
           \/ Listen \/ WriteDone \/ WriteError \/ Stop \/ Stopped \/ UNCHANGED vars
           \/ \E z \in Zone \cup {0}, s \in State \cup {Unset} : SetDesiredState(z, s)
    PROVE  AgreeInv'
<1>1. CASE Listen \/ Stopped \/ UNCHANGED vars
  <2>1. UNCHANGED <<client, lastId, sock, retained, status, queue, op, write, told>>
    BY <1>1 DEF Listen, Stopped, vars, panelVars
  <2>2. QED
    BY <2>1 DEF AgreeInv, Covered, ResyncQueued, Retained, ClientOpen, IsSet
<1>2. CASE WriteDone \/ WriteError
  <2>1. UNCHANGED <<client, lastId, sock, retained, status, queue, op, told>>
    BY <1>2 DEF WriteDone, WriteError, panelVars, transportVars
  <2>2. /\ write # NoWrite /\ write.result = "pending" /\ write' # NoWrite
        /\ write'.conn = write.conn /\ write'.zone = write.zone
    BY <1>2 DEF WriteDone, WriteError, WriteLost, Pending, NoWrite, TypeOK
  <2>3. \A z : Covered(z) => Covered(z)'
    BY <2>1, <2>2 DEF Covered, ResyncQueued
  <2>4. QED
    BY <2>1, <2>2, <2>3 DEF AgreeInv, Retained, ClientOpen, IsSet
<1>3. CASE Stop
  <2>1. client' = 0 /\ UNCHANGED <<lastId, op, write>>
    BY <1>3 DEF Stop, panelVars
  <2>2. QED
    BY <2>1 DEF AgreeInv, ClientOpen, IsSet
<1>4. ASSUME NEW z, NEW s, SetDesiredState(z, s) PROVE AgreeInv'
  <2>1. /\ UNCHANGED <<client, lastId, sock, retained, status, op, write, told>>
        /\ SetOp(z, s) \in Operations
        /\ queue' = Append(queue, SetOp(z, s))
    BY <1>4 DEF SetDesiredState, transportVars, Operations, Request
  <2>2. ResyncQueued => ResyncQueued'
    BY <2>1, QueuedAfterAppend
  <2>3. QED
    BY <2>1, <2>2 DEF AgreeInv, Covered, Retained, ClientOpen, IsSet
<1>5. QED
  BY <1>1, <1>2, <1>3, <1>4

\* AgreeInv holds in every reachable state.
LEMMA Agreeing == Spec => []AgreeInv
<1>1. Init => AgreeInv
  BY Kinds DEF Init, AgreeInv, ClientOpen, IsSet
<1>2. TypeOK /\ AgreeInv /\ [Next]_vars => AgreeInv'
  BY NextActions, AgreeApply, AgreeResync, AgreeSent, AgreeAccept, AgreeGone, AgreeRest
<1>3. QED
  BY <1>1, <1>2, TypeCorrect, PTL DEF Spec

\* With no operation left to run, an open client has been sent the retained
\* state of every zone on its own connection: no overlap of replacements,
\* failures and queued changes leaves a controller with a stale zone.
THEOREM ClientInformed == Spec => []ClientAgrees
<1>1. TypeOK /\ AgreeInv => ClientAgrees
  <2> SUFFICES ASSUME TypeOK, AgreeInv, Idle, ClientOpen, NEW z \in Retained
               PROVE  told[z] = retained[z] /\ status[z] = "sent"
    BY DEF ClientAgrees
  <2>1. op = NoOp /\ queue = <<>> /\ write = NoWrite
    BY DEF Idle, AgreeInv
  <2>2. ~ResyncQueued
    BY <2>1 DEF ResyncQueued
  <2>3. Covered(z)
    BY DEF AgreeInv
  <2>4. QED
    BY <2>1, <2>2, <2>3, Kinds DEF Covered, NoWrite
<1>2. QED
  BY <1>1, TypeCorrect, Agreeing, PTL

-----------------------------------------------------------------------------
\* The requests of a queue, as a function of how much of it is looked at. The
\* recursion is unfolded by hand: the least place where it fails is no place.
Asked == [zone : Zone, state : State]

UpTo(f, q, n) ==
    f = [i \in 0..n |->
            IF i = 0 THEN <<>>
            ELSE IF IsSet(q[i]) THEN Append(f[i - 1], RequestOf(q[i])) ELSE f[i - 1]]

LEMMA UpToRule ==
    ASSUME NEW q, NEW n \in Nat, NEW f, UpTo(f, q, n)
    PROVE  /\ DOMAIN f = 0..n /\ f[0] = <<>> /\ f = [i \in 0..n |-> f[i]]
           /\ \A i \in 1..n : /\ i \in 0..n /\ i - 1 \in 0..n
                              /\ IsSet(q[i]) => f[i] = Append(f[i - 1], RequestOf(q[i]))
                              /\ ~IsSet(q[i]) => f[i] = f[i - 1]
<1> DEFINE F(i) == IF i = 0 THEN <<>>
                   ELSE IF IsSet(q[i]) THEN Append(f[i - 1], RequestOf(q[i])) ELSE f[i - 1]
<1>1. f = [i \in 0..n |-> F(i)]
  BY DEF UpTo
<1>2. \A i \in 1..n : i \in 0..n /\ i - 1 \in 0..n /\ i # 0
  OBVIOUS
<1>3. F(0) = <<>> /\ \A i \in 1..n : F(i) = IF IsSet(q[i]) THEN Append(f[i - 1], RequestOf(q[i]))
                                            ELSE f[i - 1]
  BY <1>2
<1> HIDE DEF F
<1>4. DOMAIN f = 0..n /\ \A i \in 0..n : f[i] = F(i)
  BY <1>1
<1>5. f = [i \in 0..n |-> f[i]]
  BY <1>1, <1>4
<1>6. 0 \in 0..n
  OBVIOUS
<1>7. QED
  BY <1>2, <1>3, <1>4, <1>5, <1>6

LEMMA UpToUnique ==
    ASSUME NEW q, NEW n \in Nat, NEW f, UpTo(f, q, n), NEW g, UpTo(g, q, n)
    PROVE  f = g
<1> DEFINE Differ == {i \in 0..n : f[i] # g[i]}
<1>1. f = [i \in 0..n |-> f[i]] /\ g = [i \in 0..n |-> g[i]]
  BY UpToRule
<1>2. SUFFICES ASSUME Differ # {} PROVE FALSE
  <2>1. ASSUME Differ = {} PROVE f = g
    <3>1. \A i \in 0..n : f[i] = g[i]
      BY <2>1
    <3>2. QED
      BY <1>1, <3>1
  <2>2. QED
    BY <2>1
<1>3. PICK i \in Differ : \A j \in Differ : i <= j
  <2>1. Differ \in SUBSET Nat
    OBVIOUS
  <2> HIDE DEF Differ
  <2>2. QED
    BY <1>2, <2>1, LeastOf
<1>4. i \in 0..n /\ f[i] # g[i]
  OBVIOUS
<1>5. i # 0
  BY <1>4, UpToRule
<1>6. i \in 1..n /\ i - 1 \in 0..n /\ i - 1 < i /\ ~(i <= i - 1)
  BY <1>4, <1>5
<1>7. f[i - 1] = g[i - 1]
  BY <1>3, <1>6
<1>8. QED
  BY <1>4, <1>6, <1>7, UpToRule

\* One more operation looked at
LEMMA UpToNext ==
    ASSUME NEW q \in Seq(Operations), NEW n \in Nat, n + 1 <= Len(q),
           NEW f \in [0..n -> Seq(Asked)], UpTo(f, q, n)
    PROVE  \E g \in [0..(n + 1) -> Seq(Asked)] : UpTo(g, q, n + 1)
<1> DEFINE last == IF IsSet(q[n + 1]) THEN Append(f[n], RequestOf(q[n + 1])) ELSE f[n]
           g    == [i \in 0..(n + 1) |-> IF i <= n THEN f[i] ELSE last]
<1>1. f[n] \in Seq(Asked)
  OBVIOUS
<1>2. last \in Seq(Asked)
  <2>1. q[n + 1] \in Operations
    OBVIOUS
  <2>2. IsSet(q[n + 1]) => RequestOf(q[n + 1]) \in Asked
    BY <2>1, Kinds DEF Operations, RequestOf, Asked
  <2>3. QED
    BY <1>1, <2>2, AppendProperties
<1>3. /\ g[n + 1] = last /\ n + 1 \in 0..(n + 1) /\ n + 1 # 0 /\ (n + 1) - 1 = n
      /\ \A i \in 0..n : i \in 0..(n + 1) /\ g[i] = f[i]
      /\ \A i \in 0..(n + 1) : i \in 0..n \/ i = n + 1
  OBVIOUS
<1>4. g \in [0..(n + 1) -> Seq(Asked)]
  <2>1. \A i \in 0..(n + 1) : g[i] \in Seq(Asked)
    BY <1>2, <1>3
  <2>2. QED
    BY <2>1
<1> DEFINE G(i) == IF i = 0 THEN <<>>
                   ELSE IF IsSet(q[i]) THEN Append(g[i - 1], RequestOf(q[i])) ELSE g[i - 1]
<1>5. G(n + 1) = last
  BY <1>3
<1>6. g = [i \in 0..(n + 1) |-> g[i]]
  OBVIOUS
<1> HIDE DEF g, last
<1>7. \A i \in 0..n : g[i] = G(i)
  <2>1. g[0] = <<>> /\ G(0) = <<>>
    BY <1>3, UpToRule
  <2>2. ASSUME NEW i \in 1..n PROVE g[i] = G(i)
    <3>1. i \in 0..n /\ i - 1 \in 0..n /\ i # 0
      OBVIOUS
    <3>2. g[i] = f[i] /\ g[i - 1] = f[i - 1]
      BY <1>3, <3>1
    <3>3. f[i] = IF IsSet(q[i]) THEN Append(f[i - 1], RequestOf(q[i])) ELSE f[i - 1]
      BY UpToRule
    <3>4. QED
      BY <3>1, <3>2, <3>3
  <2>3. \A i \in 0..n : i = 0 \/ i \in 1..n
    OBVIOUS
  <2> HIDE DEF G
  <2>4. QED
    BY <2>1, <2>2, <2>3
<1>8. g = [i \in 0..(n + 1) |-> G(i)]
  <2> HIDE DEF G
  <2>1. QED
    BY <1>3, <1>5, <1>6, <1>7
<1>9. UpTo(g, q, n + 1)
  BY <1>8 DEF UpTo
<1>10. QED
  BY <1>4, <1>9

LEMMA UpToExists ==
    ASSUME NEW q \in Seq(Operations), NEW n \in Nat, n <= Len(q)
    PROVE  \E f \in [0..n -> Seq(Asked)] : UpTo(f, q, n)
<1> DEFINE Has(m) == \E f \in [0..m -> Seq(Asked)] : UpTo(f, q, m)
           Bad    == {m \in 0..Len(q) : ~Has(m)}
<1>1. Len(q) \in Nat /\ Bad \in SUBSET Nat
  BY LenProperties
<1>2. SUFFICES ASSUME Bad # {} PROVE FALSE
  <2>1. n \in 0..Len(q)
    BY <1>1
  <2> HIDE DEF Has
  <2>2. ASSUME Bad = {} PROVE Has(n)
    BY <2>1, <2>2
  <2>3. QED
    BY <2>2 DEF Has
<1>3. PICK m \in Bad : \A k \in Bad : m <= k
  <2> HIDE DEF Bad
  <2>1. QED
    BY <1>1, <1>2, LeastOf
<1>4. m \in 0..Len(q) /\ ~Has(m)
  OBVIOUS
<1>5. m # 0
  <2>1. Has(0)
    <3> DEFINE e == [i \in 0..0 |-> <<>>]
    <3>1. <<>> \in Seq(Asked)
      OBVIOUS
    <3>2. e \in [0..0 -> Seq(Asked)]
      BY <3>1
    <3>3. UpTo(e, q, 0)
      BY DEF UpTo
    <3>4. QED
      BY <3>2, <3>3
  <2>2. QED
    BY <1>4, <2>1
<1>6. m - 1 \in Nat /\ m - 1 \in 0..Len(q) /\ ~(m <= m - 1) /\ (m - 1) + 1 <= Len(q) /\ (m - 1) + 1 = m
  BY <1>1, <1>4, <1>5
<1>7. Has(m - 1)
  <2>1. m - 1 \notin Bad
    <3> HIDE DEF Bad
    <3>1. QED
      BY <1>3, <1>6
  <2> HIDE DEF Has
  <2>2. QED
    BY <1>6, <2>1
<1>8. Has((m - 1) + 1)
  BY <1>6, <1>7, UpToNext
<1>9. QED
  <2> HIDE DEF Has
  <2>1. QED
    BY <1>4, <1>6, <1>8

\* What Requests is
LEMMA RequestsIs ==
    ASSUME NEW q, Len(q) \in Nat, NEW f, UpTo(f, q, Len(q))
    PROVE  Requests(q) = f[Len(q)]
<1> DEFINE c == CHOOSE g : UpTo(g, q, Len(q))
<1>1. UpTo(c, q, Len(q))
  OBVIOUS
<1>2. c = f
  BY <1>1, UpToUnique
<1>3. Requests(q) = c[Len(q)]
  BY DEF Requests, UpTo
<1>4. QED
  BY <1>2, <1>3

LEMMA UpToBy ==
    ASSUME NEW q, NEW n \in Nat, NEW f, f = [i \in 0..n |-> f[i]], f[0] = <<>>,
           \A i \in 1..n : f[i] = IF IsSet(q[i]) THEN Append(f[i - 1], RequestOf(q[i]))
                                  ELSE f[i - 1]
    PROVE  UpTo(f, q, n)
<1> DEFINE F(i) == IF i = 0 THEN <<>>
                   ELSE IF IsSet(q[i]) THEN Append(f[i - 1], RequestOf(q[i])) ELSE f[i - 1]
<1>1. \A i \in 0..n : i = 0 \/ (i \in 1..n /\ i # 0)
  OBVIOUS
<1>2. F(0) = <<>> /\ \A i \in 1..n : i # 0 => F(i) = f[i]
  OBVIOUS
<1> HIDE DEF F
<1>3. \A i \in 0..n : f[i] = F(i)
  BY <1>1, <1>2
<1>4. f = [i \in 0..n |-> F(i)]
  BY <1>3
<1>5. QED
  BY <1>4 DEF UpTo, F

\* An operation that joins the queue comes after the requests there are.
LEMMA RequestsAppend ==
    ASSUME NEW q \in Seq(Operations), NEW o \in Operations
    PROVE  /\ IsSet(o) => Requests(Append(q, o)) = Append(Requests(q), RequestOf(o))
           /\ ~IsSet(o) => Requests(Append(q, o)) = Requests(q)
<1> DEFINE n == Len(q)
           p == Append(q, o)
<1>1. /\ n \in Nat /\ n + 1 \in Nat /\ p \in Seq(Operations) /\ Len(p) = n + 1 /\ p[n + 1] = o
      /\ \A i \in 1..n : p[i] = q[i]
  BY LenProperties, AppendProperties
<1> HIDE DEF n, p
<1>2. PICK g \in [0..(n + 1) -> Seq(Asked)] : UpTo(g, p, n + 1)
  BY <1>1, UpToExists
<1> DEFINE f == [i \in 0..n |-> g[i]]
<1>3. /\ f = [i \in 0..n |-> f[i]] /\ \A i \in 0..n : f[i] = g[i]
      /\ 0 \in 0..n /\ n \in 0..n /\ n + 1 \in 1..(n + 1) /\ (n + 1) - 1 = n
      /\ \A i \in 1..n : i \in 1..(n + 1) /\ i \in 0..n /\ i - 1 \in 0..n
  BY <1>1
<1> HIDE DEF f
<1>4. /\ g[0] = <<>>
      /\ \A i \in 1..(n + 1) : /\ IsSet(p[i]) => g[i] = Append(g[i - 1], RequestOf(p[i]))
                               /\ ~IsSet(p[i]) => g[i] = g[i - 1]
  <2> DEFINE m == n + 1
  <2>1. m \in Nat /\ UpTo(g, p, m)
    BY <1>1, <1>2
  <2> HIDE DEF m
  <2>2. /\ g[0] = <<>>
        /\ \A i \in 1..m : /\ IsSet(p[i]) => g[i] = Append(g[i - 1], RequestOf(p[i]))
                           /\ ~IsSet(p[i]) => g[i] = g[i - 1]
    BY <2>1, UpToRule
  <2>3. QED
    BY <2>2 DEF m
<1>5. UpTo(f, q, n)
  <2>1. f[0] = <<>>
    BY <1>3, <1>4
  <2>2. ASSUME NEW i \in 1..n
        PROVE  f[i] = IF IsSet(q[i]) THEN Append(f[i - 1], RequestOf(q[i])) ELSE f[i - 1]
    BY <1>1, <1>3, <1>4
  <2>3. QED
    BY <1>1, <1>3, <2>1, <2>2, UpToBy
<1>6. Requests(q) = g[n]
  BY <1>1, <1>3, <1>5, RequestsIs DEF n
<1>7. Requests(p) = g[n + 1]
  <2>1. Len(p) \in Nat /\ UpTo(g, p, Len(p))
    BY <1>1, <1>2
  <2>2. Requests(p) = g[Len(p)]
    BY <2>1, RequestsIs
  <2>3. QED
    BY <1>1, <2>2
<1>8. /\ IsSet(o) => g[n + 1] = Append(g[n], RequestOf(o))
      /\ ~IsSet(o) => g[n + 1] = g[n]
  BY <1>1, <1>3, <1>4
<1>9. QED
  BY <1>6, <1>7, <1>8 DEF p

\* A sequence that begins with r
LEMMA Begins ==
    ASSUME NEW S, NEW r \in S, NEW s \in Seq(S)
    PROVE  /\ <<r>> \o s \in Seq(S) /\ <<r>> \o s # <<>>
           /\ Head(<<r>> \o s) = r /\ Tail(<<r>> \o s) = s
           /\ \A e \in S : Append(<<r>> \o s, e) = <<r>> \o Append(s, e)
<1>1. <<r>> \in Seq(S) /\ Len(<<r>>) = 1 /\ Len(s) \in Nat
  BY LenProperties
<1>2. /\ <<r>> \o s \in Seq(S) /\ Len(<<r>> \o s) = 1 + Len(s)
      /\ \A i \in 1..(1 + Len(s)) : (<<r>> \o s)[i] = IF i <= 1 THEN <<r>>[i] ELSE s[i - 1]
  BY <1>1, ConcatProperties
<1>3. <<r>> \o s # <<>>
  BY <1>1, <1>2, EmptySeq
<1>4. Head(<<r>> \o s) = r
  BY <1>1, <1>2, <1>3
<1>5. Tail(<<r>> \o s) = s
  <2> DEFINE t == Tail(<<r>> \o s)
  <2>1. /\ t \in Seq(S) /\ Len(t) = Len(s)
        /\ \A i \in 1..Len(t) : t[i] = (<<r>> \o s)[i + 1]
    BY <1>1, <1>2, <1>3, HeadTailProperties
  <2> HIDE DEF t
  <2>2. \A i \in 1..Len(s) : i + 1 \in 1..(1 + Len(s)) /\ ~(i + 1 <= 1) /\ (i + 1) - 1 = i
    BY <1>1
  <2>3. \A i \in 1..Len(t) : t[i] = s[i]
    BY <1>2, <2>1, <2>2
  <2>4. t = s
    BY <2>1, <2>3, SeqEqual
  <2>5. QED
    BY <2>4 DEF t
<1>6. ASSUME NEW e \in S PROVE Append(<<r>> \o s, e) = <<r>> \o Append(s, e)
  <2>1. Append(<<r>> \o s, e) = (<<r>> \o s) \o <<e>> /\ Append(s, e) = s \o <<e>>
    BY <1>2, AppendIsConcat
  <2>2. <<e>> \in Seq(S)
    OBVIOUS
  <2>3. QED
    BY <1>1, <2>1, <2>2, ConcatAssociative
<1>7. QED
  BY <1>2, <1>3, <1>4, <1>5, <1>6

\* The operation that leaves the queue is the oldest one.
LEMMA RequestsTail ==
    ASSUME NEW q \in Seq(Operations), q # <<>>
    PROVE  /\ Requests(Tail(q)) \in Seq(Asked)
           /\ IsSet(Head(q)) => /\ RequestOf(Head(q)) \in Asked
                                /\ Requests(q) = <<RequestOf(Head(q))>> \o Requests(Tail(q))
           /\ ~IsSet(Head(q)) => Requests(q) = Requests(Tail(q))
<1> DEFINE h == Head(q)
           t == Tail(q)
           r == RequestOf(h)
           n == Len(t)
<1>1. /\ h \in Operations /\ t \in Seq(Operations) /\ n \in Nat /\ n + 1 \in Nat
      /\ Len(q) = n + 1 /\ q[1] = h
      /\ \A i \in 1..n : q[i + 1] = t[i]
  BY HeadTailProperties, LenProperties
<1>2. IsSet(h) => r \in Asked
  BY <1>1, Kinds DEF Operations, RequestOf, Asked
<1> HIDE DEF h, t, n, r
<1>3. PICK g \in [0..n -> Seq(Asked)] : UpTo(g, t, n)
  <2>1. n <= Len(t)
    BY <1>1 DEF n
  <2>2. QED
    BY <1>1, <2>1, UpToExists
<1> DEFINE G(i) == IF IsSet(h) THEN <<r>> \o g[i] ELSE g[i]
           f == [j \in 0..(n + 1) |-> IF j = 0 THEN <<>> ELSE G(j - 1)]
<1>4. f[0] = <<>> /\ f = [j \in 0..(n + 1) |-> f[j]]
  <2>1. 0 \in 0..(n + 1)
    BY <1>1
  <2> HIDE DEF G
  <2>2. QED
    BY <2>1
<1>5. ASSUME NEW i \in 0..n PROVE f[i + 1] = G(i)
  <2>1. i + 1 \in 0..(n + 1) /\ i + 1 # 0 /\ (i + 1) - 1 = i
    BY <1>1
  <2> HIDE DEF G
  <2>2. QED
    BY <2>1
<1> HIDE DEF f
<1>6. g[0] = <<>> /\ \A i \in 0..n : g[i] \in Seq(Asked)
  BY <1>1, <1>3, UpToRule
<1>7. \A i \in 1..n : /\ IsSet(t[i]) => g[i] = Append(g[i - 1], RequestOf(t[i]))
                      /\ ~IsSet(t[i]) => g[i] = g[i - 1]
  BY <1>1, <1>3, UpToRule
<1>8. ASSUME NEW j \in 1..(n + 1)
      PROVE  f[j] = IF IsSet(q[j]) THEN Append(f[j - 1], RequestOf(q[j])) ELSE f[j - 1]
  <2>1. CASE j = 1
    <3>1. 0 \in 0..n /\ 0 + 1 = 1 /\ 1 - 1 = 0
      BY <1>1
    <3>2. f[1] = G(0)
      BY <1>5, <3>1
    <3>3. IsSet(h) => G(0) = <<r>>
      BY <1>2, <1>6, ConcatEmptySeq
    <3>4. ~IsSet(h) => G(0) = <<>>
      BY <1>6
    <3>5. Append(<<>>, r) = <<r>>
      OBVIOUS
    <3> HIDE DEF G
    <3>6. QED
      BY <1>1, <1>4, <2>1, <3>1, <3>2, <3>3, <3>4, <3>5 DEF r
  <2>2. ASSUME NEW i \in 1..n, j = i + 1
        PROVE  f[j] = IF IsSet(q[j]) THEN Append(f[j - 1], RequestOf(q[j])) ELSE f[j - 1]
    <3>1. i \in 0..n /\ i - 1 \in 0..n /\ (i - 1) + 1 = i /\ j - 1 = i
      BY <1>1, <2>2
    <3>2. f[j] = G(i) /\ f[i] = G(i - 1)
      BY <1>5, <2>2, <3>1
    <3>3. q[j] = t[i]
      BY <1>1, <2>2
    <3>4. IsSet(t[i]) => RequestOf(t[i]) \in Asked
      BY <1>1, Kinds DEF Operations, RequestOf, Asked
    <3>5. ASSUME IsSet(t[i]) PROVE G(i) = Append(G(i - 1), RequestOf(t[i]))
      <4>1. g[i] = Append(g[i - 1], RequestOf(t[i])) /\ g[i - 1] \in Seq(Asked)
        BY <1>6, <1>7, <3>1, <3>5
      <4>2. IsSet(h) => Append(<<r>> \o g[i - 1], RequestOf(t[i]))
                        = <<r>> \o Append(g[i - 1], RequestOf(t[i]))
        BY <1>2, <3>4, <3>5, <4>1, Begins
      <4>3. QED
        BY <4>1, <4>2
    <3>6. ~IsSet(t[i]) => G(i) = G(i - 1)
      BY <1>7
    <3> HIDE DEF G
    <3>7. QED
      BY <3>1, <3>2, <3>3, <3>5, <3>6
  <2>3. j = 1 \/ \E i \in 1..n : j = i + 1
    <3>1. j = 1 \/ (j - 1 \in 1..n /\ j = (j - 1) + 1)
      BY <1>1
    <3>2. QED
      BY <3>1
  <2>4. QED
    BY <2>1, <2>2, <2>3
<1>9. UpTo(f, q, n + 1)
  BY <1>1, <1>4, <1>8, UpToBy
<1>10. Requests(q) = G(n)
  <2>1. Len(q) \in Nat /\ UpTo(f, q, Len(q)) /\ n \in 0..n
    BY <1>1, <1>9
  <2>2. Requests(q) = f[Len(q)]
    BY <2>1, RequestsIs
  <2> HIDE DEF G
  <2>3. QED
    BY <1>1, <1>5, <2>1, <2>2
<1>11. Requests(t) = g[n] /\ g[n] \in Seq(Asked)
  <2>1. Len(t) \in Nat /\ UpTo(g, t, Len(t)) /\ n \in 0..n
    BY <1>1, <1>3 DEF n
  <2>2. QED
    BY <1>6, <2>1, RequestsIs DEF n
<1>12. QED
  BY <1>2, <1>10, <1>11 DEF h, t, r

\* Nothing waits in an empty queue.
LEMMA RequestsEmpty == Requests(<<>>) = <<>>
<1>1. <<>> \in Seq(Operations) /\ Len(<<>>) = 0
  OBVIOUS
<1>2. PICK f \in [0..0 -> Seq(Asked)] : UpTo(f, <<>>, 0)
  <2>1. 0 \in Nat /\ 0 <= Len(<<>>)
    BY <1>1
  <2>2. QED
    BY <1>1, <2>1, UpToExists
<1>3. f[0] = <<>>
  BY <1>2, UpToRule
<1>4. QED
  BY <1>1, <1>2, <1>3, RequestsIs

-----------------------------------------------------------------------------
\* The panel implements ZoneMirror

\* A step that leaves the queued requests, the zones and the connection alone
LEMMA MirrorStutters ==
    ASSUME Requests(queue') = Requests(queue), UNCHANGED <<retained, client, sock, told>>
    PROVE  UNCHANGED Mirror!mirrorVars
<1>1. ClientOpen' = ClientOpen
  BY DEF ClientOpen
<1>2. Heard' = Heard
  BY <1>1 DEF Heard
<1>3. QED
  BY <1>1, <1>2 DEF Mirror!mirrorVars

\* A request is made.
LEMMA MirrorAsks ==
    ASSUME TypeOK, NEW z, NEW s, SetDesiredState(z, s)
    PROVE  Mirror!Next
<1>1. /\ z \in Zone /\ s \in State
      /\ queue' = Append(queue, SetOp(z, s))
      /\ UNCHANGED <<retained, client, sock, told>>
  BY DEF SetDesiredState, transportVars
<1>2. SetOp(z, s) \in Operations /\ IsSet(SetOp(z, s))
      /\ RequestOf(SetOp(z, s)) = [zone |-> z, state |-> s]
  BY <1>1 DEF Operations, Request, SetOp, IsSet, RequestOf
<1>3. queue \in Seq(Operations)
  BY DEF TypeOK, Operations
<1>4. Requests(queue') = Append(Requests(queue), [zone |-> z, state |-> s])
  BY <1>1, <1>2, <1>3, RequestsAppend
<1>5. ClientOpen' = ClientOpen
  BY <1>1 DEF ClientOpen
<1>6. Heard' = Heard
  BY <1>1, <1>5 DEF Heard
<1>7. Mirror!Ask(z, s)
  BY <1>1, <1>4, <1>5, <1>6 DEF Mirror!Ask
<1>8. QED
  BY <1>1, <1>7 DEF Mirror!Next

\* The oldest request is applied, and written to an open client if it changes
\* the zone.
LEMMA MirrorApplies ==
    ASSUME TypeOK, ApplyUnchanged \/ ApplyRetained \/ ApplySend \/ ApplyFails
    PROVE  Mirror!Next
<1> DEFINE o == Head(queue)
<1>1. /\ queue # <<>> /\ IsSet(o) /\ queue' = Tail(queue)
      /\ UNCHANGED <<client, sock>>
  BY DEF ApplyUnchanged, ApplyRetained, ApplySend, ApplyFails, Free, transportVars
<1>2. queue \in Seq(Operations)
  BY DEF TypeOK, Operations
<1>3. o \in Request /\ o.zone \in Zone /\ o.state \in State
  BY <1>1, <1>2, QueueHead, Kinds DEF Operations
<1>4. /\ RequestOf(o) \in Asked /\ Requests(queue') \in Seq(Asked)
      /\ Requests(queue) = <<RequestOf(o)>> \o Requests(queue')
  BY <1>1, <1>2, RequestsTail
<1>5. /\ Requests(queue) # <<>>
      /\ Head(Requests(queue)) = RequestOf(o)
      /\ Tail(Requests(queue)) = Requests(queue')
  BY <1>4, Begins
<1>6. RequestOf(o).zone = o.zone /\ RequestOf(o).state = o.state
  BY DEF RequestOf
<1>7. ClientOpen' = ClientOpen
  BY <1>1 DEF ClientOpen
<1>8. retained' = [retained EXCEPT ![o.zone] = o.state]
  <2>1. CASE ApplyUnchanged
    BY <2>1 DEF ApplyUnchanged, TypeOK
  <2>2. CASE ApplyRetained \/ ApplySend \/ ApplyFails
    BY <2>2 DEF ApplyRetained, ApplySend, ApplyFails
  <2>3. QED
    BY <2>1, <2>2
<1>9. Heard' = Heard \/ (ClientOpen /\ Heard' = [Heard EXCEPT ![o.zone] = o.state])
  <2>1. CASE ApplySend
    BY <1>7, <2>1 DEF ApplySend, Send, Heard
  <2>2. CASE ApplyUnchanged \/ ApplyRetained \/ ApplyFails
    BY <1>7, <2>2 DEF ApplyUnchanged, ApplyRetained, ApplyFails, Heard
  <2>3. QED
    BY <2>1, <2>2
<1> HIDE DEF o
<1>10. Mirror!Apply
  BY <1>5, <1>6, <1>7, <1>8, <1>9 DEF Mirror!Apply
<1>11. QED
  BY <1>10 DEF Mirror!Next

\* A resynchronization tells the client a zone, or what it knows already.
LEMMA MirrorTells ==
    ASSUME TypeOK, ResyncSend
    PROVE  Mirror!Next \/ UNCHANGED Mirror!mirrorVars
<1>1. op \in Resync /\ op.todo # {}
  BY Kinds DEF ResyncSend, Syncing, TypeOK, IsSet
<1>2. PICK z \in op.todo : z = Min(op.todo)
  BY <1>1, MinOf, ZoneAssumption, Kinds
<1>3. z \in Zone
  BY <1>1, Kinds
<1>4. /\ ClientOpen /\ told' = [told EXCEPT ![z] = retained[z]]
      /\ UNCHANGED <<queue, retained, client, sock>>
  BY <1>2 DEF ResyncSend, Send, transportVars
<1>5. ClientOpen'
  BY <1>4 DEF ClientOpen
<1>6. Heard = told /\ Heard' = told'
  BY <1>4, <1>5 DEF Heard
<1>7. CASE told[z] = retained[z]
  <2>1. told' = told
    BY <1>4, <1>7 DEF TypeOK
  <2>2. QED
    BY <1>4, <2>1, MirrorStutters
<1>8. CASE told[z] # retained[z]
  <2>1. Mirror!Tell(z)
    BY <1>4, <1>5, <1>6, <1>8 DEF Mirror!Tell
  <2>2. QED
    BY <1>3, <2>1 DEF Mirror!Next
<1>9. QED
  BY <1>7, <1>8

\* A connection takes the place of the one before.
LEMMA MirrorLinks ==
    ASSUME TypeOK, AcceptClient
    PROVE  Mirror!Next
<1>1. lastId + 1 \in Conn /\ lastId + 1 # 0
  BY BoundAssumption DEF TypeOK, AcceptClient, Conn
<1>2. /\ client' = lastId + 1 /\ sock' = [Destroyed({client}) EXCEPT ![lastId + 1] = "open"]
      /\ queue' = Append(queue, ResyncOp({})) /\ told' = [z \in Zone |-> Unset]
      /\ retained' = retained
  BY DEF AcceptClient
<1>3. ClientOpen'
  BY <1>1, <1>2 DEF ClientOpen, Destroyed
<1>4. Heard' = [z \in Zone |-> Unset]
  BY <1>2, <1>3 DEF Heard
<1>5. ResyncOp({}) \in Operations /\ ~IsSet(ResyncOp({}))
  BY DEF Operations, Resync, ResyncOp, IsSet
<1>6. Requests(queue') = Requests(queue)
  BY <1>2, <1>5, RequestsAppend DEF TypeOK, Operations
<1>7. Mirror!Link
  BY <1>2, <1>3, <1>4, <1>6 DEF Mirror!Link, Mirror!NothingTold
<1>8. QED
  BY <1>7 DEF Mirror!Next

\* A connection is closed or destroyed.
LEMMA MirrorUnlinks ==
    ASSUME UNCHANGED <<queue, retained, told>>, ClientOpen' => ClientOpen
    PROVE  Mirror!Next \/ UNCHANGED Mirror!mirrorVars
<1>1. CASE ClientOpen' = ClientOpen
  <2>1. Heard' = Heard
    BY <1>1 DEF Heard
  <2>2. QED
    BY <1>1, <2>1 DEF Mirror!mirrorVars
<1>2. CASE ClientOpen /\ ~ClientOpen'
  <2>1. Heard' = [z \in Zone |-> Unset]
    BY <1>2 DEF Heard
  <2>2. ClientOpen' = FALSE
    BY <1>2
  <2>3. Mirror!Unlink
    BY <1>2, <2>1, <2>2 DEF Mirror!Unlink, Mirror!NothingTold
  <2>4. QED
    BY <2>3 DEF Mirror!Next
<1>3. ClientOpen \in BOOLEAN /\ ClientOpen' \in BOOLEAN
  BY DEF ClientOpen
<1>4. QED
  BY <1>1, <1>2, <1>3

LEMMA MirrorStep ==
    ASSUME TypeOK, [Next]_vars
    PROVE  [Mirror!Next]_Mirror!mirrorVars
<1>1. CASE ResyncStart
  <2>1. queue \in Seq(Operations) /\ queue # <<>> /\ ~IsSet(Head(queue)) /\ queue' = Tail(queue)
    BY <1>1 DEF ResyncStart, Free, TypeOK, Operations
  <2>2. Requests(queue') = Requests(queue)
    BY <2>1, RequestsTail
  <2>3. QED
    BY <1>1, <2>2, MirrorStutters DEF ResyncStart, transportVars
<1>2. CASE ResyncFails \/ ResyncDone \/ Sent \/ WriteDone \/ WriteError \/ Listen \/ Stopped
           \/ UNCHANGED vars
  <2>1. UNCHANGED <<queue, retained, client, sock, told>>
    BY <1>2 DEF ResyncFails, ResyncDone, Sent, WriteDone, WriteError, Listen, Stopped, vars,
                transportVars, panelVars
  <2>2. QED
    BY <2>1, MirrorStutters
<1>3. CASE SendFailed \/ Stop
  <2>1. UNCHANGED <<queue, retained, told>>
    BY <1>3 DEF SendFailed, Stop, panelVars
  <2>2. ~ClientOpen'
    BY <1>3, BoundAssumption DEF SendFailed, Stop, ClientOpen, Destroyed, TypeOK, Conn
  <2>3. QED
    BY <2>1, <2>2, MirrorUnlinks
<1>4. ASSUME NEW c \in Conn, SocketGone(c) PROVE Mirror!Next \/ UNCHANGED Mirror!mirrorVars
  <2>1. UNCHANGED <<queue, retained, told>>
    BY <1>4 DEF SocketGone, panelVars
  <2>2. ClientOpen' => ClientOpen
    BY <1>4, BoundAssumption DEF SocketGone, HandleUnavailable, ClientOpen, TypeOK, Conn
  <2>3. QED
    BY <2>1, <2>2, MirrorUnlinks
<1>5. QED
  BY <1>1, <1>2, <1>3, <1>4, NextActions, MirrorAsks, MirrorApplies, MirrorTells, MirrorLinks

\* Every behaviour of the panel is one of ZoneMirror: requests are applied in
\* the order they were made, none is lost, and a controller is told the state a
\* zone has, on its own connection, and nothing else.
THEOREM PanelMirrors == Spec => Mirror!Spec
<1>1. Init => Mirror!Init
  <2> SUFFICES ASSUME Init PROVE Mirror!Init
    OBVIOUS
  <2>1. Requests(queue) = <<>>
    BY RequestsEmpty DEF Init
  <2>2. ClientOpen = FALSE
    BY DEF Init, ClientOpen
  <2>3. Heard = [z \in Zone |-> Unset]
    BY <2>2 DEF Heard
  <2>4. retained \in [Zone -> State \cup {Unset}]
    BY DEF Init, State
  <2>5. QED
    BY <2>1, <2>2, <2>3, <2>4 DEF Mirror!Init, Mirror!NothingTold
<1>2. TypeOK /\ [Next]_vars => [Mirror!Next]_Mirror!mirrorVars
  BY MirrorStep
<1>3. QED
  BY <1>1, <1>2, TypeCorrect, PTL DEF Spec, Mirror!Spec
=============================================================================
