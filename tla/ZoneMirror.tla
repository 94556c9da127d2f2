----------------------------- MODULE ZoneMirror -----------------------------
(***************************************************************************)
(* What the Virtual Security Panel promises its users, without operations, *)
(* sockets or retries: requests for a zone are applied in the order they   *)
(* were made, and a controller that stays linked is told the state of      *)
(* every zone that has one.                                                *)
(***************************************************************************)
EXTENDS Sequences

CONSTANTS
    Zone,       \* zones
    State,      \* the states a zone may be asked to have
    Unset       \* no state yet, not in State

VARIABLES
    requests,   \* requests not applied yet, oldest first
    current,    \* the state each zone has
    linked,     \* is a controller linked?
    told        \* what the linked controller was told of each zone

mirrorVars == <<requests, current, linked, told>>

NothingTold == [z \in Zone |-> Unset]

TypeOK ==
    /\ requests \in Seq([zone : Zone, state : State])
    /\ current \in [Zone -> State \cup {Unset}]
    /\ linked \in BOOLEAN
    /\ told \in [Zone -> State \cup {Unset}]

Ask(z, s) ==
    /\ requests' = Append(requests, [zone |-> z, state |-> s])
    /\ UNCHANGED <<current, linked, told>>

\* The oldest request is applied; a linked controller may be told at once.
Apply ==
    LET r == Head(requests)
    IN  /\ requests # <<>>
        /\ requests' = Tail(requests)
        /\ current' = [current EXCEPT ![r.zone] = r.state]
        /\ \/ UNCHANGED told
           \/ linked /\ told' = [told EXCEPT ![r.zone] = r.state]
        /\ UNCHANGED linked

\* A linked controller is told the state of a zone.
Tell(z) ==
    /\ linked
    /\ told[z] # current[z]
    /\ told' = [told EXCEPT ![z] = current[z]]
    /\ UNCHANGED <<requests, current, linked>>

\* A controller links, perhaps in place of another; it knows nothing yet.
Link ==
    /\ linked' = TRUE
    /\ told' = NothingTold
    /\ UNCHANGED <<requests, current>>

Unlink ==
    /\ linked
    /\ linked' = FALSE
    /\ told' = NothingTold
    /\ UNCHANGED <<requests, current>>

Init ==
    /\ requests = <<>>
    /\ current \in [Zone -> State \cup {Unset}]
    /\ linked = FALSE
    /\ told = NothingTold

Next ==
    \/ \E z \in Zone, s \in State : Ask(z, s)
    \/ Apply
    \/ \E z \in Zone : Tell(z)
    \/ Link
    \/ Unlink

Spec == Init /\ [][Next]_mirrorVars

\* Requests are applied, and a controller that stays linked is told.
Fairness ==
    /\ WF_mirrorVars(Apply)
    /\ \A z \in Zone : WF_mirrorVars(Tell(z))

FairSpec == Spec /\ Fairness

=============================================================================
