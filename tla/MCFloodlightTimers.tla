------------------------- MODULE MCFloodlightTimers -------------------------
(***************************************************************************)
(* Instances of FloodlightTimers: one or two floodlights and groups, with  *)
(* durations of none, one and two ticks.                                   *)
(***************************************************************************)
EXTENDS FloodlightTimers, TLC

CONSTANTS l1, l2, g1, g2, r1, r2, r3, r4, a1, a2, p1, p2

\* Durations: the first group's and the first floodlight's timers run for a
\* tick; the second floodlight's own activations have none, and neither has the
\* second group, whose rows expire at once.
MCAutoOff == [t \in Target |-> IF t \in {l2, g2} THEN 0 ELSE 1]

\* The same, with a longer duration for the first floodlight than for its group.
MCLongerAlone == [t \in Target |-> IF t = l1 THEN 2 ELSE MCAutoOff[t]]

\* The processes and rows are interchangeable. The floodlights and the groups
\* are not: their durations differ.
Symmetry == Permutations({r1, r2, r3, r4}) \cup Permutations({a1, a2}) \cup Permutations({p1, p2})

=============================================================================
