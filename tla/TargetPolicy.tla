---------------------------- MODULE TargetPolicy ----------------------------
(***************************************************************************)
(* evaluateFloodlightPolicy and evaluateGroupPolicy: may an event activate *)
(* a target now? Both read the target's row, the hub settings, the clock   *)
(* and the newest accepted row of the event log for the target, and differ *)
(* only in the tables they name. Times of day are numbers of 0 .. Day - 1; *)
(* a time moved by an offset may leave that range, as the code's does.     *)
(***************************************************************************)
EXTENDS Integers, Sequences, SequencesExt

CONSTANT Day    \* moments in a day

ASSUME DayAssumption == Day \in Nat \ {0}

\* Faulty variant: a window that ends first is taken the other way round.
WindowTurned(now, s, e) ==
    IF s <= e THEN now >= s /\ now <= e
    ELSE now >= e /\ now <= s

\* fixedWindowAllowed: both ends included, and past midnight when it ends first
FixedWindowAllowed(now, s, e) ==
    IF s <= e THEN now >= s /\ now <= e
    ELSE now >= s \/ now <= e

\* astroAllowed: from before or after sunset to before or after sunrise
AstroAllowed(now, plan, settings) ==
    LET from  == settings.sunset  + IF plan.mode = "astro_offset" THEN plan.start ELSE 0
        until == settings.sunrise + IF plan.mode = "astro_offset" THEN plan.end ELSE 0
    IN  now >= from \/ now <= until

\* What the schedule says: "ok" or the reason of the refusal
Schedule(now, plan, settings) ==
    CASE plan.mode = "fixed_window" ->
            IF FixedWindowAllowed(now, plan.start, plan.end) THEN "ok" ELSE "outside_fixed_window"
      [] plan.mode \in {"sunset_to_sunrise", "astro_offset"} ->
            IF ~settings.astro THEN "astro_config_missing"
            ELSE IF AstroAllowed(now, plan, settings) THEN "ok" ELSE "outside_astro_window"
      [] OTHER -> "ok"

-----------------------------------------------------------------------------
\* Faulty variant: the newest row counts, whatever was decided in it.
LastOfAll(log, t) == SelectLastInSeq(log, LAMBDA row : row.target = t)

\* The place of the newest accepted row for t in the event log, 0 for none
LastAccepted(log, t) ==
    SelectLastInSeq(log, LAMBDA row : row.target = t /\ row.accepted)

\* The policy for target t with its row, now, on the log
Decide(t, row, plan, settings, now, log) ==
    LET i == LastAccepted(log, t)
    IN  CASE row = "off"  -> "automation_disabled"
          [] row = "test" -> "accepted_test_mode"
          [] row = "on" /\ Schedule(now, plan, settings) # "ok" -> Schedule(now, plan, settings)
          [] row = "on" /\ Schedule(now, plan, settings) = "ok" ->
                IF i # 0 /\ log[i].age < plan.debounce THEN "debounce_violation"
                ELSE IF i # 0 /\ log[i].age < plan.cooldown THEN "cooldown_violation"
                ELSE "accepted"

IsAccepted(verdict) == verdict \in {"accepted", "accepted_test_mode"}

-----------------------------------------------------------------------------
\* Faulty variant: the log is not trimmed.
InsertOnly(log, row, keep) == Append(log, row)

\* insertEventLogWithRetention: the newest keep rows stay
InsertLog(log, row, keep) ==
    LET longer == Append(log, row)
    IN  SubSeq(longer, IF Len(longer) > keep THEN Len(longer) - keep + 1 ELSE 1, Len(longer))
=============================================================================
