---------------------------- MODULE AccessIngest ----------------------------
(***************************************************************************)
(* AccessIngestService: the door log of a UniFi Access console, read page  *)
(* by page in polls and published entry by entry, with a cursor in the     *)
(* database that says how far it was read.                                 *)
(*                                                                         *)
(* A poll asks for the newest PageSize entries and gets them later; in     *)
(* between the console logs more, an operator starts and stops background  *)
(* polling, and timers fire. The answer is handled in one turn: routes do  *)
(* not execute Access events, so publishing one never waits. It may fail   *)
(* half way (a subscriber throws, a row cannot be written, the hub dies).  *)
(*                                                                         *)
(* The service keeps the handle of one timer. A timer whose handle was     *)
(* overwritten still fires and can no longer be cancelled: a stray. Every  *)
(* firing is a call of runBackgroundPoll that waits for the one poll in    *)
(* flight and then schedules the next.                                     *)
(*                                                                         *)
(* The console is configured; otherwise every operation is refused by      *)
(* assertConfigured and changes nothing.                                   *)
(***************************************************************************)
EXTENDS Integers, FiniteSets

CONSTANTS
    Entry,          \* door log entries, by ascending event id
    Undated,        \* entries without a timestamp that can be read
    PageSize,       \* page_size of buildAccessLogsUrl
    NoCursor,       \* last_timestamp and last_event_id are null
    MaxNow,         \* bound on the time
    MaxRequests,    \* bound on the operator's starts, stops and polls, and on restarts
    MaxFailures     \* bound on polls that fail

ASSUME EntryAssumption == Entry \subseteq Nat /\ IsFiniteSet(Entry) /\ Undated \subseteq Entry
ASSUME BoundAssumption ==
    /\ PageSize \in Nat \ {0}
    /\ MaxNow \in Nat /\ MaxRequests \in Nat /\ MaxFailures \in Nat

VARIABLES
    now,        \* the time
    logged,     \* the console's log: entries with the time of their event
    cursor,     \* access_ingest_state
    running,    \* backgroundPollingRunning
    armed,      \* pollTimer # null
    stray,      \* timers that still fire but whose handle is lost
    loops,      \* calls of runBackgroundPoll that wait for the poll
    poll,       \* pollPromise: the receivedAt of the poll in flight
    requests,   \* requests and restarts so far
    failures,   \* failed polls so far
    told,       \* history: entries that were published
    replay,     \* history: entries last published by a poll that then failed
    missed,     \* history: entries that came too late or fell off the page
    overlaps    \* history: starts that found an earlier chain of polls alive

timerVars == <<running, armed, stray, loops>>
historyVars == <<told, replay, missed>>
vars == <<now, logged, cursor, timerVars, poll, requests, failures, historyVars, overlaps>>

Time   == 0..MaxNow
NoPoll == -1
Cursor == [at : Time, id : Entry]

ASSUME CursorAssumption == NoCursor \notin Cursor

TypeOK ==
    /\ now \in Time
    /\ DOMAIN logged \subseteq Entry /\ \A e \in DOMAIN logged : logged[e] \in Time
    /\ cursor \in Cursor \cup {NoCursor}
    /\ running \in BOOLEAN /\ armed \in BOOLEAN
    /\ stray \in 0..MaxRequests /\ loops \in 0..MaxRequests + 1
    /\ poll \in Time \cup {NoPoll}
    /\ requests \in 0..MaxRequests /\ failures \in 0..MaxFailures
    /\ told \subseteq Entry /\ replay \subseteq told /\ missed \subseteq Entry
    /\ overlaps \in 0..MaxRequests

Count(b) == IF b THEN 1 ELSE 0

-----------------------------------------------------------------------------
\* Faulty variant: a record without a date has none.
StampUnread(e) == IF e \in Undated THEN NoPoll ELSE logged[e]

\* normalizeAccessLogRecord: a record without a date gets the time of the poll
Stamp(e) == IF e \in Undated THEN poll ELSE logged[e]

\* What a page may hold: the newest entries, in any choice among equals
Pages ==
    {S \in SUBSET DOMAIN logged :
        /\ Cardinality(S) = PageSize \/ (Cardinality(S) < PageSize /\ S = DOMAIN logged)
        /\ \A e \in S, d \in DOMAIN logged \ S : logged[d] <= logged[e]}

\* Faulty variants: an entry of the cursor's time counts as older; the entry
\* under the cursor is not recognized.
IsNotNewer(e)    == cursor # NoCursor /\ Stamp(e) <= cursor.at
IsNeverKnown(e)  == FALSE

\* isOlderThanCursor and isBoundaryDuplicate: what is skipped
IsOlder(e)     == cursor # NoCursor /\ Stamp(e) < cursor.at
IsDuplicate(e) == cursor # NoCursor /\ Stamp(e) = cursor.at /\ e = cursor.id

IsFresh(e) == ~IsOlder(e) /\ ~IsDuplicate(e)

\* What the poll publishes of a page, and in which order: by timestamp and
\* event id
Fresh(page)    == {e \in page : IsFresh(e)}
Precedes(d, e) == Stamp(d) < Stamp(e) \/ (Stamp(d) = Stamp(e) /\ d < e)

-----------------------------------------------------------------------------
\* Faulty variant: the next poll is scheduled although polling was stopped.
ScheduleAlways(n) ==
    IF n > 0 THEN armed' = TRUE /\ stray' = stray + n - 1 + Count(armed)
    ELSE UNCHANGED <<armed, stray>>

\* scheduleNextPoll, called n times: the handle of each timer replaces the one before
Schedule(n) ==
    IF running /\ n > 0
    THEN /\ armed' = TRUE
         /\ stray' = stray + n - 1 + Count(armed)
    ELSE UNCHANGED <<armed, stray>>

\* The poll is over, and everyone who waits for it schedules the next.
PollEnds ==
    /\ poll' = NoPoll
    /\ loops' = 0
    /\ Schedule(loops)
    /\ UNCHANGED running

\* pollLogs: a poll begins, or the one in flight is joined.
JoinPoll == poll' = IF poll = NoPoll THEN now ELSE poll

\* Faulty variant: a start does not look whether polling is running.
MayStartAgain == TRUE

MayStart == ~running

\* startBackgroundPolling: returns at once if it is running already.
Start ==
    /\ MayStart
    /\ running' = TRUE
    /\ armed' = TRUE
    /\ stray' = stray + Count(armed)
    /\ overlaps' = overlaps + Count(stray + loops > 0)
    /\ UNCHANGED <<now, logged, cursor, loops, poll, failures, historyVars>>

\* stopBackgroundPolling
Stop ==
    /\ running' = FALSE
    /\ armed' = FALSE
    /\ UNCHANGED <<now, logged, cursor, stray, loops, poll, failures, historyVars, overlaps>>

\* POST /api/access/logs/poll
PollByHand ==
    /\ JoinPoll
    /\ UNCHANGED <<now, logged, cursor, timerVars, failures, historyVars, overlaps>>

\* The timer fires: runBackgroundPoll.
Fire ==
    /\ armed
    /\ armed' = FALSE
    /\ loops' = loops + 1
    /\ JoinPoll
    /\ UNCHANGED <<now, logged, cursor, running, stray, requests, failures, historyVars, overlaps>>

\* A stray fires: it also clears the handle of the timer that is armed.
FireStray ==
    /\ stray > 0
    /\ stray' = stray - 1 + Count(armed)
    /\ armed' = FALSE
    /\ loops' = loops + 1
    /\ JoinPoll
    /\ UNCHANGED <<now, logged, cursor, running, requests, failures, historyVars, overlaps>>

-----------------------------------------------------------------------------
\* The cursor moves to the last of the entries S that were published; it stays
\* if there are none.
MoveCursor(S) ==
    \/ S = {} /\ UNCHANGED cursor
    \/ \E e \in S : /\ \A d \in S \ {e} : Precedes(d, e)
                    /\ cursor' = [at |-> Stamp(e), id |-> e]

\* performPoll with the console's answer: every fresh entry is published, and
\* the cursor moves to the last of them.
Answer(page) ==
    /\ poll # NoPoll
    /\ MoveCursor(Fresh(page))
    /\ told' = told \cup Fresh(page)
    /\ replay' = replay \ page
    /\ missed' = missed \cup (DOMAIN logged \ (told \cup page))
    /\ PollEnds
    /\ UNCHANGED <<now, logged, requests, failures, overlaps>>

\* The poll fails before anything is published: no connection, an HTTP error,
\* or a body without a record array.
AnswerFails ==
    /\ poll # NoPoll
    /\ failures < MaxFailures
    /\ failures' = failures + 1
    /\ PollEnds
    /\ UNCHANGED <<now, logged, cursor, requests, historyVars, overlaps>>

\* Faulty variant: the cursor is saved before the entries are published.
PublishFailsSaved(page, done) ==
    /\ poll # NoPoll
    /\ failures < MaxFailures
    /\ done # {} /\ done \subseteq Fresh(page)
    /\ \A e \in done, d \in Fresh(page) \ done : Precedes(e, d)
    /\ failures' = failures + 1
    /\ MoveCursor(Fresh(page))
    /\ told' = told \cup done
    /\ PollEnds
    /\ UNCHANGED <<now, logged, requests, replay, missed, overlaps>>

\* The poll fails after the first fresh entries, done, were published, at the
\* next or at the cursor's row: the cursor stays where it was.
PublishFails(page, done) ==
    /\ poll # NoPoll
    /\ failures < MaxFailures
    /\ done # {} /\ done \subseteq Fresh(page)
    /\ \A e \in done, d \in Fresh(page) \ done : Precedes(e, d)
    /\ failures' = failures + 1
    /\ told' = told \cup done /\ replay' = replay \cup done
    /\ PollEnds
    /\ UNCHANGED <<now, logged, cursor, requests, missed, overlaps>>

-----------------------------------------------------------------------------
\* The console logs an event of this moment, or one of a moment ago.
Log(e, at) ==
    /\ e \notin DOMAIN logged
    /\ logged' = [d \in DOMAIN logged \cup {e} |-> IF d = e THEN at ELSE logged[d]]
    /\ missed' = IF cursor # NoCursor /\ at < cursor.at THEN missed \cup {e} ELSE missed
    /\ UNCHANGED <<now, cursor, timerVars, poll, requests, failures, told, replay, overlaps>>

Tick ==
    /\ now < MaxNow
    /\ now' = now + 1
    /\ UNCHANGED <<logged, cursor, timerVars, poll, requests, failures, historyVars, overlaps>>

\* The hub stops and starts again, with background polling or without: the
\* cursor is the database's, all else begins anew.
Restart ==
    /\ \E background \in BOOLEAN : running' = background /\ armed' = background
    /\ stray' = 0 /\ loops' = 0 /\ overlaps' = 0
    /\ poll' = NoPoll
    /\ UNCHANGED <<now, logged, cursor, failures, historyVars>>

Init ==
    /\ now = 0 /\ logged = [e \in {} |-> now] /\ cursor = NoCursor
    /\ running \in BOOLEAN /\ armed = running
    /\ stray = 0 /\ loops = 0 /\ overlaps = 0
    /\ poll = NoPoll
    /\ requests = 0 /\ failures = 0
    /\ told = {} /\ replay = {} /\ missed = {}

Operate ==
    /\ requests < MaxRequests
    /\ requests' = requests + 1
    /\ Start \/ Stop \/ PollByHand \/ Restart

PollReturns == \E page \in Pages : Answer(page)

PollFails == AnswerFails \/ \E page \in Pages : \E done \in SUBSET page : PublishFails(page, done)

Next ==
    \/ Operate
    \/ Fire
    \/ FireStray
    \/ PollReturns
    \/ PollFails
    \/ Tick
    \/ \E e \in Entry, at \in {now, now - 1} \cap Time : Log(e, at)

\* Timers fire, and a poll gets an answer unless it fails, which it may do
\* MaxFailures times (fetch gives up on an answer that never comes).
Fairness == WF_vars(Fire) /\ WF_vars(FireStray) /\ WF_vars(PollReturns)

Spec == Init /\ [][Next]_vars /\ Fairness

-----------------------------------------------------------------------------
\* Safety: an entry of the log that was not published is still ahead of the
\* cursor, so that the next poll to see it publishes it. The exceptions: an
\* entry that appeared when the cursor was past its time, and one pushed off
\* the first page before a poll saw it. Failed polls and restarts lose none.
NoEntryLost ==
    \A e \in DOMAIN logged \ (told \cup missed) : cursor = NoCursor \/ logged[e] >= cursor.at

\* Safety: whatever page a poll gets, it publishes an entry again only if the
\* poll that last published it failed, if it has no date of its own, or if it
\* shares its time with the entry under the cursor (the cursor remembers one
\* entry of a tie, so that each poll publishes the other again).
RepeatsExplained ==
    poll # NoPoll =>
        \A page \in Pages : \A e \in told \cap page :
            \/ ~IsFresh(e)
            \/ e \in replay \cup Undated
            \/ cursor # NoCursor /\ cursor.at = logged[e] /\ cursor.id # e

\* Safety: while background polling is said to run, a timer is due or a poll is
\* waited for, whatever failed and whoever stopped and started it; and there is
\* one chain of polls only, and one more for each start that found an earlier
\* chain still alive (stopBackgroundPolling cannot end a chain whose poll is in
\* flight, and a start does not wait for it).
ChainsExplained ==
    Count(armed) + stray + loops \in Count(running)..(1 + overlaps)

\* Liveness: after a stop, polling ends unless it is started again.
StopTakesHold == ~running ~> (running \/ (~armed /\ stray = 0 /\ loops = 0))

\* Liveness: while background polling runs, every entry is published in the
\* end, but for those that came too late or fell off the page.
EventuallyPublished ==
    <>[]running => []<>(DOMAIN logged \subseteq told \cup missed)
=============================================================================
