------------------------- MODULE AccessIngest_proofs -------------------------
(***************************************************************************)
(* Proofs about AccessIngest, for any log, any page size and any number of *)
(* requests and failures: the polling timers, and the cursor.              *)
(***************************************************************************)
EXTENDS AccessIngest, TLAPS

\* Who will call for the next poll: the armed timer, the strays, and those that
\* wait for the poll in flight
Chains == Count(armed) + stray + loops

\* The polling timers are counted, a timer is armed only while polling is said
\* to run, and ChainsExplained, in the form the steps preserve.
ChainInv ==
    /\ running \in BOOLEAN /\ armed \in BOOLEAN
    /\ stray \in Nat /\ loops \in Nat /\ overlaps \in Nat
    /\ armed => running
    /\ running => Chains >= 1
    /\ Chains <= 1 + overlaps
    /\ stray <= overlaps

\* Next, one disjunct per action.
LEMMA NextActions ==
    ASSUME Next
    PROVE  \/ Start
           \/ Stop
           \/ PollByHand
           \/ Restart
           \/ Fire
           \/ FireStray
           \/ \E page \in Pages : Answer(page)
           \/ AnswerFails
           \/ \E page \in Pages : \E done \in SUBSET page : PublishFails(page, done)
           \/ Tick
           \/ \E e \in Entry, at \in {now, now - 1} \cap Time : Log(e, at)
  BY DEF Next, Operate, PollReturns, PollFails

\* What a condition counts for
LEMMA Counting ==
    /\ Count(TRUE) = 1 /\ Count(FALSE) = 0
    /\ \A b \in BOOLEAN : Count(b) \in 0..1 /\ (b <=> Count(b) = 1)
  BY DEF Count

\* However a poll ends, those that waited for it become timers, or nothing if
\* polling was stopped.
LEMMA PollEndsKeeps ==
    ASSUME ChainInv, PollEnds, UNCHANGED overlaps
    PROVE  ChainInv'
<1>1. CASE running /\ loops > 0
  <2>1. /\ armed' = TRUE /\ stray' = stray + loops - 1 + Count(armed)
        /\ loops' = 0 /\ running' = running
    BY <1>1 DEF PollEnds, Schedule
  <2>2. Count(armed)' = 1
    BY <2>1, Counting
  <2>3. Chains' = Chains /\ stray' \in Nat
    BY <1>1, <2>1, <2>2, Counting DEF ChainInv, Chains
  <2>4. stray' <= overlaps
    BY <1>1, <2>1, Counting DEF ChainInv, Chains
  <2>5. QED
    BY <1>1, <2>1, <2>3, <2>4 DEF ChainInv
<1>2. CASE ~(running /\ loops > 0)
  <2>1. armed' = armed /\ stray' = stray /\ loops' = 0 /\ running' = running
    BY <1>2 DEF PollEnds, Schedule
  <2>2. Count(armed)' = Count(armed)
    BY <2>1
  <2>3. Chains' <= Chains /\ (running => Chains' = Chains)
    BY <1>2, <2>1, <2>2, Counting DEF ChainInv, Chains
  <2>4. Chains' \in Nat /\ Chains \in Nat
    BY <2>1, <2>2, Counting DEF ChainInv, Chains
  <2>5. QED
    BY <2>1, <2>3, <2>4 DEF ChainInv
<1>3. QED
  BY <1>1, <1>2

\* ChainInv is preserved by every step.
LEMMA ChainStep ==
    ASSUME ChainInv, [Next]_vars
    PROVE  ChainInv'
<1> USE DEF timerVars
<1>1. CASE Start
  <2>1. /\ ~running /\ running' = TRUE /\ armed' = TRUE /\ loops' = loops
        /\ stray' = stray + Count(armed)
        /\ overlaps' = overlaps + Count(stray + loops > 0)
    BY <1>1 DEF Start, MayStart
  <2>2. Count(armed) = 0 /\ Count(armed)' = 1
    BY <2>1, Counting DEF ChainInv
  <2>3. stray + loops > 0 => overlaps' = overlaps + 1
    BY <2>1, Counting
  <2>4. ~(stray + loops > 0) => overlaps' = overlaps
    BY <2>1, Counting DEF ChainInv
  <2>5. QED
    BY <2>1, <2>2, <2>3, <2>4 DEF ChainInv, Chains
<1>2. CASE Stop
  <2>1. /\ running' = FALSE /\ armed' = FALSE
        /\ stray' = stray /\ loops' = loops /\ overlaps' = overlaps
    BY <1>2 DEF Stop
  <2>2. Count(armed)' = 0 /\ Count(armed) \in 0..1
    BY <2>1, Counting DEF ChainInv
  <2>3. stray' \in Nat /\ loops' \in Nat /\ overlaps' \in Nat
    BY <2>1, <2>2 DEF ChainInv
  <2>4. Chains' <= 1 + overlaps' /\ stray' <= overlaps'
    BY <2>1, <2>2, <2>3 DEF ChainInv, Chains
  <2>5. running' \in BOOLEAN /\ armed' \in BOOLEAN /\ (armed' => running')
    BY <2>1 DEF ChainInv
  <2>6. QED
    BY <2>1, <2>3, <2>4, <2>5 DEF ChainInv
<1>3. CASE PollByHand
  BY <1>3 DEF PollByHand, ChainInv, Chains
<1>4. CASE Restart
  <2>1. PICK b \in BOOLEAN : running' = b /\ armed' = b
    BY <1>4 DEF Restart
  <2>2. stray' = 0 /\ loops' = 0 /\ overlaps' = 0
    BY <1>4 DEF Restart
  <2>3. Count(armed)' \in 0..1 /\ (b <=> Count(armed)' = 1)
    BY <2>1, Counting
  <2>4. QED
    BY <2>1, <2>2, <2>3 DEF ChainInv, Chains
<1>5. CASE Fire
  <2>1. armed /\ armed' = FALSE /\ running' = running
    BY <1>5 DEF Fire
  <2>2. stray' = stray /\ loops' = loops + 1 /\ overlaps' = overlaps
    BY <1>5 DEF Fire
  <2>3. Count(armed) = 1 /\ Count(armed)' = 0
    BY <2>1, Counting DEF ChainInv
  <2>4. stray' \in Nat /\ loops' \in Nat /\ overlaps' \in Nat
    BY <2>2 DEF ChainInv
  <2>5. Chains' = Chains /\ Chains' <= 1 + overlaps' /\ stray' <= overlaps'
    BY <2>2, <2>3 DEF ChainInv, Chains
  <2>6. running' \in BOOLEAN /\ armed' \in BOOLEAN /\ (armed' => running')
    BY <2>1 DEF ChainInv
  <2>7. QED
    BY <2>1, <2>4, <2>5, <2>6 DEF ChainInv
<1>6. CASE FireStray
  <2>1. /\ stray > 0 /\ armed' = FALSE /\ running' = running
        /\ stray' = stray - 1 + Count(armed) /\ loops' = loops + 1 /\ overlaps' = overlaps
    BY <1>6 DEF FireStray
  <2>2. Count(armed) \in 0..1 /\ Count(armed)' = 0
    BY <2>1, Counting DEF ChainInv
  <2>3. stray' \in Nat /\ loops' \in Nat /\ overlaps' \in Nat
    BY <2>1, <2>2 DEF ChainInv
  <2>4. Chains' = Chains /\ Chains' <= 1 + overlaps' /\ stray' <= overlaps'
    BY <2>1, <2>2, <2>3 DEF ChainInv, Chains
  <2>5. running' \in BOOLEAN /\ armed' \in BOOLEAN /\ (armed' => running')
    BY <2>1 DEF ChainInv
  <2>6. QED
    BY <2>1, <2>3, <2>4, <2>5 DEF ChainInv
<1>7. ASSUME NEW page \in Pages, Answer(page) PROVE ChainInv'
  BY <1>7, PollEndsKeeps DEF Answer
<1>8. CASE AnswerFails
  BY <1>8, PollEndsKeeps DEF AnswerFails
<1>9. ASSUME NEW page \in Pages, NEW done \in SUBSET page, PublishFails(page, done)
      PROVE  ChainInv'
  BY <1>9, PollEndsKeeps DEF PublishFails
<1>10. CASE Tick
  BY <1>10 DEF Tick, ChainInv, Chains
<1>11. ASSUME NEW e \in Entry, NEW at \in {now, now - 1} \cap Time, Log(e, at) PROVE ChainInv'
  BY <1>11 DEF Log, ChainInv, Chains
<1>12. CASE UNCHANGED vars
  BY <1>12 DEF vars, ChainInv, Chains
<1>13. QED
  BY <1>1, <1>2, <1>3, <1>4, <1>5, <1>6, <1>7, <1>8, <1>9, <1>10, <1>11, <1>12, NextActions

LEMMA ChainInit == Init => ChainInv
<1> SUFFICES ASSUME Init PROVE ChainInv
  OBVIOUS
<1>1. /\ running \in BOOLEAN /\ armed = running
      /\ stray = 0 /\ loops = 0 /\ overlaps = 0
  BY DEF Init
<1>2. Count(armed) \in 0..1 /\ (running <=> Count(armed) = 1)
  BY <1>1, Counting
<1>3. QED
  BY <1>1, <1>2 DEF ChainInv, Chains

\* While background polling is said to run, it goes on, and there is one chain
\* of polls and one more for each start that found an earlier chain alive.
THEOREM ChainsCounted == Spec => []ChainsExplained
<1>1. Init => ChainInv
  BY ChainInit
<1>2. ChainInv /\ [Next]_vars => ChainInv'
  BY ChainStep
<1>3. ChainInv => ChainsExplained
  <2> SUFFICES ASSUME ChainInv PROVE ChainsExplained
    OBVIOUS
  <2>1. Count(armed) \in 0..1 /\ Count(running) \in 0..1 /\ (running <=> Count(running) = 1)
    BY Counting DEF ChainInv
  <2>2. Count(armed) + stray + loops \in Count(running)..1 + overlaps
    BY <2>1 DEF ChainInv, Chains
  <2>3. QED
    BY <2>2 DEF ChainsExplained
<1>4. QED
  BY <1>1, <1>2, <1>3, PTL DEF Spec

-----------------------------------------------------------------------------
\* The log and the cursor

\* A start is a request.
Requested == /\ requests \in 0..MaxRequests /\ failures \in 0..MaxFailures
             /\ overlaps <= requests

\* The times: nothing is logged, polled or read that is not past yet.
Past ==
    /\ now \in Time
    /\ DOMAIN logged \subseteq Entry /\ \A e \in DOMAIN logged : logged[e] \in Time /\ logged[e] <= now
    /\ cursor \in Cursor \cup {NoCursor}
    /\ poll \in Time \cup {NoPoll} /\ poll <= now
    /\ told \subseteq DOMAIN logged /\ replay \subseteq told /\ missed \subseteq Entry

\* The cursor names a published entry, no later than a poll in flight will stamp
\* its undated entries, ...
CursorTold ==
    cursor # NoCursor => /\ cursor.id \in told /\ cursor.at <= now
                         /\ poll # NoPoll => cursor.at <= poll

\* ... and no dated entry was published beyond it, but by a poll that failed.
ToldRead == \A e \in told \ (replay \cup Undated) : cursor # NoCursor /\ logged[e] <= cursor.at

LogInv == Past /\ CursorTold /\ NoEntryLost /\ ToldRead

LEMMA Times == /\ Time \subseteq Nat /\ NoPoll \notin Time /\ NoPoll \in Int /\ NoPoll < 0
               /\ \A c \in Cursor : c.at \in Time /\ c.at \in Nat /\ c.id \in Entry /\ c # NoCursor
  BY BoundAssumption, CursorAssumption DEF Time, NoPoll, Cursor

\* The timestamp that a poll in flight reads
LEMMA Stamps ==
    ASSUME Past, poll # NoPoll, NEW e \in DOMAIN logged
    PROVE  /\ Stamp(e) \in Time /\ Stamp(e) \in Nat /\ Stamp(e) <= now
           /\ Stamp(e) = IF e \in Undated THEN poll ELSE logged[e]
  BY Times DEF Past, Stamp

\* A fresh entry is not before the cursor, and one that is not fresh was read.
LEMMA FreshIsAhead ==
    ASSUME Past, poll # NoPoll, NEW e \in DOMAIN logged
    PROVE  /\ IsFresh(e) => (cursor # NoCursor => cursor.at <= Stamp(e))
           /\ ~IsFresh(e) => /\ cursor # NoCursor
                             /\ Stamp(e) < cursor.at \/ (Stamp(e) = cursor.at /\ e = cursor.id)
<1>1. Stamp(e) \in Nat
  BY Stamps
<1>2. cursor # NoCursor => cursor.at \in Nat
  BY Times DEF Past
<1>3. QED
  BY <1>1, <1>2 DEF IsFresh, IsOlder, IsDuplicate

\* The cursor moves to the last of the entries published, never back.
LEMMA CursorMoves ==
    ASSUME Past, poll # NoPoll, NEW page \in SUBSET DOMAIN logged, MoveCursor(Fresh(page))
    PROVE  /\ Fresh(page) = {} => cursor' = cursor
           /\ Fresh(page) # {} => /\ cursor' \in Cursor /\ cursor' # NoCursor
                                  /\ cursor'.id \in Fresh(page) /\ cursor'.at <= now
                                  /\ \A d \in Fresh(page) : Stamp(d) <= cursor'.at
                                  /\ cursor # NoCursor => cursor.at <= cursor'.at
<1>1. CASE Fresh(page) = {}
  BY <1>1 DEF MoveCursor
<1>2. CASE Fresh(page) # {}
  <2>1. PICK e \in Fresh(page) : /\ \A d \in Fresh(page) \ {e} : Precedes(d, e)
                                 /\ cursor' = [at |-> Stamp(e), id |-> e]
    BY <1>2 DEF MoveCursor
  <2>2. e \in DOMAIN logged /\ e \in Entry /\ IsFresh(e)
    BY DEF Fresh, Past
  <2>3. Stamp(e) \in Time /\ Stamp(e) \in Nat /\ Stamp(e) <= now
    BY <2>2, Stamps
  <2>4. cursor' \in Cursor /\ cursor'.at = Stamp(e) /\ cursor'.id = e
    BY <2>1, <2>2, <2>3 DEF Cursor
  <2>5. ASSUME NEW d \in Fresh(page) PROVE Stamp(d) <= Stamp(e)
    <3>1. d \in DOMAIN logged
      BY DEF Fresh
    <3>2. Stamp(d) \in Nat
      BY <3>1, Stamps
    <3>3. QED
      BY <2>1, <2>3, <3>2 DEF Precedes
  <2>6. cursor # NoCursor => cursor.at <= Stamp(e)
    BY <2>2, FreshIsAhead
  <2>7. QED
    BY <1>2, <2>1, <2>3, <2>4, <2>5, <2>6, Times
<1>3. QED
  BY <1>1, <1>2

\* An answer publishes what is fresh: all else of the page was read before.
LEMMA AnswerInv ==
    ASSUME LogInv, NEW page \in Pages, Answer(page)
    PROVE  LogInv'
<1>1. /\ poll # NoPoll /\ MoveCursor(Fresh(page))
      /\ told' = told \cup Fresh(page) /\ replay' = replay \ page
      /\ missed' = missed \cup (DOMAIN logged \ (told \cup page))
      /\ poll' = NoPoll /\ now' = now /\ logged' = logged
  BY DEF Answer, PollEnds
<1>2. page \in SUBSET DOMAIN logged
  BY DEF Pages
<1>3. /\ Past /\ CursorTold /\ NoEntryLost /\ ToldRead
  BY DEF LogInv
<1>4. /\ Fresh(page) = {} => cursor' = cursor
      /\ Fresh(page) # {} => /\ cursor' \in Cursor /\ cursor' # NoCursor
                             /\ cursor'.id \in Fresh(page) /\ cursor'.at <= now
                             /\ \A d \in Fresh(page) : Stamp(d) <= cursor'.at
                             /\ cursor # NoCursor => cursor.at <= cursor'.at
  BY <1>1, <1>2, <1>3, CursorMoves
<1>5. Fresh(page) \subseteq page
  BY DEF Fresh
<1>6. Past'
  <2>1. now \in Nat /\ NoPoll <= now
    BY <1>3, Times DEF Past
  <2>2. cursor' \in Cursor \cup {NoCursor}
    BY <1>3, <1>4 DEF Past
  <2>3. told' \subseteq DOMAIN logged /\ replay' \subseteq told' /\ missed' \subseteq Entry
    BY <1>1, <1>2, <1>3, <1>5 DEF Past
  <2>4. QED
    BY <1>1, <1>3, <2>1, <2>2, <2>3 DEF Past
<1>7. CursorTold'
  <2>1. CASE Fresh(page) = {}
    BY <1>1, <1>3, <1>4, <2>1 DEF CursorTold
  <2>2. CASE Fresh(page) # {}
    BY <1>1, <1>4, <2>2 DEF CursorTold
  <2>3. QED
    BY <2>1, <2>2
<1>8. cursor # NoCursor => cursor' # NoCursor /\ cursor.at <= cursor'.at
  <2>1. cursor # NoCursor => cursor.at \in Nat
    BY <1>3, Times DEF Past
  <2>2. QED
    BY <1>4, <2>1
<1>9. cursor.at \in Nat \/ cursor = NoCursor
  BY <1>3, Times DEF Past
<1>10. cursor' # NoCursor => cursor'.at \in Nat
  BY <1>6, Times DEF Past
<1>11. NoEntryLost'
  <2>1. ASSUME NEW e \in DOMAIN logged, e \notin told', e \notin missed'
        PROVE  FALSE
    <3>1. e \in page /\ ~IsFresh(e) /\ e \notin told /\ e \notin missed
      BY <1>1, <2>1 DEF Fresh
    <3>2. /\ cursor # NoCursor
          /\ Stamp(e) < cursor.at \/ e = cursor.id
      BY <1>1, <1>3, <3>1, FreshIsAhead
    <3>3. Stamp(e) < cursor.at
      BY <1>3, <3>1, <3>2 DEF CursorTold
    <3>4. cursor.at \in Nat /\ cursor.at <= poll
      BY <1>1, <1>3, <1>9, <3>2 DEF CursorTold
    <3>5. Stamp(e) = (IF e \in Undated THEN poll ELSE logged[e]) /\ Stamp(e) \in Nat
      BY <1>1, <1>3, Stamps
    <3>6. logged[e] >= cursor.at
      BY <1>3, <3>1, <3>2 DEF NoEntryLost
    <3>7. poll \in Nat /\ logged[e] \in Nat
      BY <1>1, <1>3, Times DEF Past
    <3>8. QED
      BY <3>3, <3>4, <3>5, <3>6, <3>7
  <2>2. QED
    BY <1>1, <2>1 DEF NoEntryLost
<1>12. ToldRead'
  <2>1. ASSUME NEW e \in told', e \notin replay', e \notin Undated
        PROVE  cursor' # NoCursor /\ logged[e] <= cursor'.at
    <3>1. e \in DOMAIN logged
      BY <1>6, <2>1, <1>1 DEF Past
    <3>2. Stamp(e) = logged[e] /\ logged[e] \in Nat
      BY <1>1, <1>3, <2>1, <3>1, Stamps
    <3>3. CASE e \in Fresh(page)
      BY <1>4, <3>2, <3>3
    <3>4. CASE e \notin Fresh(page)
      <4>1. cursor # NoCursor /\ logged[e] <= cursor.at
        <5>1. CASE e \in page
          <6>1. ~IsFresh(e)
            BY <3>4, <5>1 DEF Fresh
          <6>2. QED
            BY <1>1, <1>3, <1>9, <3>1, <3>2, <6>1, FreshIsAhead
        <5>2. CASE e \notin page
          BY <1>1, <1>3, <2>1, <3>4, <5>2 DEF ToldRead
        <5>3. QED
          BY <5>1, <5>2
      <4>2. QED
        BY <1>8, <1>9, <1>10, <3>2, <4>1
    <3>5. QED
      BY <3>3, <3>4
  <2>2. QED
    BY <1>1, <2>1 DEF ToldRead
<1>13. QED
  BY <1>6, <1>7, <1>11, <1>12 DEF LogInv

\* A poll that fails leaves the cursor, and what it published to be repeated.
LEMMA FailInv ==
    ASSUME LogInv, poll' = NoPoll, UNCHANGED <<now, logged, cursor, missed>>,
           NEW done \in SUBSET DOMAIN logged, told' = told \cup done, replay' = replay \cup done
    PROVE  LogInv'
<1>1. now \in Nat /\ NoPoll <= now
  BY Times DEF LogInv, Past
<1>2. Past'
  BY <1>1 DEF LogInv, Past
<1>3. CursorTold'
  BY DEF LogInv, CursorTold
<1>4. NoEntryLost'
  BY DEF LogInv, NoEntryLost
<1>5. ToldRead'
  BY DEF LogInv, ToldRead
<1>6. QED
  BY <1>2, <1>3, <1>4, <1>5 DEF LogInv

\* A poll begins or is joined.
LEMMA JoinInv ==
    ASSUME LogInv, JoinPoll, UNCHANGED <<now, logged, cursor, told, replay, missed>>
    PROVE  LogInv'
<1>1. now \in Nat /\ now \in Time
  BY Times DEF LogInv, Past
<1>2. poll' = IF poll = NoPoll THEN now ELSE poll
  BY DEF JoinPoll
<1>3. Past'
  BY <1>1, <1>2 DEF LogInv, Past
<1>4. CursorTold'
  BY <1>2 DEF LogInv, CursorTold
<1>5. NoEntryLost' /\ ToldRead'
  BY DEF LogInv, NoEntryLost, ToldRead
<1>6. QED
  BY <1>3, <1>4, <1>5 DEF LogInv

LEMMA EntryInv ==
    ASSUME LogInv, NEW e \in Entry, NEW at \in {now, now - 1} \cap Time, Log(e, at)
    PROVE  LogInv'
<1>1. /\ e \notin DOMAIN logged
      /\ logged' = [d \in DOMAIN logged \cup {e} |-> IF d = e THEN at ELSE logged[d]]
      /\ missed' = IF cursor # NoCursor /\ at < cursor.at THEN missed \cup {e} ELSE missed
      /\ UNCHANGED <<now, cursor, poll, told, replay>>
  BY DEF Log, historyVars
<1>2. at \in Time /\ at \in Nat /\ at <= now /\ now \in Nat
  BY Times DEF LogInv, Past
<1>3. /\ DOMAIN logged' = DOMAIN logged \cup {e} /\ logged'[e] = at
      /\ \A d \in DOMAIN logged : logged'[d] = logged[d]
  BY <1>1
<1>4. Past'
  <2>1. /\ DOMAIN logged' \subseteq Entry
        /\ \A d \in DOMAIN logged' : logged'[d] \in Time /\ logged'[d] <= now
    BY <1>2, <1>3 DEF LogInv, Past
  <2>2. told' \subseteq DOMAIN logged' /\ missed' \subseteq Entry
    BY <1>1, <1>3 DEF LogInv, Past
  <2>3. QED
    BY <1>1, <2>1, <2>2 DEF LogInv, Past
<1>5. CursorTold'
  BY <1>1 DEF LogInv, CursorTold
<1>6. NoEntryLost'
  <2>1. ASSUME NEW d \in DOMAIN logged', d \notin told', d \notin missed', cursor # NoCursor
        PROVE  logged'[d] >= cursor.at
    <3>1. cursor.at \in Nat
      BY <2>1, Times DEF LogInv, Past
    <3>2. CASE d = e
      BY <1>1, <1>2, <1>3, <2>1, <3>1, <3>2
    <3>3. CASE d # e
      <4>1. d \in DOMAIN logged /\ d \notin told /\ d \notin missed
        BY <1>1, <1>3, <2>1, <3>3
      <4>2. QED
        BY <1>3, <2>1, <4>1 DEF LogInv, NoEntryLost
    <3>4. QED
      BY <3>2, <3>3
  <2>2. QED
    BY <1>1, <2>1 DEF NoEntryLost
<1>7. ToldRead'
  <2>1. \A d \in told : logged'[d] = logged[d]
    BY <1>3 DEF LogInv, Past
  <2>2. QED
    BY <1>1, <2>1 DEF LogInv, ToldRead
<1>8. QED
  BY <1>4, <1>5, <1>6, <1>7 DEF LogInv

LEMMA LogStep ==
    ASSUME LogInv, [Next]_vars
    PROVE  LogInv'
<1> USE DEF timerVars, historyVars
<1>1. ASSUME UNCHANGED <<now, logged, cursor, told, replay, missed>>, poll' = poll \/ poll' = NoPoll
      PROVE  LogInv'
  <2>1. now \in Nat /\ NoPoll <= now
    BY Times DEF LogInv, Past
  <2>2. Past' /\ CursorTold'
    BY <1>1, <2>1 DEF LogInv, Past, CursorTold
  <2>3. NoEntryLost' /\ ToldRead'
    BY <1>1 DEF LogInv, NoEntryLost, ToldRead
  <2>4. QED
    BY <2>2, <2>3 DEF LogInv
<1>2. CASE Start
  BY <1>1, <1>2 DEF Start
<1>3. CASE Stop
  BY <1>1, <1>3 DEF Stop
<1>4. CASE PollByHand
  BY <1>4, JoinInv DEF PollByHand
<1>5. CASE Restart
  BY <1>1, <1>5 DEF Restart
<1>6. CASE Fire
  BY <1>6, JoinInv DEF Fire
<1>7. CASE FireStray
  BY <1>7, JoinInv DEF FireStray
<1>8. ASSUME NEW page \in Pages, Answer(page) PROVE LogInv'
  BY <1>8, AnswerInv
<1>9. CASE AnswerFails
  BY <1>1, <1>9 DEF AnswerFails, PollEnds
<1>10. ASSUME NEW page \in Pages, NEW done \in SUBSET page, PublishFails(page, done)
       PROVE  LogInv'
  <2>1. done \in SUBSET DOMAIN logged
    BY DEF Pages
  <2>2. QED
    BY <1>10, <2>1, FailInv DEF PublishFails, PollEnds
<1>11. CASE Tick
  <2>1. /\ now < MaxNow /\ now' = now + 1
        /\ UNCHANGED <<logged, cursor, poll, told, replay, missed>>
    BY <1>11 DEF Tick
  <2>2. now \in Nat /\ now' \in Time /\ poll \in Int
    BY <2>1, Times, BoundAssumption DEF LogInv, Past, Time, NoPoll
  <2>3. Past'
    <3>1. ASSUME NEW e \in DOMAIN logged PROVE logged[e] <= now'
      <4>1. logged[e] \in Nat /\ logged[e] <= now
        BY Times DEF LogInv, Past
      <4>2. QED
        BY <2>1, <2>2, <4>1
    <3>2. QED
      BY <2>1, <2>2, <3>1 DEF LogInv, Past
  <2>4. cursor # NoCursor => cursor.at \in Nat
    BY Times DEF LogInv, Past
  <2>5. CursorTold'
    BY <2>1, <2>2, <2>4 DEF LogInv, CursorTold
  <2>6. NoEntryLost' /\ ToldRead'
    BY <2>1 DEF LogInv, NoEntryLost, ToldRead
  <2>7. QED
    BY <2>3, <2>5, <2>6 DEF LogInv
<1>12. ASSUME NEW e \in Entry, NEW at \in {now, now - 1} \cap Time, Log(e, at) PROVE LogInv'
  BY <1>12, EntryInv
<1>13. CASE UNCHANGED vars
  BY <1>1, <1>13 DEF vars
<1>14. QED
  BY <1>2, <1>3, <1>4, <1>5, <1>6, <1>7, <1>8, <1>9, <1>10, <1>11, <1>12, <1>13, NextActions

LEMMA LogInit == Init => LogInv
<1> SUFFICES ASSUME Init PROVE LogInv
  OBVIOUS
<1>1. /\ now = 0 /\ DOMAIN logged = {} /\ cursor = NoCursor /\ poll = NoPoll
      /\ told = {} /\ replay = {} /\ missed = {}
  BY DEF Init
<1>2. 0 \in Time /\ NoPoll <= 0
  BY BoundAssumption DEF Time, NoPoll
<1>3. QED
  BY <1>1, <1>2 DEF LogInv, Past, CursorTold, NoEntryLost, ToldRead

LEMMA LogInvAlways == Spec => []LogInv
  BY LogInit, LogStep, PTL DEF Spec

\* An entry that was not published is ahead of the cursor, but for one that came
\* too late or fell off the page: no failed poll and no restart loses an entry.
THEOREM NothingLost == Spec => []NoEntryLost
<1>1. LogInv => NoEntryLost
  BY DEF LogInv
<1>2. QED
  BY <1>1, LogInvAlways, PTL

\* A poll repeats an entry only for a reason: an earlier poll failed, the entry
\* has no date, or it shares its time with the entry under the cursor.
THEOREM RepeatsHaveCause == Spec => []RepeatsExplained
<1>1. LogInv => RepeatsExplained
  <2> SUFFICES ASSUME LogInv, poll # NoPoll, NEW page \in Pages, NEW e \in told \cap page,
                      IsFresh(e), e \notin replay \cup Undated
               PROVE  cursor # NoCursor /\ cursor.at = logged[e] /\ cursor.id # e
    BY DEF RepeatsExplained
  <2>1. Past /\ ToldRead /\ e \in DOMAIN logged
    BY DEF LogInv, Past
  <2>2. cursor # NoCursor /\ logged[e] <= cursor.at
    BY <2>1 DEF ToldRead
  <2>3. Stamp(e) = logged[e] /\ logged[e] \in Nat /\ cursor.at \in Nat
    BY <2>1, <2>2, Stamps, Times DEF Past
  <2>4. cursor.at = logged[e]
    BY <2>1, <2>2, <2>3, FreshIsAhead
  <2>5. QED
    BY <2>2, <2>3, <2>4 DEF IsFresh, IsDuplicate
<1>2. QED
  BY <1>1, LogInvAlways, PTL

\* Every start that is counted is a request.
LEMMA RequestedStep ==
    ASSUME ChainInv, Requested, [Next]_vars
    PROVE  Requested'
<1> USE DEF timerVars, historyVars
<1>1. ASSUME Operate PROVE Requested'
  <2>1. requests < MaxRequests /\ requests' = requests + 1 /\ failures' = failures
    BY <1>1 DEF Operate, Start, Stop, PollByHand, Restart
  <2>2. overlaps' <= overlaps + 1
    <3>1. CASE Start
      <4>1. Count(stray + loops > 0) \in 0..1
        BY DEF Count
      <4>2. QED
        BY <3>1, <4>1 DEF Start, ChainInv
    <3>2. CASE ~Start
      BY <1>1, <3>2 DEF Operate, Stop, PollByHand, Restart, ChainInv
    <3>3. QED
      BY <3>1, <3>2
  <2>3. overlaps' \in Nat
    BY ChainStep DEF ChainInv
  <2>4. QED
    BY <2>1, <2>2, <2>3, BoundAssumption DEF Requested, ChainInv
<1>2. ASSUME UNCHANGED <<requests, overlaps>>,
             failures' = failures \/ (failures < MaxFailures /\ failures' = failures + 1)
      PROVE  Requested'
  BY <1>2, BoundAssumption DEF Requested
<1>3. CASE Fire \/ FireStray \/ Tick
  BY <1>2, <1>3 DEF Fire, FireStray, Tick
<1>4. ASSUME NEW page \in Pages, Answer(page) PROVE Requested'
  BY <1>2, <1>4 DEF Answer
<1>5. ASSUME NEW page \in Pages, NEW done \in SUBSET page, PublishFails(page, done)
      PROVE  Requested'
  BY <1>2, <1>5 DEF PublishFails
<1>6. CASE AnswerFails
  BY <1>2, <1>6 DEF AnswerFails
<1>7. ASSUME NEW e \in Entry, NEW at \in {now, now - 1} \cap Time, Log(e, at) PROVE Requested'
  BY <1>2, <1>7 DEF Log
<1>8. CASE UNCHANGED vars
  BY <1>2, <1>8 DEF vars
<1>9. QED
  BY <1>1, <1>3, <1>4, <1>5, <1>6, <1>7, <1>8 DEF Next, PollReturns, PollFails

\* The state has its types; the strays and the waiting calls are as few as the
\* requests that can have caused them.
THEOREM TypeCorrect == Spec => []TypeOK
<1>1. Init => Requested
  BY BoundAssumption DEF Init, Requested
<1>2. ChainInv /\ Requested /\ LogInv => TypeOK
  <2> SUFFICES ASSUME ChainInv, Requested, LogInv PROVE TypeOK
    OBVIOUS
  <2>1. /\ now \in Time /\ DOMAIN logged \subseteq Entry /\ \A e \in DOMAIN logged : logged[e] \in Time
        /\ cursor \in Cursor \cup {NoCursor} /\ poll \in Time \cup {NoPoll}
        /\ told \subseteq Entry /\ replay \subseteq told /\ missed \subseteq Entry
    BY DEF LogInv, Past
  <2>2. Count(armed) \in 0..1
    BY Counting DEF ChainInv
  <2>3. /\ stray \in 0..MaxRequests /\ loops \in 0..MaxRequests + 1
        /\ overlaps \in 0..MaxRequests
    BY <2>2, BoundAssumption DEF ChainInv, Chains, Requested
  <2>4. QED
    BY <2>1, <2>3 DEF TypeOK, ChainInv, Requested
<1>3. QED
  BY <1>1, <1>2, ChainInit, ChainStep, RequestedStep, LogInvAlways, PTL DEF Spec
=============================================================================
