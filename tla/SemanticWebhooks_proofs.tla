---------------------- MODULE SemanticWebhooks_proofs ----------------------
(***************************************************************************)
(* Proofs about SemanticWebhooks, for any webhooks, bindings, runs and     *)
(* restore time.                                                           *)
(*                                                                         *)
(* The invariant is stated with operators of the runs r, the operations q  *)
(* waiting on the chain, the run b being written and the zones zn, so that *)
(* an operation that is over at once is the composition of one that is     *)
(* taken and one that ends.                                                *)
(***************************************************************************)
EXTENDS SemanticWebhooks, Ascending_proofs, SequenceTheorems

\* The runs in progress for w
RunsOf(r, w) == {h \in Run : r[h] # IdleRun /\ r[h].hook = w}

\* The run is on the chain or being written, and no run is there twice.
Lined(r, q, b) ==
    /\ q \in Seq(Run)
    /\ \A i, j \in 1..Len(q) : q[i] = q[j] => i = j
    /\ \A i \in 1..Len(q) : q[i] # b /\ r[q[i]] # IdleRun
    /\ b # NoRun => b \in Run /\ r[b] # IdleRun
    /\ \A h \in Run : r[h] # IdleRun => h = b \/ \E i \in 1..Len(q) : q[i] = h

\* h has its turn before g.
Before(q, b, h, g) == h = b \/ \E i, j \in 1..Len(q) : i < j /\ q[i] = h /\ q[j] = g

\* h is ahead of g: at a later zone, or before it at the same one.
Ahead(r, q, b, h, g) ==
    r[h].at > r[g].at \/ (r[h].at = r[g].at /\ Before(q, b, h, g))

\* h has still to set zone z.
Sets(r, b, h, z) == z \in r[h].todo \/ (z = r[h].at /\ h # b)

\* The runs of w go through the zones Z in ascending order, those of others do
\* not touch Z.
InPlace(w, Z, r) ==
    /\ \A h \in RunsOf(r, w) : r[h].at \in Z /\ r[h].todo = {z \in Z : z > r[h].at}
    /\ \A h \in Run : (r[h] # IdleRun /\ r[h].hook # w) => r[h].at \notin Z /\ r[h].todo \cap Z = {}

\* What holds of a webhook w, with the zones Z, that was not edited: its runs go
\* through Z in ascending order, those of others do not touch Z, the run of the
\* last request comes after the rest, and a zone that no run has still to set has
\* the state last asked for.
Ordered(w, Z, want, r, q, b, zn) ==
    /\ InPlace(w, Z, r)
    /\ RunsOf(r, w) # {} =>
          \E l \in RunsOf(r, w) : /\ Asks(r[l].origin) = want
                                  /\ \A h \in RunsOf(r, w) \ {l} : Ahead(r, q, b, h, l)
    /\ \A z \in Z : (\A h \in RunsOf(r, w) : ~Sets(r, b, h, z)) => zn[z] = want

\* The timer of a webhook that was not edited: an accepted Active that nothing
\* followed has scheduled a restore, no sooner than its full time.
Timed(w) ==
    /\ \A h \in RunsOf(run, w) :
          run[h].arms = (run[h].origin = "explicit_active" /\ hook[w].mode = "auto_timeout")
    /\ wanted[w] = "Violated" => hook[w].exists /\ hook[w].enabled /\ condOn[w]
    /\ timer[w] # Off => hook[w].mode = "auto_timeout"
    /\ (RunsOf(run, w) = {} /\ wanted[w] = "Violated" /\ hook[w].mode = "auto_timeout") =>
          timer[w] # Off /\ timer[w] + age[w] >= Full

\* A zone has one enabled binding.
BoundOnce == \A b, c \in bound : b[2] = c[2] => b = c

Inv ==
    /\ Lined(run, chain, busy)
    /\ BoundOnce
    /\ \A w \in Webhook \ edited :
          /\ Ordered(w, Zones(w), wanted[w], run, chain, busy, zone)
          /\ Timed(w)

-----------------------------------------------------------------------------
\* The operations on the chain

Runs == [Run -> Running \cup {IdleRun}]

\* A run in progress has a zone and the rest; one that is idle has not.
LEMMA RunFields ==
    /\ IdleRun \notin Running
    /\ \A r \in Running : /\ r.hook \in Webhook /\ r.origin \in Origin /\ r.arms \in BOOLEAN
                          /\ r.at \in Zone /\ r.at \in Nat
                          /\ r.todo \in SUBSET Zone /\ r.todo \in SUBSET Nat
  BY ZoneAssumption DEF Running, IdleRun, Origin

\* The first and the last place of a chain
LEMMA ChainTail ==
    ASSUME NEW q \in Seq(Run), q # <<>>
    PROVE  /\ Head(q) \in Run /\ Tail(q) \in Seq(Run) /\ Head(q) = q[1] /\ Len(q) \in Nat
           /\ Len(Tail(q)) = Len(q) - 1 /\ 1 \in 1..Len(q)
           /\ \A i \in 1..Len(Tail(q)) : i + 1 \in 1..Len(q) /\ Tail(q)[i] = q[i + 1]
           /\ \A i \in 1..Len(q) : i # 1 => i - 1 \in 1..Len(Tail(q)) /\ Tail(q)[i - 1] = q[i]
<1>1. /\ Head(q) \in Run /\ Tail(q) \in Seq(Run) /\ Len(q) \in Nat /\ Len(q) # 0
      /\ Len(Tail(q)) = Len(q) - 1
      /\ \A i \in 1..Len(Tail(q)) : Tail(q)[i] = q[i + 1]
  BY HeadTailProperties, EmptySeq, LenProperties
<1>2. \A i \in 1..Len(q) : i # 1 => i - 1 \in 1..Len(Tail(q)) /\ (i - 1) + 1 = i
  BY <1>1
<1>3. \A i \in 1..Len(Tail(q)) : i + 1 \in 1..Len(q)
  BY <1>1
<1>4. 1 \in 1..Len(q) /\ Head(q) = q[1]
  BY <1>1
<1>5. QED
  BY <1>1, <1>2, <1>3, <1>4

LEMMA ChainAppend ==
    ASSUME NEW q \in Seq(Run), NEW h \in Run
    PROVE  /\ Append(q, h) \in Seq(Run) /\ Len(q) \in Nat
           /\ Len(q) + 1 \in 1..Len(Append(q, h)) /\ Append(q, h)[Len(q) + 1] = h
           /\ \A i \in 1..Len(q) : /\ i \in 1..Len(Append(q, h)) /\ Append(q, h)[i] = q[i]
                                   /\ i < Len(q) + 1
           /\ \A i \in 1..Len(Append(q, h)) : i \in 1..Len(q) \/ i = Len(q) + 1
<1>1. /\ Append(q, h) \in Seq(Run) /\ Len(q) \in Nat /\ Len(Append(q, h)) = Len(q) + 1
      /\ \A i \in 1..Len(q) : Append(q, h)[i] = q[i]
      /\ Append(q, h)[Len(q) + 1] = h
  BY AppendProperties, LenProperties
<1>2. QED
  BY <1>1

\* A run joins the chain.
LEMMA LinedSubmit ==
    ASSUME NEW r \in Runs, NEW p \in Runs, NEW q, NEW b, NEW h \in Run, Lined(r, q, b),
           r[h] = IdleRun, p[h] # IdleRun, \A g \in Run \ {h} : p[g] = r[g]
    PROVE  Lined(p, Append(q, h), b)
<1>1. q \in Seq(Run)
  BY DEF Lined
<1>2. \A i \in 1..Len(q) : q[i] \in Run /\ q[i] # h
  BY <1>1, LenProperties DEF Lined
<1>3. b # h /\ (b # NoRun => b \in Run /\ p[b] # IdleRun)
  BY OtherAssumption DEF Lined
<1> DEFINE c == Append(q, h)
           n == Len(q) + 1
<1>4. /\ c \in Seq(Run) /\ n \in 1..Len(c) /\ c[n] = h
      /\ \A i \in 1..Len(q) : i \in 1..Len(c) /\ c[i] = q[i]
      /\ \A i \in 1..Len(c) : i \in 1..Len(q) \/ i = n
  BY <1>1, ChainAppend
<1> HIDE DEF c, n
<1>5. \A i, j \in 1..Len(c) : c[i] = c[j] => i = j
  BY <1>2, <1>4 DEF Lined
<1>6. \A i \in 1..Len(c) : c[i] # b /\ p[c[i]] # IdleRun
  BY <1>2, <1>3, <1>4 DEF Lined
<1>7. ASSUME NEW g \in Run, p[g] # IdleRun
      PROVE  g = b \/ \E i \in 1..Len(c) : c[i] = g
  <2>1. CASE g = h
    BY <1>4, <2>1
  <2>2. CASE g # h
    <3>1. r[g] # IdleRun
      BY <1>7, <2>2
    <3>2. g = b \/ \E i \in 1..Len(q) : q[i] = g
      BY <3>1 DEF Lined
    <3>3. QED
      BY <1>4, <3>2
  <2>3. QED
    BY <2>1, <2>2
<1>8. Lined(p, c, b)
  BY <1>3, <1>4, <1>5, <1>6, <1>7 DEF Lined
<1>9. QED
  BY <1>8 DEF c

\* The panel takes the first operation of the chain.
LEMMA LinedTake ==
    ASSUME NEW r \in Runs, NEW q, Lined(r, q, NoRun), q # <<>>
    PROVE  /\ Head(q) \in Run /\ r[Head(q)] \in Running
           /\ Lined(r, Tail(q), Head(q))
<1>1. q \in Seq(Run)
  BY DEF Lined
<1>2. Head(q) \in Run /\ r[Head(q)] # IdleRun
  BY <1>1, ChainTail DEF Lined
<1>3. r[Head(q)] \in Running
  BY <1>2 DEF Runs
<1>4. Tail(q) \in Seq(Run)
  BY <1>1, ChainTail
<1>5. \A i, j \in 1..Len(Tail(q)) : Tail(q)[i] = Tail(q)[j] => i = j
  <2> TAKE i, j \in 1..Len(Tail(q))
  <2>1. i + 1 = j + 1 => i = j
    BY <1>4, LenProperties
  <2>2. QED
    BY <1>1, <2>1, ChainTail DEF Lined
<1>6. \A i \in 1..Len(Tail(q)) : Tail(q)[i] # Head(q) /\ r[Tail(q)[i]] # IdleRun
  <2> TAKE i \in 1..Len(Tail(q))
  <2>1. i + 1 # 1
    BY <1>4, LenProperties
  <2>2. QED
    BY <1>1, <2>1, ChainTail DEF Lined
<1>7. \A h \in Run : r[h] # IdleRun => h = Head(q) \/ \E i \in 1..Len(Tail(q)) : Tail(q)[i] = h
  <2> SUFFICES ASSUME NEW h \in Run, r[h] # IdleRun, h # Head(q)
               PROVE  \E i \in 1..Len(Tail(q)) : Tail(q)[i] = h
    OBVIOUS
  <2>1. h # NoRun
    BY OtherAssumption
  <2>2. PICK i \in 1..Len(q) : q[i] = h
    BY <2>1 DEF Lined
  <2>3. i # 1
    BY <1>1, <2>2, ChainTail
  <2>4. QED
    BY <1>1, <2>2, <2>3, ChainTail
<1>8. QED
  BY <1>2, <1>3, <1>4, <1>5, <1>6, <1>7 DEF Lined

\* The operation that is over is followed by the run's next one ...
LEMMA LinedAdvance ==
    ASSUME NEW r \in Runs, NEW p \in Runs, NEW q, NEW b, Lined(r, q, b), b # NoRun,
           p[b] # IdleRun, \A g \in Run \ {b} : p[g] = r[g]
    PROVE  Lined(p, Append(q, b), NoRun)
<1>1. q \in Seq(Run) /\ b \in Run
  BY DEF Lined
<1>2. \A i \in 1..Len(q) : q[i] \in Run /\ q[i] # b
  BY <1>1, LenProperties DEF Lined
<1>3. QED
  BY <1>1, <1>2, ChainAppend, OtherAssumption DEF Lined

\* ... or is the run's last.
LEMMA LinedEnd ==
    ASSUME NEW r \in Runs, NEW p \in Runs, NEW q, NEW b, Lined(r, q, b), b # NoRun,
           p[b] = IdleRun, \A g \in Run \ {b} : p[g] = r[g]
    PROVE  Lined(p, q, NoRun)
<1>1. q \in Seq(Run) /\ b \in Run
  BY DEF Lined
<1>2. \A i \in 1..Len(q) : q[i] \in Run /\ q[i] # b
  BY <1>1, LenProperties DEF Lined
<1>3. QED
  BY <1>1, <1>2, OtherAssumption DEF Lined

-----------------------------------------------------------------------------
\* The order of the runs of a webhook

\* Those that wait keep their turns when the first is taken, and when another
\* one joins.
LEMMA BeforeTake ==
    ASSUME NEW r \in Runs, NEW q, Lined(r, q, NoRun), q # <<>>,
           NEW h \in Run, NEW g \in Run, Before(q, NoRun, h, g)
    PROVE  Before(Tail(q), Head(q), h, g)
<1>1. q \in Seq(Run) /\ h # NoRun
  BY OtherAssumption DEF Lined
<1>2. PICK i, j \in 1..Len(q) : i < j /\ q[i] = h /\ q[j] = g
  BY <1>1 DEF Before
<1>3. CASE i = 1
  BY <1>1, <1>2, <1>3, ChainTail DEF Before
<1>4. CASE i # 1
  <2>1. j # 1 /\ i - 1 < j - 1
    BY <1>2
  <2>2. /\ i - 1 \in 1..Len(Tail(q)) /\ Tail(q)[i - 1] = h
        /\ j - 1 \in 1..Len(Tail(q)) /\ Tail(q)[j - 1] = g
    BY <1>1, <1>2, <1>4, <2>1, ChainTail
  <2>3. QED
    BY <2>1, <2>2 DEF Before
<1>5. QED
  BY <1>3, <1>4

LEMMA BeforeAppend ==
    ASSUME NEW q \in Seq(Run), NEW b, NEW c, NEW k \in Run, NEW h \in Run, NEW g \in Run
    PROVE  /\ Before(q, b, h, g) /\ (h # b \/ b = c) => Before(Append(q, k), c, h, g)
           /\ (\E i \in 1..Len(q) : q[i] = h) => Before(Append(q, k), c, h, k)
<1> DEFINE d == Append(q, k)
           n == Len(q) + 1
<1>1. /\ n \in 1..Len(d) /\ d[n] = k
      /\ \A i \in 1..Len(q) : i \in 1..Len(d) /\ d[i] = q[i] /\ i < n
  BY ChainAppend
<1> HIDE DEF d, n
<1>2. /\ Before(q, b, h, g) /\ (h # b \/ b = c) => Before(d, c, h, g)
      /\ (\E i \in 1..Len(q) : q[i] = h) => Before(d, c, h, k)
  BY <1>1 DEF Before
<1>3. QED
  BY <1>2 DEF d

\* The run being written comes after no other.
LEMMA NoneBeforeBusy ==
    ASSUME NEW r, NEW q, NEW b, Lined(r, q, b), NEW h, h # b
    PROVE  ~Before(q, b, h, b)
  BY DEF Lined, Before

\* The zones of a run in progress, and those it has to set
LEMMA Least ==
    ASSUME NEW S \in SUBSET Nat, S # {}
    PROVE  Min(S) \in S /\ Min(S) \in Nat /\ \A z \in S : Min(S) <= z
  BY MinOf

\* The panel takes an operation and sets its zone.
LEMMA OrderedTake ==
    ASSUME NEW w, NEW Z \in SUBSET Zone, NEW want, NEW r \in Runs, NEW q,
           NEW zn, DOMAIN zn = Zone, Lined(r, q, NoRun), q # <<>>,
           Ordered(w, Z, want, r, q, NoRun, zn)
    PROVE  Ordered(w, Z, want, r, Tail(q), Head(q),
                   [zn EXCEPT ![r[Head(q)].at] = Asks(r[Head(q)].origin)])
<1> DEFINE h  == Head(q)
           t  == Tail(q)
           zm == [zn EXCEPT ![r[h].at] = Asks(r[h].origin)]
<1>1. h \in Run /\ r[h] \in Running
  BY LinedTake
<1>2. \A g, l \in Run : Ahead(r, q, NoRun, g, l) => Ahead(r, t, h, g, l)
  BY BeforeTake DEF Ahead
<1>3. zm[r[h].at] = Asks(r[h].origin) /\ \A z \in Zone : z # r[h].at => zm[z] = zn[z]
  BY <1>1, RunFields
<1> HIDE DEF h, t, zm
<1>4. ASSUME RunsOf(r, w) # {}
      PROVE  \E l \in RunsOf(r, w) : /\ Asks(r[l].origin) = want
                                     /\ \A g \in RunsOf(r, w) \ {l} : Ahead(r, t, h, g, l)
  BY <1>2, <1>4 DEF Ordered, InPlace, RunsOf
<1>5. ASSUME NEW z \in Z, \A g \in RunsOf(r, w) : ~Sets(r, h, g, z)
      PROVE  zm[z] = want
  <2>1. CASE z = r[h].at
    <3>1. h \in RunsOf(r, w)
      BY <1>1, <2>1, RunFields DEF Ordered, InPlace, RunsOf
    <3>2. PICK l \in RunsOf(r, w) : /\ Asks(r[l].origin) = want
                                    /\ \A g \in RunsOf(r, w) \ {l} : Ahead(r, q, NoRun, g, l)
      BY <3>1 DEF Ordered, InPlace
    <3>3. l = h
      <4>1. SUFFICES ASSUME l # h PROVE FALSE
        OBVIOUS
      <4>2. r[h].at > r[l].at \/ r[h].at = r[l].at
        BY <3>1, <3>2, <4>1 DEF Ahead
      <4>3. r[h].at > r[l].at => r[h].at \in r[l].todo
        BY <1>5, <2>1, <3>2 DEF Ordered, InPlace
      <4>4. Sets(r, h, l, z)
        BY <2>1, <4>1, <4>2, <4>3 DEF Sets
      <4>5. QED
        BY <1>5, <3>2, <4>4
    <3>4. QED
      BY <1>3, <2>1, <3>2, <3>3
  <2>2. CASE z # r[h].at
    <3>1. \A g \in RunsOf(r, w) : ~Sets(r, NoRun, g, z)
      BY <1>5, <2>2 DEF Sets
    <3>2. QED
      BY <1>3, <2>2, <3>1 DEF Ordered, InPlace
  <2>3. QED
    BY <2>1, <2>2
<1>6. Ordered(w, Z, want, r, t, h, zm)
  BY <1>4, <1>5 DEF Ordered, InPlace
<1>7. QED
  BY <1>6 DEF h, t, zm

\* The run whose operation is over takes its next zone.
LEMMA OrderedAdvance ==
    ASSUME NEW w, NEW Z \in SUBSET Zone, NEW want, NEW r \in Runs, NEW p \in Runs,
           NEW q, NEW b, NEW zn, Lined(r, q, b), b # NoRun, r[b].todo # {},
           Ordered(w, Z, want, r, q, b, zn),
           p[b] \in Running, p[b].hook = r[b].hook, p[b].origin = r[b].origin,
           p[b].at = Min(r[b].todo), p[b].todo = r[b].todo \ {Min(r[b].todo)},
           \A g \in Run \ {b} : p[g] = r[g]
    PROVE  Ordered(w, Z, want, p, Append(q, b), NoRun, zn)
<1> DEFINE m == Min(r[b].todo)
           d == Append(q, b)
<1>1. b \in Run /\ r[b] \in Running /\ q \in Seq(Run)
  BY DEF Lined, Runs
<1>2. /\ m \in r[b].todo /\ m \in Nat /\ \A z \in r[b].todo : m <= z
      /\ \A z \in r[b].todo : z \in Nat /\ r[b].at \in Nat
  BY <1>1, Least, RunFields
<1>3. p[b].at = m /\ p[b].todo = r[b].todo \ {m}
  OBVIOUS
<1> HIDE DEF m, d
<1>4. RunsOf(p, w) = RunsOf(r, w)
  BY <1>1, RunFields DEF RunsOf
<1>5. \A h \in RunsOf(r, w) : h \in Run /\ r[h].at \in Nat /\ r[h] # IdleRun
  BY RunFields DEF RunsOf, Runs
<1>6. \A h \in RunsOf(r, w) : r[h].at \in Z /\ r[h].todo = {z \in Z : z > r[h].at}
  BY DEF Ordered, InPlace
<1>7. \A z \in Z : z \in Nat
  BY ZoneAssumption
<1>8. b \in RunsOf(r, w) => m \in Z /\ m > r[b].at
  BY <1>2, <1>6
<1>9. ASSUME NEW h \in RunsOf(r, w)
      PROVE  p[h].at \in Z /\ p[h].todo = {z \in Z : z > p[h].at}
  <2>1. CASE h = b
    <3>1. r[b].todo \ {m} = {z \in Z : z > m}
      BY <1>2, <1>6, <1>7, <1>8, <1>9, <2>1
    <3>2. QED
      BY <1>3, <1>8, <1>9, <2>1, <3>1
  <2>2. CASE h # b
    BY <1>5, <1>6, <2>2
  <2>3. QED
    BY <2>1, <2>2
<1>10. ASSUME NEW h \in Run, p[h] # IdleRun, p[h].hook # w
       PROVE  p[h].at \notin Z /\ p[h].todo \cap Z = {}
  <2>1. r[h].at \notin Z /\ r[h].todo \cap Z = {}
    BY <1>1, <1>10, RunFields DEF Ordered, InPlace
  <2>2. CASE h = b
    BY <1>2, <1>3, <2>1, <2>2
  <2>3. CASE h # b
    BY <2>1, <2>3
  <2>4. QED
    BY <2>2, <2>3
<1>11. ASSUME NEW l \in RunsOf(r, w), NEW h \in RunsOf(r, w), h # l, Ahead(r, q, b, h, l)
       PROVE  Ahead(p, d, NoRun, h, l)
  <2>1. r[h].at > r[l].at \/ (r[h].at = r[l].at /\ Before(q, b, h, l))
    BY <1>11 DEF Ahead
  <2>2. CASE h = b
    <3>1. p[h].at > r[h].at /\ p[l].at = r[l].at
      BY <1>3, <1>5, <1>8, <1>11, <2>2
    <3>2. r[h].at >= r[l].at /\ p[h].at \in Nat
      BY <1>2, <1>3, <1>5, <2>1, <2>2
    <3>3. p[h].at > p[l].at
      BY <1>5, <3>1, <3>2
    <3>4. QED
      BY <3>3 DEF Ahead
  <2>3. CASE l = b
    <3>1. ~Before(q, b, h, b)
      BY <1>11, <2>3, NoneBeforeBusy
    <3>2. r[h].at > r[b].at
      BY <2>1, <2>3, <3>1
    <3>3. r[h].at \in r[b].todo
      BY <1>6, <2>3, <3>2
    <3>4. m <= r[h].at
      BY <1>2, <3>3
    <3>5. \E i \in 1..Len(q) : q[i] = h
      BY <1>5, <1>11, <2>3 DEF Lined
    <3>6. Before(d, NoRun, h, b)
      BY <1>1, <1>5, <3>5, BeforeAppend DEF d
    <3>7. p[h].at = r[h].at
      BY <1>5, <1>11, <2>3
    <3>8. m < r[h].at \/ m = r[h].at
      BY <1>2, <1>5, <3>4
    <3>9. QED
      BY <1>3, <2>3, <3>6, <3>7, <3>8 DEF Ahead
  <2>4. CASE h # b /\ l # b
    <3>1. Before(q, b, h, l) => Before(d, NoRun, h, l)
      BY <1>1, <1>5, <2>4, BeforeAppend DEF d
    <3>2. p[h].at = r[h].at /\ p[l].at = r[l].at
      BY <1>5, <2>4
    <3>3. QED
      BY <2>1, <3>1, <3>2 DEF Ahead
  <2>5. QED
    BY <2>2, <2>3, <2>4
<1>12. \A h \in RunsOf(r, w) : Asks(p[h].origin) = Asks(r[h].origin)
  BY <1>5
<1>13. ASSUME NEW z \in Z, NEW h \in RunsOf(r, w), Sets(r, b, h, z)
       PROVE  Sets(p, NoRun, h, z)
  <2>1. h # NoRun
    BY <1>5, OtherAssumption
  <2>2. QED
    BY <1>2, <1>3, <1>5, <1>13, <2>1 DEF Sets
<1>14. Ordered(w, Z, want, p, d, NoRun, zn)
  <2>1. RunsOf(p, w) # {} =>
          \E l \in RunsOf(p, w) : /\ Asks(p[l].origin) = want
                                  /\ \A h \in RunsOf(p, w) \ {l} : Ahead(p, d, NoRun, h, l)
    BY <1>4, <1>11, <1>12 DEF Ordered, InPlace
  <2>2. \A z \in Z : (\A h \in RunsOf(p, w) : ~Sets(p, NoRun, h, z)) => zn[z] = want
    BY <1>4, <1>13 DEF Ordered, InPlace
  <2>3. QED
    BY <1>4, <1>9, <1>10, <2>1, <2>2 DEF Ordered, InPlace
<1>15. QED
  BY <1>14 DEF d

\* The run whose last operation is over ends.
LEMMA OrderedEnd ==
    ASSUME NEW w, NEW Z \in SUBSET Zone, NEW want, NEW r \in Runs, NEW p \in Runs,
           NEW q, NEW b, NEW zn, Lined(r, q, b), b # NoRun, r[b].todo = {},
           Ordered(w, Z, want, r, q, b, zn),
           p[b] = IdleRun, \A g \in Run \ {b} : p[g] = r[g]
    PROVE  Ordered(w, Z, want, p, q, NoRun, zn)
<1>1. b \in Run /\ r[b] # IdleRun
  BY DEF Lined
<1>2. RunsOf(p, w) = RunsOf(r, w) \ {b}
  BY <1>1 DEF RunsOf
<1>3. \A h \in RunsOf(r, w) : h \in Run /\ r[h].at \in Nat /\ r[h].at \in Z
                              /\ r[h].todo = {z \in Z : z > r[h].at}
  BY RunFields DEF RunsOf, Runs, Ordered, InPlace
<1>4. \A h \in RunsOf(p, w) : h # b /\ p[h] = r[h]
  BY <1>2, <1>3
<1>5. \A h \in Run : p[h] # IdleRun => h # b /\ p[h] = r[h]
  OBVIOUS
<1>6. ASSUME RunsOf(p, w) # {}
      PROVE  \E l \in RunsOf(p, w) : /\ Asks(p[l].origin) = want
                                     /\ \A h \in RunsOf(p, w) \ {l} : Ahead(p, q, NoRun, h, l)
  <2>1. PICK l \in RunsOf(r, w) : /\ Asks(r[l].origin) = want
                                  /\ \A h \in RunsOf(r, w) \ {l} : Ahead(r, q, b, h, l)
    BY <1>2, <1>6 DEF Ordered, InPlace
  <2>2. l # b
    <3>1. SUFFICES ASSUME l = b PROVE FALSE
      OBVIOUS
    <3>2. PICK h \in RunsOf(p, w) : TRUE
      BY <1>6
    <3>3. h \in RunsOf(r, w) /\ h # b /\ Ahead(r, q, b, h, b)
      BY <1>2, <2>1, <3>1, <3>2
    <3>4. r[h].at > r[b].at
      BY <3>3, NoneBeforeBusy DEF Ahead
    <3>5. r[h].at \in r[b].todo
      BY <1>3, <2>1, <3>1, <3>3, <3>4
    <3>6. QED
      BY <3>5
  <2>3. ASSUME NEW h \in RunsOf(p, w) \ {l} PROVE Ahead(p, q, NoRun, h, l)
    <3>1. p[h] = r[h] /\ p[l] = r[l] /\ h # b /\ Ahead(r, q, b, h, l)
      BY <1>2, <1>4, <2>1, <2>2
    <3>2. QED
      BY <3>1 DEF Ahead, Before
  <2>4. QED
    BY <1>2, <1>4, <2>1, <2>2, <2>3
<1>7. ASSUME NEW z \in Z, \A h \in RunsOf(p, w) : ~Sets(p, NoRun, h, z)
      PROVE  zn[z] = want
  <2>1. ASSUME NEW h \in RunsOf(r, w) PROVE ~Sets(r, b, h, z)
    <3>1. CASE h = b
      BY <3>1 DEF Sets
    <3>2. CASE h # b
      <4>1. h \in RunsOf(p, w) /\ p[h] = r[h] /\ h # NoRun
        BY <1>2, <1>3, <1>4, <3>2, OtherAssumption
      <4>2. QED
        BY <1>7, <4>1 DEF Sets
    <3>3. QED
      BY <3>1, <3>2
  <2>2. QED
    BY <2>1 DEF Ordered, InPlace
<1>8. \A h \in RunsOf(p, w) : p[h].at \in Z /\ p[h].todo = {z \in Z : z > p[h].at}
  BY <1>2, <1>3, <1>4
<1>9. \A h \in Run : (p[h] # IdleRun /\ p[h].hook # w) => p[h].at \notin Z /\ p[h].todo \cap Z = {}
  BY <1>5 DEF Ordered, InPlace
<1>10. QED
  BY <1>6, <1>7, <1>8, <1>9 DEF Ordered, InPlace

\* A new run of w begins with the first zone, behind all the others: nothing of
\* what was ordered before counts but the zones of the runs.
LEMMA OrderedSubmit ==
    ASSUME NEW w, NEW Z \in SUBSET Zone, Z # {}, NEW r \in Runs, NEW p \in Runs,
           NEW q, NEW b, NEW zn, NEW h \in Run, Lined(r, q, b), InPlace(w, Z, r),
           r[h] = IdleRun, p[h] \in Running, p[h].hook = w,
           p[h].at = Min(Z), p[h].todo = Z \ {Min(Z)},
           \A g \in Run \ {h} : p[g] = r[g]
    PROVE  Ordered(w, Z, Asks(p[h].origin), p, Append(q, h), b, zn)
<1> DEFINE m == Min(Z)
           d == Append(q, h)
<1>1. m \in Z /\ \A z \in Z : z \in Nat /\ m <= z
  BY Least, ZoneAssumption
<1>2. p[h].at = m /\ p[h].todo = Z \ {m}
  OBVIOUS
<1> HIDE DEF m
<1>3. RunsOf(p, w) = RunsOf(r, w) \cup {h} /\ h \notin RunsOf(r, w)
  BY RunFields DEF RunsOf
<1>4. \A g \in RunsOf(r, w) : g \in Run /\ g # h /\ p[g] = r[g]
  BY <1>3 DEF RunsOf
<1>5. p[h].todo = {z \in Z : z > p[h].at}
  BY <1>1, <1>2
<1>6. \A g \in RunsOf(p, w) : p[g].at \in Z /\ p[g].todo = {z \in Z : z > p[g].at}
  BY <1>1, <1>2, <1>3, <1>4, <1>5 DEF InPlace
<1>7. \A g \in Run : (p[g] # IdleRun /\ p[g].hook # w) => p[g].at \notin Z /\ p[g].todo \cap Z = {}
  BY DEF InPlace
<1>8. ASSUME NEW g \in RunsOf(r, w) PROVE Ahead(p, d, b, g, h)
  <2>1. p[g].at = r[g].at /\ r[g].at \in Z
    BY <1>4 DEF InPlace
  <2>2. r[g].at > m \/ r[g].at = m
    BY <1>1, <2>1
  <2>3. g = b \/ \E i \in 1..Len(q) : q[i] = g
    BY DEF Lined, RunsOf
  <2>4. q \in Seq(Run)
    BY DEF Lined
  <2>5. Before(d, b, g, h)
    <3>1. CASE g = b
      BY <3>1 DEF Before
    <3>2. CASE \E i \in 1..Len(q) : q[i] = g
      BY <1>4, <2>4, <3>2, BeforeAppend
    <3>3. QED
      BY <2>3, <3>1, <3>2
  <2>6. QED
    BY <1>2, <2>1, <2>2, <2>5 DEF Ahead
<1>9. \A g \in RunsOf(p, w) \ {h} : Ahead(p, d, b, g, h)
  BY <1>3, <1>8
<1>10. ASSUME NEW z \in Z PROVE Sets(p, b, h, z)
  <2>1. h # b
    BY OtherAssumption DEF Lined
  <2>2. QED
    BY <1>2, <2>1 DEF Sets
<1>11. h \in RunsOf(p, w)
  BY <1>3
<1>12. QED
  BY <1>6, <1>7, <1>9, <1>10, <1>11 DEF Ordered, InPlace

\* A new run of another webhook changes nothing for w.
LEMMA OrderedOther ==
    ASSUME NEW w, NEW Z \in SUBSET Zone, NEW want, NEW r \in Runs, NEW p \in Runs,
           NEW q, NEW b, NEW zn, NEW h \in Run, Lined(r, q, b),
           Ordered(w, Z, want, r, q, b, zn),
           r[h] = IdleRun, p[h].hook # w, p[h].at \notin Z, p[h].todo \cap Z = {},
           \A g \in Run \ {h} : p[g] = r[g]
    PROVE  Ordered(w, Z, want, p, Append(q, h), b, zn)
<1> DEFINE d == Append(q, h)
<1>1. q \in Seq(Run)
  BY DEF Lined
<1>2. RunsOf(p, w) = RunsOf(r, w) /\ \A g \in RunsOf(r, w) : g \in Run /\ p[g] = r[g]
  BY DEF RunsOf
<1>3. ASSUME NEW g \in RunsOf(r, w), NEW l \in RunsOf(r, w), Ahead(r, q, b, g, l)
      PROVE  Ahead(p, d, b, g, l)
  <2>1. Before(q, b, g, l) => Before(d, b, g, l)
    BY <1>1, <1>2, BeforeAppend
  <2> HIDE DEF d
  <2>2. QED
    BY <1>2, <1>3, <2>1 DEF Ahead
<1>4. \A z : \A g \in RunsOf(r, w) : Sets(p, b, g, z) = Sets(r, b, g, z)
  BY <1>2 DEF Sets
<1> HIDE DEF d
<1>5. /\ \A g \in RunsOf(p, w) : p[g].at \in Z /\ p[g].todo = {z \in Z : z > p[g].at}
      /\ \A g \in Run : (p[g] # IdleRun /\ p[g].hook # w) =>
                            p[g].at \notin Z /\ p[g].todo \cap Z = {}
  BY <1>2 DEF Ordered, InPlace
<1>6. RunsOf(p, w) # {} =>
         \E l \in RunsOf(p, w) : /\ Asks(p[l].origin) = want
                                 /\ \A g \in RunsOf(p, w) \ {l} : Ahead(p, d, b, g, l)
  BY <1>2, <1>3 DEF Ordered, InPlace
<1>7. \A z \in Z : (\A g \in RunsOf(p, w) : ~Sets(p, b, g, z)) => zn[z] = want
  BY <1>2, <1>4 DEF Ordered, InPlace
<1>8. Ordered(w, Z, want, p, d, b, zn)
  BY <1>5, <1>6, <1>7 DEF Ordered, InPlace
<1>9. QED
  BY <1>8 DEF d

-----------------------------------------------------------------------------
\* The panel's steps

Timers == [Webhook -> Off..Full]
Stated(q, b, zn) ==
    \A w \in Webhook \ edited : Ordered(w, Zones(w), wanted[w], run, q, b, zn) /\ Timed(w)

RunInv == TypeOK /\ Inv

\* The run's next zone
LEMMA ResumeAdvances ==
    ASSUME run \in Runs, NEW h \in Run, NEW q, run[h] \in Running, run[h].todo # {}, Resume(h, q)
    PROVE  /\ run' \in Runs /\ \A g \in Run \ {h} : run'[g] = run[g]
           /\ run'[h] \in Running /\ run'[h].hook = run[h].hook /\ run'[h].arms = run[h].arms
           /\ run'[h].origin = run[h].origin /\ run'[h].at = Min(run[h].todo)
           /\ run'[h].todo = run[h].todo \ {Min(run[h].todo)}
           /\ chain' = Append(q, h) /\ timer' = timer
<1> DEFINE m == Min(run[h].todo)
           T == run[h].todo \ {m}
<1>1. run' = [run EXCEPT ![h].at = m, ![h].todo = T] /\ chain' = Append(q, h) /\ timer' = timer
  BY DEF Resume
<1>2. m \in Zone /\ T \in SUBSET Zone
  BY RunFields, Least
<1>3. m = Min(run[h].todo) /\ T = run[h].todo \ {Min(run[h].todo)}
  OBVIOUS
<1> HIDE DEF m, T
<1>4. DOMAIN run = Run /\ \A g \in Run : run[g] \in Running \cup {IdleRun}
  BY DEF Runs
<1>5. DOMAIN run' = Run /\ \A g \in Run \ {h} : run'[g] = run[g]
  BY <1>1, <1>4
<1>6. run'[h] = [[run[h] EXCEPT !.at = m] EXCEPT !.todo = T]
  BY <1>1, <1>4
<1>7. /\ run'[h].hook = run[h].hook /\ run'[h].arms = run[h].arms
      /\ run'[h].origin = run[h].origin /\ run'[h].at = m /\ run'[h].todo = T
      /\ run'[h] \in Running
  BY <1>2, <1>6 DEF Running
<1>8. run' = [g \in Run |-> run'[g]]
  BY <1>1, <1>4
<1>9. run' \in Runs
  BY <1>4, <1>5, <1>7, <1>8 DEF Runs
<1>10. QED
  BY <1>1, <1>3, <1>5, <1>7, <1>9

\* The end of the run
LEMMA ResumeEnds ==
    ASSUME run \in Runs, NEW h \in Run, NEW q, run[h] \in Running, run[h].todo = {}, Resume(h, q)
    PROVE  /\ run' \in Runs /\ \A g \in Run \ {h} : run'[g] = run[g]
           /\ run'[h] = IdleRun /\ chain' = q
           /\ timer' = IF run[h].arms THEN Arm(timer, run[h].hook) ELSE timer
<1>1. /\ run' = [run EXCEPT ![h] = IdleRun] /\ chain' = q
      /\ timer' = IF run[h].arms THEN Arm(timer, run[h].hook) ELSE timer
  BY DEF Resume
<1>2. QED
  BY <1>1 DEF Runs

\* After an operation the run goes on or ends, and the last run of an Active
\* schedules its restore.
LEMMA ResumeInv ==
    ASSUME run \in Runs, timer \in Timers, age \in [Webhook -> 0..Full],
           NEW h, h # NoRun, NEW q, Lined(run, q, h), Stated(q, h, zone'),
           Resume(h, q), busy' = NoRun, UNCHANGED <<confVars, histVars, edited>>
    PROVE  /\ run' \in Runs /\ timer' \in Timers
           /\ Lined(run', chain', busy')
           /\ \A w \in Webhook \ edited :
                 Ordered(w, Zones(w), wanted[w], run', chain', busy', zone') /\ Timed(w)'
<1>1. h \in Run /\ run[h] \in Running
  BY DEF Lined, Runs
<1>2. UNCHANGED <<hook, condOn, bound, wanted, age>>
  BY DEF confVars, histVars
<1>3. \A w : Zones(w) \in SUBSET Zone
  BY DEF Zones
<1>4. CASE run[h].todo # {}
  <2>1. /\ run' \in Runs /\ \A g \in Run \ {h} : run'[g] = run[g]
        /\ run'[h] \in Running /\ run'[h].hook = run[h].hook /\ run'[h].arms = run[h].arms
        /\ run'[h].origin = run[h].origin /\ run'[h].at = Min(run[h].todo)
        /\ run'[h].todo = run[h].todo \ {Min(run[h].todo)}
        /\ chain' = Append(q, h) /\ timer' = timer
    BY <1>1, <1>4, ResumeAdvances
  <2>2. run'[h] # IdleRun
    BY <2>1, RunFields
  <2>3. Lined(run', chain', NoRun)
    BY <2>1, <2>2, LinedAdvance
  <2>4. \A w \in Webhook \ edited : Ordered(w, Zones(w), wanted[w], run', chain', NoRun, zone')
    BY <1>3, <1>4, <2>1, OrderedAdvance DEF Stated
  <2>5. ASSUME NEW w \in Webhook \ edited PROVE Timed(w)'
    <3>1. RunsOf(run', w) = RunsOf(run, w)
      BY <1>1, <2>1, <2>2, RunFields DEF RunsOf
    <3>2. \A g \in RunsOf(run, w) : run'[g].arms = run[g].arms /\ run'[g].origin = run[g].origin
      BY <2>1 DEF RunsOf
    <3>3. QED
      BY <1>2, <2>1, <3>1, <3>2 DEF Stated, Timed
  <2>6. QED
    BY <2>1, <2>3, <2>4, <2>5
<1>5. CASE run[h].todo = {}
  <2>1. /\ run' \in Runs /\ \A g \in Run \ {h} : run'[g] = run[g]
        /\ run'[h] = IdleRun /\ chain' = q
        /\ timer' = IF run[h].arms THEN Arm(timer, run[h].hook) ELSE timer
    BY <1>1, <1>5, ResumeEnds
  <2>2. Lined(run', chain', NoRun)
    BY <2>1, LinedEnd
  <2>3. \A w \in Webhook \ edited : Ordered(w, Zones(w), wanted[w], run', chain', NoRun, zone')
    BY <1>3, <1>5, <2>1, OrderedEnd DEF Stated
  <2>4. Full \in Nat /\ Full > 0 /\ Full \in Off..Full /\ Full # Off
    BY OtherAssumption DEF Off
  <2>5. /\ timer' \in Timers
        /\ \A w \in Webhook : timer'[w] = IF run[h].arms /\ w = run[h].hook THEN Full ELSE timer[w]
    BY <1>1, <2>1, <2>4, RunFields DEF Timers, Arm
  <2>6. ASSUME NEW w \in Webhook \ edited PROVE Timed(w)'
    <3>1. RunsOf(run', w) = RunsOf(run, w) \ {h}
      BY <1>1, <2>1 DEF RunsOf
    <3>2. \A g \in RunsOf(run', w) : run'[g] = run[g]
      BY <2>1, <3>1 DEF RunsOf
    <3>3. /\ \A g \in RunsOf(run, w) :
                run[g].arms = (run[g].origin = "explicit_active" /\ hook[w].mode = "auto_timeout")
          /\ wanted[w] = "Violated" => hook[w].exists /\ hook[w].enabled /\ condOn[w]
          /\ timer[w] # Off => hook[w].mode = "auto_timeout"
          /\ (RunsOf(run, w) = {} /\ wanted[w] = "Violated" /\ hook[w].mode = "auto_timeout") =>
                timer[w] # Off /\ timer[w] + age[w] >= Full
      BY DEF Stated, Timed
    <3>4. h \in RunsOf(run, w) <=> run[h].hook = w
      BY <1>1, RunFields DEF RunsOf
    <3>5. timer'[w] # Off => hook[w].mode = "auto_timeout"
      BY <2>5, <3>3, <3>4
    <3>6. ASSUME RunsOf(run', w) = {}, wanted[w] = "Violated", hook[w].mode = "auto_timeout"
          PROVE  timer'[w] # Off /\ timer'[w] + age[w] >= Full
      <4>1. CASE run[h].hook = w
        <5>1. PICK l \in RunsOf(run, w) : Asks(run[l].origin) = wanted[w]
          BY <3>4, <4>1 DEF Stated, Ordered, InPlace
        <5>2. l = h
          BY <3>1, <3>6, <5>1
        <5>3. run[h].origin = "explicit_active"
          BY <3>6, <5>1, <5>2 DEF Asks, Desired
        <5>4. run[h].arms
          BY <3>3, <3>4, <3>6, <4>1, <5>3
        <5>5. timer'[w] = Full /\ age[w] \in Nat
          BY <2>5, <4>1, <5>4
        <5>6. QED
          BY <2>4, <5>5
      <4>2. CASE run[h].hook # w
        BY <2>5, <3>1, <3>3, <3>4, <3>6, <4>2
      <4>3. QED
        BY <4>1, <4>2
    <3>7. QED
      BY <1>2, <3>1, <3>2, <3>3, <3>5, <3>6 DEF Timed
  <2>7. QED
    BY <2>1, <2>2, <2>3, <2>5, <2>6
<1>6. QED
  BY <1>4, <1>5

LEMMA PanelWroteInv ==
    ASSUME RunInv, PanelWrote
    PROVE  RunInv'
<1>1. /\ busy # NoRun /\ Resume(busy, chain) /\ busy' = NoRun
      /\ UNCHANGED <<confVars, histVars, edited>> /\ zone' = zone /\ edits' = edits
  BY DEF PanelWrote
<1>2. run \in Runs /\ timer \in Timers /\ age \in [Webhook -> 0..Full]
  BY DEF RunInv, TypeOK, Runs, Timers
<1>3. Lined(run, chain, busy) /\ Stated(chain, busy, zone')
  BY <1>1 DEF RunInv, Inv, Stated
<1>4. /\ run' \in Runs /\ timer' \in Timers
      /\ Lined(run', chain', busy')
      /\ \A w \in Webhook \ edited :
            Ordered(w, Zones(w), wanted[w], run', chain', busy', zone') /\ Timed(w)'
  BY <1>1, <1>2, <1>3, ResumeInv
<1>5. chain' \in Seq(Run)
  BY <1>4 DEF Lined
<1>6. UNCHANGED <<hook, condOn, bound, wanted, age>>
  BY <1>1 DEF confVars, histVars
<1>7. TypeOK'
  BY <1>1, <1>4, <1>5, <1>6 DEF RunInv, TypeOK, Runs, Timers
<1>8. Inv'
  BY <1>1, <1>4, <1>6 DEF RunInv, Inv, BoundOnce, Zones
<1>9. QED
  BY <1>7, <1>8 DEF RunInv

LEMMA PanelTakesInv ==
    ASSUME RunInv, PanelTakes
    PROVE  RunInv'
<1> DEFINE h  == Head(chain)
           t  == Tail(chain)
           zm == [zone EXCEPT ![run[h].at] = Asks(run[h].origin)]
<1>1. /\ busy = NoRun /\ chain # <<>> /\ zone' = zm
      /\ UNCHANGED <<confVars, histVars, edited>> /\ edits' = edits
      /\ \/ busy' = h /\ chain' = t /\ UNCHANGED <<run, timer>>
         \/ Resume(h, t) /\ busy' = NoRun
  BY DEF PanelTakes
<1>2. /\ run \in Runs /\ timer \in Timers /\ age \in [Webhook -> 0..Full]
      /\ zone \in [Zone -> {"Normal", "Violated", "unset"}]
  BY DEF RunInv, TypeOK, Runs, Timers
<1>3. Lined(run, chain, NoRun)
  BY <1>1 DEF RunInv, Inv
<1>4. /\ h \in Run /\ run[h] \in Running /\ Lined(run, t, h)
  BY <1>1, <1>2, <1>3, LinedTake
<1>5. \A w : Zones(w) \in SUBSET Zone
  BY DEF Zones
<1>6. Stated(t, h, zm)
  <2>1. ASSUME NEW w \in Webhook \ edited
        PROVE  Ordered(w, Zones(w), wanted[w], run, t, h, zm)
    <3>1. Ordered(w, Zones(w), wanted[w], run, chain, NoRun, zone)
      BY <1>1 DEF RunInv, Inv
    <3>2. DOMAIN zone = Zone
      BY <1>2
    <3>3. QED
      BY <1>1, <1>2, <1>3, <1>5, <3>1, <3>2, OrderedTake
  <2>2. QED
    BY <2>1 DEF Stated, RunInv, Inv
<1>7. zone' \in [Zone -> {"Normal", "Violated", "unset"}]
  BY <1>1, <1>2, <1>4, RunFields DEF Asks
<1> HIDE DEF h, t, zm
<1>8. UNCHANGED <<hook, condOn, bound, wanted, age>>
  BY <1>1 DEF confVars, histVars
<1>9. h # NoRun
  BY <1>4, OtherAssumption
<1>10. /\ run' \in Runs /\ timer' \in Timers /\ busy' \in Run \cup {NoRun}
       /\ Lined(run', chain', busy')
       /\ \A w \in Webhook \ edited :
             Ordered(w, Zones(w), wanted[w], run', chain', busy', zone') /\ Timed(w)'
  <2>1. CASE busy' = h /\ chain' = t /\ UNCHANGED <<run, timer>>
    <3>1. ASSUME NEW w \in Webhook \ edited PROVE Timed(w)'
      BY <1>6, <1>8, <2>1 DEF Stated, Timed, RunsOf
    <3>2. QED
      BY <1>1, <1>2, <1>4, <1>6, <2>1, <3>1 DEF Stated
  <2>2. CASE Resume(h, t) /\ busy' = NoRun
    <3>1. /\ run' \in Runs /\ timer' \in Timers
          /\ Lined(run', chain', busy')
          /\ \A w \in Webhook \ edited :
                Ordered(w, Zones(w), wanted[w], run', chain', busy', zone') /\ Timed(w)'
      BY <1>1, <1>2, <1>4, <1>6, <1>9, <2>2, ResumeInv
    <3>2. QED
      BY <2>2, <3>1
  <2>3. QED
    BY <1>1, <2>1, <2>2
<1>11. chain' \in Seq(Run)
  BY <1>10 DEF Lined
<1>12. TypeOK'
  BY <1>1, <1>7, <1>8, <1>10, <1>11 DEF RunInv, TypeOK, Runs, Timers
<1>13. Inv'
  BY <1>1, <1>8, <1>10 DEF RunInv, Inv, BoundOnce, Zones
<1>14. QED
  BY <1>12, <1>13 DEF RunInv

-----------------------------------------------------------------------------
\* A request or an expiration

\* Nothing is left of earlier runs: the webhook was not edited, or all is at rest.
Clean(w) ==
    \/ w \notin edited
    \/ timer[w] = Off /\ \A h \in Run : run[h] = IdleRun

LEMMA RestIsClean ==
    ASSUME RunInv, NEW w \in Webhook, AtRest(w)
    PROVE  Clean(w)
<1>1. ASSUME NEW h \in Run PROVE run[h] = IdleRun
  <2>1. run[h] # IdleRun => run[h].hook \in Webhook
    BY RunFields DEF RunInv, TypeOK
  <2>2. QED
    BY <2>1 DEF AtRest, Busy
<1>2. QED
  BY <1>1 DEF AtRest, Clean

\* A zone is bound to one webhook.
LEMMA ZonesApart ==
    ASSUME BoundOnce, NEW v, NEW w, v # w, NEW z, z \in Zones(v)
    PROVE  z \notin Zones(w)
<1>1. SUFFICES ASSUME z \in Zones(w) PROVE FALSE
  OBVIOUS
<1>2. <<v, z>> \in bound /\ <<w, z>> \in bound
  BY <1>1 DEF Zones
<1>3. <<v, z>>[2] = <<w, z>>[2] => <<v, z>> = <<w, z>>
  BY <1>2 DEF BoundOnce
<1>4. QED
  BY <1>3

LEMMA SubmitInv ==
    ASSUME RunInv, NEW h \in Run, run[h] = IdleRun, NEW w \in Webhook, NEW origin \in Origin,
           NEW t, t = timer \/ t = Cancel(timer, w), Submit(h, w, origin, t),
           UNCHANGED <<confVars, busy, zone>>,
           Asks(origin) = "Violated" => hook[w].exists /\ hook[w].enabled /\ condOn[w]
    PROVE  /\ run' \in Runs /\ timer' \in Timers /\ Lined(run', chain', busy')
           /\ wanted' \in [Webhook -> {"Normal", "Violated"}] /\ age' \in [Webhook -> 0..Full]
           /\ \A v \in Webhook : v \notin edited \/ (v = w /\ Clean(w)) =>
                 Ordered(v, Zones(v), wanted'[v], run', chain', busy', zone') /\ Timed(v)'
<1> DEFINE Z == Zones(w)
           arms == origin = "explicit_active" /\ hook[w].mode = "auto_timeout"
           new == [hook |-> w, origin |-> origin, arms |-> arms, at |-> Min(Z), todo |-> Z \ {Min(Z)}]
<1>1. /\ run \in Runs /\ timer \in Timers /\ Lined(run, chain, busy) /\ BoundOnce
      /\ wanted \in [Webhook -> {"Normal", "Violated"}] /\ age \in [Webhook -> 0..Full]
      /\ \A v \in Webhook \ edited :
            Ordered(v, Zones(v), wanted[v], run, chain, busy, zone) /\ Timed(v)
  BY DEF RunInv, TypeOK, Inv, Runs, Timers
<1>2. /\ wanted' = [wanted EXCEPT ![w] = Asks(origin)] /\ age' = [age EXCEPT ![w] = 0]
      /\ Z = {} => /\ timer' = IF arms THEN Arm(t, w) ELSE t
                   /\ UNCHANGED <<run, chain>>
      /\ Z # {} => /\ run' = [run EXCEPT ![h] = new] /\ chain' = Append(chain, h) /\ timer' = t
  BY DEF Submit
<1>3. UNCHANGED <<hook, condOn, bound, busy, zone>>
  BY DEF confVars
<1>4. Full \in Nat /\ Full > 0 /\ Full \in Off..Full /\ Off \in Off..Full /\ Full # Off
  BY OtherAssumption DEF Off
<1>5. arms \in BOOLEAN
  OBVIOUS
<1> HIDE DEF arms
<1>6. t \in Timers /\ t[w] \in {timer[w], Off} /\ \A v \in Webhook \ {w} : t[v] = timer[v]
  BY <1>1, <1>4 DEF Timers, Cancel
<1>7. /\ timer' \in Timers /\ \A v \in Webhook \ {w} : timer'[v] = timer[v]
      /\ timer'[w] = IF Z = {} /\ arms THEN Full ELSE t[w]
  BY <1>2, <1>4, <1>6 DEF Timers, Arm
<1>8. /\ wanted' \in [Webhook -> {"Normal", "Violated"}] /\ age' \in [Webhook -> 0..Full]
      /\ wanted'[w] = Asks(origin) /\ age'[w] = 0
      /\ \A v \in Webhook \ {w} : wanted'[v] = wanted[v] /\ age'[v] = age[v]
  BY <1>1, <1>2, <1>4 DEF Asks
<1>9. Z \in SUBSET Zone /\ Z \in SUBSET Nat
  BY ZoneAssumption DEF Zones
<1>10. Z # {} => Min(Z) \in Z
  BY <1>9, Least
<1>11. /\ Z # {} => /\ new \in Running /\ new # IdleRun /\ run' \in Runs
                    /\ run'[h] = new /\ \A g \in Run \ {h} : run'[g] = run[g]
       /\ Z = {} => run' = run
  <2>1. Z # {} => new \in Running
    BY <1>5, <1>9, <1>10 DEF Running
  <2>2. QED
    BY <1>1, <1>2, <2>1, RunFields DEF Runs
<1>12. Z # {} => /\ new.hook = w /\ new.origin = origin /\ new.arms = arms
                 /\ new.at = Min(Z) /\ new.todo = Z \ {Min(Z)}
  OBVIOUS
<1> HIDE DEF new
<1>13. run' \in Runs
  BY <1>1, <1>11
<1>14. Lined(run', chain', busy')
  <2>1. CASE Z = {}
    BY <1>1, <1>2, <1>3, <1>11, <2>1
  <2>2. CASE Z # {}
    <3>1. run'[h] # IdleRun /\ \A g \in Run \ {h} : run'[g] = run[g]
      BY <1>11, <2>2
    <3>2. Lined(run', Append(chain, h), busy)
      BY <1>1, <1>13, <3>1, LinedSubmit
    <3>3. QED
      BY <1>2, <1>3, <2>2, <3>2
  <2>3. QED
    BY <2>1, <2>2
\* the other webhooks
<1>15. ASSUME NEW v \in Webhook \ edited, v # w
       PROVE  Ordered(v, Zones(v), wanted'[v], run', chain', busy', zone') /\ Timed(v)'
  <2>1. wanted'[v] = wanted[v] /\ age'[v] = age[v] /\ timer'[v] = timer[v]
    BY <1>7, <1>8, <1>15
  <2>2. Ordered(v, Zones(v), wanted[v], run, chain, busy, zone) /\ Timed(v)
    BY <1>1
  <2>3. Ordered(v, Zones(v), wanted[v], run', chain', busy, zone)
    <3>1. CASE Z = {}
      BY <1>2, <2>2, <3>1
    <3>2. CASE Z # {}
      <4>1. Zones(v) \in SUBSET Zone /\ \A z \in Zones(v) : z \notin Z
        BY <1>1, <1>15, ZonesApart DEF Zones
      <4>2. run'[h].hook # v /\ run'[h].at \notin Zones(v) /\ run'[h].todo \cap Zones(v) = {}
        BY <1>10, <1>11, <1>12, <1>15, <3>2, <4>1
      <4>3. \A g \in Run \ {h} : run'[g] = run[g]
        BY <1>11, <3>2
      <4>4. chain' = Append(chain, h)
        BY <1>2, <3>2
      <4>5. Ordered(v, Zones(v), wanted[v], run', Append(chain, h), busy, zone)
        BY <1>1, <1>13, <2>2, <4>1, <4>2, <4>3, OrderedOther
      <4>6. QED
        BY <4>4, <4>5
    <3>3. QED
      BY <3>1, <3>2
  <2>4. RunsOf(run', v) = RunsOf(run, v) /\ \A g \in RunsOf(run, v) : run'[g] = run[g]
    BY <1>11, <1>12, <1>15 DEF RunsOf
  <2>5. Timed(v)'
    BY <1>3, <2>1, <2>2, <2>4 DEF Timed
  <2>6. QED
    BY <1>3, <2>1, <2>3, <2>5
\* the webhook itself
<1>16. ASSUME Clean(w)
       PROVE  Ordered(w, Z, wanted'[w], run', chain', busy', zone') /\ Timed(w)'
  <2>1. InPlace(w, Z, run)
    <3>1. CASE w \notin edited
      BY <1>1, <3>1 DEF Ordered, InPlace
    <3>2. CASE \A g \in Run : run[g] = IdleRun
      BY <3>2 DEF RunsOf, InPlace
    <3>3. QED
      BY <1>16, <3>1, <3>2 DEF Clean
  <2>2. /\ \A g \in RunsOf(run, w) :
              run[g].arms = (run[g].origin = "explicit_active" /\ hook[w].mode = "auto_timeout")
        /\ timer[w] # Off => hook[w].mode = "auto_timeout"
    <3>1. CASE w \notin edited
      BY <1>1, <3>1 DEF Timed
    <3>2. CASE timer[w] = Off /\ \A g \in Run : run[g] = IdleRun
      BY <3>2 DEF RunsOf
    <3>3. QED
      BY <1>16, <3>1, <3>2 DEF Clean
  <2>3. Ordered(w, Z, wanted'[w], run', chain', busy', zone')
    <3>1. CASE Z = {}
      <4>1. run' = run
        BY <1>11, <3>1
      <4>2. RunsOf(run', w) = {}
        BY <2>1, <3>1, <4>1 DEF InPlace
      <4>3. QED
        BY <2>1, <3>1, <4>1, <4>2 DEF Ordered, InPlace
    <3>2. CASE Z # {}
      <4>1. /\ run'[h] \in Running /\ run'[h].hook = w /\ run'[h].origin = origin
            /\ run'[h].at = Min(Z) /\ run'[h].todo = Z \ {Min(Z)}
        BY <1>11, <1>12, <3>2
      <4>2. \A g \in Run \ {h} : run'[g] = run[g]
        BY <1>11, <3>2
      <4>3. run \in Runs /\ Lined(run, chain, busy) /\ Z \in SUBSET Zone
        BY <1>1, <1>9
      <4>4. chain' = Append(chain, h)
        BY <1>2, <3>2
      <4> HIDE DEF Z
      <4>5. Ordered(w, Z, Asks(run'[h].origin), run', Append(chain, h), busy, zone)
        BY <1>13, <2>1, <3>2, <4>1, <4>2, <4>3, OrderedSubmit
      <4>6. QED
        BY <1>3, <1>8, <4>1, <4>4, <4>5
    <3>3. QED
      BY <3>1, <3>2
  <2>4. Timed(w)'
    <3>1. RunsOf(run', w) = (IF Z = {} THEN RunsOf(run, w) ELSE RunsOf(run, w) \cup {h})
      BY <1>11, <1>12, RunFields DEF RunsOf
    <3>2. ASSUME NEW g \in RunsOf(run', w)
          PROVE  run'[g].arms = (run'[g].origin = "explicit_active" /\ hook[w].mode = "auto_timeout")
      <4>1. CASE g \in RunsOf(run, w)
        <5>1. run'[g] = run[g]
          BY <1>11, <4>1 DEF RunsOf
        <5>2. QED
          BY <2>2, <4>1, <5>1
      <4>2. CASE Z # {} /\ g = h
        BY <1>11, <1>12, <4>2 DEF arms
      <4>3. QED
        BY <3>1, <3>2, <4>1, <4>2
    <3>3. timer'[w] # Off => hook[w].mode = "auto_timeout"
      BY <1>4, <1>6, <1>7, <2>2 DEF arms
    <3>4. ASSUME RunsOf(run', w) = {}, wanted'[w] = "Violated", hook[w].mode = "auto_timeout"
          PROVE  timer'[w] # Off /\ timer'[w] + age'[w] >= Full
      <4>1. Z = {}
        BY <3>1, <3>4
      <4>2. arms
        BY <1>8, <3>4 DEF arms, Asks, Desired
      <4>3. timer'[w] = Full
        BY <1>7, <4>1, <4>2
      <4>4. QED
        BY <1>4, <1>8, <4>3
    <3>5. QED
      BY <1>3, <1>8, <3>2, <3>3, <3>4 DEF Timed
  <2>5. QED
    BY <2>3, <2>4
<1>17. ASSUME NEW v \in Webhook, v \notin edited \/ (v = w /\ Clean(w))
       PROVE  Ordered(v, Zones(v), wanted'[v], run', chain', busy', zone') /\ Timed(v)'
  <2>1. CASE v = w
    <3>1. Clean(w)
      BY <1>17, <2>1 DEF Clean
    <3>2. Ordered(w, Zones(w), wanted'[w], run', chain', busy', zone') /\ Timed(w)'
      BY <1>16, <3>1
    <3>3. QED
      BY <2>1, <3>2
  <2>2. CASE v # w
    <3>1. v \in Webhook \ edited
      BY <1>17, <2>2
    <3>2. QED
      BY <1>15, <2>2, <3>1
  <2>3. QED
    BY <2>1, <2>2
<1>18. QED
  BY <1>7, <1>8, <1>13, <1>14, <1>17

LEMMA ReceiveInv ==
    ASSUME RunInv, NEW h \in Run, NEW w \in Webhook, NEW origin \in Origin, Receive(h, w, origin)
    PROVE  RunInv'
<1> DEFINE t == IF origin = "explicit_inactive" THEN Cancel(timer, w) ELSE timer
<1>1. /\ run[h] = IdleRun /\ hook[w].exists /\ hook[w].enabled /\ condOn[w]
      /\ Submit(h, w, origin, t)
      /\ edited' = IF AtRest(w) THEN edited \ {w} ELSE edited
      /\ UNCHANGED <<confVars, busy, zone>> /\ edits' = edits
  BY DEF Receive
<1>2. t = timer \/ t = Cancel(timer, w)
  OBVIOUS
<1> HIDE DEF t
<1>3. /\ run' \in Runs /\ timer' \in Timers /\ Lined(run', chain', busy')
      /\ wanted' \in [Webhook -> {"Normal", "Violated"}] /\ age' \in [Webhook -> 0..Full]
      /\ \A v \in Webhook : v \notin edited \/ (v = w /\ Clean(w)) =>
            Ordered(v, Zones(v), wanted'[v], run', chain', busy', zone') /\ Timed(v)'
  BY <1>1, <1>2, SubmitInv
<1>4. \A v \in Webhook \ edited' : v \notin edited \/ (v = w /\ Clean(w))
  BY <1>1, RestIsClean
<1>5. UNCHANGED <<hook, condOn, bound, busy, zone>>
  BY <1>1 DEF confVars
<1>6. chain' \in Seq(Run)
  BY <1>3 DEF Lined
<1>7. TypeOK'
  BY <1>1, <1>3, <1>5, <1>6 DEF RunInv, TypeOK, Runs, Timers
<1>8. Inv'
  BY <1>3, <1>4, <1>5 DEF RunInv, Inv, BoundOnce, Zones
<1>9. QED
  BY <1>7, <1>8 DEF RunInv

LEMMA FireInv ==
    ASSUME RunInv, NEW h \in Run, NEW w \in Webhook, Fire(h, w)
    PROVE  RunInv'
<1>1. /\ run[h] = IdleRun /\ timer[w] = 0 /\ edited' = edited
      /\ UNCHANGED <<confVars, busy, zone>> /\ edits' = edits
  BY DEF Fire
<1>2. UNCHANGED <<hook, condOn, bound, busy, zone>>
  BY <1>1 DEF confVars
<1>3. CASE Valid(w)
  <2>1. Submit(h, w, "auto_timeout", Cancel(timer, w))
    BY <1>3 DEF Fire
  <2>2. "auto_timeout" \in Origin /\ Asks("auto_timeout") # "Violated"
    BY DEF Origin, Asks, Desired
  <2>3. /\ run' \in Runs /\ timer' \in Timers /\ Lined(run', chain', busy')
        /\ wanted' \in [Webhook -> {"Normal", "Violated"}] /\ age' \in [Webhook -> 0..Full]
        /\ \A v \in Webhook : v \notin edited \/ (v = w /\ Clean(w)) =>
              Ordered(v, Zones(v), wanted'[v], run', chain', busy', zone') /\ Timed(v)'
    BY <1>1, <2>1, <2>2, SubmitInv
  <2>4. chain' \in Seq(Run)
    BY <2>3 DEF Lined
  <2>5. TypeOK'
    BY <1>1, <1>2, <2>3, <2>4 DEF RunInv, TypeOK, Runs, Timers
  <2>6. Inv'
    BY <1>1, <1>2, <2>3 DEF RunInv, Inv, BoundOnce, Zones
  <2>7. QED
    BY <2>5, <2>6 DEF RunInv
<1>4. CASE ~Valid(w)
  <2>1. timer' = Cancel(timer, w) /\ UNCHANGED <<run, chain, wanted, age>>
    BY <1>4 DEF Fire
  <2>2. timer \in Timers /\ Off \in Off..Full
    BY OtherAssumption DEF RunInv, TypeOK, Timers, Off
  <2>3. /\ timer' \in Timers /\ timer'[w] = Off
        /\ \A v \in Webhook \ {w} : timer'[v] = timer[v]
    BY <2>1, <2>2 DEF Timers, Cancel
  <2>4. TypeOK'
    BY <1>1, <1>2, <2>1, <2>3 DEF RunInv, TypeOK, Timers
  <2>5. ASSUME NEW v \in Webhook \ edited PROVE Timed(v)'
    <3>1. Timed(v)
      BY DEF RunInv, Inv
    <3>2. CASE v # w
      BY <1>2, <2>1, <2>3, <3>1, <3>2 DEF Timed
    <3>3. CASE v = w
      <4>1. ~(wanted[w] = "Violated" /\ hook[w].mode = "auto_timeout")
        BY <1>4, <3>1, <3>3 DEF Timed, Valid
      <4>2. QED
        BY <1>2, <2>1, <2>3, <3>1, <3>3, <4>1 DEF Timed
    <3>4. QED
      BY <3>2, <3>3
  <2>6. Inv'
    BY <1>1, <1>2, <2>1, <2>5 DEF RunInv, Inv, BoundOnce, Zones
  <2>7. QED
    BY <2>4, <2>6 DEF RunInv
<1>5. QED
  BY <1>3, <1>4

-----------------------------------------------------------------------------
\* Time, the operator and the hub

LEMMA TickInv ==
    ASSUME RunInv, Tick
    PROVE  RunInv'
<1>1. /\ timer' = [w \in Webhook |-> IF timer[w] > 0 THEN timer[w] - 1 ELSE timer[w]]
      /\ age' = [w \in Webhook |-> IF age[w] < Full THEN age[w] + 1 ELSE age[w]]
      /\ UNCHANGED <<hook, condOn, bound, run, chain, busy, zone, edits, wanted, edited>>
  BY DEF Tick, confVars
<1>2. timer \in [Webhook -> Off..Full] /\ age \in [Webhook -> 0..Full] /\ Full \in Nat /\ Full > 0
  BY OtherAssumption DEF RunInv, TypeOK
<1>3. ASSUME NEW w \in Webhook
      PROVE  /\ timer'[w] \in Off..Full /\ age'[w] \in 0..Full
             /\ timer[w] # Off <=> timer'[w] # Off
             /\ (timer[w] # Off /\ timer[w] + age[w] >= Full) => timer'[w] + age'[w] >= Full
  <2> DEFINE i == timer[w]
             a == age[w]
  <2>1. /\ timer'[w] = IF i > 0 THEN i - 1 ELSE i
        /\ age'[w] = IF a < Full THEN a + 1 ELSE a
    BY <1>1
  <2>2. i \in Off..Full /\ a \in 0..Full
    BY <1>2
  <2> HIDE DEF i, a
  <2>3. /\ timer'[w] \in Off..Full /\ age'[w] \in 0..Full
        /\ i # Off <=> timer'[w] # Off
        /\ (i # Off /\ i + a >= Full) => timer'[w] + age'[w] >= Full
    BY <1>2, <2>1, <2>2 DEF Off
  <2>4. QED
    BY <2>3 DEF i, a
<1>4. timer' \in [Webhook -> Off..Full] /\ age' \in [Webhook -> 0..Full]
  BY <1>1, <1>3
<1>5. TypeOK'
  BY <1>1, <1>4 DEF RunInv, TypeOK
<1>6. ASSUME NEW w \in Webhook \ edited PROVE Timed(w)'
  <2>1. Timed(w)
    BY DEF RunInv, Inv
  <2>2. QED
    BY <1>1, <1>3, <2>1 DEF Timed
<1>7. Inv'
  BY <1>1, <1>6 DEF RunInv, Inv, BoundOnce, Zones
<1>8. QED
  BY <1>5, <1>7 DEF RunInv

\* An edit of w leaves the other webhooks as they are.
LEMMA EditInv ==
    ASSUME RunInv, NEW w \in Webhook, Edit(w),
           hook' \in [Webhook -> HookRow], condOn' \in [Webhook -> BOOLEAN],
           bound' \subseteq Webhook \X Zone, timer' \in [Webhook -> Off..Full], BoundOnce',
           \A v \in Webhook \ {w} : /\ hook'[v] = hook[v] /\ condOn'[v] = condOn[v]
                                    /\ timer'[v] = timer[v] /\ Zones(v)' = Zones(v)
    PROVE  RunInv'
<1>1. /\ edits < MaxEdits /\ edits' = edits + 1 /\ edited' = edited \cup {w}
      /\ UNCHANGED <<run, chain, busy, zone, wanted, age>>
  BY DEF Edit, histVars
<1>2. edits' \in 0..MaxEdits
  BY <1>1, OtherAssumption DEF RunInv, TypeOK
<1>3. TypeOK'
  BY <1>1, <1>2 DEF RunInv, TypeOK
<1>4. ASSUME NEW v \in Webhook \ edited'
      PROVE  Ordered(v, Zones(v), wanted[v], run, chain, busy, zone)' /\ Timed(v)'
  <2>1. v \in Webhook \ {w} /\ v \in Webhook \ edited
    BY <1>1
  <2>2. Ordered(v, Zones(v), wanted[v], run, chain, busy, zone) /\ Timed(v)
    BY <2>1 DEF RunInv, Inv
  <2>3. Ordered(v, Zones(v), wanted[v], run, chain, busy, zone)'
    BY <1>1, <2>1, <2>2
  <2>4. Timed(v)'
    BY <1>1, <2>1, <2>2 DEF Timed
  <2>5. QED
    BY <2>3, <2>4
<1>5. Inv'
  BY <1>1, <1>4 DEF RunInv, Inv
<1>6. QED
  BY <1>3, <1>5 DEF RunInv

LEMMA OperatorInv ==
    ASSUME RunInv, Operator
    PROVE  RunInv'
<1>1. /\ hook \in [Webhook -> HookRow] /\ condOn \in [Webhook -> BOOLEAN]
      /\ bound \subseteq Webhook \X Zone /\ timer \in [Webhook -> Off..Full] /\ BoundOnce
      /\ Off \in Off..Full
  BY OtherAssumption DEF RunInv, TypeOK, Inv, Off
<1>2. PICK w \in Webhook :
         \/ \E enabled \in BOOLEAN, mode \in {"explicit_inactive", "auto_timeout"} :
               SetHook(w, enabled, mode)
         \/ DeleteHook(w)
         \/ \E enabled \in BOOLEAN : SetCondition(w, enabled)
         \/ \E z \in Zone : Bind(w, z) \/ Unbind(w, z)
  BY DEF Operator
<1>3. /\ Cancel(timer, w) \in [Webhook -> Off..Full]
      /\ \A v \in Webhook \ {w} : Cancel(timer, w)[v] = timer[v]
  BY <1>1 DEF Cancel
<1>4. ASSUME NEW enabled \in BOOLEAN, NEW mode \in {"explicit_inactive", "auto_timeout"},
             SetHook(w, enabled, mode)
      PROVE  RunInv'
  <2>1. /\ Edit(w) /\ hook' = [hook EXCEPT ![w].enabled = enabled, ![w].mode = mode]
        /\ timer' = Cancel(timer, w) \/ timer' = timer
        /\ UNCHANGED <<condOn, bound>>
    BY <1>4 DEF SetHook
  <2>2. [hook[w] EXCEPT !.enabled = enabled, !.mode = mode] \in HookRow
    BY <1>1 DEF HookRow
  <2>3. hook' \in [Webhook -> HookRow] /\ \A v \in Webhook \ {w} : hook'[v] = hook[v]
    BY <1>1, <2>1, <2>2
  <2>4. timer' \in [Webhook -> Off..Full] /\ \A v \in Webhook \ {w} : timer'[v] = timer[v]
    BY <1>1, <1>3, <2>1
  <2>5. QED
    BY <1>1, <2>1, <2>3, <2>4, EditInv DEF BoundOnce, Zones
<1>5. ASSUME DeleteHook(w)
      PROVE  RunInv'
  <2>1. /\ Edit(w) /\ hook' = [hook EXCEPT ![w].exists = FALSE]
        /\ timer' = Cancel(timer, w) /\ UNCHANGED <<condOn, bound>>
    BY <1>5 DEF DeleteHook
  <2>2. [hook[w] EXCEPT !.exists = FALSE] \in HookRow
    BY <1>1 DEF HookRow
  <2>3. hook' \in [Webhook -> HookRow] /\ \A v \in Webhook \ {w} : hook'[v] = hook[v]
    BY <1>1, <2>1, <2>2
  <2>4. QED
    BY <1>1, <1>3, <2>1, <2>3, EditInv DEF BoundOnce, Zones
<1>6. ASSUME NEW enabled \in BOOLEAN, SetCondition(w, enabled)
      PROVE  RunInv'
  <2>1. /\ Edit(w) /\ condOn' = [condOn EXCEPT ![w] = enabled]
        /\ UNCHANGED <<hook, bound, timer>>
    BY <1>6 DEF SetCondition
  <2>2. condOn' \in [Webhook -> BOOLEAN] /\ \A v \in Webhook \ {w} : condOn'[v] = condOn[v]
    BY <1>1, <2>1
  <2>3. QED
    BY <1>1, <2>1, <2>2, EditInv DEF BoundOnce, Zones
<1>7. ASSUME NEW z \in Zone, Bind(w, z)
      PROVE  RunInv'
  <2>1. /\ Edit(w) /\ \A b \in bound : b[2] # z
        /\ bound' = bound \cup {<<w, z>>} /\ UNCHANGED <<hook, condOn, timer>>
    BY <1>7 DEF Bind
  <2>2. bound' \subseteq Webhook \X Zone
    BY <1>1, <2>1
  <2>3. <<w, z>>[2] = z
    OBVIOUS
  <2>4. BoundOnce'
    BY <1>1, <2>1, <2>3 DEF BoundOnce
  <2>5. \A v \in Webhook \ {w} : Zones(v)' = Zones(v)
    BY <2>1 DEF Zones
  <2>6. QED
    BY <1>1, <2>1, <2>2, <2>4, <2>5, EditInv
<1>8. ASSUME NEW z \in Zone, Unbind(w, z)
      PROVE  RunInv'
  <2>1. /\ Edit(w) /\ bound' = bound \ {<<w, z>>} /\ UNCHANGED <<hook, condOn, timer>>
    BY <1>8 DEF Unbind
  <2>2. bound' \subseteq Webhook \X Zone /\ BoundOnce'
    BY <1>1, <2>1 DEF BoundOnce
  <2>3. \A v \in Webhook \ {w} : Zones(v)' = Zones(v)
    BY <2>1 DEF Zones
  <2>4. QED
    BY <1>1, <2>1, <2>2, <2>3, EditInv
<1>9. QED
  BY <1>2, <1>4, <1>5, <1>6, <1>7, <1>8

\* With no run in progress a webhook that is to be Normal is Normal once its
\* zones are seeded.
LEMMA SeededInOrder ==
    ASSUME NEW w \in Webhook, NEW q, NEW b
    PROVE  Ordered(w, Zones(w), "Normal", [h \in Run |-> IdleRun], q, b, Seeded)
<1>1. ASSUME NEW z \in Zones(w) PROVE Seeded[z] = "Normal"
  <2>1. z \in Zone /\ <<w, z>> \in bound /\ <<w, z>>[2] = z
    BY DEF Zones
  <2>2. QED
    BY <2>1 DEF Seeded
<1>2. RunsOf([h \in Run |-> IdleRun], w) = {}
  BY DEF RunsOf
<1>3. QED
  BY <1>1, <1>2 DEF Ordered, InPlace

LEMMA RestartInv ==
    ASSUME RunInv, Restart
    PROVE  RunInv'
<1> DEFINE idle == [h \in Run |-> IdleRun]
<1>1. /\ edits < MaxEdits /\ edits' = edits + 1 /\ timer' = [w \in Webhook |-> Off]
      /\ run' = idle /\ chain' = <<>> /\ busy' = NoRun /\ zone' = Seeded
      /\ edited' = {w \in Webhook : wanted[w] = "Violated"}
      /\ UNCHANGED <<hook, condOn, bound, wanted, age>>
  BY DEF Restart, confVars, histVars
<1>2. edits' \in 0..MaxEdits /\ Off \in Off..Full
  BY <1>1, OtherAssumption DEF RunInv, TypeOK, Off
<1>3. Seeded \in [Zone -> {"Normal", "Violated", "unset"}]
  BY DEF Seeded
<1>4. <<>> \in Seq(Run) /\ Len(<<>>) = 0
  OBVIOUS
<1>5. TypeOK'
  BY <1>1, <1>2, <1>3, <1>4 DEF RunInv, TypeOK
<1>6. Lined(run', chain', busy')
  BY <1>1, <1>4 DEF Lined
<1>7. ASSUME NEW w \in Webhook \ edited'
      PROVE  Ordered(w, Zones(w), wanted[w], run, chain, busy, zone)' /\ Timed(w)'
  <2>1. wanted[w] = "Normal" /\ wanted'[w] = "Normal"
    BY <1>1 DEF RunInv, TypeOK
  <2>2. Ordered(w, Zones(w), "Normal", idle, chain', busy', Seeded)
    BY SeededInOrder
  <2>3. Zones(w)' = Zones(w)
    BY <1>1 DEF Zones
  <2>4. Ordered(w, Zones(w), wanted[w], run, chain, busy, zone)'
    BY <1>1, <2>1, <2>2, <2>3
  <2>5. RunsOf(run', w) = {} /\ timer'[w] = Off
    BY <1>1 DEF RunsOf
  <2>6. Timed(w)'
    BY <2>1, <2>5 DEF Timed
  <2>7. QED
    BY <2>4, <2>6
<1>8. Inv'
  BY <1>1, <1>6, <1>7 DEF RunInv, Inv, BoundOnce
<1>9. QED
  BY <1>5, <1>8 DEF RunInv

LEMMA InitInv ==
    ASSUME Init
    PROVE  RunInv
<1> DEFINE idle == [h \in Run |-> IdleRun]
<1>1. /\ hook \in [Webhook -> [exists : {TRUE}, enabled : {TRUE},
                               mode : {"explicit_inactive", "auto_timeout"}]]
      /\ condOn = [w \in Webhook |-> TRUE] /\ bound = Bound
      /\ timer = [w \in Webhook |-> Off] /\ run = idle /\ chain = <<>> /\ busy = NoRun
      /\ zone = Seeded /\ edits = 0 /\ wanted = [w \in Webhook |-> "Normal"]
      /\ age = [w \in Webhook |-> Full] /\ edited = {}
  BY DEF Init
<1>2. Off \in Off..Full /\ Full \in 0..Full /\ 0 \in 0..MaxEdits
  BY OtherAssumption DEF Off
<1>3. Seeded \in [Zone -> {"Normal", "Violated", "unset"}]
  BY DEF Seeded
<1>4. <<>> \in Seq(Run) /\ Len(<<>>) = 0
  OBVIOUS
<1>5. hook \in [Webhook -> HookRow]
  BY <1>1 DEF HookRow
<1>6. TypeOK
  BY <1>1, <1>2, <1>3, <1>4, <1>5, ZoneAssumption DEF TypeOK
<1>7. Lined(run, chain, busy)
  BY <1>1, <1>4 DEF Lined
<1>8. ASSUME NEW w \in Webhook
      PROVE  Ordered(w, Zones(w), wanted[w], run, chain, busy, zone) /\ Timed(w)
  <2>1. Ordered(w, Zones(w), "Normal", idle, chain, busy, Seeded)
    BY SeededInOrder
  <2>2. RunsOf(run, w) = {} /\ timer[w] = Off /\ wanted[w] = "Normal"
    BY <1>1 DEF RunsOf
  <2>3. Timed(w)
    BY <2>2 DEF Timed
  <2>4. QED
    BY <1>1, <2>1, <2>2, <2>3
<1>9. QED
  BY <1>1, <1>6, <1>7, <1>8, ZoneAssumption DEF RunInv, Inv, BoundOnce

LEMMA NextInv ==
    ASSUME RunInv, [Next]_vars
    PROVE  RunInv'
<1>1. ASSUME NEW h \in Run, NEW w \in Webhook, Fire(h, w) PROVE RunInv'
  BY <1>1, FireInv
<1>2. ASSUME NEW h \in Run, NEW w \in Webhook, NEW origin \in Origin, Receive(h, w, origin)
      PROVE  RunInv'
  BY <1>2, ReceiveInv
<1>3. CASE UNCHANGED vars
  <2>1. UNCHANGED <<hook, condOn, bound, timer, run, chain, busy, zone, edits, wanted, age, edited>>
    BY <1>3 DEF vars
  <2>2. TypeOK'
    BY <2>1 DEF RunInv, TypeOK
  <2>3. \A w \in Webhook : (Timed(w) => Timed(w)') /\ Zones(w)' = Zones(w)
    BY <2>1 DEF Timed, Zones
  <2>4. Inv'
    BY <2>1, <2>3 DEF RunInv, Inv, BoundOnce
  <2>5. QED
    BY <2>2, <2>4 DEF RunInv
<1>4. QED
  BY <1>1, <1>2, <1>3, PanelTakesInv, PanelWroteInv, TickInv, OperatorInv, RestartInv DEF Next

LEMMA RunInvAlways == Spec => []RunInv
  BY InitInv, NextInv, PTL DEF Spec

-----------------------------------------------------------------------------
\* The properties

\* The state has its types.
THEOREM TypeCorrect == Spec => []TypeOK
<1>1. RunInv => TypeOK
  BY DEF RunInv
<1>2. QED
  BY <1>1, RunInvAlways, PTL

\* Whatever requests, expirations and operations of the panel overlap, a webhook
\* that is at rest has its zones in the state last asked for.
THEOREM LastRequest == Spec => []LastRequestWins
<1>1. ASSUME RunInv PROVE LastRequestWins
  <2> SUFFICES ASSUME NEW w \in Webhook \ edited, ~Busy(w), NEW z \in Zones(w)
               PROVE  zone[z] = wanted[w]
    BY DEF LastRequestWins
  <2>1. RunsOf(run, w) = {}
    BY DEF RunsOf, Busy
  <2>2. QED
    BY <1>1, <2>1 DEF RunInv, Inv, Ordered, InPlace
<1>2. QED
  BY <1>1, RunInvAlways, PTL

\* An auto-timeout webhook's zone that is Violated is still to be restored.
THEOREM RestoreComing == Spec => []RestoreIsComing
<1>1. ASSUME RunInv PROVE RestoreIsComing
  <2> SUFFICES ASSUME NEW w \in Webhook \ edited, NEW z \in Zones(w),
                      zone[z] = "Violated", hook[w].mode = "auto_timeout", timer[w] = Off,
                      \A h \in RunsOf(run, w) : ~run[h].arms /\ z \notin run[h].todo \cup {run[h].at}
               PROVE  FALSE
    BY DEF RestoreIsComing, RunsOf
  <2>1. Ordered(w, Zones(w), wanted[w], run, chain, busy, zone) /\ Timed(w)
    BY <1>1 DEF RunInv, Inv
  <2>2. \A h \in RunsOf(run, w) : ~Sets(run, busy, h, z)
    BY DEF Sets
  <2>3. wanted[w] = "Violated"
    BY <2>1, <2>2 DEF Ordered, InPlace
  <2>4. RunsOf(run, w) # {}
    BY <2>1, <2>3 DEF Timed
  <2>5. PICK l \in RunsOf(run, w) : Asks(run[l].origin) = "Violated"
    BY <2>1, <2>3, <2>4 DEF Ordered, InPlace
  <2>6. run[l].origin = "explicit_active"
    BY <2>5 DEF Asks, Desired
  <2>7. QED
    BY <2>1, <2>6 DEF Timed
<1>2. QED
  BY <1>1, RunInvAlways, PTL

\* A restore that the timer starts early has the waiting of an Active for its
\* only cause.
THEOREM RestoredInFull == Spec => FullDurationUnlessBusy
<1>1. ASSUME RunInv, [Next]_vars, NEW w \in Webhook \ edited, TimerRestores(w), ~Busy(w)
      PROVE  age[w] = Full
  <2>1. PICK g \in Run : /\ run[g] = IdleRun /\ run'[g] # IdleRun
                         /\ run'[g].hook = w /\ run'[g].origin = "auto_timeout"
    BY <1>1 DEF TimerRestores
  <2>2. Timed(w) /\ RunsOf(run, w) = {} /\ wanted[w] = "Violated"
    BY <1>1 DEF RunInv, Inv, Busy, RunsOf, TimerRestores
  <2>3. timer \in Timers /\ age \in [Webhook -> 0..Full] /\ run \in Runs
    BY <1>1 DEF RunInv, TypeOK, Timers, Runs
  <2>4. PICK h \in Run, v \in Webhook :
           Fire(h, v) \/ \E origin \in Origin : Receive(h, v, origin)
    <3>1. ~PanelTakes
      <4>1. SUFFICES ASSUME PanelTakes PROVE FALSE
        OBVIOUS
      <4>2. busy = NoRun /\ chain # <<>> /\ (run' = run \/ Resume(Head(chain), Tail(chain)))
        BY <4>1 DEF PanelTakes
      <4>3. Head(chain) \in Run /\ run[Head(chain)] \in Running
        BY <1>1, <2>3, <4>2, LinedTake DEF RunInv, Inv
      <4>4. Head(chain) # g
        BY <2>1, <4>3, RunFields
      <4>5. run'[g] = run[g]
        BY <2>3, <4>2, <4>3, <4>4, ResumeAdvances, ResumeEnds
      <4>6. QED
        BY <2>1, <4>5
    <3>2. ~PanelWrote
      <4>1. SUFFICES ASSUME PanelWrote PROVE FALSE
        OBVIOUS
      <4>2. busy # NoRun /\ Resume(busy, chain)
        BY <4>1 DEF PanelWrote
      <4>3. busy \in Run /\ run[busy] \in Running
        BY <1>1, <2>3, <4>2 DEF RunInv, Inv, Lined, Runs
      <4>4. busy # g
        BY <2>1, <4>3, RunFields
      <4>5. run'[g] = run[g]
        BY <2>3, <4>2, <4>3, <4>4, ResumeAdvances, ResumeEnds
      <4>6. QED
        BY <2>1, <4>5
    <3>3. run' # run /\ ~Restart
      BY <2>1 DEF Restart
    <3>4. ~Tick /\ ~Operator /\ ~UNCHANGED vars
      BY <3>3 DEF Tick, Operator, SetHook, DeleteHook, SetCondition, Bind, Unbind, Edit, vars
    <3>5. QED
      BY <1>1, <3>1, <3>2, <3>3, <3>4 DEF Next
  <2>5. /\ run[h] = IdleRun
        /\ \E origin \in Origin : \E t :
              /\ Submit(h, v, origin, t)
              /\ origin = "auto_timeout" => timer[v] = 0
    <3>1. CASE Fire(h, v)
      <4>1. Valid(v)
        BY <2>1, <3>1 DEF Fire
      <4>2. QED
        BY <3>1, <4>1 DEF Fire, Origin
    <3>2. CASE \E origin \in Origin : Receive(h, v, origin)
      BY <3>2 DEF Receive
    <3>3. QED
      BY <2>4, <3>1, <3>2
  <2>6. PICK origin \in Origin : \E t : /\ Submit(h, v, origin, t)
                                        /\ origin = "auto_timeout" => timer[v] = 0
    BY <2>5
  <2>7. PICK t : Submit(h, v, origin, t)
    BY <2>6
  <2>8. g = h /\ v = w /\ origin = "auto_timeout"
    BY <2>1, <2>3, <2>7 DEF Submit, Runs
  <2>9. timer[w] = 0
    BY <2>6, <2>8
  <2>10. hook[w].mode = "auto_timeout" /\ timer[w] + age[w] >= Full
    BY <2>2, <2>9 DEF Timed, Off
  <2>11. QED
    BY <2>3, <2>9, <2>10, OtherAssumption
<1>2. RunInv /\ [Next]_vars =>
         [\A w \in Webhook \ edited : (TimerRestores(w) /\ ~Busy(w)) => age[w] = Full]_vars
  BY <1>1
<1>3. QED
  BY <1>2, RunInvAlways, PTL DEF Spec, FullDurationUnlessBusy

=============================================================================
