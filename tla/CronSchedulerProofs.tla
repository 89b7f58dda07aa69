------------------------ MODULE CronSchedulerProofs ------------------------
(***************************************************************************)
(* Theorems about CronScheduler, for any schedules, times and crashes.     *)
(***************************************************************************)
EXTENDS CronScheduler, FiniteSetTheorems, TLAPS

-----------------------------------------------------------------------------
(* Type correctness.                                                       *)

\* Triggering an entry, or enabling it, leaves its trigger and policy alone.
LEMMA TriggeredIs ==
  ASSUME NEW e \in Entries, clock \in Times
  PROVE  /\ Triggered(e) \in Entries
         /\ Triggered(e).trigger = e.trigger /\ Triggered(e).policy = e.policy
         /\ Triggered(e).last = clock /\ Triggered(e).count = e.count + 1
<1>1. clock \in Nat /\ e.count \in Nat BY ScheduleAssumption DEF Times, Entries
<1>2. Triggered(e) = [e EXCEPT !.last = clock, !.count = @ + 1] BY DEF Triggered
<1>3. Triggered(e) \in Entries
  <2>1. [e EXCEPT !.last = clock] \in Entries BY <1>1 DEF Entries
  <2>2. \A x \in Entries : [x EXCEPT !.count = @ + 1] \in Entries BY DEF Entries
  <2>3. Triggered(e) = [[e EXCEPT !.last = clock] EXCEPT !.count = @ + 1] BY <1>2 DEF Entries
  <2> QED BY <2>1, <2>2, <2>3
<1>4. Triggered(e).trigger = e.trigger /\ Triggered(e).policy = e.policy BY <1>2 DEF Entries
<1>5. Triggered(e).last = clock BY <1>2 DEF Entries
<1>6. Triggered(e).count = e.count + 1 BY <1>2 DEF Entries
<1> QED BY <1>3, <1>4, <1>5, <1>6

\* Enabling an entry changes nothing else of it.
LEMMA EnabledIs ==
  ASSUME NEW e \in Entries, NEW b \in BOOLEAN
  PROVE  /\ [e EXCEPT !.enabled = b] \in Entries
         /\ [e EXCEPT !.enabled = b].trigger = e.trigger
         /\ [e EXCEPT !.enabled = b].policy = e.policy
         /\ [e EXCEPT !.enabled = b].last = e.last
         /\ [e EXCEPT !.enabled = b].count = e.count
BY DEF Entries

\* The fields of a new entry.
LEMMA NewEntry ==
  ASSUME NEW tr \in Triggers, NEW pol \in Policies, NEW e, clock \in Times,
         e = [trigger |-> tr, created |-> clock, last |-> Never, count |-> 0,
              enabled |-> TRUE, policy |-> pol]
  PROVE  /\ e \in Entries /\ e.trigger = tr /\ e.policy = pol /\ e.count = 0
BY ScheduleAssumption DEF Entries, ReviewPolicies, Times

\* What tick leaves of an entry, and what it fires.
LEMMA AfterTickIs ==
  ASSUME NEW e \in Entries \cup {Absent}, clock \in Times
  PROVE  /\ AfterTick(e) \in Entries \cup {Absent}
         /\ AfterTick(e) # Absent =>
              /\ e # Absent
              /\ AfterTick(e).trigger = e.trigger /\ AfterTick(e).policy = e.policy
              /\ IsDue(e, clock) => AfterTick(e).last = clock /\ AfterTick(e).count = e.count + 1
              /\ ~IsDue(e, clock) => AfterTick(e) = e
BY TriggeredIs, AbsentAssumption DEF AfterTick, IsDue, IsSpent

\* What a firing of the timer says of the entry it fires.
LEMMA FiringIs ==
  \A i, e : /\ TickFiring(i, e).id = i /\ TickFiring(i, e).manual = FALSE
            /\ TickFiring(i, e).unattended = resolveRunUnattended(e.policy, e.count)
BY DEF TickFiring

\* A firing is a record of one.
LEMMA FiringTypes ==
  ASSUME NEW i \in Ids, NEW e
  PROVE  /\ TickFiring(i, e) \in Firings
         /\ TickFiring(i, e).id = i /\ TickFiring(i, e).manual = FALSE
         /\ TickFiring(i, e).unattended = resolveRunUnattended(e.policy, e.count)
BY DEF TickFiring, Firings, resolveRunUnattended

\* The types hold at the start.
LEMMA TypeInit == Init => TypeOK
<1>1. Empty \in Tables BY DEF Empty, Tables
<1> QED BY <1>1, ScheduleAssumption DEF Init, TypeOK, Times

\* Every step keeps the types.
LEMMA TypeStep == TypeOK /\ [Next]_vars => TypeOK'
<1> SUFFICES ASSUME TypeOK, [Next]_vars PROVE TypeOK' OBVIOUS
<1>0. Empty \in Tables /\ Absent \notin Entries /\ clock \in Times
  BY AbsentAssumption DEF Empty, Tables, TypeOK
<1> USE DEF history, sched
<1>1. ASSUME Advance PROVE TypeOK'
  <2>1. clock' \in Times BY <1>1, ScheduleAssumption DEF Advance, TypeOK, Times
  <2> QED BY <1>1, <2>1 DEF Advance, TypeOK
<1>2. ASSUME NEW p \in Procs, start(p) PROVE TypeOK' BY <1>2 DEF start, TypeOK
<1>3. ASSUME NEW p \in Procs, NEW T \in Tables, Store(p, T)
      PROVE  table' \in [Procs -> Tables] /\ file' \in Tables
  BY <1>3 DEF Store, TypeOK
<1>4. ASSUME NEW p \in Procs, NEW i \in Ids, NEW tr \in Triggers, NEW pol \in Policies,
             add(p, i, tr, pol)
      PROVE  TypeOK'
  <2> DEFINE entry == [trigger |-> tr, created |-> clock, last |-> Never, count |-> 0,
                       enabled |-> TRUE, policy |-> pol]
             f == [id |-> i, manual |-> FALSE, unattended |-> resolveRunUnattended(pol, 0)]
  <2>1. entry \in Entries BY <1>0, NewEntry
  <2>2. f \in Firings BY DEF Firings, resolveRunUnattended
  <2>3. /\ added' = [added EXCEPT ![i] = entry]
        /\ \/ /\ busy' = [busy EXCEPT ![p] = "manual"] /\ toFire' = [toFire EXCEPT ![p] = {f}]
              /\ UNCHANGED <<table, file>>
           \/ /\ Store(p, [table[p] EXCEPT ![i] = entry]) /\ UNCHANGED <<busy, toFire>>
        /\ UNCHANGED <<role, clock, crashes, removed, manual, fires>>
    BY <1>4 DEF add
  <2> HIDE DEF entry, f
  <2>4. added' \in Tables BY <2>1, <2>3 DEF TypeOK, Tables
  <2>5. [table[p] EXCEPT ![i] = entry] \in Tables BY <2>1 DEF TypeOK, Tables
  <2>6. table' \in [Procs -> Tables] /\ file' \in Tables
    BY <1>3, <2>3, <2>5 DEF TypeOK
  <2>7. /\ busy' \in [Procs -> {"no", "tick", "manual"}]
        /\ toFire' \in [Procs -> SUBSET Firings]
    <3>1. busy' = [busy EXCEPT ![p] = "manual"] \/ busy' = busy BY <2>3
    <3>2. toFire' = [toFire EXCEPT ![p] = {f}] \/ toFire' = toFire BY <2>3
    <3>3. busy' \in [Procs -> {"no", "tick", "manual"}]
      <4>1. busy \in [Procs -> {"no", "tick", "manual"}] BY DEF TypeOK
      <4> QED BY <3>1, <4>1
    <3>4. toFire' \in [Procs -> SUBSET Firings]
      <4>1. toFire \in [Procs -> SUBSET Firings] BY DEF TypeOK
      <4> QED BY <2>2, <3>2, <4>1
    <3> QED BY <3>3, <3>4
  <2>8. UNCHANGED <<role, clock, crashes, removed, manual, fires>> BY <2>3
  <2> QED BY <2>4, <2>6, <2>7, <2>8 DEF TypeOK
<1>5. ASSUME NEW p \in Procs, NEW i \in Ids, remove(p, i) PROVE TypeOK'
  <2>1. [table[p] EXCEPT ![i] = Absent] \in Tables BY DEF TypeOK, Tables
  <2>2. table' \in [Procs -> Tables] /\ file' \in Tables BY <1>3, <1>5, <2>1 DEF remove
  <2> QED BY <1>5, <2>2 DEF remove, TypeOK
<1>6. ASSUME NEW p \in Procs, NEW i \in Ids, NEW b \in BOOLEAN, setEnabled(p, i, b) PROVE TypeOK'
  <2>1. table[p] \in Tables /\ table[p][i] \in Entries BY <1>6 DEF TypeOK, Tables, setEnabled
  <2>2. [table[p][i] EXCEPT !.enabled = b] \in Entries BY <2>1, EnabledIs
  <2>3. [table[p] EXCEPT ![i].enabled = b] \in Tables BY <2>1, <2>2 DEF Tables
  <2>4. table' \in [Procs -> Tables] /\ file' \in Tables BY <1>3, <1>6, <2>3 DEF setEnabled
  <2> QED BY <1>6, <2>4 DEF setEnabled, TypeOK
<1>7. ASSUME NEW p \in Procs, NEW i \in Ids, runNow(p, i) PROVE TypeOK'
  <2>1. table[p] \in Tables /\ table[p][i] \in Entries BY <1>7 DEF TypeOK, Tables, runNow
  <2>2. Triggered(table[p][i]) \in Entries BY <1>0, <2>1, TriggeredIs
  <2>3. [table[p] EXCEPT ![i] = Triggered(@)] \in Tables BY <2>1, <2>2 DEF Tables
  <2>4. table' \in [Procs -> Tables] /\ file' \in Tables BY <1>3, <1>7, <2>3 DEF runNow
  <2>5. [id |-> i, manual |-> TRUE, unattended |-> FALSE] \in Firings BY DEF Firings
  <2>6. toFire' \in [Procs -> SUBSET Firings] BY <1>7, <2>5 DEF runNow, TypeOK
  <2>7. manual' \in [Ids -> Nat] BY <1>7 DEF runNow, TypeOK
  <2> QED BY <1>7, <2>4, <2>6, <2>7 DEF runNow, TypeOK
<1>8. ASSUME NEW p \in Procs, tick(p) PROVE TypeOK'
  <2> DEFINE due == {i \in Ids : IsDue(table[p][i], clock)}
             F == {TickFiring(i, table[p][i]) : i \in due}
             T == [i \in Ids |-> AfterTick(table[p][i])]
  <2>1. F \subseteq Firings BY FiringTypes
  <2>2. T \in Tables BY <1>0, AfterTickIs DEF Tables, TypeOK
  <2>3. /\ table' = [table EXCEPT ![p] = T] /\ toFire' = [toFire EXCEPT ![p] = F]
        /\ busy' = [busy EXCEPT ![p] = "tick"]
        /\ UNCHANGED <<role, file, clock, crashes, history>>
    BY <1>8 DEF tick
  <2> HIDE DEF F, T
  <2> QED BY <2>1, <2>2, <2>3 DEF TypeOK
<1>9. ASSUME NEW p \in Procs, fireTask(p) PROVE TypeOK'
  <2> DEFINE R == [at : Times, manual : BOOLEAN, unattended : BOOLEAN]
  <2>1. PICK f \in toFire[p] :
          /\ toFire' = [toFire EXCEPT ![p] = @ \ {f}]
          /\ fires' = [fires EXCEPT ![f.id] =
                        Append(@, [at |-> clock, manual |-> f.manual,
                                   unattended |-> f.unattended])]
          /\ UNCHANGED <<role, table, file, busy, clock, crashes, added, removed, manual>>
    BY <1>9 DEF fireTask
  <2>2. f \in Firings /\ fires \in [Ids -> Seq(R)] BY DEF TypeOK
  <2>3. f.id \in Ids /\ [at |-> clock, manual |-> f.manual, unattended |-> f.unattended] \in R
    BY <1>0, <2>2 DEF Firings
  <2> HIDE DEF R
  <2>4. Append(fires[f.id], [at |-> clock, manual |-> f.manual, unattended |-> f.unattended])
          \in Seq(R)
    BY <2>2, <2>3
  <2>5. fires' \in [Ids -> Seq(R)] BY <2>1, <2>2, <2>3, <2>4
  <2>6. toFire' \in [Procs -> SUBSET Firings] BY <2>1 DEF TypeOK
  <2> QED BY <2>1, <2>5, <2>6 DEF TypeOK, R
<1>10. ASSUME NEW p \in Procs, Finish(p) PROVE TypeOK' BY <1>10 DEF Finish, TypeOK
<1>11. ASSUME NEW p \in Procs, Crash(p) PROVE TypeOK'
  <2>1. crashes' \in Nat BY <1>11 DEF Crash, TypeOK
  <2>2. table' \in [Procs -> Tables] BY <1>0, <1>11 DEF Crash, TypeOK
  <2> QED BY <1>11, <2>1, <2>2 DEF Crash, TypeOK
<1>12. CASE UNCHANGED vars BY <1>12 DEF vars, TypeOK
<1> QED
  BY <1>1, <1>2, <1>4, <1>5, <1>6, <1>7, <1>8, <1>9, <1>10, <1>11, <1>12 DEF Next, Step

(* The tables, the file and the histories keep their types, whatever the
   processes do and wherever they stop. *)
THEOREM TypeCorrect == Spec => []TypeOK
BY TypeInit, TypeStep, PTL DEF Spec

-----------------------------------------------------------------------------
(* When an entry is due.                                                   *)

\* The multiples of a spec that cron times are: the next one after a time
\* that is not later is not later.
LEMMA DivMonotone ==
  ASSUME NEW a \in Nat, NEW b \in Nat, NEW s \in Nat \ {0}, a <= b
  PROVE  /\ (a \div s + 1) * s \in Nat /\ (b \div s + 1) * s \in Nat
         /\ (a \div s + 1) * s <= (b \div s + 1) * s
<1> DEFINE qa == a \div s
           qb == b \div s
<1>1. /\ qa \in Nat /\ qb \in Nat
      /\ a = s * qa + (a % s) /\ b = s * qb + (b % s)
      /\ a % s \in 0..(s - 1) /\ b % s \in 0..(s - 1)
  OBVIOUS
<1> HIDE DEF qa, qb
<1>2. qa <= qb
  <2> SUFFICES ASSUME qb + 1 <= qa PROVE FALSE BY <1>1
  <2>1. s * (qb + 1) <= s * qa BY <1>1
  <2>2. s * (qb + 1) = s * qb + s BY <1>1
  <2> QED BY <1>1, <2>1, <2>2
<1>3. (qa + 1) * s <= (qb + 1) * s BY <1>1, <1>2
<1>4. (qa + 1) * s \in Nat /\ (qb + 1) * s \in Nat BY <1>1
<1> QED BY <1>3, <1>4 DEF qa, qb

\* Only a oneshot is ever spent.
LEMMA SpentIsOneshot ==
  ASSUME NEW e \in Entries, NEW now, computeNextTrigger(e, now) = Never
  PROVE  e.trigger.type = "oneshot"
<1>1. /\ e.trigger.type \in {"interval", "cron", "oneshot"}
      /\ e.trigger.spec \in Nat \ {0}
      /\ BaseTime(e) \in Nat /\ Never \notin Nat
  BY ScheduleAssumption DEF Entries, BaseTime
<1>2. CASE e.trigger.type = "interval"
  BY <1>1, <1>2 DEF computeNextTrigger
<1>3. CASE e.trigger.type = "cron"
  <2>1. (BaseTime(e) \div e.trigger.spec + 1) * e.trigger.spec \in Nat BY <1>1, DivMonotone
  <2> QED BY <1>1, <1>3, <2>1 DEF computeNextTrigger
<1> QED BY <1>1, <1>2, <1>3

\* Whenever an entry that has fired is due, so is what follows from a firing not
\* later than the time the entry remembers.
LEMMA DueAfter ==
  ASSUME NEW e \in Entries, NEW a \in Entries, e.trigger = a.trigger,
         e.count > 0, e.last # Never, NEW at \in Nat, at <= e.last,
         NEW now \in Nat, IsDue(e, now)
  PROVE  computeNextTrigger([a EXCEPT !.last = at, !.count = 1], at) \in 0..now
<1> DEFINE b == [a EXCEPT !.last = at, !.count = 1]
<1>1. /\ b.trigger = e.trigger /\ b.last = at /\ b.count = 1 /\ at # Never
      /\ e.trigger.type \in {"interval", "cron", "oneshot"}
      /\ e.trigger.spec \in Nat \ {0} /\ e.last \in Nat /\ e.count \in Nat
      /\ Never \notin Nat
  BY ScheduleAssumption DEF Entries
<1> HIDE DEF b
<1>2. BaseTime(e) = e.last /\ BaseTime(b) = at BY <1>1 DEF BaseTime
<1>3. computeNextTrigger(e, now) \in 0..now BY DEF IsDue
<1>4. CASE e.trigger.type = "interval"
  <2>1. computeNextTrigger(e, now) = e.last + e.trigger.spec
        /\ computeNextTrigger(b, at) = at + e.trigger.spec
    BY <1>1, <1>2, <1>4 DEF computeNextTrigger
  <2> QED BY <1>1, <1>3, <2>1 DEF b
<1>5. CASE e.trigger.type = "cron"
  <2>1. computeNextTrigger(e, now) = (e.last \div e.trigger.spec + 1) * e.trigger.spec
        /\ computeNextTrigger(b, at) = (at \div e.trigger.spec + 1) * e.trigger.spec
    BY <1>1, <1>2, <1>5 DEF computeNextTrigger
  <2>2. /\ (at \div e.trigger.spec + 1) * e.trigger.spec \in Nat
        /\ (at \div e.trigger.spec + 1) * e.trigger.spec
             <= (e.last \div e.trigger.spec + 1) * e.trigger.spec
        /\ (e.last \div e.trigger.spec + 1) * e.trigger.spec \in Nat
    BY <1>1, DivMonotone
  <2>3. computeNextTrigger(b, at) \in Nat /\ computeNextTrigger(b, at) <= now
    BY <1>3, <2>1, <2>2
  <2> QED BY <2>3 DEF b
<1>6. CASE e.trigger.type = "oneshot"
  <2>1. computeNextTrigger(e, now) = Never
    BY <1>1, <1>6 DEF computeNextTrigger
  <2> QED BY <1>1, <1>3, <2>1
<1> QED BY <1>1, <1>4, <1>5, <1>6

-----------------------------------------------------------------------------
(* One process.  The properties below are about a desktop directory that one *)
(* sidecar at a time uses; a second one writes its own, empty table over the *)
(* schedule file.                                                            *)

OneProcess == \A p, q \in Procs : p = q

\* A firing of the schedule has been resolved and is still to come.
Pending(i) == \E p \in Procs : \E f \in toFire[p] : f.id = i

\* The schedule has not fired, or its next automatic firing may come by now.
LastFired(i) == fires[i][Len(fires[i])].at
OnTime(i) == fires[i] = <<>> \/ NextAfter(i, LastFired(i)) \in 0..clock

\* The entry remembers the last firing, or a later time.
Synced(e, i) ==
  \/ e = Absent
  \/ fires[i] = <<>>
  \/ e.count > 0 /\ e.last # Never /\ LastFired(i) <= e.last

\* What a process remembers between its callbacks is what the file says.
ProcInv ==
  \A p \in Procs :
    /\ role[p] # "idle"
    /\ role[p] = "down" => busy[p] = "no" /\ table[p] = Empty
    /\ role[p] = "owner" /\ busy[p] # "tick" => file = table[p]
    /\ busy[p] = "no" => toFire[p] = {}
    /\ \A f, g \in toFire[p] : f.id = g.id => f = g

\* An entry is the schedule that was accepted, and counts no more than the
\* firings made, those lost in crashes and the one still to come.
EntryOK(e, i) ==
  e # Absent =>
    /\ added[i] # Absent
    /\ e.trigger = added[i].trigger /\ e.policy = added[i].policy
    /\ \/ e.count <= Len(fires[i]) + crashes
       \/ Pending(i) /\ e.count <= Len(fires[i]) + crashes + 1

EntryInv ==
  \A i \in Ids : EntryOK(file[i], i) /\ \A p \in Procs : EntryOK(table[p][i], i)

KeptInv ==
  \A i \in Ids :
    added[i] # Absent /\ added[i].trigger.type # "oneshot" /\ i \notin removed =>
      file[i] # Absent /\ \A p \in Procs : role[p] = "owner" => table[p][i] # Absent

HistoryInv ==
  \A i \in Ids :
    /\ added[i] = Absent => fires[i] = <<>> /\ ~Pending(i)
    /\ \A k \in DOMAIN fires[i] : fires[i][k].at <= clock

\* A firing that is still to come was resolved with a count that stands, the
\* entry it leaves remembers it, and it is on time unless a crash allows it.
PendingInv ==
  \A p \in Procs : \A f \in toFire[p] :
    /\ f.unattended /\ added[f.id].policy = "first-runs" =>
         FIRST_RUNS_TRUST_THRESHOLD <= Len(fires[f.id]) + crashes
    /\ table[p][f.id] # Absent => table[p][f.id].last = clock /\ table[p][f.id].count > 0
    /\ f.manual \/ OnTime(f.id) \/ Cardinality(Refired(f.id)) < crashes

\* A crash that nothing has used up yet stands behind every entry that does not
\* remember the last firing.
Excused(e, i) == Synced(e, i) \/ Cardinality(Refired(i)) < crashes

SyncInv ==
  /\ \A i \in Ids : Cardinality(Refired(i)) <= crashes
  /\ (\A p \in Procs : busy[p] # "tick") => \A i \in Ids : Excused(file[i], i)
  /\ \A p \in Procs : role[p] = "owner" => \A i \in Ids : Excused(table[p][i], i)

TrustInv ==
  \A i \in Ids : \A k \in DOMAIN fires[i] :
    fires[i][k].unattended /\ added[i].policy = "first-runs" =>
      k + crashes > FIRST_RUNS_TRUST_THRESHOLD

OneInv == /\ TypeOK /\ ProcInv /\ EntryInv /\ KeptInv /\ HistoryInv
          /\ PendingInv /\ SyncInv /\ TrustInv

\* The early firings are among the firings; so long as there are none, or none
\* are added, there are no more of them.
LEMMA RefiredIs ==
  ASSUME TypeOK, NEW i \in Ids
  PROVE  /\ Refired(i) \subseteq 1..Len(fires[i]) /\ IsFiniteSet(Refired(i))
         /\ Cardinality(Refired(i)) \in Nat
         /\ fires[i] = <<>> => Refired(i) = {} /\ Cardinality(Refired(i)) = 0
         /\ Len(fires[i]) \in Nat /\ DOMAIN fires[i] = 1..Len(fires[i])
         /\ fires[i] = <<>> <=> Len(fires[i]) = 0
<1> DEFINE R == [at : Times, manual : BOOLEAN, unattended : BOOLEAN]
<1>1. fires[i] \in Seq(R) BY DEF TypeOK
<1> HIDE DEF R
<1>2. /\ Len(fires[i]) \in Nat /\ DOMAIN fires[i] = 1..Len(fires[i])
      /\ fires[i] = <<>> <=> Len(fires[i]) = 0
  BY <1>1
<1>3. Refired(i) \subseteq 1..Len(fires[i]) BY <1>2 DEF Refired
<1>4. IsFiniteSet(Refired(i))
  <2>1. IsFiniteSet(1..Len(fires[i])) BY <1>2, FS_Interval
  <2> QED BY <1>3, <2>1, FS_Subset
<1>5. Cardinality(Refired(i)) \in Nat BY <1>4, FS_CardinalityType
<1>6. fires[i] = <<>> => Refired(i) = {} BY <1>2, <1>3
<1> QED BY <1>2, <1>3, <1>4, <1>5, <1>6, FS_EmptySet

\* A step that adds no firing to a schedule leaves its history as it was.
LEMMA HistorySame ==
  ASSUME TypeOK, TypeOK', NEW i \in Ids, fires'[i] = fires[i],
         added'[i] = added[i] \/ fires[i] = <<>>
  PROVE  /\ Cardinality(Refired(i))' = Cardinality(Refired(i))
         /\ \A e : Synced(e, i)' <=> Synced(e, i)
         /\ clock' = clock => (OnTime(i)' <=> OnTime(i))
<1>1. CASE fires[i] = <<>>
  <2>1. DOMAIN fires[i] = {} /\ DOMAIN fires'[i] = {} BY <1>1
  <2>2. Refired(i) = {} /\ Refired(i)' = {} BY <2>1 DEF Refired
  <2> QED BY <1>1, <2>2 DEF Synced, OnTime
<1>2. CASE added'[i] = added[i]
  <2>1. Refired(i)' = Refired(i) BY <1>2 DEF Refired, NextAfter
  <2> QED BY <1>2, <2>1 DEF Synced, OnTime, LastFired, NextAfter
<1> QED BY <1>1, <1>2

\* The invariant holds at the start.
LEMMA OneInit == Init => OneInv
<1> SUFFICES ASSUME Init PROVE OneInv OBVIOUS
<1>1. TypeOK BY TypeInit
<1>2. \A i \in Ids : Cardinality(Refired(i)) = 0 /\ fires[i] = <<>> /\ added[i] = Absent
                     /\ file[i] = Absent /\ \A p \in Procs : table[p][i] = Absent
  BY <1>1, RefiredIs DEF Init, Empty
<1>3. \A p \in Procs : toFire[p] = {} /\ role[p] = "down" /\ busy[p] = "no" /\ table[p] = Empty
  BY DEF Init
<1>4. crashes = 0 BY DEF Init
<1>5. \A i \in Ids : DOMAIN fires[i] = {} BY <1>2
<1>6. ProcInv BY <1>3 DEF ProcInv
<1>7. EntryInv /\ KeptInv BY <1>2 DEF EntryInv, EntryOK, KeptInv
<1>8. HistoryInv BY <1>2, <1>3, <1>5 DEF HistoryInv, Pending
<1>9. PendingInv /\ TrustInv BY <1>3, <1>5 DEF PendingInv, TrustInv
<1>10. SyncInv BY <1>2, <1>3, <1>4 DEF SyncInv, Excused, Synced
<1> QED BY <1>1, <1>6, <1>7, <1>8, <1>9, <1>10 DEF OneInv


\* What a step that fires nothing leaves as it was, and what that keeps.
LEMMA Quiet ==
  ASSUME OneInv, TypeOK', fires' = fires, crashes' = crashes,
         \A i \in Ids : added'[i] = added[i] \/ fires[i] = <<>>
  PROVE  /\ \A i \in Ids : Cardinality(Refired(i))' = Cardinality(Refired(i))
         /\ \A i \in Ids : \A e : Excused(e, i)' <=> Excused(e, i)
         /\ clock' = clock => \A i \in Ids : OnTime(i)' <=> OnTime(i)
         /\ \A i \in Ids : Cardinality(Refired(i))' <= crashes'
         /\ TrustInv'
<1>1. ASSUME NEW i \in Ids
      PROVE  /\ Cardinality(Refired(i))' = Cardinality(Refired(i))
             /\ \A e : Synced(e, i)' <=> Synced(e, i)
             /\ clock' = clock => (OnTime(i)' <=> OnTime(i))
  BY <1>1, HistorySame DEF OneInv
<1>2. \A i \in Ids : \A e : Excused(e, i)' <=> Excused(e, i) BY <1>1 DEF Excused
<1>3. \A i \in Ids : Cardinality(Refired(i))' <= crashes' BY <1>1 DEF OneInv, SyncInv
<1>4. TrustInv'
  <2> SUFFICES ASSUME NEW i \in Ids, NEW k \in DOMAIN fires[i],
                      fires[i][k].unattended, added'[i].policy = "first-runs"
               PROVE  k + crashes > FIRST_RUNS_TRUST_THRESHOLD
    BY DEF TrustInv
  <2>1. fires[i] # <<>> OBVIOUS
  <2> QED BY <2>1 DEF OneInv, TrustInv
<1> QED BY <1>1, <1>2, <1>3, <1>4

\* Time passes: what was on time stays so.
LEMMA AdvanceKeeps == ASSUME OneInv, TypeOK', Advance PROVE OneInv'
<1> USE DEF history, sched
<1>1. /\ \A p \in Procs : busy[p] = "no" /\ toFire[p] = {}
      /\ clock \in Nat /\ clock' = clock + 1
      /\ UNCHANGED <<role, table, file, busy, toFire, crashes, added, removed, manual, fires>>
  BY ScheduleAssumption DEF Advance, OneInv, ProcInv, TypeOK, Times
<1>2. /\ \A i \in Ids : \A e : Excused(e, i)' <=> Excused(e, i)
      /\ \A i \in Ids : Cardinality(Refired(i))' <= crashes'
      /\ TrustInv'
  BY <1>1, Quiet
<1>3. ProcInv' BY <1>1 DEF OneInv, ProcInv
<1>4. EntryInv' /\ KeptInv' BY <1>1 DEF OneInv, EntryInv, EntryOK, KeptInv, Pending
<1>5. HistoryInv'
  <2>1. \A i \in Ids : \A k \in DOMAIN fires[i] : fires[i][k].at \in Nat
    <3> SUFFICES ASSUME NEW i \in Ids, NEW k \in DOMAIN fires[i] PROVE fires[i][k].at \in Nat
      OBVIOUS
    <3> DEFINE R == [at : Times, manual : BOOLEAN, unattended : BOOLEAN]
    <3>1. fires[i] \in Seq(R) BY DEF OneInv, TypeOK
    <3>2. fires[i][k] \in R
      <4> HIDE DEF R
      <4> QED BY <3>1
    <3> QED BY <3>2, ScheduleAssumption DEF Times
  <2>2. \A i \in Ids : added[i] = Absent => fires[i] = <<>> /\ ~Pending(i)
    BY DEF OneInv, HistoryInv
  <2>3. \A i \in Ids : \A k \in DOMAIN fires[i] : fires[i][k].at <= clock
    BY DEF OneInv, HistoryInv
  <2> QED BY <1>1, <2>1, <2>2, <2>3 DEF HistoryInv, Pending
<1>6. PendingInv' BY <1>1 DEF PendingInv
<1>7. SyncInv' BY <1>1, <1>2 DEF OneInv, SyncInv
<1> QED BY <1>2, <1>3, <1>4, <1>5, <1>6, <1>7 DEF OneInv

\* loadSchedule: the table becomes the file, which is behind by one crash at most.
LEMMA StartKeeps ==
  ASSUME OneProcess, OneInv, TypeOK', NEW p \in Procs, start(p) PROVE OneInv'
<1> USE DEF history
<1>1. \A q \in Procs : q = p BY DEF OneProcess
<1>2. /\ role[p] = "down" /\ busy[p] = "no" /\ toFire[p] = {}
      /\ role'[p] = "owner" /\ table'[p] = file
      /\ UNCHANGED <<file, busy, toFire, clock, crashes, added, removed, manual, fires>>
  BY <1>1 DEF start, OneInv, ProcInv, TypeOK
<1>3. /\ \A i \in Ids : \A e : Excused(e, i)' <=> Excused(e, i)
      /\ \A i \in Ids : Cardinality(Refired(i))' <= crashes'
      /\ TrustInv'
  BY <1>2, Quiet
<1>4. ProcInv' BY <1>1, <1>2 DEF ProcInv
<1>5. EntryInv' BY <1>1, <1>2 DEF OneInv, EntryInv, EntryOK, Pending
<1>6. KeptInv' BY <1>1, <1>2 DEF OneInv, KeptInv
<1>7. HistoryInv' BY <1>2 DEF OneInv, HistoryInv, Pending
<1>8. PendingInv' BY <1>1, <1>2 DEF PendingInv
<1>9. SyncInv'
  <2>1. \A i \in Ids : Excused(file[i], i) BY <1>1, <1>2 DEF OneInv, SyncInv
  <2> QED BY <1>1, <1>2, <1>3, <2>1 DEF SyncInv
<1> QED BY <1>3, <1>4, <1>5, <1>6, <1>7, <1>8, <1>9 DEF OneInv

\* What a process that serves a request is like, when it is the only one.
LEMMA ServingIs ==
  ASSUME OneProcess, OneInv, NEW p \in Procs, role[p] # "down", busy[p] = "no"
  PROVE  /\ role[p] = "owner" /\ file = table[p] /\ toFire[p] = {}
         /\ \A i \in Ids : ~Pending(i)
         /\ \A i \in Ids : table[p][i] # Absent =>
              table[p][i] \in Entries /\ table[p][i].count \in Nat
         /\ clock \in Times /\ clock \in Nat /\ crashes \in Nat
         /\ \A i \in Ids : Len(fires[i]) \in Nat
<1>1. role[p] \in {"down", "idle", "owner"} BY DEF OneInv, TypeOK
<1>2. role[p] = "owner" /\ file = table[p] /\ toFire[p] = {} BY <1>1 DEF OneInv, ProcInv
<1>3. \A i \in Ids : ~Pending(i) BY <1>2 DEF OneProcess, Pending
<1>4. \A i \in Ids : table[p][i] # Absent =>
        table[p][i] \in Entries /\ table[p][i].count \in Nat
  <2>1. table[p] \in Tables BY DEF OneInv, TypeOK
  <2>2. \A e \in Entries : e.count \in Nat BY DEF Entries
  <2> QED BY <2>1, <2>2 DEF Tables
<1>5. clock \in Times /\ clock \in Nat /\ crashes \in Nat
  BY ScheduleAssumption DEF OneInv, TypeOK, Times
<1>6. \A i \in Ids : Len(fires[i]) \in Nat BY RefiredIs DEF OneInv
<1> QED BY <1>2, <1>3, <1>4, <1>5, <1>6

\* An accepted schedule has not fired.
LEMMA AddKeeps ==
  ASSUME OneProcess, OneInv, TypeOK', NEW p \in Procs, NEW i \in Ids, NEW tr \in Triggers,
         NEW pol \in Policies, add(p, i, tr, pol)
  PROVE  OneInv'
<1> DEFINE entry == [trigger |-> tr, created |-> clock, last |-> Never, count |-> 0,
                     enabled |-> TRUE, policy |-> pol]
           f == [id |-> i, manual |-> FALSE, unattended |-> resolveRunUnattended(pol, 0)]
           past == tr.type = "oneshot" /\ tr.spec < clock
<1>1. \A q \in Procs : q = p BY DEF OneProcess
<1>2. role[p] # "down" /\ busy[p] = "no" BY DEF add, Serving
<1>3. /\ role[p] = "owner" /\ file = table[p] /\ toFire[p] = {}
      /\ \A j \in Ids : ~Pending(j)
      /\ \A j \in Ids : table[p][j] # Absent => table[p][j].count \in Nat
      /\ clock \in Times /\ crashes \in Nat
      /\ \A j \in Ids : Len(fires[j]) \in Nat
  BY <1>2, ServingIs
<1>4. /\ entry \in Entries /\ entry.trigger = tr /\ entry.policy = pol /\ entry.count = 0
      /\ entry # Absent
  BY <1>3, NewEntry, AbsentAssumption
<1>5. /\ f.id = i /\ f.manual = FALSE
      /\ f.unattended = resolveRunUnattended(pol, 0)
  OBVIOUS
<1>6. /\ added[i] = Absent /\ added' = [added EXCEPT ![i] = entry]
      /\ UNCHANGED <<role, clock, crashes, removed, manual, fires>>
  BY DEF add
<1>7. /\ past => /\ busy' = [busy EXCEPT ![p] = "manual"] /\ toFire' = [toFire EXCEPT ![p] = {f}]
                 /\ UNCHANGED <<table, file>>
      /\ ~past => /\ Store(p, [table[p] EXCEPT ![i] = entry]) /\ UNCHANGED <<busy, toFire>>
  BY DEF add
<1> HIDE DEF entry, f
<1>8. /\ added'[i] = entry /\ \A j \in Ids : j # i => added'[j] = added[j]
      /\ fires[i] = <<>>
  <2>1. added \in Tables BY DEF OneInv, TypeOK
  <2>2. fires[i] = <<>> BY <1>6 DEF OneInv, HistoryInv
  <2> QED BY <1>6, <2>1, <2>2 DEF Tables
<1>9. /\ \A j \in Ids : \A e : Excused(e, j)' <=> Excused(e, j)
      /\ \A j \in Ids : Cardinality(Refired(j))' <= crashes'
      /\ TrustInv'
  BY <1>6, <1>8, Quiet
<1>10. table[p][i] = Absent BY <1>6 DEF OneInv, EntryInv, EntryOK
<1>11. CASE past
  <2>1. busy'[p] = "manual" /\ toFire'[p] = {f} /\ table' = table /\ file' = file
    BY <1>7, <1>11 DEF OneInv, TypeOK
  <2>2. ProcInv' BY <1>1, <1>3, <1>6, <2>1 DEF ProcInv
  <2>3. EntryInv'
    <3>1. \A j \in Ids : EntryOK(table[p][j], j) BY DEF OneInv, EntryInv
    <3>2. ASSUME NEW j \in Ids, table[p][j] # Absent
          PROVE  /\ added'[j] # Absent /\ table[p][j].trigger = added'[j].trigger
                 /\ table[p][j].policy = added'[j].policy
                 /\ table[p][j].count \in Nat /\ table[p][j].count <= Len(fires[j]) + crashes
      BY <1>3, <1>8, <1>10, <3>1, <3>2 DEF EntryOK
    <3>3. \A j \in Ids : EntryOK(table[p][j], j)' BY <1>3, <1>6, <2>1, <3>2 DEF EntryOK
    <3> QED BY <1>1, <1>3, <2>1, <3>3 DEF EntryInv
  <2>4. KeptInv' BY <1>4, <1>6, <1>8, <1>11, <2>1 DEF OneInv, KeptInv
  <2>5. HistoryInv'
    <3>1. \A j \in Ids : j # i => ~Pending(j)' BY <1>1, <1>5, <2>1 DEF Pending
    <3> QED BY <1>4, <1>6, <1>8, <3>1 DEF OneInv, HistoryInv
  <2>6. PendingInv'
    <3>1. f.unattended /\ pol = "first-runs" => FIRST_RUNS_TRUST_THRESHOLD <= 0
      BY <1>5, ScheduleAssumption DEF resolveRunUnattended
    <3>2. FIRST_RUNS_TRUST_THRESHOLD <= 0 => FIRST_RUNS_TRUST_THRESHOLD <= Len(fires[i]) + crashes
      BY <1>3, ScheduleAssumption
    <3>3. added'[f.id].policy = pol BY <1>4, <1>5, <1>8
    <3>4. OnTime(f.id)' BY <1>5, <1>6, <1>8 DEF OnTime
    <3>5. \A q \in Procs : \A g \in toFire'[q] : g = f /\ q = p BY <1>1, <2>1
    <3>6. f.unattended /\ added'[f.id].policy = "first-runs" =>
            FIRST_RUNS_TRUST_THRESHOLD <= Len(fires'[f.id]) + crashes'
      BY <1>5, <1>6, <3>1, <3>2, <3>3
    <3>7. table'[p][f.id] = Absent BY <1>5, <1>10, <2>1
    <3> QED BY <3>4, <3>5, <3>6, <3>7 DEF PendingInv
  <2>7. SyncInv' BY <1>1, <1>2, <1>3, <1>6, <1>9, <2>1 DEF OneInv, SyncInv
  <2> QED BY <1>9, <2>2, <2>3, <2>4, <2>5, <2>6, <2>7 DEF OneInv
<1>12. CASE ~past
  <2>1. /\ table'[p] = [table[p] EXCEPT ![i] = entry] /\ file' = table'[p]
        /\ busy' = busy /\ toFire' = toFire
    BY <1>7, <1>12 DEF Store, OneInv, TypeOK
  <2>2. table'[p][i] = entry /\ \A j \in Ids : j # i => table'[p][j] = table[p][j]
    <3>1. table[p] \in Tables BY DEF OneInv, TypeOK
    <3> QED BY <2>1, <3>1 DEF Tables
  <2>3. ProcInv' BY <1>1, <1>2, <1>3, <1>6, <2>1 DEF ProcInv
  <2>4. EntryInv'
    <3>1. \A j \in Ids : EntryOK(table[p][j], j) BY DEF OneInv, EntryInv
    <3>2. EntryOK(table[p][i], i)' BY <1>3, <1>4, <1>6, <1>8, <2>2 DEF EntryOK
    <3>3. \A j \in Ids : j # i => EntryOK(table[p][j], j)'
      BY <1>3, <1>6, <1>8, <2>1, <2>2, <3>1 DEF EntryOK, Pending
    <3> QED BY <1>1, <2>1, <3>2, <3>3 DEF EntryInv
  <2>5. KeptInv'
    <3>1. \A j \in Ids : table[p][j] # Absent => table'[p][j] # Absent BY <1>4, <2>2
    <3>2. \A j \in Ids :
            added[j] # Absent /\ added[j].trigger.type # "oneshot" /\ j \notin removed =>
              table[p][j] # Absent
      BY <1>3 DEF OneInv, KeptInv
    <3>3. \A j \in Ids :
            added'[j] # Absent /\ added'[j].trigger.type # "oneshot" /\ j \notin removed' =>
              table'[p][j] # Absent
      BY <1>4, <1>6, <1>8, <2>2, <3>1, <3>2
    <3> QED BY <1>1, <2>1, <3>3 DEF KeptInv
  <2>6. HistoryInv' BY <1>4, <1>6, <1>8, <2>1 DEF OneInv, HistoryInv, Pending
  <2>7. PendingInv' BY <1>1, <1>3, <2>1 DEF PendingInv
  <2>8. SyncInv'
    <3>1. \A j \in Ids : Excused(table[p][j], j) BY <1>3 DEF OneInv, SyncInv
    <3>2. Excused(entry, i) BY <1>8 DEF Excused, Synced
    <3>3. \A j \in Ids : Excused(table'[p][j], j) BY <2>2, <3>1, <3>2
    <3>4. \A j \in Ids : Excused(table[p][j], j)' BY <1>9, <3>3
    <3> QED BY <1>1, <1>9, <2>1, <3>4 DEF SyncInv
  <2> QED BY <1>9, <2>3, <2>4, <2>5, <2>6, <2>7, <2>8 DEF OneInv
<1> QED BY <1>11, <1>12

\* What is removed need not be kept.
LEMMA RemoveKeeps ==
  ASSUME OneProcess, OneInv, TypeOK', NEW p \in Procs, NEW i \in Ids, remove(p, i)
  PROVE  OneInv'
<1> USE DEF history
<1>1. \A q \in Procs : q = p BY DEF OneProcess
<1>2. role[p] # "down" /\ busy[p] = "no" BY DEF remove, Serving
<1>3. role[p] = "owner" /\ file = table[p] /\ toFire[p] = {} BY <1>2, ServingIs
<1>4. /\ table'[p] = [table[p] EXCEPT ![i] = Absent] /\ file' = table'[p]
      /\ removed' = removed \cup {i}
      /\ UNCHANGED <<role, busy, toFire, clock, crashes, added, manual, fires>>
  BY DEF remove, Store, OneInv, TypeOK
<1>5. table'[p][i] = Absent /\ \A j \in Ids : j # i => table'[p][j] = table[p][j]
  <2>1. table[p] \in Tables BY DEF OneInv, TypeOK
  <2> QED BY <1>4, <2>1 DEF Tables
<1>6. /\ \A j \in Ids : \A e : Excused(e, j)' <=> Excused(e, j)
      /\ \A j \in Ids : Cardinality(Refired(j))' <= crashes'
      /\ TrustInv'
  BY <1>4, Quiet
<1>7. ProcInv' BY <1>1, <1>2, <1>3, <1>4 DEF ProcInv
<1>8. EntryInv'
  <2>1. \A j \in Ids : EntryOK(table[p][j], j) BY DEF OneInv, EntryInv
  <2>2. \A j \in Ids : EntryOK(table'[p][j], j) BY <1>5, <2>1 DEF EntryOK
  <2>3. \A j \in Ids : EntryOK(table[p][j], j)' BY <1>4, <2>2 DEF EntryOK, Pending
  <2> QED BY <1>1, <1>4, <2>3 DEF EntryInv
<1>9. KeptInv'
  <2>1. \A j \in Ids :
          added[j] # Absent /\ added[j].trigger.type # "oneshot" /\ j \notin removed =>
            table[p][j] # Absent
    BY <1>3 DEF OneInv, KeptInv
  <2>2. \A j \in Ids :
          added[j] # Absent /\ added[j].trigger.type # "oneshot" /\ j \notin removed' =>
            table'[p][j] # Absent
    BY <1>4, <1>5, <2>1
  <2> QED BY <1>1, <1>4, <2>2 DEF KeptInv
<1>10. HistoryInv' BY <1>4 DEF OneInv, HistoryInv, Pending
<1>11. PendingInv' BY <1>1, <1>3, <1>4 DEF PendingInv
<1>12. SyncInv'
  <2>1. \A j \in Ids : Excused(table[p][j], j) BY <1>3 DEF OneInv, SyncInv
  <2>2. \A j \in Ids : Excused(table'[p][j], j)
    <3>1. Excused(Absent, i) BY DEF Excused, Synced
    <3> QED BY <1>5, <2>1, <3>1
  <2>3. \A j \in Ids : Excused(table[p][j], j)' BY <1>6, <2>2
  <2> QED BY <1>1, <1>4, <1>6, <2>3 DEF SyncInv
<1> QED BY <1>6, <1>7, <1>8, <1>9, <1>10, <1>11, <1>12 DEF OneInv

\* Enabling again does not move the last firing.
LEMMA SetEnabledKeeps ==
  ASSUME OneProcess, OneInv, TypeOK', NEW p \in Procs, NEW i \in Ids, NEW b \in BOOLEAN,
         setEnabled(p, i, b)
  PROVE  OneInv'
<1> DEFINE e == [table[p][i] EXCEPT !.enabled = b]
<1> USE DEF history
<1>1. \A q \in Procs : q = p BY DEF OneProcess
<1>2. role[p] # "down" /\ busy[p] = "no" /\ table[p][i] # Absent BY DEF setEnabled, Serving
<1>3. /\ role[p] = "owner" /\ file = table[p] /\ toFire[p] = {} /\ table[p][i] \in Entries
  BY <1>2, ServingIs
<1>4. /\ table'[p] = [table[p] EXCEPT ![i] = e] /\ file' = table'[p]
      /\ UNCHANGED <<role, busy, toFire, clock, crashes, added, removed, manual, fires>>
  BY DEF setEnabled, Store, OneInv, TypeOK
<1>5. /\ e \in Entries /\ e # Absent /\ e.trigger = table[p][i].trigger
      /\ e.policy = table[p][i].policy /\ e.last = table[p][i].last
      /\ e.count = table[p][i].count
  BY <1>3, EnabledIs, AbsentAssumption
<1> HIDE DEF e
<1>6. table'[p][i] = e /\ \A j \in Ids : j # i => table'[p][j] = table[p][j]
  <2>1. table[p] \in Tables BY DEF OneInv, TypeOK
  <2> QED BY <1>4, <2>1 DEF Tables
<1>7. /\ \A j \in Ids : \A x : Excused(x, j)' <=> Excused(x, j)
      /\ \A j \in Ids : Cardinality(Refired(j))' <= crashes'
      /\ TrustInv'
  BY <1>4, Quiet
<1>8. ProcInv' BY <1>1, <1>2, <1>3, <1>4 DEF ProcInv
<1>9. EntryInv'
  <2>1. \A j \in Ids : EntryOK(table[p][j], j) BY DEF OneInv, EntryInv
  <2>2. EntryOK(e, i) BY <1>2, <1>5, <2>1 DEF EntryOK
  <2>3. \A j \in Ids : EntryOK(table'[p][j], j) BY <1>6, <2>1, <2>2
  <2>4. \A j \in Ids : EntryOK(table[p][j], j)' BY <1>4, <2>3 DEF EntryOK, Pending
  <2> QED BY <1>1, <1>4, <2>4 DEF EntryInv
<1>10. KeptInv'
  <2>1. \A j \in Ids : table[p][j] # Absent => table'[p][j] # Absent BY <1>5, <1>6
  <2> QED BY <1>1, <1>3, <1>4, <2>1 DEF OneInv, KeptInv
<1>11. HistoryInv' BY <1>4 DEF OneInv, HistoryInv, Pending
<1>12. PendingInv' BY <1>1, <1>3, <1>4 DEF PendingInv
<1>13. SyncInv'
  <2>1. \A j \in Ids : Excused(table[p][j], j) BY <1>3 DEF OneInv, SyncInv
  <2>2. Excused(e, i) BY <1>2, <1>5, <2>1 DEF Excused, Synced
  <2>3. \A j \in Ids : Excused(table'[p][j], j) BY <1>6, <2>1, <2>2
  <2>4. \A j \in Ids : Excused(table[p][j], j)' BY <1>7, <2>3
  <2> QED BY <1>1, <1>4, <1>7, <2>4 DEF SyncInv
<1> QED BY <1>7, <1>8, <1>9, <1>10, <1>11, <1>12, <1>13 DEF OneInv

\* The entry that is counted now remembers every firing made so far.
LEMMA TriggeredSynced ==
  ASSUME OneInv, NEW e \in Entries, NEW i \in Ids
  PROVE  Synced(Triggered(e), i)
<1>1. /\ clock \in Nat /\ clock \in Times /\ clock # Never /\ e.count \in Nat
  BY ScheduleAssumption DEF OneInv, TypeOK, Times, Entries
<1>2. Triggered(e).last = clock /\ Triggered(e).count = e.count + 1 BY <1>1, TriggeredIs
<1>3. CASE fires[i] # <<>>
  <2>1. Len(fires[i]) \in DOMAIN fires[i] BY <1>3, RefiredIs DEF OneInv
  <2>2. LastFired(i) <= clock BY <2>1 DEF OneInv, HistoryInv, LastFired
  <2> QED BY <1>1, <1>2, <2>2 DEF Synced
<1> QED BY <1>3 DEF Synced

\* A manual run is counted before it fires.
LEMMA RunNowKeeps ==
  ASSUME OneProcess, OneInv, TypeOK', NEW p \in Procs, NEW i \in Ids, runNow(p, i)
  PROVE  OneInv'
<1> DEFINE e == Triggered(table[p][i])
           f == [id |-> i, manual |-> TRUE, unattended |-> FALSE]
<1>1. \A q \in Procs : q = p BY DEF OneProcess
<1>2. role[p] # "down" /\ busy[p] = "no" /\ table[p][i] # Absent BY DEF runNow, Serving
<1>3. /\ role[p] = "owner" /\ file = table[p] /\ toFire[p] = {}
      /\ table[p][i] \in Entries /\ table[p][i].count \in Nat
      /\ \A j \in Ids : ~Pending(j)
      /\ \A j \in Ids : table[p][j] # Absent => table[p][j].count \in Nat
      /\ clock \in Times /\ clock \in Nat /\ crashes \in Nat
      /\ \A j \in Ids : Len(fires[j]) \in Nat
  BY <1>2, ServingIs
<1>4. /\ table'[p] = [table[p] EXCEPT ![i] = e] /\ file' = table'[p]
      /\ busy'[p] = "manual" /\ toFire'[p] = {f}
      /\ UNCHANGED <<role, clock, crashes, added, removed, fires>>
  BY DEF runNow, Store, OneInv, TypeOK
<1>5. /\ e \in Entries /\ e # Absent /\ e.trigger = table[p][i].trigger
      /\ e.policy = table[p][i].policy /\ e.last = clock
      /\ e.count = table[p][i].count + 1
  BY <1>3, TriggeredIs, AbsentAssumption
<1>6. f.id = i /\ f.manual = TRUE /\ f.unattended = FALSE OBVIOUS
<1>7. Synced(e, i) BY <1>3, TriggeredSynced
<1> HIDE DEF e, f
<1>8. table'[p][i] = e /\ \A j \in Ids : j # i => table'[p][j] = table[p][j]
  <2>1. table[p] \in Tables BY DEF OneInv, TypeOK
  <2> QED BY <1>4, <2>1 DEF Tables
<1>9. /\ \A j \in Ids : \A x : Excused(x, j)' <=> Excused(x, j)
      /\ \A j \in Ids : Cardinality(Refired(j))' <= crashes'
      /\ TrustInv'
  BY <1>4, Quiet
<1>10. ProcInv' BY <1>1, <1>3, <1>4 DEF ProcInv
<1>11. Pending(i)' /\ \A j \in Ids : j # i => ~Pending(j)' BY <1>1, <1>4, <1>6 DEF Pending
<1>12. \A j \in Ids : EntryOK(table[p][j], j) BY DEF OneInv, EntryInv
<1>13. EntryInv'
  <2>1. EntryOK(table[p][i], i)'
    <3>1. /\ added[i] # Absent /\ e.trigger = added[i].trigger /\ e.policy = added[i].policy
          /\ e.count <= Len(fires[i]) + crashes + 1
      BY <1>2, <1>3, <1>5, <1>12 DEF EntryOK
    <3> QED BY <1>4, <1>8, <1>11, <3>1 DEF EntryOK
  <2>2. ASSUME NEW j \in Ids, j # i PROVE EntryOK(table[p][j], j)'
    BY <1>3, <1>4, <1>8, <1>12, <2>2 DEF EntryOK
  <2> QED BY <1>1, <1>4, <2>1, <2>2 DEF EntryInv
<1>14. KeptInv'
  <2>1. \A j \in Ids : table[p][j] # Absent => table'[p][j] # Absent BY <1>5, <1>8
  <2> QED BY <1>1, <1>3, <1>4, <2>1 DEF OneInv, KeptInv
<1>15. HistoryInv'
  <2>1. added[i] # Absent BY <1>2, <1>12 DEF EntryOK
  <2> QED BY <1>4, <1>11, <2>1 DEF OneInv, HistoryInv
<1>16. PendingInv'
  <2>1. table'[p][i].last = clock' /\ table'[p][i].count > 0 BY <1>3, <1>4, <1>5, <1>8
  <2>2. \A q \in Procs : \A g \in toFire'[q] : g = f /\ q = p BY <1>1, <1>4
  <2> QED BY <1>6, <2>1, <2>2 DEF PendingInv
<1>17. SyncInv'
  <2>1. \A j \in Ids : Excused(table[p][j], j) BY <1>3 DEF OneInv, SyncInv
  <2>2. Excused(e, i) BY <1>7 DEF Excused
  <2>3. \A j \in Ids : Excused(table'[p][j], j) BY <1>8, <2>1, <2>2
  <2>4. \A j \in Ids : Excused(table[p][j], j)' BY <1>9, <2>3
  <2> QED BY <1>1, <1>4, <1>9, <2>4 DEF SyncInv
<1> QED BY <1>9, <1>10, <1>13, <1>14, <1>15, <1>16, <1>17 DEF OneInv

\* What a tick resolves was due, and is not due again.
LEMMA TickKeeps ==
  ASSUME OneProcess, OneInv, TypeOK', NEW p \in Procs, tick(p) PROVE OneInv'
<1> DEFINE E(j) == table[p][j]
           A(j) == AfterTick(table[p][j])
           F(j) == TickFiring(j, table[p][j])
           due == {j \in Ids : IsDue(table[p][j], clock)}
<1> USE DEF history
<1>1. \A q \in Procs : q = p BY DEF OneProcess
<1>2. role[p] = "owner" /\ busy[p] = "no" BY DEF tick
<1>3. /\ file = table[p] /\ toFire[p] = {}
      /\ \A j \in Ids : ~Pending(j)
      /\ \A j \in Ids : E(j) # Absent => E(j) \in Entries /\ E(j).count \in Nat
      /\ clock \in Times /\ clock \in Nat /\ crashes \in Nat
      /\ \A j \in Ids : Len(fires[j]) \in Nat
  BY <1>2, ServingIs
<1>4. /\ \A j \in Ids : table'[p][j] = A(j)
      /\ toFire'[p] = {F(j) : j \in due} /\ busy'[p] = "tick"
      /\ UNCHANGED <<role, file, clock, crashes, added, removed, manual, fires>>
  BY DEF tick, OneInv, TypeOK
<1>5. ASSUME NEW j \in Ids, A(j) # Absent
      PROVE  /\ E(j) # Absent
             /\ A(j).trigger = E(j).trigger /\ A(j).policy = E(j).policy
             /\ j \in due => /\ A(j).last = clock /\ A(j).count = E(j).count + 1
                             /\ Synced(A(j), j)
             /\ j \notin due => A(j) = E(j)
  <2>1. E(j) \in Entries \cup {Absent} BY <1>3
  <2>2. /\ E(j) # Absent
        /\ A(j).trigger = E(j).trigger /\ A(j).policy = E(j).policy
        /\ IsDue(E(j), clock) => A(j).last = clock /\ A(j).count = E(j).count + 1
        /\ ~IsDue(E(j), clock) => A(j) = E(j)
    BY <1>3, <1>5, <2>1, AfterTickIs
  <2>3. IsDue(E(j), clock) => A(j) = Triggered(E(j)) BY <1>5 DEF AfterTick
  <2>4. IsDue(E(j), clock) => Synced(A(j), j) BY <1>3, <2>2, <2>3, TriggeredSynced
  <2>5. j \in due <=> IsDue(E(j), clock) OBVIOUS
  <2> HIDE DEF E, A, due
  <2> QED BY <2>2, <2>4, <2>5
<1>6. \A j \in Ids : /\ F(j).id = j /\ F(j).manual = FALSE
                     /\ F(j).unattended = resolveRunUnattended(E(j).policy, E(j).count)
  BY FiringIs
<1>7. \A j \in due : j \in Ids /\ E(j) # Absent /\ IsDue(E(j), clock) BY DEF IsDue
<1>8. \A j \in Ids : Pending(j)' <=> j \in due BY <1>1, <1>4, <1>6 DEF Pending
<1>9. /\ \A j \in Ids : \A x : Excused(x, j)' <=> Excused(x, j)
      /\ \A j \in Ids : OnTime(j)' <=> OnTime(j)
      /\ \A j \in Ids : Cardinality(Refired(j))' = Cardinality(Refired(j))
      /\ \A j \in Ids : Cardinality(Refired(j))' <= crashes'
      /\ TrustInv'
  BY <1>4, Quiet
<1>10. \A j \in Ids : EntryOK(E(j), j) /\ Excused(E(j), j)
  BY <1>2 DEF OneInv, EntryInv, SyncInv
<1>11. ASSUME NEW j \in Ids, E(j) # Absent
       PROVE  /\ added[j] # Absent
              /\ E(j).trigger = added[j].trigger /\ E(j).policy = added[j].policy
              /\ E(j).count \in Nat /\ E(j).count <= Len(fires[j]) + crashes
  BY <1>3, <1>10, <1>11 DEF EntryOK
<1>12. ASSUME NEW j \in due PROVE OnTime(j) \/ Cardinality(Refired(j)) < crashes
  <2>1. CASE Synced(E(j), j) /\ fires[j] # <<>>
    <3>1. E(j).count > 0 /\ E(j).last # Never /\ LastFired(j) <= E(j).last
      BY <1>7, <2>1 DEF Synced
    <3>2. E(j) \in Entries /\ added[j] \in Entries /\ E(j).trigger = added[j].trigger
      <4>1. added \in Tables BY DEF OneInv, TypeOK
      <4> QED BY <1>3, <1>7, <1>11, <4>1 DEF Tables
    <3>3. LastFired(j) \in Nat
      <4> DEFINE R == [at : Times, manual : BOOLEAN, unattended : BOOLEAN]
      <4>1. j \in Ids /\ fires[j] \in Seq(R) BY DEF OneInv, TypeOK
      <4>2. Len(fires[j]) \in DOMAIN fires[j] BY <2>1, RefiredIs DEF OneInv
      <4>3. fires[j][Len(fires[j])] \in R
        <5> HIDE DEF R
        <5> QED BY <4>1, <4>2
      <4> QED BY <4>3, ScheduleAssumption DEF LastFired, Times
    <3>4. NextAfter(j, LastFired(j)) \in 0..clock
      BY <1>3, <1>7, <3>1, <3>2, <3>3, DueAfter DEF NextAfter
    <3> QED BY <3>4 DEF OnTime
  <2>2. CASE fires[j] = <<>> BY <2>2 DEF OnTime
  <2>3. CASE ~Synced(E(j), j) BY <1>10, <2>3 DEF Excused
  <2> QED BY <2>1, <2>2, <2>3
<1>13. ASSUME NEW j \in Ids, E(j) # Absent, added[j].trigger.type # "oneshot"
       PROVE  A(j) # Absent
  <2>1. E(j) \in Entries /\ E(j).trigger.type # "oneshot" BY <1>3, <1>11, <1>13
  <2>2. ~IsSpent(E(j), clock) BY <2>1, SpentIsOneshot DEF IsSpent
  <2>3. A(j) = Triggered(E(j)) \/ A(j) = E(j) BY <2>1, <2>2 DEF AfterTick
  <2>4. Triggered(E(j)) \in Entries BY <1>3, <2>1, TriggeredIs
  <2> QED BY <2>1, <2>3, <2>4, AbsentAssumption
<1> HIDE DEF E, A, F, due
<1>14. ProcInv'
  <2>1. \A g, h \in toFire'[p] : g.id = h.id => g = h
    <3> SUFFICES ASSUME NEW g \in toFire'[p], NEW h \in toFire'[p], g.id = h.id PROVE g = h
      OBVIOUS
    <3>1. PICK j \in due : g = F(j) BY <1>4
    <3>2. PICK k \in due : h = F(k) BY <1>4
    <3>3. j \in Ids /\ k \in Ids BY <1>7
    <3> QED BY <1>6, <3>1, <3>2, <3>3
  <2> QED BY <1>1, <1>2, <1>4, <2>1 DEF ProcInv
<1>15. EntryInv'
  <2>1. ASSUME NEW j \in Ids PROVE EntryOK(file[j], j)'
    <3>1. file'[j] = E(j) BY <1>3, <1>4 DEF E
    <3> QED BY <1>4, <1>11, <3>1 DEF EntryOK
  <2>2. ASSUME NEW j \in Ids PROVE EntryOK(table[p][j], j)'
    <3>1. table'[p][j] = A(j) BY <1>4
    <3>2. ASSUME A(j) # Absent
          PROVE  /\ added'[j] # Absent
                 /\ A(j).trigger = added'[j].trigger /\ A(j).policy = added'[j].policy
      BY <1>4, <1>5, <1>11, <3>2
    <3>3. ASSUME A(j) # Absent, j \notin due PROVE A(j).count <= Len(fires'[j]) + crashes'
      BY <1>4, <1>5, <1>11, <3>3
    <3>4. ASSUME A(j) # Absent, j \in due
          PROVE  Pending(j)' /\ A(j).count <= Len(fires'[j]) + crashes' + 1
      <4>1. A(j).count = E(j).count + 1 /\ E(j) # Absent BY <1>5, <3>4
      <4>2. E(j).count \in Nat /\ E(j).count <= Len(fires[j]) + crashes BY <1>11, <4>1
      <4> QED BY <1>3, <1>4, <1>8, <3>4, <4>1, <4>2
    <3> QED BY <3>1, <3>2, <3>3, <3>4 DEF EntryOK
  <2> QED BY <1>1, <2>1, <2>2 DEF EntryInv
<1>16. KeptInv'
  <2>1. ASSUME NEW j \in Ids, added[j] # Absent, added[j].trigger.type # "oneshot", j \notin removed
        PROVE  file[j] # Absent /\ A(j) # Absent
    <3>1. file[j] # Absent /\ E(j) # Absent BY <1>2, <2>1 DEF OneInv, KeptInv, E
    <3> QED BY <1>13, <2>1, <3>1
  <2>2. ASSUME NEW j \in Ids, added'[j] # Absent, added'[j].trigger.type # "oneshot",
               j \notin removed'
        PROVE  file'[j] # Absent /\ table'[p][j] # Absent
    BY <1>4, <2>1, <2>2
  <2> QED BY <1>1, <2>2 DEF KeptInv
<1>17. HistoryInv'
  <2>1. \A j \in Ids : j \in due => added[j] # Absent BY <1>7, <1>11
  <2> QED BY <1>4, <1>8, <2>1 DEF OneInv, HistoryInv
<1>18. PendingInv'
  <2> SUFFICES ASSUME NEW f \in toFire'[p]
               PROVE /\ f.unattended /\ added'[f.id].policy = "first-runs" =>
                          FIRST_RUNS_TRUST_THRESHOLD <= Len(fires'[f.id]) + crashes'
                     /\ table'[p][f.id] # Absent =>
                          table'[p][f.id].last = clock' /\ table'[p][f.id].count > 0
                     /\ f.manual \/ OnTime(f.id)' \/ Cardinality(Refired(f.id))' < crashes'
    BY <1>1 DEF PendingInv
  <2>1. PICK j \in due : f = F(j) BY <1>4
  <2>2. j \in Ids /\ E(j) # Absent /\ f.id = j BY <1>6, <1>7, <2>1
  <2>3. f.unattended = resolveRunUnattended(E(j).policy, E(j).count) BY <1>6, <2>1, <2>2
  <2>4. E(j).count \in Nat /\ E(j).count <= Len(fires[j]) + crashes /\ E(j).policy = added[j].policy
    BY <1>11, <2>2
  <2>5. ASSUME f.unattended, added[j].policy = "first-runs"
        PROVE  FIRST_RUNS_TRUST_THRESHOLD <= Len(fires[j]) + crashes
    <3>1. E(j).count >= FIRST_RUNS_TRUST_THRESHOLD
      BY <2>3, <2>4, <2>5 DEF resolveRunUnattended
    <3> QED BY <1>3, <2>2, <2>4, <3>1, ScheduleAssumption
  <2>6. A(j) # Absent => A(j).last = clock /\ A(j).count > 0 BY <1>5, <2>1, <2>2, <2>4
  <2>7. OnTime(j)' \/ Cardinality(Refired(j))' < crashes' BY <1>4, <1>9, <1>12, <2>2
  <2> QED BY <1>4, <2>2, <2>5, <2>6, <2>7
<1>19. SyncInv'
  <2>1. ASSUME NEW j \in Ids PROVE Excused(A(j), j)
    <3>1. A(j) = Absent \/ Synced(A(j), j) \/ A(j) = E(j) BY <1>5
    <3> QED BY <1>10, <3>1 DEF Excused, Synced
  <2>2. \A j \in Ids : Excused(table'[p][j], j) BY <1>4, <2>1
  <2>3. \A j \in Ids : Excused(table[p][j], j)' BY <1>9, <2>2
  <2>4. busy'[p] = "tick" BY <1>4
  <2> QED BY <1>1, <1>4, <1>9, <2>3 DEF SyncInv
<1> QED BY <1>9, <1>14, <1>15, <1>16, <1>17, <1>18, <1>19 DEF OneInv

\* One more firing: it is early, and uses up a crash, or it is not.
LEMMA FiringAdds ==
  ASSUME TypeOK, NEW i \in Ids, NEW r,
         fires'[i] = Append(fires[i], r), added'[i] = added[i], r.at = clock,
         r.manual \in BOOLEAN
  PROVE  /\ Len(fires'[i]) = Len(fires[i]) + 1 /\ LastFired(i)' = clock /\ fires'[i] # <<>>
         /\ DOMAIN fires'[i] = DOMAIN fires[i] \cup {Len(fires[i]) + 1}
         /\ \A k \in DOMAIN fires[i] : fires'[i][k] = fires[i][k]
         /\ fires'[i][Len(fires[i]) + 1] = r
         /\ Cardinality(Refired(i))' \in Nat
         /\ Cardinality(Refired(i))' <= Cardinality(Refired(i)) + 1
         /\ r.manual \/ OnTime(i) => Cardinality(Refired(i))' = Cardinality(Refired(i))
<1> DEFINE R == [at : Times, manual : BOOLEAN, unattended : BOOLEAN]
           n == Len(fires[i])
           Next1(at) == computeNextTrigger([added[i] EXCEPT !.last = at, !.count = 1], at)
           Early(s) == {k \in DOMAIN s : /\ k > 1
                                         /\ ~s[k].manual
                                         /\ Next1(s[k - 1].at) \notin 0..s[k].at}
<1>1. fires[i] \in Seq(R) BY DEF TypeOK
<1>0. /\ Refired(i) = Early(fires[i]) /\ Refired(i)' = Early(fires'[i])
      /\ \A at : NextAfter(i, at) = Next1(at)
  BY DEF Refired, NextAfter
<1> HIDE DEF R, n, Next1
<1>2. /\ n \in Nat /\ DOMAIN fires[i] = 1..n
      /\ Len(fires'[i]) = n + 1 /\ DOMAIN fires'[i] = 1..(n + 1)
      /\ \A k \in 1..n : fires'[i][k] = fires[i][k]
      /\ fires'[i][n + 1] = r
      /\ fires[i] = <<>> <=> n = 0
  BY <1>1 DEF n
<1>3. \A k \in 1..n : k > 1 => k - 1 \in 1..n BY <1>2
<1>4. \A k \in 1..n : k \in Refired(i)' <=> k \in Refired(i)
  <2> SUFFICES ASSUME NEW k \in 1..n PROVE k \in Early(fires'[i]) <=> k \in Early(fires[i])
    BY <1>0
  <2>1. k \in DOMAIN fires[i] /\ k \in DOMAIN fires'[i] /\ fires'[i][k] = fires[i][k] BY <1>2
  <2>2. k > 1 => fires'[i][k - 1] = fires[i][k - 1] BY <1>2, <1>3
  <2> QED BY <2>1, <2>2
<1>5. n + 1 \in Refired(i)' =>
        n # 0 /\ ~r.manual /\ NextAfter(i, fires[i][n].at) \notin 0..clock
  <2> SUFFICES ASSUME n + 1 \in Early(fires'[i])
               PROVE  n # 0 /\ ~r.manual /\ NextAfter(i, fires[i][n].at) \notin 0..clock
    BY <1>0
  <2>1. n # 0 BY <1>2
  <2>2. (n + 1) - 1 = n /\ n \in 1..n BY <1>2, <2>1
  <2>3. fires'[i][(n + 1) - 1] = fires[i][n] BY <1>2, <2>2
  <2> QED BY <1>0, <1>2, <2>1, <2>3
<1>6. Refired(i) \subseteq 1..n /\ Refired(i)' \subseteq 1..(n + 1) BY <1>0, <1>2
<1> HIDE DEF Early
<1>7. Refired(i)' = Refired(i) \/ Refired(i)' = Refired(i) \cup {n + 1}
  <2>1. \A k \in 1..(n + 1) : k \in 1..n \/ k = n + 1 BY <1>2
  <2> QED BY <1>4, <1>6, <2>1
<1>8. IsFiniteSet(Refired(i)) /\ Cardinality(Refired(i)) \in Nat BY RefiredIs
<1>9. /\ Cardinality(Refired(i) \cup {n + 1}) \in Nat
      /\ Cardinality(Refired(i) \cup {n + 1}) <= Cardinality(Refired(i)) + 1
  <2>1. \/ Cardinality(Refired(i) \cup {n + 1}) = Cardinality(Refired(i)) + 1
        \/ Cardinality(Refired(i) \cup {n + 1}) = Cardinality(Refired(i))
    BY <1>8, FS_AddElement
  <2> QED BY <1>8, <2>1
<1>10. /\ Cardinality(Refired(i))' \in Nat
       /\ Cardinality(Refired(i))' <= Cardinality(Refired(i)) + 1
  <2>1. CASE Refired(i)' = Refired(i) BY <1>8, <2>1
  <2>2. CASE Refired(i)' = Refired(i) \cup {n + 1} BY <1>9, <2>2
  <2> QED BY <1>7, <2>1, <2>2
<1>11. r.manual \/ OnTime(i) => n + 1 \notin Refired(i)'
  BY <1>2, <1>5 DEF OnTime, LastFired, n
<1>12. r.manual \/ OnTime(i) => Cardinality(Refired(i))' = Cardinality(Refired(i))
  <2>1. n + 1 \notin Refired(i)' => Refired(i)' = Refired(i) BY <1>7
  <2> QED BY <1>11, <2>1
<1>13. fires'[i] # <<>> /\ LastFired(i)' = clock
  <2>1. 1 \in DOMAIN fires'[i] /\ DOMAIN << >> = {} BY <1>2
  <2> QED BY <1>2, <2>1 DEF LastFired
<1> QED BY <1>2, <1>10, <1>12, <1>13 DEF n

\* A firing uses up the crash that allowed it, if it was not on time.
LEMMA FireTaskKeeps ==
  ASSUME OneProcess, OneInv, TypeOK', NEW p \in Procs, fireTask(p) PROVE OneInv'
<1>1. \A q \in Procs : q = p BY DEF OneProcess
<1>2. PICK f \in toFire[p] :
        /\ toFire' = [toFire EXCEPT ![p] = @ \ {f}]
        /\ fires' = [fires EXCEPT ![f.id] =
                      Append(@, [at |-> clock, manual |-> f.manual,
                                 unattended |-> f.unattended])]
        /\ UNCHANGED <<role, table, file, busy, clock, crashes, added, removed, manual>>
  BY DEF fireTask
<1> DEFINE i == f.id
           r == [at |-> clock, manual |-> f.manual, unattended |-> f.unattended]
           n == Len(fires[i])
<1>3. f \in Firings /\ i \in Ids /\ f.manual \in BOOLEAN /\ f.unattended \in BOOLEAN
  BY DEF OneInv, TypeOK, Firings
<1>4. /\ r.at = clock /\ r.manual = f.manual /\ r.unattended = f.unattended OBVIOUS
<1>5. /\ toFire'[p] = toFire[p] \ {f}
      /\ fires'[i] = Append(fires[i], r) /\ \A j \in Ids : j # i => fires'[j] = fires[j]
      /\ UNCHANGED <<role, table, file, busy, clock, crashes, added, removed, manual>>
  <2>1. fires = [j \in Ids |-> fires[j]] BY DEF OneInv, TypeOK
  <2>2. toFire = [q \in Procs |-> toFire[q]] BY DEF OneInv, TypeOK
  <2> HIDE DEF r
  <2> QED BY <1>2, <1>3, <2>1, <2>2 DEF r
<1> HIDE DEF i, r, n
<1>6. /\ role[p] = "owner" /\ busy[p] # "no"
      /\ \A g \in toFire[p] : g.id = i => g = f
      /\ \A g \in toFire'[p] : g \in toFire[p] /\ g.id # i
  <2>1. role[p] \in {"down", "idle", "owner"} BY DEF OneInv, TypeOK
  <2>2. \A g \in toFire[p] : g.id = i => g = f BY DEF OneInv, ProcInv, i
  <2> QED BY <1>5, <2>1, <2>2 DEF OneInv, ProcInv
<1>7. /\ clock \in Nat /\ clock # Never /\ crashes \in Nat /\ n \in Nat
      /\ \A j \in Ids : Len(fires[j]) \in Nat
  BY <1>3, ScheduleAssumption, RefiredIs DEF OneInv, TypeOK, Times, n
<1>8. /\ Len(fires'[i]) = n + 1 /\ LastFired(i)' = clock /\ fires'[i] # <<>>
      /\ DOMAIN fires'[i] = DOMAIN fires[i] \cup {n + 1}
      /\ \A k \in DOMAIN fires[i] : fires'[i][k] = fires[i][k]
      /\ fires'[i][n + 1] = r
      /\ Cardinality(Refired(i))' \in Nat
      /\ Cardinality(Refired(i))' <= Cardinality(Refired(i)) + 1
      /\ f.manual \/ OnTime(i) => Cardinality(Refired(i))' = Cardinality(Refired(i))
  BY <1>3, <1>4, <1>5, FiringAdds DEF OneInv, n
<1>9. ASSUME NEW j \in Ids, j # i
      PROVE  /\ Cardinality(Refired(j))' = Cardinality(Refired(j))
             /\ \A e : Synced(e, j)' <=> Synced(e, j)
             /\ OnTime(j)' <=> OnTime(j)
  BY <1>5, <1>9, HistorySame DEF OneInv
<1>10. /\ f.unattended /\ added[i].policy = "first-runs" =>
            FIRST_RUNS_TRUST_THRESHOLD <= n + crashes
       /\ table[p][i] # Absent => table[p][i].last = clock /\ table[p][i].count > 0
       /\ f.manual \/ OnTime(i) \/ Cardinality(Refired(i)) < crashes
  BY DEF OneInv, PendingInv, i, n
<1>11. Pending(i) /\ \A j \in Ids : j # i => (Pending(j)' <=> Pending(j))
  BY <1>1, <1>5, <1>6 DEF Pending, i
<1>12. ProcInv' BY <1>1, <1>5, <1>6 DEF OneInv, ProcInv
<1>13. EntryInv'
  <2>1. ASSUME NEW e, NEW j \in Ids, EntryOK(e, j), e = Absent \/ e \in Entries
        PROVE  EntryOK(e, j)'
    <3>1. e # Absent => e.count \in Nat BY <2>1 DEF Entries
    <3>2. CASE j = i
      BY <1>5, <1>7, <1>8, <2>1, <3>1, <3>2 DEF EntryOK, n
    <3>3. CASE j # i
      <4>1. fires'[j] = fires[j] /\ (Pending(j)' <=> Pending(j)) BY <1>5, <1>11, <3>3
      <4> QED BY <1>5, <2>1, <4>1 DEF EntryOK
    <3> QED BY <3>2, <3>3
  <2>2. \A j \in Ids : EntryOK(file[j], j) /\ EntryOK(table[p][j], j) BY DEF OneInv, EntryInv
  <2>3. \A j \in Ids : /\ file[j] = Absent \/ file[j] \in Entries
                       /\ table[p][j] = Absent \/ table[p][j] \in Entries
    <3>1. file \in Tables /\ table[p] \in Tables BY DEF OneInv, TypeOK
    <3> QED BY <3>1 DEF Tables
  <2>4. \A j \in Ids : EntryOK(file[j], j)' /\ EntryOK(table[p][j], j)'
    <3> SUFFICES ASSUME NEW j \in Ids PROVE EntryOK(file[j], j)' /\ EntryOK(table[p][j], j)'
      OBVIOUS
    <3>1. file' = file /\ table' = table BY <1>5
    <3>2. EntryOK(file[j], j)' BY <2>1, <2>2, <2>3, <3>1 DEF EntryOK
    <3>3. EntryOK(table[p][j], j)' BY <2>1, <2>2, <2>3, <3>1 DEF EntryOK
    <3> QED BY <3>2, <3>3
  <2> QED BY <1>1, <2>4 DEF EntryInv
<1>14. KeptInv' BY <1>5 DEF OneInv, KeptInv
<1>15. HistoryInv'
  <2>1. added[i] # Absent BY <1>3, <1>11 DEF OneInv, HistoryInv
  <2>2. \A j \in Ids : added'[j] = Absent => fires'[j] = <<>> /\ ~Pending(j)'
    BY <1>5, <1>11, <2>1 DEF OneInv, HistoryInv
  <2>3. \A j \in Ids : \A k \in DOMAIN fires'[j] : fires'[j][k].at <= clock
    <3>1. \A j \in Ids : \A k \in DOMAIN fires[j] : fires[j][k].at <= clock
      BY DEF OneInv, HistoryInv
    <3> SUFFICES ASSUME NEW j \in Ids, NEW k \in DOMAIN fires'[j]
                 PROVE  fires'[j][k].at <= clock
      OBVIOUS
    <3>2. CASE j # i BY <1>5, <3>1, <3>2
    <3>3. CASE j = i /\ k = n + 1
      <4>1. fires'[j][k].at = clock BY <1>4, <1>8, <3>3
      <4> QED BY <1>7, <4>1
    <3>4. CASE j = i /\ k \in DOMAIN fires[i] BY <1>8, <3>1, <3>4
    <3> QED BY <1>8, <3>2, <3>3, <3>4
  <2> QED BY <1>5, <2>2, <2>3 DEF HistoryInv
<1>16. PendingInv'
  <2> SUFFICES ASSUME NEW g \in toFire'[p]
               PROVE /\ g.unattended /\ added'[g.id].policy = "first-runs" =>
                          FIRST_RUNS_TRUST_THRESHOLD <= Len(fires'[g.id]) + crashes'
                     /\ table'[p][g.id] # Absent =>
                          table'[p][g.id].last = clock' /\ table'[p][g.id].count > 0
                     /\ g.manual \/ OnTime(g.id)' \/ Cardinality(Refired(g.id))' < crashes'
    BY <1>1 DEF PendingInv
  <2>1. g \in toFire[p] /\ g.id # i BY <1>6
  <2>2. g.id \in Ids BY <2>1 DEF OneInv, TypeOK, Firings
  <2>3. /\ g.unattended /\ added[g.id].policy = "first-runs" =>
             FIRST_RUNS_TRUST_THRESHOLD <= Len(fires[g.id]) + crashes
        /\ table[p][g.id] # Absent =>
             table[p][g.id].last = clock /\ table[p][g.id].count > 0
        /\ g.manual \/ OnTime(g.id) \/ Cardinality(Refired(g.id)) < crashes
    BY <2>1 DEF OneInv, PendingInv
  <2> QED BY <1>5, <1>9, <2>1, <2>2, <2>3
<1>17. TrustInv'
  <2> SUFFICES ASSUME NEW j \in Ids, NEW k \in DOMAIN fires'[j],
                      fires'[j][k].unattended, added'[j].policy = "first-runs"
               PROVE  k + crashes' > FIRST_RUNS_TRUST_THRESHOLD
    BY DEF TrustInv
  <2>1. CASE k \in DOMAIN fires[j] /\ fires'[j][k] = fires[j][k]
    BY <1>5, <2>1 DEF OneInv, TrustInv
  <2>2. CASE j = i /\ k = n + 1
    <3>1. f.unattended BY <1>4, <1>8, <2>2
    <3> QED BY <1>5, <1>7, <1>10, <2>2, <3>1, ScheduleAssumption
  <2> QED BY <1>5, <1>8, <2>1, <2>2
<1>18. Cardinality(Refired(i))' <= crashes
  <2>1. Cardinality(Refired(i)) \in Nat /\ Cardinality(Refired(i)) <= crashes
    BY <1>3, RefiredIs DEF OneInv, SyncInv
  <2>2. CASE f.manual \/ OnTime(i) BY <1>8, <2>1, <2>2
  <2>3. CASE Cardinality(Refired(i)) < crashes
    <3>1. Cardinality(Refired(i))' \in Nat BY <1>8
    <3> QED BY <1>7, <1>8, <2>1, <2>3, <3>1
  <2> QED BY <1>10, <2>2, <2>3
<1>19. SyncInv'
  <2>1. \A j \in Ids : Cardinality(Refired(j))' <= crashes'
    <3>1. \A j \in Ids : Cardinality(Refired(j)) <= crashes BY DEF OneInv, SyncInv
    <3> QED BY <1>5, <1>9, <1>18, <3>1
  <2>2. \A j \in Ids : Excused(table[p][j], j)'
    <3>1. \A j \in Ids : Excused(table[p][j], j) BY <1>6 DEF OneInv, SyncInv
    <3>2. Excused(table[p][i], i)'
      <4>1. clock <= clock BY <1>7
      <4> QED BY <1>5, <1>7, <1>8, <1>10, <4>1 DEF Excused, Synced
    <3>3. ASSUME NEW j \in Ids, j # i PROVE Excused(table[p][j], j)'
      <4>1. \A e : Synced(e, j)' <=> Synced(e, j) BY <1>9, <3>3
      <4>2. Cardinality(Refired(j))' = Cardinality(Refired(j)) BY <1>9, <3>3
      <4>3. Synced(table[p][j], j) \/ Cardinality(Refired(j)) < crashes BY <3>1 DEF Excused
      <4> QED BY <1>5, <4>1, <4>2, <4>3 DEF Excused
    <3> QED BY <3>2, <3>3
  <2>3. busy'[p] # "tick" => file' = table'[p] BY <1>5, <1>6 DEF OneInv, ProcInv
  <2> QED BY <1>1, <2>1, <2>2, <2>3 DEF SyncInv
<1>20. TypeOK' OBVIOUS
<1> QED BY <1>12, <1>13, <1>14, <1>15, <1>16, <1>17, <1>19, <1>20 DEF OneInv

\* The persist at the end of a tick brings the file up to the table.
LEMMA FinishKeeps ==
  ASSUME OneProcess, OneInv, TypeOK', NEW p \in Procs, Finish(p) PROVE OneInv'
<1> USE DEF history
<1>1. \A q \in Procs : q = p BY DEF OneProcess
<1>2. /\ busy[p] # "no" /\ toFire[p] = {} /\ busy'[p] = "no"
      /\ file' = IF busy[p] = "tick" THEN table[p] ELSE file
      /\ UNCHANGED <<role, table, toFire, clock, crashes, added, removed, manual, fires>>
  BY DEF Finish, OneInv, TypeOK
<1>3. role[p] = "owner" /\ file' = table[p]
  <2>1. role[p] \in {"down", "idle", "owner"} BY DEF OneInv, TypeOK
  <2>2. role[p] = "owner" BY <1>2, <2>1 DEF OneInv, ProcInv
  <2> QED BY <1>2, <2>2 DEF OneInv, ProcInv
<1>4. /\ \A j \in Ids : \A e : Excused(e, j)' <=> Excused(e, j)
      /\ \A j \in Ids : Cardinality(Refired(j))' <= crashes'
      /\ TrustInv'
  BY <1>2, Quiet
<1>5. ProcInv' BY <1>1, <1>2, <1>3 DEF ProcInv
<1>6. EntryInv'
  <2>1. \A j \in Ids : EntryOK(table[p][j], j) BY DEF OneInv, EntryInv
  <2>2. \A j \in Ids : EntryOK(table[p][j], j)' BY <1>2, <2>1 DEF EntryOK, Pending
  <2>3. \A j \in Ids : EntryOK(file[j], j)' BY <1>2, <1>3, <2>2 DEF EntryOK
  <2> QED BY <1>1, <2>2, <2>3 DEF EntryInv
<1>7. KeptInv'
  <2>1. \A j \in Ids :
          added[j] # Absent /\ added[j].trigger.type # "oneshot" /\ j \notin removed =>
            table[p][j] # Absent
    BY <1>3 DEF OneInv, KeptInv
  <2> QED BY <1>1, <1>2, <1>3, <2>1 DEF KeptInv
<1>8. HistoryInv' BY <1>2 DEF OneInv, HistoryInv, Pending
<1>9. PendingInv' BY <1>1, <1>2 DEF PendingInv
<1>10. SyncInv'
  <2>1. \A j \in Ids : Excused(table[p][j], j) BY <1>3 DEF OneInv, SyncInv
  <2>2. \A j \in Ids : Excused(table[p][j], j)' /\ file'[j] = table'[p][j]
    BY <1>2, <1>3, <1>4, <2>1
  <2> QED BY <1>1, <1>4, <2>2 DEF SyncInv
<1> QED BY <1>4, <1>5, <1>6, <1>7, <1>8, <1>9, <1>10 DEF OneInv

\* A crash allows one firing more of each schedule.
LEMMA CrashKeeps ==
  ASSUME OneProcess, OneInv, TypeOK', NEW p \in Procs, Crash(p) PROVE OneInv'
<1> USE DEF history
<1>1. \A q \in Procs : q = p BY DEF OneProcess
<1>2. /\ role'[p] = "down" /\ table'[p] = Empty /\ busy'[p] = "no" /\ toFire'[p] = {}
      /\ crashes' = crashes + 1 /\ crashes \in Nat
      /\ UNCHANGED <<file, clock, added, removed, manual, fires>>
  BY DEF Crash, OneInv, TypeOK
<1>3. ASSUME NEW j \in Ids
      PROVE  /\ Cardinality(Refired(j))' = Cardinality(Refired(j))
             /\ Cardinality(Refired(j)) \in Nat /\ Cardinality(Refired(j)) <= crashes
             /\ Len(fires[j]) \in Nat /\ DOMAIN fires[j] \subseteq Nat
  BY <1>2, <1>3, HistorySame, RefiredIs DEF OneInv, SyncInv
<1>4. ProcInv' BY <1>1, <1>2 DEF ProcInv
<1>5. EntryInv'
  <2>1. ASSUME NEW j \in Ids PROVE EntryOK(file[j], j)'
    <3>1. EntryOK(file[j], j) /\ (file[j] # Absent => file[j].count \in Nat)
      <4>1. file \in Tables /\ \A e \in Entries : e.count \in Nat
        BY DEF OneInv, TypeOK, Entries
      <4> QED BY <4>1 DEF OneInv, EntryInv, Tables
    <3>2. ASSUME file[j] # Absent
          PROVE  /\ added[j] # Absent
                 /\ file[j].trigger = added[j].trigger /\ file[j].policy = added[j].policy
                 /\ file[j].count <= Len(fires[j]) + (crashes + 1)
      BY <1>2, <1>3, <3>1, <3>2 DEF EntryOK
    <3>3. file' = file /\ added' = added /\ fires' = fires /\ crashes' = crashes + 1 BY <1>2
    <3> QED BY <3>2, <3>3 DEF EntryOK
  <2>2. \A j \in Ids : EntryOK(table[p][j], j)' BY <1>2 DEF EntryOK, Empty
  <2> QED BY <1>1, <2>1, <2>2 DEF EntryInv
<1>6. KeptInv' BY <1>1, <1>2 DEF OneInv, KeptInv
<1>7. HistoryInv'
  <2>1. \A j \in Ids : ~Pending(j)' BY <1>1, <1>2 DEF Pending
  <2> QED BY <1>2, <2>1 DEF OneInv, HistoryInv
<1>8. PendingInv' BY <1>1, <1>2 DEF PendingInv
<1>9. SyncInv'
  <2>1. \A j \in Ids : Cardinality(Refired(j))' <= crashes' /\ Cardinality(Refired(j))' < crashes'
    BY <1>2, <1>3
  <2> QED BY <1>1, <1>2, <2>1 DEF SyncInv, Excused
<1>10. TrustInv'
  <2> SUFFICES ASSUME NEW j \in Ids, NEW k \in DOMAIN fires'[j],
                      fires'[j][k].unattended, added'[j].policy = "first-runs"
               PROVE  k + crashes' > FIRST_RUNS_TRUST_THRESHOLD
    BY DEF TrustInv
  <2>1. k + crashes > FIRST_RUNS_TRUST_THRESHOLD BY <1>2 DEF OneInv, TrustInv
  <2> QED BY <1>2, <1>3, <2>1, ScheduleAssumption
<1> QED BY <1>4, <1>5, <1>6, <1>7, <1>8, <1>9, <1>10 DEF OneInv

\* Every step keeps the invariant.
LEMMA OneStep == ASSUME OneProcess PROVE OneInv /\ [Next]_vars => OneInv'
<1> SUFFICES ASSUME OneInv, [Next]_vars PROVE OneInv' OBVIOUS
<1>1. TypeOK' BY TypeStep DEF OneInv
<1>2. CASE UNCHANGED vars
  <2>1. /\ UNCHANGED <<role, table, file, busy, toFire, crashes, added, removed, manual, fires>>
        /\ clock' = clock
    BY <1>2 DEF vars, sched, history
  <2>2. /\ \A i \in Ids : \A e : Excused(e, i)' <=> Excused(e, i)
        /\ \A i \in Ids : OnTime(i)' <=> OnTime(i)
        /\ \A i \in Ids : Cardinality(Refired(i))' = Cardinality(Refired(i))
        /\ \A i \in Ids : Cardinality(Refired(i))' <= crashes'
        /\ TrustInv'
    BY <1>1, <2>1, Quiet
  <2>3. ProcInv' BY <2>1 DEF OneInv, ProcInv
  <2>4. EntryInv' /\ KeptInv' BY <2>1 DEF OneInv, EntryInv, EntryOK, KeptInv, Pending
  <2>5. HistoryInv' BY <2>1 DEF OneInv, HistoryInv, Pending
  <2>6. PendingInv' BY <2>1 DEF OneInv, PendingInv, OnTime, LastFired, NextAfter, Refired
  <2>7. SyncInv' BY <2>1, <2>2 DEF OneInv, SyncInv
  <2> QED BY <1>1, <2>2, <2>3, <2>4, <2>5, <2>6, <2>7 DEF OneInv
<1>3. CASE Next
  BY <1>1, <1>3, AdvanceKeeps, StartKeeps, AddKeeps, RemoveKeeps, SetEnabledKeeps, RunNowKeeps,
     TickKeeps, FireTaskKeeps, FinishKeeps, CrashKeeps DEF Next, Step
<1> QED BY <1>2, <1>3

\* With one process the invariant always holds.
LEMMA OneAlways == ASSUME OneProcess PROVE Spec => []OneInv
BY OneInit, OneStep, PTL DEF Spec

(* A slot fires once, however the process stops and starts again: a crash
   between the firings of a tick and its persist repeats one firing of a
   schedule at most, and nothing else repeats any. *)
THEOREM SlotsFireOnce == ASSUME OneProcess PROVE Spec => []SlotFiresOncePerCrash
<1>1. OneInv => SlotFiresOncePerCrash BY DEF OneInv, SyncInv, SlotFiresOncePerCrash
<1> QED BY <1>1, OneAlways, PTL

(* No run of a first-runs schedule is unattended before the threshold of runs
   it was resolved with, save that a crash may lose a run that was counted. *)
THEOREM TrustEarned == ASSUME OneProcess PROVE Spec => []TrustIsEarned
<1>1. ASSUME OneInv PROVE TrustIsEarned
  <2> SUFFICES ASSUME NEW i \in Ids, NEW k \in DOMAIN fires[i],
                      fires[i][k].unattended, added[i].policy = "first-runs"
               PROVE  /\ k + crashes > FIRST_RUNS_TRUST_THRESHOLD
                      /\ \A j \in 1..k :
                           j + crashes <= FIRST_RUNS_TRUST_THRESHOLD => ~fires[i][j].unattended
    BY DEF TrustIsEarned
  <2>1. k + crashes > FIRST_RUNS_TRUST_THRESHOLD BY <1>1 DEF OneInv, TrustInv
  <2>2. ASSUME NEW j \in 1..k, j + crashes <= FIRST_RUNS_TRUST_THRESHOLD
        PROVE  ~fires[i][j].unattended
    <3>1. j \in DOMAIN fires[i] BY <1>1, RefiredIs DEF OneInv
    <3>2. j \in Nat /\ crashes \in Nat BY <1>1, <2>2, RefiredIs DEF OneInv, TypeOK
    <3>3. fires[i][j].unattended => j + crashes > FIRST_RUNS_TRUST_THRESHOLD
      BY <1>1, <3>1 DEF OneInv, TrustInv
    <3> QED BY <2>2, <3>2, <3>3, ScheduleAssumption
  <2> QED BY <2>1, <2>2
<1> QED BY <1>1, OneAlways, PTL

(* What was accepted and not deleted is in the file at every moment, so a
   crash at any of them loses no recurring schedule. *)
THEOREM SchedulesAreKept == ASSUME OneProcess PROVE Spec => []AcceptedIsKept
<1>1. OneInv => AcceptedIsKept BY DEF OneInv, KeptInv, AcceptedIsKept
<1> QED BY <1>1, OneAlways, PTL
=============================================================================
