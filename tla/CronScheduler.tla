---------------------------- MODULE CronScheduler ----------------------------
(***************************************************************************)
(* The schedule table of server/cron-scheduler.ts, in every sidecar        *)
(* process that points at the same desktop directory and so at the same    *)
(* scheduled_tasks.json.  CronWiring.start makes one process the owner,    *)
(* whose scheduler starts; the others keep their routes and their own,     *)
(* empty table.  (How the owner is chosen is module CronLock's subject:    *)
(* here at most one process at a time owns the lock.)                      *)
(*                                                                         *)
(* A process runs a timer or request callback to its end, together with    *)
(* the promises it awaits (the store below fireTask never really waits),   *)
(* so only a crash comes between the steps of one callback; busy says that *)
(* a callback is between its first and its last effect.                    *)
(*                                                                         *)
(* Times are small numbers.  A cron expression that fires every n units on *)
(* the unit is [type |-> "cron", spec |-> n]: nextCronTime is strictly     *)
(* after its base.  Prompts, tools and retry policies are left out.        *)
(***************************************************************************)
EXTENDS Naturals, Sequences, FiniteSets

CONSTANTS
  Procs,                       \* sidecar processes
  Ids,                         \* schedule ids that may be generated
  Triggers,                    \* the [type, spec] pairs users schedule
  Policies,                    \* the review policies users choose
  FIRST_RUNS_TRUST_THRESHOLD,  \* 3 in the source
  MaxTime,                     \* bound: the clock
  MaxManual,                   \* bound: runNow calls per schedule
  MaxCrashes,                  \* bound: processes that stop
  Absent,                      \* no entry under this id
  Never                        \* lastTriggeredAt is not set

ASSUME ScheduleAssumption ==
  /\ Triggers \subseteq [type : {"interval", "cron", "oneshot"}, spec : Nat \ {0}]
  /\ Policies \subseteq {"always-review", "first-runs", "auto-proceed"}
  /\ FIRST_RUNS_TRUST_THRESHOLD \in Nat
  /\ MaxTime \in Nat /\ MaxManual \in Nat /\ MaxCrashes \in Nat
  /\ Never \notin Nat

VARIABLES
  role,      \* each process: "down", "idle" or "owner"
  table,     \* each process's schedule table
  file,      \* scheduled_tasks.json
  busy,      \* each process: "no", or the callback under way: "tick", "manual"
  toFire,    \* what that callback has still to fire
  clock,
  crashes,
  added,     \* history: each schedule as it was accepted
  removed,   \* history: the schedules a user deleted
  manual,    \* history: how often runNow was accepted for a schedule
  fires      \* history: each schedule's firings, in order

sched == <<role, table, file, busy, toFire>>
history == <<added, removed, manual, fires>>
vars == <<sched, clock, crashes, history>>

Times == 0..MaxTime
ReviewPolicies == {"always-review", "first-runs", "auto-proceed"}
Entries == [trigger : Triggers, created : Nat, last : Nat \cup {Never},
            count : Nat, enabled : BOOLEAN, policy : ReviewPolicies]
ASSUME AbsentAssumption == Absent \notin Entries

Tables == [Ids -> Entries \cup {Absent}]
Firings == [id : Ids, unattended : BOOLEAN, manual : BOOLEAN]
Empty == [i \in Ids |-> Absent]

-----------------------------------------------------------------------------
(* When an entry is due.                                                   *)

BaseTime(entry) == IF entry.last = Never THEN entry.created ELSE entry.last

\* A time, or Never where the source returns null.
computeNextTrigger(entry, now) ==
  LET spec == entry.trigger.spec
      base == BaseTime(entry)
  IN
  CASE entry.trigger.type = "interval" -> base + spec
    [] entry.trigger.type = "cron"     -> (base \div spec + 1) * spec
    [] entry.trigger.type = "oneshot" /\ entry.count > 0 -> Never
    [] OTHER -> IF spec <= now THEN now ELSE spec

IsDue(entry, now) ==
  /\ entry # Absent
  /\ entry.enabled
  /\ computeNextTrigger(entry, now) \in 0..now

IsSpent(entry, now) ==
  /\ entry # Absent
  /\ entry.enabled
  /\ computeNextTrigger(entry, now) = Never

resolveRunUnattended(policy, triggerCount) ==
  \/ policy = "auto-proceed"
  \/ policy = "first-runs" /\ triggerCount >= FIRST_RUNS_TRUST_THRESHOLD

Triggered(entry) == [entry EXCEPT !.last = clock, !.count = @ + 1]

-----------------------------------------------------------------------------
Init ==
  /\ role = [p \in Procs |-> "down"]
  /\ table = [p \in Procs |-> Empty]
  /\ file = Empty
  /\ busy = [p \in Procs |-> "no"]
  /\ toFire = [p \in Procs |-> {}]
  /\ clock = 0
  /\ crashes = 0
  /\ added = Empty
  /\ removed = {}
  /\ manual = [i \in Ids |-> 0]
  /\ fires = [i \in Ids |-> <<>>]

Serving(p) == role[p] # "down" /\ busy[p] = "no"

\* Mutant: the owner starts from an empty table.
start_NoLoad(p) ==
  /\ role[p] = "down"
  /\ \A q \in Procs : role[q] # "owner"
  /\ role' = [role EXCEPT ![p] = "owner"]
  /\ UNCHANGED <<table, file, busy, toFire, clock, crashes, history>>

\* The process boots: the one that gets the lock loads the file and ticks.
start(p) ==
  /\ role[p] = "down"
  /\ \/ /\ \A q \in Procs : role[q] # "owner"
        /\ role' = [role EXCEPT ![p] = "owner"]
        /\ table' = [table EXCEPT ![p] = file]
     \/ /\ \E q \in Procs : role[q] = "owner"
        /\ role' = [role EXCEPT ![p] = "idle"]
        /\ UNCHANGED table
  /\ UNCHANGED <<file, busy, toFire, clock, crashes, history>>

\* table is assigned and persist() called.
Store(p, newTable) ==
  /\ table' = [table EXCEPT ![p] = newTable]
  /\ file' = newTable

\* POST /schedule: an entry of the future is kept, a oneshot of the past is
\* fired without being kept.
add(p, i, tr, pol) ==
  LET entry == [trigger |-> tr, created |-> clock, last |-> Never, count |-> 0,
                enabled |-> TRUE, policy |-> pol]
  IN
  /\ Serving(p)
  /\ added[i] = Absent
  /\ added' = [added EXCEPT ![i] = entry]
  /\ \/ /\ tr.type = "oneshot" /\ tr.spec < clock
        /\ busy' = [busy EXCEPT ![p] = "manual"]
        /\ toFire' = [toFire EXCEPT ![p] =
             {[id |-> i, manual |-> FALSE,
               unattended |-> resolveRunUnattended(pol, 0)]}]
        /\ UNCHANGED <<table, file>>
     \/ /\ ~(tr.type = "oneshot" /\ tr.spec < clock)
        /\ Store(p, [table[p] EXCEPT ![i] = entry])
        /\ UNCHANGED <<busy, toFire>>
  /\ UNCHANGED <<role, clock, crashes, removed, manual, fires>>

\* DELETE /schedule/:id.
remove(p, i) ==
  /\ Serving(p)
  /\ table[p][i] # Absent
  /\ Store(p, [table[p] EXCEPT ![i] = Absent])
  /\ removed' = removed \cup {i}
  /\ UNCHANGED <<role, busy, toFire, clock, crashes, added, manual, fires>>

\* POST /schedule/:id/pause.
setEnabled(p, i, enabled) ==
  /\ Serving(p)
  /\ table[p][i] # Absent
  /\ Store(p, [table[p] EXCEPT ![i].enabled = enabled])
  /\ UNCHANGED <<role, busy, toFire, clock, crashes, history>>

\* POST /schedule/:id/run-now: counted and saved, then fired.
runNow(p, i) ==
  /\ Serving(p)
  /\ manual[i] < MaxManual
  /\ table[p][i] # Absent
  /\ table[p][i].enabled
  /\ Store(p, [table[p] EXCEPT ![i] = Triggered(@)])
  /\ busy' = [busy EXCEPT ![p] = "manual"]
  /\ toFire' = [toFire EXCEPT ![p] = {[id |-> i, manual |-> TRUE, unattended |-> FALSE]}]
  /\ manual' = [manual EXCEPT ![i] = @ + 1]
  /\ UNCHANGED <<role, clock, crashes, added, removed, fires>>

\* Mutant: a recurring entry that is due is left as it is.
AfterTick_Untriggered(entry) ==
  IF IsSpent(entry, clock) \/ (IsDue(entry, clock) /\ entry.trigger.type = "oneshot")
  THEN Absent ELSE entry

\* What tick leaves of an entry.
AfterTick(entry) ==
  IF IsSpent(entry, clock) \/ (IsDue(entry, clock) /\ entry.trigger.type = "oneshot")
  THEN Absent
  ELSE IF IsDue(entry, clock) THEN Triggered(entry) ELSE entry

\* Mutants: the firing carries no review mode; the mode is resolved with
\* the count after the firing.
TickFiring_NoMode(i, entry) == [id |-> i, manual |-> FALSE]
TickFiring_PostCount(i, entry) ==
  [id |-> i, manual |-> FALSE,
   unattended |-> resolveRunUnattended(entry.policy, entry.count + 1)]

TickFiring(i, entry) ==
  [id |-> i, manual |-> FALSE,
   unattended |-> resolveRunUnattended(entry.policy, entry.count)]

\* Mutant: the new table is persisted before the firings.
tick_PersistFirst(p) ==
  LET due == {i \in Ids : IsDue(table[p][i], clock)} IN
  /\ role[p] = "owner"
  /\ busy[p] = "no"
  /\ \E i \in Ids : IsDue(table[p][i], clock) \/ IsSpent(table[p][i], clock)
  /\ Store(p, [i \in Ids |-> AfterTick(table[p][i])])
  /\ toFire' = [toFire EXCEPT ![p] = {TickFiring(i, table[p][i]) : i \in due}]
  /\ busy' = [busy EXCEPT ![p] = "tick"]
  /\ UNCHANGED <<role, clock, crashes, history>>

\* The interval timer of a running scheduler, where the table changes.
tick(p) ==
  LET due == {i \in Ids : IsDue(table[p][i], clock)} IN
  /\ role[p] = "owner"
  /\ busy[p] = "no"
  /\ \E i \in Ids : IsDue(table[p][i], clock) \/ IsSpent(table[p][i], clock)
  /\ table' = [table EXCEPT ![p] = [i \in Ids |-> AfterTick(table[p][i])]]
  /\ toFire' = [toFire EXCEPT ![p] = {TickFiring(i, table[p][i]) : i \in due}]
  /\ busy' = [busy EXCEPT ![p] = "tick"]
  /\ UNCHANGED <<role, file, clock, crashes, history>>

\* One turn of the loop over toFire.
fireTask(p) ==
  \E f \in toFire[p] :
    /\ toFire' = [toFire EXCEPT ![p] = @ \ {f}]
    /\ fires' = [fires EXCEPT ![f.id] =
                  Append(@, [at |-> clock, manual |-> f.manual,
                             unattended |-> f.unattended])]
    /\ UNCHANGED <<role, table, file, busy, clock, crashes, added, removed, manual>>

\* The callback ends; a tick persists the table it made.
Finish(p) ==
  /\ busy[p] # "no"
  /\ toFire[p] = {}
  /\ busy' = [busy EXCEPT ![p] = "no"]
  /\ file' = IF busy[p] = "tick" THEN table[p] ELSE file
  /\ UNCHANGED <<role, table, toFire, clock, crashes, history>>

\* The process stops, at any point.
Crash(p) ==
  /\ role[p] # "down"
  /\ crashes < MaxCrashes
  /\ crashes' = crashes + 1
  /\ role' = [role EXCEPT ![p] = "down"]
  /\ table' = [table EXCEPT ![p] = Empty]
  /\ busy' = [busy EXCEPT ![p] = "no"]
  /\ toFire' = [toFire EXCEPT ![p] = {}]
  /\ UNCHANGED <<file, clock, history>>

\* A callback is short: the clock does not move while one is under way.
Advance ==
  /\ clock < MaxTime
  /\ \A p \in Procs : busy[p] = "no"
  /\ clock' = clock + 1
  /\ UNCHANGED <<sched, crashes, history>>

Step(p) ==
  \/ start(p)
  \/ \E i \in Ids : \/ \E tr \in Triggers, pol \in Policies : add(p, i, tr, pol)
                    \/ remove(p, i)
                    \/ \E b \in BOOLEAN : setEnabled(p, i, b)
                    \/ runNow(p, i)
  \/ tick(p)
  \/ fireTask(p)
  \/ Finish(p)
  \/ Crash(p)

Next == Advance \/ \E p \in Procs : Step(p)

Spec == Init /\ [][Next]_vars

(***************************************************************************)
(* Fairness: time passes, the tick timer of a running scheduler keeps      *)
(* firing, a callback runs to its end, a stopped process is started again. *)
(***************************************************************************)
Fairness ==
  /\ WF_vars(Advance)
  /\ \A p \in Procs : /\ WF_vars(start(p))
                      /\ WF_vars(tick(p))
                      /\ WF_vars(fireTask(p))
                      /\ WF_vars(Finish(p))

FairSpec == Spec /\ Fairness

-----------------------------------------------------------------------------
(* Properties.                                                             *)

\* Every variable has the type its declaration gives it.
TypeOK ==
  /\ role \in [Procs -> {"down", "idle", "owner"}]
  /\ table \in [Procs -> Tables]
  /\ file \in Tables
  /\ busy \in [Procs -> {"no", "tick", "manual"}]
  /\ toFire \in [Procs -> SUBSET Firings]
  /\ clock \in Times
  /\ crashes \in Nat
  /\ added \in Tables
  /\ removed \subseteq Ids
  /\ manual \in [Ids -> Nat]
  /\ fires \in [Ids -> Seq([at : Times, manual : BOOLEAN, unattended : BOOLEAN])]

\* The first time an automatic firing may follow a firing of the schedule.
NextAfter(i, at) ==
  computeNextTrigger([added[i] EXCEPT !.last = at, !.count = 1], at)

\* The firings of a schedule that a tick made too early: before the time that
\* follows from the firing before it, or after a oneshot has fired.
Refired(i) ==
  {k \in DOMAIN fires[i] :
    /\ k > 1
    /\ ~fires[i][k].manual
    /\ NextAfter(i, fires[i][k - 1].at) \notin 0..fires[i][k].at}

\* A slot fires once, manual firings counted in (computeNextTrigger over the
\* persisted lastTriggeredAt and triggerCount, tick, runNow); only a crash
\* between the firings of a tick and its persist repeats one, and each crash
\* repeats one firing of a schedule at most.
SlotFiresOncePerCrash == \A i \in Ids : Cardinality(Refired(i)) <= crashes

\* Trust is earned: an unattended firing under first-runs comes after
\* FIRST_RUNS_TRUST_THRESHOLD attended ones, where a manual run that was counted
\* but not fired because of a crash stands for one.
TrustIsEarned ==
  \A i \in Ids : \A k \in DOMAIN fires[i] :
    fires[i][k].unattended /\ added[i].policy = "first-runs" =>
      /\ k + crashes > FIRST_RUNS_TRUST_THRESHOLD
      /\ \A j \in 1..k :
           j + crashes <= FIRST_RUNS_TRUST_THRESHOLD => ~fires[i][j].unattended

\* A recurring schedule that was accepted and not deleted is in the schedule
\* file: the next process to start will find it.
AcceptedIsKept ==
  \A i \in Ids :
    added[i] # Absent /\ added[i].trigger.type # "oneshot" /\ i \notin removed
      => file[i] # Absent

\* A oneshot in the schedule file is fired, whatever crashes come between,
\* unless it is deleted or paused, or a manual run takes its place.
DueIsFired ==
  \A i \in Ids :
    file[i] # Absent /\ file[i].trigger.type = "oneshot"
      ~> \/ fires[i] # <<>>
         \/ i \in removed
         \/ file[i] # Absent /\ ~file[i].enabled
         \/ manual[i] > 0
=============================================================================
