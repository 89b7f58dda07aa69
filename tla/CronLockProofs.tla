--------------------------- MODULE CronLockProofs ---------------------------
(***************************************************************************)
(* For any number of sidecars: contenders that recover a dead or damaged   *)
(* lock leave one owner and delete no live lock, until one of them dies or *)
(* closes; a dead process must not have left the reclaim file either.      *)
(***************************************************************************)
EXTENDS CronLock, TLAPS

\* Every step keeps every variable in its type.
LEMMA TypeStep == TypeOK /\ [Next]_vars => TypeOK'
<1> SUFFICES ASSUME TypeOK, [Next]_vars PROVE TypeOK' OBVIOUS
<1> USE DEF TypeOK, Files, PC, AcquirePC, ReclaimPC, RecoverPC, Goto, Observe
<1>1. ASSUME NEW p \in Procs, Boot(p) PROVE TypeOK' BY <1>1 DEF Boot
<1>2. ASSUME NEW p \in Procs, Create(p) \/ Read(p) \/ Check(p) PROVE TypeOK'
  BY <1>2 DEF Create, Read, Check
<1>3. ASSUME NEW p \in Procs, CreateReclaim(p) \/ ReadReclaim(p) PROVE TypeOK'
  BY <1>3 DEF CreateReclaim, ReadReclaim
<1>4. ASSUME NEW p \in Procs, UnlinkReclaim(p) \/ RetryReclaim(p) PROVE TypeOK'
  BY <1>4 DEF UnlinkReclaim, RetryReclaim
<1>5. ASSUME NEW p \in Procs, Reread(p) \/ Unlink(p) \/ Recreate(p) PROVE TypeOK'
  BY <1>5 DEF Reread, Unlink, Recreate
<1>6. ASSUME NEW p \in Procs, ReadOwnReclaim(p) \/ UnlinkOwnReclaim(p) PROVE TypeOK'
  BY <1>6 DEF ReadOwnReclaim, UnlinkOwnReclaim
<1>7. ASSUME NEW p \in Procs, Owning(p) PROVE TypeOK'
  <2>1. CASE checkHealth(p) BY <2>1 DEF checkHealth
  <2>2. CASE ReleaseRead(p) BY <2>2 DEF ReleaseRead
  <2>3. CASE ReleaseUnlink(p) BY <2>3 DEF ReleaseUnlink
  <2> QED BY <1>7, <2>1, <2>2, <2>3 DEF Owning
<1>8. ASSUME NEW p \in Procs, Crash(p) PROVE TypeOK'
  <2>1. crashes' \in Nat BY <1>8 DEF Crash
  <2>2. calm' \in BOOLEAN BY <1>8 DEF Crash
  <2>3. alive' \subseteq Procs /\ owners' \subseteq alive' BY <1>8 DEF Crash
  <2>4. UNCHANGED <<lock, reclaim, pc, seen, previous>> BY <1>8 DEF Crash
  <2> QED BY <2>1, <2>2, <2>3, <2>4
<1>9. CASE UNCHANGED vars BY <1>9 DEF vars
<1> QED BY <1>1, <1>2, <1>3, <1>4, <1>5, <1>6, <1>7, <1>8, <1>9 DEF Next, Acquiring

\* The types hold at the start.
LEMMA TypeInit == Init => TypeOK
BY DEF Init, TypeOK, Files, PC

\* The lock's variables keep their types; a scheduler runs in a live process.
THEOREM TypeCorrect == Spec => []TypeOK
BY TypeInit, TypeStep, PTL DEF Spec

-----------------------------------------------------------------------------

\* Only live processes move, and none reaches the steps that take over a dead
\* process's reclaim file.
OnlyRecovery ==
  /\ reclaim \in alive \cup {NoFile}
  /\ \A p \in Procs : pc[p] # "boot" => p \in alive
  /\ \A p \in Procs : pc[p] \notin {"unlinkReclaim", "retryReclaim"}

\* The steps between createReclaim and unlinkOwnReclaim are a critical section.
Exclusive == \A p \in Procs : pc[p] \in RecoverPC => reclaim = p

\* An owner is the one the file names, and the file about to be unlinked names
\* nobody alive.
FileNamesOwner ==
  /\ \A p \in owners : lock = p
  /\ \A p \in Procs : pc[p] = "unlink" => lock \notin alive \cup {NoFile}

\* The lock file is missing only before the first create and while a recovery
\* replaces it.
MissingOnlyWhenReplaced ==
  lock = NoFile => \/ \E p \in Procs : pc[p] = "recreate"
                   \/ \A p \in Procs : pc[p] \in {"boot", "create"}

Recovering == OnlyRecovery /\ Exclusive /\ FileNamesOwner /\ MissingOnlyWhenReplaced

RecoveryInv == TypeOK /\ (calm => Recovering)

\* Nobody is recovering at the start.
LEMMA RecoveryInit == Init => RecoveryInv
<1> SUFFICES ASSUME Init, calm PROVE Recovering
  BY TypeInit DEF RecoveryInv
<1> QED BY DEF Init, Recovering, OnlyRecovery, Exclusive, RecoverPC, FileNamesOwner,
               MissingOnlyWhenReplaced

\* Every step keeps RecoveryInv.
LEMMA RecoveryStep == RecoveryInv /\ [Next]_vars => RecoveryInv'
<1> SUFFICES ASSUME TypeOK, calm => Recovering, [Next]_vars, calm' PROVE Recovering'
  BY TypeStep DEF RecoveryInv
<1>1. calm
  BY DEF Next, vars, Acquiring, Owning, Boot, Create, Read, Check, CreateReclaim,
         ReadReclaim, UnlinkReclaim, RetryReclaim, Reread, Unlink, Recreate,
         ReadOwnReclaim, UnlinkOwnReclaim, checkHealth, ReleaseRead, ReleaseUnlink, Crash
<1> USE <1>1, FilesAssumption
        DEF Recovering, TypeOK, OnlyRecovery, Exclusive, RecoverPC, FileNamesOwner,
            MissingOnlyWhenReplaced, Goto, Observe
<1>2. ASSUME NEW p \in Procs, Boot(p) PROVE Recovering' BY <1>2 DEF Boot
<1>3. ASSUME NEW p \in Procs, Create(p) PROVE Recovering' BY <1>3 DEF Create
<1>4. ASSUME NEW p \in Procs, Read(p) \/ Check(p) PROVE Recovering'
  BY <1>4 DEF Read, Check, Unreadable
<1>5. ASSUME NEW p \in Procs, CreateReclaim(p) PROVE Recovering'
  BY <1>5 DEF CreateReclaim
<1>6. ASSUME NEW p \in Procs, ReadReclaim(p) PROVE Recovering'
  BY <1>6 DEF ReadReclaim, Unreadable
<1>7. ASSUME NEW p \in Procs, UnlinkReclaim(p) \/ RetryReclaim(p) PROVE Recovering'
  BY <1>7 DEF UnlinkReclaim, RetryReclaim
<1>8. ASSUME NEW p \in Procs, Reread(p) PROVE Recovering'
  <2>1. lock # NoFile BY <1>8 DEF Reread
  <2> QED BY <1>8, <2>1 DEF Reread, Takeable, Unreadable, Files
<1>9. ASSUME NEW p \in Procs, Unlink(p) PROVE Recovering' BY <1>9 DEF Unlink
<1>10. ASSUME NEW p \in Procs, Recreate(p) PROVE Recovering' BY <1>10 DEF Recreate
<1>11. ASSUME NEW p \in Procs, ReadOwnReclaim(p) \/ UnlinkOwnReclaim(p)
       PROVE  Recovering'
  BY <1>11 DEF ReadOwnReclaim, UnlinkOwnReclaim
<1>12. ASSUME NEW p \in Procs, Owning(p) PROVE Recovering'
  BY <1>12 DEF Owning, checkHealth, ReleaseRead, ReleaseUnlink
<1>13. ASSUME NEW p \in Procs, Crash(p) PROVE Recovering' BY <1>13 DEF Crash
<1>14. CASE UNCHANGED vars BY <1>14 DEF vars
<1> QED
  BY <1>2, <1>3, <1>4, <1>5, <1>6, <1>7, <1>8, <1>9, <1>10, <1>11, <1>12, <1>13,
     <1>14 DEF Next, Acquiring

\* However many sidecars contend for a free, dead or damaged lock, at most one
\* comes to run the scheduler (acquire, recoverLock).
THEOREM ElectionIsSafe == Spec => []OneWinner
<1>1. RecoveryInv => OneWinner
  BY DEF RecoveryInv, Recovering, FileNamesOwner, OneWinner, OneOwner
<1> QED BY <1>1, RecoveryInit, RecoveryStep, PTL DEF Spec

\* Meanwhile no recovery deletes a live process's lock.
THEOREM LiveLockSafe == Spec => LiveLockKept
<1>1. ASSUME RecoveryInv, [Next]_vars
      PROVE  [calm' => \A p \in Procs : lock = p /\ p \in alive => lock' = p]_vars
  <2> SUFFICES ASSUME calm' PROVE \A p \in Procs : lock = p /\ p \in alive => lock' = p
    OBVIOUS
  <2>1. calm /\ ~ \E q \in Procs : ReleaseUnlink(q) \/ Crash(q)
    BY <1>1 DEF Next, vars, Acquiring, Owning, Boot, Create, Read, Check, CreateReclaim,
         ReadReclaim, UnlinkReclaim, RetryReclaim, Reread, Unlink, Recreate,
         ReadOwnReclaim, UnlinkOwnReclaim, checkHealth, ReleaseRead, ReleaseUnlink, Crash
  <2> USE <2>1, <1>1, FilesAssumption DEF RecoveryInv, Recovering, FileNamesOwner
  <2>2. ASSUME NEW q \in Procs, Unlink(q) PROVE lock \notin alive
    BY <2>2 DEF Unlink
  <2>3. ASSUME NEW q \in Procs, Create(q) \/ Recreate(q)
        PROVE  lock' = lock \/ lock = NoFile
    BY <2>3 DEF Create, Recreate
  <2>4. (\E q \in Procs : Unlink(q)) \/ (\E q \in Procs : Create(q) \/ Recreate(q))
          \/ UNCHANGED lock
    BY DEF Next, vars, Acquiring, Owning, Boot, Read, Check, CreateReclaim, ReadReclaim,
           UnlinkReclaim, RetryReclaim, Reread, ReadOwnReclaim, UnlinkOwnReclaim,
           checkHealth, ReleaseRead
  <2> QED BY <2>2, <2>3, <2>4
<1> QED BY <1>1, RecoveryInit, RecoveryStep, PTL DEF Spec, LiveLockKept

-----------------------------------------------------------------------------
(* Contenders never all give up.                                           *)

\* The process that a live lock names runs the scheduler.
OwnsIt == lock \in alive => lock \in owners

\* A process gives up for a live lock, or for one that a recovery is about to
\* create; a recovery only ends beside a live lock.
GivesWay ==
  \A p \in Procs :
    /\ pc[p] = "idle" => \/ lock \in alive
                         \/ \E q \in Procs : pc[q] \in {"reread", "unlink", "recreate"}
    /\ pc[p] = "readReclaim" => lock \in alive \/ reclaim # NoFile
    /\ pc[p] \in {"readOwnReclaim", "unlinkOwnReclaim"} => lock \in alive
    /\ pc[p] = "recreate" => lock \in alive \cup {NoFile}
    /\ reclaim = p => pc[p] \in RecoverPC

\* So long as the lock is a dead process's, it is the one that every contender
\* saw, and a recovery finds it takeable.
SawDead ==
  \A p \in Procs :
    /\ pc[p] = "check" => lock \in alive \/ seen[p] \notin alive
    /\ lock \in Procs \ alive =>
         /\ pc[p] = "check" => seen[p] = lock
         /\ pc[p] \in {"createReclaim", "readReclaim", "reread"} => previous[p] = lock

Decided == OwnsIt /\ GivesWay /\ SawDead

DecidedInv == RecoveryInv /\ (calm => Decided)

\* Nobody has decided at the start.
LEMMA DecidedInit == Init => DecidedInv
<1> SUFFICES ASSUME Init, calm PROVE Decided
  BY RecoveryInit DEF DecidedInv
<1> QED BY FilesAssumption DEF Init, Decided, OwnsIt, GivesWay, SawDead

\* Before the first death or close, the live processes stay the same and a live
\* process's lock stays where it is.
LEMMA CalmStep ==
  ASSUME RecoveryInv, [Next]_vars, calm'
  PROVE  /\ calm /\ Recovering /\ alive' = alive
         /\ lock \in alive => lock' = lock /\ lock' \in alive'
<1>1. calm /\ alive' = alive
  BY DEF Next, vars, Acquiring, Owning, Boot, Create, Read, Check, CreateReclaim,
         ReadReclaim, UnlinkReclaim, RetryReclaim, Reread, Unlink, Recreate,
         ReadOwnReclaim, UnlinkOwnReclaim, checkHealth, ReleaseRead, ReleaseUnlink, Crash
<1>2. Recovering BY <1>1 DEF RecoveryInv
<1>3. lock \in alive => lock' = lock
  <2>1. lock \in alive => lock \in Procs /\ lock # NoFile
    BY FilesAssumption DEF RecoveryInv, TypeOK
  <2>2. ASSUME NEW q \in Procs, Unlink(q) PROVE lock \notin alive
    BY <1>2, <2>2 DEF Unlink, Recovering, FileNamesOwner
  <2>3. ASSUME NEW q \in Procs, Create(q) \/ Recreate(q) PROVE lock' = lock \/ lock = NoFile
    BY <2>3 DEF Create, Recreate
  <2>4. (\E q \in Procs : Unlink(q)) \/ (\E q \in Procs : Create(q) \/ Recreate(q))
          \/ UNCHANGED lock
    BY DEF Next, vars, Acquiring, Owning, Boot, Read, Check, CreateReclaim, ReadReclaim,
           UnlinkReclaim, RetryReclaim, Reread, ReadOwnReclaim, UnlinkOwnReclaim,
           checkHealth, ReleaseRead, ReleaseUnlink, Crash
  <2> QED BY <2>1, <2>2, <2>3, <2>4
<1> QED BY <1>1, <1>2, <1>3

\* Every step keeps DecidedInv.
LEMMA DecidedStep == DecidedInv /\ [Next]_vars => DecidedInv'
<1> SUFFICES ASSUME DecidedInv, [Next]_vars, calm' PROVE Decided'
  BY RecoveryStep DEF DecidedInv
<1>1. /\ calm /\ Recovering /\ Decided /\ TypeOK /\ alive' = alive
      /\ lock \in alive => lock' = lock /\ lock' \in alive'
  BY CalmStep DEF DecidedInv, RecoveryInv
<1> USE <1>1, FilesAssumption
        DEF Recovering, TypeOK, OnlyRecovery, Exclusive, RecoverPC, FileNamesOwner,
            Decided, OwnsIt, GivesWay, SawDead, Goto, Observe
<1>2. ASSUME NEW p \in Procs, Boot(p) PROVE Decided' BY <1>2 DEF Boot
<1>3. ASSUME NEW p \in Procs, Create(p) PROVE Decided' BY <1>3 DEF Create
<1>4. ASSUME NEW p \in Procs, Read(p) PROVE Decided' BY <1>4 DEF Read, Unreadable
<1>5. ASSUME NEW p \in Procs, Check(p) PROVE Decided' BY <1>5 DEF Check
<1>6. ASSUME NEW p \in Procs, CreateReclaim(p) PROVE Decided' BY <1>6 DEF CreateReclaim
<1>7. ASSUME NEW p \in Procs, ReadReclaim(p) PROVE Decided'
  BY <1>7 DEF ReadReclaim, Unreadable
<1>8. ASSUME NEW p \in Procs, UnlinkReclaim(p) \/ RetryReclaim(p) PROVE Decided'
  BY <1>8 DEF UnlinkReclaim, RetryReclaim
<1>9. ASSUME NEW p \in Procs, Reread(p) PROVE Decided'
  BY <1>9 DEF Reread, Takeable, Unreadable, Files
<1>10. ASSUME NEW p \in Procs, Unlink(p) PROVE Decided' BY <1>10 DEF Unlink
<1>11. ASSUME NEW p \in Procs, Recreate(p) PROVE Decided' BY <1>11 DEF Recreate
<1>12. ASSUME NEW p \in Procs, ReadOwnReclaim(p) \/ UnlinkOwnReclaim(p) PROVE Decided'
  BY <1>12 DEF ReadOwnReclaim, UnlinkOwnReclaim
<1>13. ASSUME NEW p \in Procs, Owning(p) PROVE Decided'
  BY <1>13 DEF Owning, checkHealth, ReleaseRead, ReleaseUnlink
<1>14. ASSUME NEW p \in Procs, Crash(p) PROVE Decided' BY <1>14 DEF Crash
<1>15. CASE UNCHANGED vars BY <1>15 DEF vars
<1> QED
  BY <1>2, <1>3, <1>4, <1>5, <1>6, <1>7, <1>8, <1>9, <1>10, <1>11, <1>12, <1>13, <1>14,
     <1>15 DEF Next, Acquiring

(* When every sidecar that booted has decided, one of them runs the scheduler:
   contenders for a dead or damaged lock never all give up (acquire,
   recoverLock, acquireReclaimLock). *)
THEOREM ElectionElects == Spec => []SomeWinner
<1>1. ASSUME DecidedInv PROVE SomeWinner
  <2> SUFFICES ASSUME calm, NEW p \in Procs, pc[p] # "boot",
                      \A q \in Procs : pc[q] \in {"boot", "idle"}
               PROVE  owners # {}
    BY DEF SomeWinner
  <2>1. pc[p] = "idle" OBVIOUS
  <2>2. lock \in alive BY <1>1, <2>1 DEF DecidedInv, Decided, GivesWay
  <2> QED BY <1>1, <2>2 DEF DecidedInv, Decided, OwnsIt
<1> QED BY <1>1, DecidedInit, DecidedStep, PTL DEF Spec
=============================================================================
