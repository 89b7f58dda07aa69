------------------------------- MODULE CronLock -------------------------------
(***************************************************************************)
(* The lock file that elects the sidecar whose scheduler runs              *)
(* (server/cron-lock.ts) and CronWiring's use of it.                       *)
(*                                                                         *)
(* acquire() and release() are synchronous, but sidecars are processes of  *)
(* their own: between two file-system calls of one, the others make        *)
(* theirs.  Each step below is one call on the lock file or the reclaim    *)
(* file; pc says which comes next.  A lock file is published by a hard     *)
(* link, so it is never read half written: its content is the process that *)
(* wrote it, or Corrupt when something else damaged it before.             *)
(*                                                                         *)
(* A member of Procs is one incarnation of a sidecar (pid, ownerToken and  *)
(* startedAtMs together): a pid is not used again, and all run on one      *)
(* host.  CronWiring.start calls acquire once, when the process boots.     *)
(***************************************************************************)
EXTENDS Naturals, FiniteSets

CONSTANTS
  Procs,        \* incarnations of sidecars
  NoFile,       \* the file does not exist
  Corrupt,      \* it exists and cannot be parsed
  OldReclaim,   \* whether a dead process may have left the reclaim file
  MayRelease,   \* whether a sidecar closes and releases the lock
  MaxCrashes    \* bound: sidecars that die

ASSUME FilesAssumption == NoFile # Corrupt /\ NoFile \notin Procs /\ Corrupt \notin Procs
ASSUME SwitchAssumption == OldReclaim \in BOOLEAN /\ MayRelease \in BOOLEAN
ASSUME CrashAssumption == MaxCrashes \in Nat

VARIABLES
  alive,     \* the processes isPidAlive finds
  lock,      \* scheduled_tasks.lock
  reclaim,   \* scheduled_tasks.lock.reclaim
  pc,        \* the next file-system call of each process
  seen,      \* the content of the file it read last
  previous,  \* previousOwner in recoverLock; Corrupt stands for pid -1
  owners,    \* processes whose isOwner() is true
  crashes,
  calm       \* history: nobody has died or closed, and no dead process's reclaim
             \* file was found

vars == <<alive, lock, reclaim, pc, seen, previous, owners, crashes, calm>>

Files == Procs \cup {NoFile, Corrupt}

AcquirePC == {"create", "read", "check"}
ReclaimPC == {"createReclaim", "readReclaim", "unlinkReclaim", "retryReclaim"}
RecoverPC == {"reread", "unlink", "recreate", "readOwnReclaim", "unlinkOwnReclaim"}
PC == AcquirePC \cup ReclaimPC \cup RecoverPC \cup {"boot", "idle", "release"}

\* readLockFile returns null.
Unreadable(content) == content \in {NoFile, Corrupt}

Goto(p, l) == pc' = [pc EXCEPT ![p] = l]
Observe(p, content) == seen' = [seen EXCEPT ![p] = content]

Init ==
  /\ alive \in SUBSET Procs
  /\ lock \in {NoFile, Corrupt} \cup (Procs \ alive)
  /\ reclaim \in {NoFile} \cup {p \in Procs \ alive : OldReclaim}
  /\ pc = [p \in Procs |-> "boot"]
  /\ seen = [p \in Procs |-> NoFile]
  /\ previous = [p \in Procs |-> Corrupt]
  /\ owners = {}
  /\ crashes = 0
  /\ calm = (reclaim = NoFile)

-----------------------------------------------------------------------------
(* acquire                                                                 *)

Boot(p) ==
  /\ p \in alive
  /\ pc[p] = "boot"
  /\ Goto(p, "create")
  /\ UNCHANGED <<alive, lock, reclaim, seen, previous, owners, crashes, calm>>

\* createLockFileExclusive(lockPath)
Create(p) ==
  /\ p \in alive
  /\ pc[p] = "create"
  /\ \/ /\ lock = NoFile
        /\ lock' = p
        /\ owners' = owners \cup {p}
        /\ Goto(p, "idle")
     \/ /\ lock # NoFile
        /\ Goto(p, "read")
        /\ UNCHANGED <<lock, owners>>
  /\ UNCHANGED <<alive, reclaim, seen, previous, crashes, calm>>

\* An owner that cannot be read goes to recoverInvalidLock.
Read(p) ==
  /\ p \in alive
  /\ pc[p] = "read"
  /\ Observe(p, lock)
  /\ \/ /\ Unreadable(lock)
        /\ previous' = [previous EXCEPT ![p] = Corrupt]
        /\ Goto(p, "createReclaim")
     \/ /\ ~Unreadable(lock)
        /\ Goto(p, "check")
        /\ UNCHANGED previous
  /\ UNCHANGED <<alive, lock, reclaim, owners, crashes, calm>>

\* A dead owner goes to recoverStaleLock; beside a live one the process stays
\* idle for good.
Check(p) ==
  /\ p \in alive
  /\ pc[p] = "check"
  /\ \/ /\ seen[p] \notin alive
        /\ previous' = [previous EXCEPT ![p] = seen[p]]
        /\ Goto(p, "createReclaim")
     \/ /\ seen[p] \in alive
        /\ Goto(p, "idle")
        /\ UNCHANGED previous
  /\ UNCHANGED <<alive, lock, reclaim, seen, owners, crashes, calm>>

-----------------------------------------------------------------------------
(* acquireReclaimLock                                                      *)

\* Mutant: the reclaim file is written without O_EXCL.
CreateReclaim_NotExclusive(p) ==
  /\ p \in alive
  /\ pc[p] = "createReclaim"
  /\ reclaim' = p
  /\ Goto(p, "reread")
  /\ UNCHANGED <<alive, lock, seen, previous, owners, crashes, calm>>

CreateReclaim(p) ==
  /\ p \in alive
  /\ pc[p] = "createReclaim"
  /\ \/ /\ reclaim = NoFile
        /\ reclaim' = p
        /\ Goto(p, "reread")
     \/ /\ reclaim # NoFile
        /\ Goto(p, "readReclaim")
        /\ UNCHANGED reclaim
  /\ UNCHANGED <<alive, lock, seen, previous, owners, crashes, calm>>

ReadReclaim(p) ==
  /\ p \in alive
  /\ pc[p] = "readReclaim"
  /\ Observe(p, reclaim)
  /\ Goto(p, IF ~Unreadable(reclaim) /\ reclaim \notin alive
               THEN "unlinkReclaim" ELSE "idle")
  /\ UNCHANGED <<alive, lock, reclaim, previous, owners, crashes, calm>>

\* The reclaim file was seen to be a dead process's: it is unlinked, whosever
\* it is by now.
UnlinkReclaim(p) ==
  /\ p \in alive
  /\ pc[p] = "unlinkReclaim"
  /\ reclaim' = NoFile
  /\ Goto(p, "retryReclaim")
  /\ UNCHANGED <<alive, lock, seen, previous, owners, crashes, calm>>

RetryReclaim(p) ==
  /\ p \in alive
  /\ pc[p] = "retryReclaim"
  /\ \/ /\ reclaim = NoFile
        /\ reclaim' = p
        /\ Goto(p, "reread")
     \/ /\ reclaim # NoFile
        /\ Goto(p, "idle")
        /\ UNCHANGED reclaim
  /\ UNCHANGED <<alive, lock, seen, previous, owners, crashes, calm>>

-----------------------------------------------------------------------------
(* recoverLock, with the reclaim lock                                      *)

\* Mutants: the lock is not looked at again under the reclaim lock; a damaged
\* lock is left alone.
Takeable_Unchecked(p, content) == TRUE
Takeable_ReadableOnly(p, content) == content \in Procs \ alive

Takeable(p, content) ==
  \/ Unreadable(content)
  \/ content = previous[p] /\ content \notin alive

Reread(p) ==
  /\ p \in alive
  /\ pc[p] = "reread"
  /\ Observe(p, lock)
  /\ Goto(p, IF Takeable(p, lock) THEN "unlink" ELSE "readOwnReclaim")
  /\ UNCHANGED <<alive, lock, reclaim, previous, owners, crashes, calm>>

Unlink(p) ==
  /\ p \in alive
  /\ pc[p] = "unlink"
  /\ lock' = NoFile
  /\ Goto(p, "recreate")
  /\ UNCHANGED <<alive, reclaim, seen, previous, owners, crashes, calm>>

Recreate(p) ==
  /\ p \in alive
  /\ pc[p] = "recreate"
  /\ \/ /\ lock = NoFile
        /\ lock' = p
        /\ owners' = owners \cup {p}
     \/ /\ lock # NoFile
        /\ UNCHANGED <<lock, owners>>
  /\ Goto(p, "readOwnReclaim")
  /\ UNCHANGED <<alive, reclaim, seen, previous, crashes, calm>>

\* releaseReclaimLock: the file is unlinked if it was read as one's own.
ReadOwnReclaim(p) ==
  /\ p \in alive
  /\ pc[p] = "readOwnReclaim"
  /\ Observe(p, reclaim)
  /\ Goto(p, IF reclaim = p THEN "unlinkOwnReclaim" ELSE "idle")
  /\ UNCHANGED <<alive, lock, reclaim, previous, owners, crashes, calm>>

UnlinkOwnReclaim(p) ==
  /\ p \in alive
  /\ pc[p] = "unlinkOwnReclaim"
  /\ reclaim' = NoFile
  /\ Goto(p, "idle")
  /\ UNCHANGED <<alive, lock, seen, previous, owners, crashes, calm>>

-----------------------------------------------------------------------------
(* The owner                                                               *)

\* Mutant: only a missing file counts as lost.
checkHealth_MissingOnly(p) ==
  /\ p \in alive
  /\ pc[p] = "idle"
  /\ p \in owners
  /\ lock = NoFile
  /\ owners' = owners \ {p}
  /\ UNCHANGED <<alive, lock, reclaim, pc, seen, previous, crashes, calm>>

\* checkHealth finds the file not its own: markLockLost, and CronWiring stops
\* the scheduler.
checkHealth(p) ==
  /\ p \in alive
  /\ pc[p] = "idle"
  /\ p \in owners
  /\ lock # p
  /\ owners' = owners \ {p}
  /\ UNCHANGED <<alive, lock, reclaim, pc, seen, previous, crashes, calm>>

\* release: the file is read as one's own ...
ReleaseRead(p) ==
  /\ MayRelease
  /\ p \in alive
  /\ pc[p] = "idle"
  /\ lock = p
  /\ Observe(p, lock)
  /\ Goto(p, "release")
  /\ UNCHANGED <<alive, lock, reclaim, previous, owners, crashes, calm>>

\* ... and unlinked; the process goes on to exit.
ReleaseUnlink(p) ==
  /\ p \in alive
  /\ pc[p] = "release"
  /\ lock' = NoFile
  /\ owners' = owners \ {p}
  /\ alive' = alive \ {p}
  /\ calm' = FALSE
  /\ Goto(p, "idle")
  /\ UNCHANGED <<reclaim, seen, previous, crashes>>

\* Mutant: the scheduler of a dead process counts as running.
Crash_StillOwner(p) ==
  /\ p \in alive
  /\ crashes < MaxCrashes
  /\ crashes' = crashes + 1
  /\ alive' = alive \ {p}
  /\ calm' = FALSE
  /\ UNCHANGED <<lock, reclaim, pc, seen, previous, owners>>

Crash(p) ==
  /\ p \in alive
  /\ crashes < MaxCrashes
  /\ crashes' = crashes + 1
  /\ alive' = alive \ {p}
  /\ calm' = FALSE
  /\ owners' = owners \ {p}
  /\ UNCHANGED <<lock, reclaim, pc, seen, previous>>

Acquiring(p) ==
  \/ Create(p) \/ Read(p) \/ Check(p)
  \/ CreateReclaim(p) \/ ReadReclaim(p) \/ UnlinkReclaim(p) \/ RetryReclaim(p)
  \/ Reread(p) \/ Unlink(p) \/ Recreate(p)
  \/ ReadOwnReclaim(p) \/ UnlinkOwnReclaim(p)

Owning(p) == checkHealth(p) \/ ReleaseRead(p) \/ ReleaseUnlink(p)

Next == \E p \in Procs : Boot(p) \/ Acquiring(p) \/ Owning(p) \/ Crash(p)

Spec == Init /\ [][Next]_vars

(***************************************************************************)
(* Fairness: a synchronous call runs on, and the health timer keeps firing *)
(* while the process lives.                                                *)
(***************************************************************************)
Fairness == \A p \in Procs : /\ WF_vars(Acquiring(p))
                             /\ WF_vars(ReleaseUnlink(p))
                             /\ WF_vars(checkHealth(p))

FairSpec == Spec /\ Fairness

-----------------------------------------------------------------------------
(* Properties.                                                             *)

\* Every variable has the type its declaration gives it.
TypeOK ==
  /\ alive \subseteq Procs
  /\ lock \in Files
  /\ reclaim \in Files
  /\ pc \in [Procs -> PC]
  /\ seen \in [Procs -> Files]
  /\ previous \in [Procs -> Files]
  /\ owners \subseteq alive
  /\ crashes \in Nat
  /\ calm \in BOOLEAN

\* At most one sidecar runs the scheduler.
OneOwner == \A p, q \in owners : p = q

\* However many sidecars contend for a free, dead or damaged lock, at most one
\* of them comes to run the scheduler, as long as none dies or closes.
OneWinner == calm => OneOwner

\* Meanwhile a recovery never deletes the lock of a live process.
LiveLockKept ==
  [][calm' => \A p \in Procs : lock = p /\ p \in alive => lock' = p]_vars

\* When every sidecar that booted has decided, one of them runs the scheduler:
\* contenders for a dead or damaged lock never all give up.
SomeWinner ==
  /\ calm
  /\ \E p \in Procs : pc[p] # "boot"
  /\ \A p \in Procs : pc[p] \in {"boot", "idle"}
  => owners # {}

\* Two schedulers never run side by side for ever: the health check of all but
\* one finds the lock lost.
SplitHeals == ~OneOwner ~> OneOwner
=============================================================================
