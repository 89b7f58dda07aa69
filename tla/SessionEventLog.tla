--------------------------- MODULE SessionEventLog ---------------------------
(***************************************************************************)
(* The event log of one session and the viewers that follow it             *)
(* (server/session-manager.ts, session-persistence.ts, and the stream      *)
(* handler of session-routes.ts).                                          *)
(*                                                                         *)
(* The log lives in three places: the ring of the last MaxEvents events in *)
(* memory, which keeps the last MaxHooks hook results only and may be      *)
(* evicted while nobody needs it; events.jsonl, with a write buffer before *)
(* it; and index.json, which holds the last seq and the status.  A viewer  *)
(* opens a stream with the seq it has seen last, gets the events after it  *)
(* and then what is appended live.                                         *)
(*                                                                         *)
(* JavaScript runs a handler without interruption up to its next await, so *)
(* a handler between two awaits is one step.  The process may die at any   *)
(* point; the point that matters inside a handler is between the events it *)
(* appends and the index it saves.                                         *)
(*                                                                         *)
(* The other sessions are seen through the cap on loaded logs only: this   *)
(* session may be evicted by their opening, and when they fill the cap     *)
(* with logs that may not be evicted, this one is evicted by its own.      *)
(***************************************************************************)
EXTENDS Integers, FiniteSets, Sequences

CONSTANTS
  Viewers,     \* connections of the desktop
  MaxEvents,   \* the ring: DEFAULT_MAX_EVENTS in the source
  MaxHooks,    \* hook results kept in memory: 50 in the source
  FlushLines,  \* FLUSH_MAX_LINES: a buffer of this length is written
  Since,       \* the seqs a viewer asks from
  MaxMade,     \* bound: events ever made
  MaxCrashes   \* bound: processes that die

ASSUME BoundsAssumption ==
  /\ MaxEvents \in Nat \ {0} /\ MaxHooks \in Nat \ {0} /\ FlushLines \in Nat \ {0}
  /\ Since \subseteq Nat
  /\ MaxMade \in Nat /\ MaxCrashes \in Nat

VARIABLES
  log,      \* the log in memory and on disk, see Logs
  index,    \* index.json
  run,      \* the run of the session: "none", "running", "aborted"
  agent,    \* whether the agent of the session is built
  load,     \* the asynchronous load under way
  viewer,   \* the stream handlers
  up,
  crashes,
  torn      \* history: a process died after it wrote the start of a run and
            \* before it saved the record

vars == <<log, index, run, agent, load, viewer, up, crashes, torn>>

(***************************************************************************)
(* An event is its seq, its place n among all the events ever made, and    *)
(* its kind: "start" and "end" are the status events that open and close a *)
(* run, "critical" the other members of CRITICAL_TYPES, "hook" the results *)
(* of the user's hooks, "chatter" the rest (deltas, phases, settings).     *)
(***************************************************************************)
Kinds == {"start", "end", "critical", "hook", "chatter"}
Buffered == {"hook", "chatter"}
Events == [seq : Nat, n : Nat, kind : Kinds]
Logs == [events : Seq(Events),   \* session.events
         seq    : Nat,           \* session.seq
         recSeq : Nat,           \* session.record.lastSeq
         loaded : BOOLEAN,       \* session.eventsLoaded
         disk   : Seq(Events),   \* events.jsonl
         buffer : Seq(Events),   \* eventBuffers
         made   : Nat,           \* history: how many events were made
         stale  : BOOLEAN]       \* history: what was adopted was not the whole log

Loads == [phase : {"none", "reading", "parsing"}, evs : Seq(Events)]
NoLoad == [phase |-> "none", evs |-> <<>>]

(***************************************************************************)
(* A stream handler waits in getEventsAsync ("loading"), replays what it   *)
(* got ("replaying"), has subscribed and sends the gap and what is         *)
(* appended meanwhile ("catching"), or only forwards ("live").  upTo is    *)
(* lastCatchupSeq, got what was sent; whole is history: each time it read  *)
(* the memory of the session, that was the log.                            *)
(***************************************************************************)
ViewerStates ==
  [phase : {"off", "loading", "replaying", "catching", "live"}, since : Nat,
   upTo : Nat, got : Seq(Events), deferred : Seq(Events), whole : BOOLEAN]
Gone == [phase |-> "off", since |-> 0, upTo |-> 0, got |-> <<>>,
         deferred |-> <<>>, whole |-> TRUE]

Listening(v) == viewer[v].phase \in {"catching", "live"}
Watched == \E v \in Viewers : Listening(v)

-----------------------------------------------------------------------------
(* Operations on the log.                                                  *)

Full(l) == l.disk \o l.buffer

Ring(evs) ==
  SubSeq(evs, (IF Len(evs) > MaxEvents THEN Len(evs) - MaxEvents ELSE 0) + 1, Len(evs))

\* evs.sort by seq, which is stable.
Precedes(evs, j, k) == evs[j].seq < evs[k].seq \/ (evs[j].seq = evs[k].seq /\ j < k)
BySeq == [evs \in Seq(Events) |->
  [i \in DOMAIN evs |->
    evs[CHOOSE k \in DOMAIN evs :
          Cardinality({j \in DOMAIN evs : Precedes(evs, j, k)}) = i - 1]]]

\* evs.filter: the elements at the positions in I, in their order.
Select == [evs \in Seq(Events) |-> [I \in SUBSET Nat |->
  [i \in 1..Cardinality(I) |->
    evs[CHOOSE k \in I : Cardinality({j \in I : j < k}) = i - 1]]]]

After(evs, seq) == Select[evs][{i \in DOMAIN evs : evs[i].seq > seq}]

\* flushSession.
Flush(l) == [l EXCEPT !.disk = Full(l), !.buffer = <<>>]

\* Mutant: a critical event waits for the timer as any other.
Saved_NoCritical(l, e) ==
  LET m == [l EXCEPT !.buffer = Append(@, e)] IN
  IF Len(m.buffer) >= FlushLines THEN Flush(m) ELSE m

\* appendEvent of the persistence.
Saved(l, e) ==
  LET m == [l EXCEPT !.buffer = Append(@, e)] IN
  IF e.kind \notin Buffered \/ Len(m.buffer) >= FlushLines THEN Flush(m) ELSE m

\* The next event of the session, as the persistence stores it.
Stored(l, kind) ==
  Saved([l EXCEPT !.seq = @ + 1, !.recSeq = l.seq + 1, !.made = @ + 1],
        [seq |-> l.seq + 1, n |-> l.made + 1, kind |-> kind])

\* Mutant: memory is not cut to the ring.
Put_NoRing(l, kind) ==
  [Stored(l, kind) EXCEPT
    !.events = Append(l.events, [seq |-> l.seq + 1, n |-> l.made + 1, kind |-> kind])]

\* appendRaw: into memory, whether it is loaded or not, and to the persistence.
Put(l, kind) ==
  LET e == [seq |-> l.seq + 1, n |-> l.made + 1, kind |-> kind] IN
  [Stored(l, kind) EXCEPT !.events = Ring(Append(l.events, e))]

\* Mutant: the newest hook results are dropped.
Trimmed_Newest(l) ==
  LET hooks == {i \in DOMAIN l.events : l.events[i].kind = "hook"} IN
  [l EXCEPT !.events = Select[l.events][
     {i \in DOMAIN l.events : i \in hooks => Cardinality({j \in hooks : j < i}) < MaxHooks}]]

\* trimHookResults: the oldest hook results beyond MaxHooks leave the memory.
Trimmed(l) ==
  LET hooks == {i \in DOMAIN l.events : l.events[i].kind = "hook"} IN
  [l EXCEPT !.events = Select[l.events][
     {i \in DOMAIN l.events : i \in hooks => Cardinality({j \in hooks : j > i}) < MaxHooks}]]

\* Mutants: seq goes on from where it was; the log is not sorted.
Adopt_KeepSeq(l, evs) ==
  [l EXCEPT !.events = Ring(BySeq[evs]), !.loaded = TRUE, !.stale = evs # Full(l)]
Adopt_Unsorted(l, evs) ==
  LET maxSeq == IF evs = <<>> THEN l.recSeq ELSE BySeq[evs][Len(evs)].seq IN
  [l EXCEPT !.events = Ring(evs), !.seq = IF maxSeq > @ THEN maxSeq ELSE @,
            !.loaded = TRUE, !.stale = evs # Full(l)]

\* adoptLoadedEvents, and the flag its callers set.
Adopt(l, evs) ==
  LET maxSeq == IF evs = <<>> THEN l.recSeq ELSE BySeq[evs][Len(evs)].seq IN
  [l EXCEPT !.events = Ring(BySeq[evs]),
            !.seq    = IF maxSeq > @ THEN maxSeq ELSE @,
            !.loaded = TRUE,
            !.stale  = evs # Full(l)]

Unloaded(l) == [l EXCEPT !.events = <<>>, !.loaded = FALSE]

\* evictLoadedBeyondCap: a session in use is passed over.
Evictable == run = "none" /\ ~agent /\ ~Watched

\* touchLoaded and evictLoadedBeyondCap, crowded when the logs of the other
\* sessions fill the cap and may not be evicted.
Touched(l, crowded) == IF crowded /\ Evictable THEN Unloaded(l) ELSE l

\* ensureEvents; loadEvents flushes before it reads.
Ensured(l, crowded) ==
  Touched(IF l.loaded THEN l ELSE Adopt(Flush(l), Full(l)), crowded)

-----------------------------------------------------------------------------
Init ==
  /\ log = [events |-> <<>>, seq |-> 0, recSeq |-> 0, loaded |-> TRUE,
            disk |-> <<>>, buffer |-> <<>>, made |-> 0, stale |-> FALSE]
  /\ index = [lastSeq |-> 0, running |-> FALSE]
  /\ run = "none"
  /\ agent = FALSE
  /\ load = NoLoad
  /\ viewer = [v \in Viewers |-> Gone]
  /\ up = TRUE
  /\ crashes = 0
  /\ torn = FALSE

Room(k) == log.made + k <= MaxMade

\* The listeners are called with each event as it is appended.
Fanout(l) ==
  LET new == SubSeq(Full(l), Len(Full(log)) + 1, Len(Full(l))) IN
  viewer' = [v \in Viewers |->
    CASE viewer[v].phase = "live"     -> [viewer[v] EXCEPT !.got = @ \o new]
      [] viewer[v].phase = "catching" -> [viewer[v] EXCEPT !.deferred = @ \o new]
      [] OTHER                        -> viewer[v]]

\* persistRecord, the status being that of the run after the step.
persistRecord(l) == index' = [lastSeq |-> l.recSeq, running |-> run' = "running"]

\* The process is gone, with the log l as far as it was written.
Die(l) ==
  /\ crashes < MaxCrashes
  /\ crashes' = crashes + 1
  /\ up' = FALSE
  /\ log' = [Unloaded(l) EXCEPT !.seq = 0, !.recSeq = 0, !.buffer = <<>>, !.stale = FALSE]
  /\ run' = "none"
  /\ agent' = FALSE
  /\ load' = NoLoad
  /\ viewer' = [v \in Viewers |-> Gone]

Dies(l) == Die(l) /\ UNCHANGED <<index, torn>>

\* A handler appends up to l; it saves the record, or does not.
Appends(l) ==
  /\ log' = l
  /\ Fanout(l)
  /\ UNCHANGED <<load, up, crashes, torn>>
Saves(l) == Appends(l) /\ persistRecord(l)

\* POST /sessions/:id/run.
Run(crowded) ==
  LET l == Put(Put(Ensured(log, crowded), "critical"), "start") IN
  /\ up /\ run = "none" /\ Room(2)
  /\ \/ run' = "running" /\ agent' = TRUE /\ Saves(l)
     \/ Die(l) /\ torn' = TRUE /\ UNCHANGED index

\* A callback of the run, which is answered until it is aborted; approvals save
\* the record, the others do not.
emit(kind) ==
  /\ up /\ run = "running" /\ Room(1)
  /\ Appends(Put(log, kind))
  /\ UNCHANGED <<run, agent>>
  /\ \/ UNCHANGED index
     \/ kind = "critical" /\ persistRecord(log')

\* The hooks of the agent's loop report, those of an abandoned batch too.
emitHookResult ==
  /\ up /\ agent /\ Room(1)
  /\ Appends(Trimmed(Put(log, "hook")))
  /\ UNCHANGED <<index, run, agent>>

\* A setting, in a session whose log may not be in memory.
setDomain ==
  /\ up /\ Room(1)
  /\ \/ UNCHANGED <<run, agent>> /\ Saves(Put(log, "chatter"))
     \/ Dies(Put(log, "chatter"))

abort ==
  /\ up /\ Room(1)
  /\ \/ /\ run' = IF run = "running" THEN "aborted" ELSE run
        /\ Saves(Put(log, "end"))
        /\ UNCHANGED agent
     \/ Dies(Put(log, "end"))

\* The promise of the run settles: abort() has closed an aborted run already.
settle ==
  /\ up
  /\ \/ /\ run = "running" /\ Room(1)
        /\ \/ run' = "none" /\ UNCHANGED agent /\ Saves(Put(log, "end"))
           \/ Dies(Put(log, "end"))
     \/ /\ run = "aborted"
        /\ run' = "none"
        /\ UNCHANGED <<log, index, agent, load, viewer, up, crashes, torn>>

sweepIdleAgents ==
  /\ up /\ agent /\ run = "none"
  /\ agent' = FALSE
  /\ UNCHANGED <<log, index, run, load, viewer, up, crashes, torn>>

\* Another session's log is loaded, or the idle sweep runs.
evictLoadedBeyondCap ==
  /\ up /\ log.loaded /\ Evictable
  /\ log' = Unloaded(log)
  /\ UNCHANGED <<index, run, agent, load, viewer, up, crashes, torn>>

\* The debounce timer of the persistence.
flushAll ==
  /\ up /\ log.buffer # <<>>
  /\ log' = Flush(log)
  /\ UNCHANGED <<index, run, agent, load, viewer, up, crashes, torn>>

\* GET /sessions/:id/events.
getEvents(crowded) ==
  /\ up /\ ~log.loaded
  /\ log' = Ensured(log, crowded)
  /\ UNCHANGED <<index, run, agent, load, viewer, up, crashes, torn>>

-----------------------------------------------------------------------------
(* The stream handler.                                                     *)

\* What getEventsAsync answers: the handler starts its replay.
Replay(w, l) ==
  [w EXCEPT !.phase = "replaying", !.upTo = l.seq,
            !.got = After(l.events, w.since), !.whole = l.loaded /\ ~l.stale]

\* GET /sessions/:id/stream.
open(v, since, crowded) ==
  LET w == [Gone EXCEPT !.phase = "loading", !.since = since]
      l == Touched(log, crowded)
  IN
  /\ up /\ viewer[v].phase = "off"
  /\ \/ /\ log.loaded
        /\ log' = l
        /\ viewer' = [viewer EXCEPT ![v] = Replay(w, l)]
        /\ UNCHANGED load
     \/ /\ ~log.loaded
        /\ viewer' = [viewer EXCEPT ![v] = w]
        /\ \/ load.phase # "none" /\ UNCHANGED <<log, load>>
           \/ /\ load.phase = "none"
              /\ log' = Flush(log)
              /\ load' = [phase |-> "reading", evs |-> <<>>]
  /\ UNCHANGED <<index, run, agent, up, crashes, torn>>

\* The file has been read; the text goes to the parser.
readFile ==
  /\ up /\ load.phase = "reading"
  /\ load' = [phase |-> "parsing", evs |-> log.disk]
  /\ UNCHANGED <<log, index, run, agent, viewer, up, crashes, torn>>

\* Mutant: a load that lost against a synchronous one answers nobody.
Loaded_OnlyWinner(crowded) ==
  /\ up /\ load.phase = "parsing"
  /\ load' = NoLoad
  /\ log' = Touched(IF log.loaded THEN log ELSE Adopt(log, load.evs), crowded)
  /\ viewer' = [v \in Viewers |->
       IF viewer[v].phase = "loading" /\ ~log.loaded THEN Replay(viewer[v], log') ELSE viewer[v]]
  /\ UNCHANGED <<index, run, agent, up, crashes, torn>>

\* The load ends: adopted unless a synchronous one came first.  Every handler
\* that waited for it goes on, before anything else runs.
Loaded(crowded) ==
  /\ up /\ load.phase = "parsing"
  /\ load' = NoLoad
  /\ log' = Touched(IF log.loaded THEN log ELSE Adopt(log, load.evs), crowded)
  /\ viewer' = [v \in Viewers |->
       IF viewer[v].phase = "loading" THEN Replay(viewer[v], log') ELSE viewer[v]]
  /\ UNCHANGED <<index, run, agent, up, crashes, torn>>

\* An event goes out when its seq is above that of the last one, which is the
\* highest so far.
sendCatchup(w, evs) ==
  LET sent == Select[evs][{i \in DOMAIN evs :
                evs[i].seq > w.upTo /\ \A j \in 1..(i - 1) : evs[j].seq < evs[i].seq}]
  IN  [w EXCEPT !.got = @ \o sent,
                !.upTo = IF sent = <<>> THEN @ ELSE sent[Len(sent)].seq]

\* Mutants: the gap is not asked for; it is asked for from the start.
subscribe_NoGap(v) ==
  /\ up /\ viewer[v].phase = "replaying"
  /\ log' = Ensured(log, FALSE)
  /\ viewer' = [viewer EXCEPT ![v].phase = "catching"]
  /\ UNCHANGED <<index, run, agent, load, up, crashes, torn>>
subscribe_FromSince(v) ==
  LET w == [viewer[v] EXCEPT !.phase = "catching", !.upTo = viewer[v].since] IN
  /\ up /\ viewer[v].phase = "replaying"
  /\ log' = Ensured(log, FALSE)
  /\ viewer' = [viewer EXCEPT ![v] = sendCatchup(w, After(log'.events, w.upTo))]
  /\ UNCHANGED <<index, run, agent, load, up, crashes, torn>>

\* The replay is sent: the handler subscribes, reads the gap, and sends it.
subscribe(v) ==
  LET w == [viewer[v] EXCEPT !.phase = "catching", !.whole = @ /\ ~log'.stale] IN
  /\ up /\ viewer[v].phase = "replaying"
  /\ log' = Ensured(log, FALSE)
  /\ viewer' = [viewer EXCEPT ![v] = sendCatchup(w, After(log'.events, w.upTo))]
  /\ UNCHANGED <<index, run, agent, load, up, crashes, torn>>

\* One turn of the loop over deferredLive; without any, catchingUp ends.
drain(v) ==
  LET w == viewer[v] IN
  /\ up /\ w.phase = "catching"
  /\ viewer' = [viewer EXCEPT ![v] =
       IF w.deferred = <<>> THEN [w EXCEPT !.phase = "live"]
       ELSE sendCatchup([w EXCEPT !.deferred = <<>>], w.deferred)]
  /\ UNCHANGED <<log, index, run, agent, load, up, crashes, torn>>

\* The peer is gone: a write fails, or the response closes.
leave(v) ==
  /\ viewer[v].phase \in {"replaying", "catching", "live"}
  /\ viewer' = [viewer EXCEPT ![v] = Gone]
  /\ UNCHANGED <<log, index, run, agent, load, up, crashes, torn>>

-----------------------------------------------------------------------------
(* The process.                                                            *)

Crash == up /\ Dies(log)

\* close(): abortAll, shutdownAll with its flushSync, exit.
close ==
  LET l == Put(log, "end") IN
  /\ up /\ Room(1)
  /\ Die(Flush(l))
  /\ persistRecord(l)
  /\ UNCHANGED torn

\* Mutant: the interruption leaves no marker.
rehydrate_NoMarker ==
  /\ ~up
  /\ log' = [log EXCEPT !.seq = index.lastSeq, !.recSeq = index.lastSeq]
  /\ up' = TRUE
  /\ index' = [index EXCEPT !.running = FALSE]
  /\ UNCHANGED <<run, agent, load, viewer, crashes, torn>>

\* The next process: seq comes from the index; an interrupted run is closed by
\* markers that go to the persistence only.
rehydrate ==
  LET l == [log EXCEPT !.seq = index.lastSeq, !.recSeq = index.lastSeq]
      m == Stored(Stored(l, "end"), "chatter")
  IN
  /\ ~up
  /\ \/ /\ ~index.running
        /\ up' = TRUE
        /\ log' = l
        /\ UNCHANGED <<index, run, agent, load, viewer, crashes, torn>>
     \/ /\ index.running /\ Room(2)
        /\ \/ /\ up' = TRUE
              /\ log' = m
              /\ UNCHANGED <<run, agent, load, viewer, crashes, torn>>
              /\ persistRecord(m)
           \/ Dies(m)

Next ==
  \/ \E crowded \in BOOLEAN :
       \/ Run(crowded) \/ getEvents(crowded) \/ Loaded(crowded)
       \/ \E v \in Viewers, since \in Since : open(v, since, crowded)
  \/ \E kind \in {"critical", "chatter"} : emit(kind)
  \/ emitHookResult \/ setDomain \/ abort \/ settle
  \/ sweepIdleAgents \/ evictLoadedBeyondCap \/ flushAll \/ readFile
  \/ \E v \in Viewers : subscribe(v) \/ drain(v) \/ leave(v)
  \/ Crash \/ close \/ rehydrate

Spec == Init /\ [][Next]_vars

(***************************************************************************)
(* Fairness: the loop serves the reads and timers it has been given.       *)
(***************************************************************************)
Fairness ==
  /\ WF_vars(readFile)
  /\ WF_vars(\E crowded \in BOOLEAN : Loaded(crowded))
  /\ \A v \in Viewers : WF_vars(subscribe(v)) /\ WF_vars(drain(v))

FairSpec == Spec /\ Fairness

-----------------------------------------------------------------------------
(* Properties.                                                             *)

TypeOK ==
  /\ log \in Logs
  /\ Len(log.events) <= MaxEvents
  /\ index \in [lastSeq : Nat, running : BOOLEAN]
  /\ run \in {"none", "running", "aborted"}
  /\ agent \in BOOLEAN
  /\ load \in Loads
  /\ viewer \in [Viewers -> ViewerStates]
  /\ up \in BOOLEAN
  /\ crashes \in Nat
  /\ torn \in BOOLEAN

Before(a, b) == a.seq < b.seq \/ (a.seq = b.seq /\ a.n < b.n)
Occurs(x, evs) == \E i \in DOMAIN evs : evs[i] = x

\* What a replay promises of a log: an event with less than a ring of others
\* behind it, and, a hook's result, less than MaxHooks of its kind.
Recent(x, evs) ==
  LET later == {y \in {evs[i] : i \in DOMAIN evs} : Before(x, y)} IN
  /\ Cardinality(later) < MaxEvents
  /\ x.kind = "hook" => Cardinality({y \in later : y.kind = "hook"}) < MaxHooks

\* What is in memory are events of the log, once and in order, and all those a
\* replay promises, after any evictions, reloads, trims of hook results and
\* restarts (ensureEvents, adoptLoadedEvents, trimHookResults); only an
\* asynchronous load that missed an append makes it differ.  And seq is ahead
\* of every event there is: none appended then takes a number given before,
\* even after a crash that left the index behind the log.
LoadedIsTail ==
  log.loaded =>
    /\ \/ log.stale
       \/ /\ \A i, j \in DOMAIN log.events : i < j => Before(log.events[i], log.events[j])
          /\ \A i \in DOMAIN log.events : Occurs(log.events[i], Full(log))
          /\ \A i \in DOMAIN Full(log) :
               Recent(Full(log)[i], Full(log)) => Occurs(Full(log)[i], log.events)
    /\ \A i \in DOMAIN Full(log) : Full(log)[i].seq <= log.seq

\* A viewer that follows the session has been sent, or is about to be, every
\* event after the seq it asked from that a replay promises, and no viewer an
\* event twice or out of order, through replay, gap, deferred and live
\* forwarding.  What the ring or the trimming of hook results took from memory
\* before the viewer read it, it is not sent; beyond that, the two ways to miss
\* an event are that the log was evicted by the viewer's own opening and that
\* the load it waited for missed an append.
ViewerComplete ==
  \A v \in Viewers :
    LET w == viewer[v]
    IN  /\ \A i, j \in DOMAIN w.got : i < j => Before(w.got[i], w.got[j])
        /\ Listening(v) /\ w.whole =>
             \A i \in DOMAIN Full(log) :
               Full(log)[i].seq > w.since /\ Recent(Full(log)[i], Full(log)) =>
                 Occurs(Full(log)[i], w.got) \/ Occurs(Full(log)[i], w.deferred)

\* A process that dies loses the end of its log at most, and of that only what
\* need not survive: chatter and hook results (CRITICAL_TYPES, flushSession).
CrashLosesChatter ==
  [][~up' => \A i \in DOMAIN Full(log) :
       \/ i \in DOMAIN log'.disk /\ log'.disk[i] = Full(log)[i]
       \/ \A j \in i..Len(Full(log)) : Full(log)[j].kind \in Buffered]_vars

\* Once the next process is up, the timeline of a run that is over says so:
\* the marker of an interrupted run, whichever step the crash cut, unless it
\* came between the start of the run and the record of it.
RunIsClosed ==
  up /\ run = "none" /\ ~torn =>
    \A i \in DOMAIN Full(log) :
      Full(log)[i].kind = "start" => \E j \in DOMAIN Full(log) :
                                       j > i /\ Full(log)[j].kind = "end"

\* A stream that is opened reaches the live phase, whatever loads, evictions
\* and appends come between, unless its peer or the process goes away.
OpenIsServed ==
  \A v \in Viewers :
    viewer[v].phase = "loading" ~> viewer[v].phase \in {"live", "off"}

-----------------------------------------------------------------------------
(* What the comments of the source say, and the code does not keep.        *)

\* "Every event carries a monotonic seq", "seq never regresses".
UniqueSeq ==
  \A i, j \in DOMAIN Full(log) : i # j => Full(log)[i].seq # Full(log)[j].seq
=============================================================================
