---------------------------- MODULE DownloadHealth ----------------------------
(***************************************************************************)
(* The download health supervisor over the download queue                  *)
(* (src/src/core/download_health.py, and what it calls in downloader.py).  *)
(*                                                                         *)
(* A pass first promotes the rows whose payload is complete, then reads    *)
(* the active rows and goes through that snapshot: downloads that do not   *)
(* move are parked, parked ones are given a test window with priority.     *)
(* The process Health executes the calls; health and pass are what the     *)
(* supervisor remembers between passes and during one.                     *)
(***************************************************************************)
EXTENDS DownloadQueue

VARIABLES
    health,       \* DownloadHealthSupervisor._states
    pass          \* the rows run_once has read and not yet looked at

hvars == <<vars, health, pass>>

\* test: no test, one whose window is open, one whose window has ended;
\* wait: next_test_at lies ahead; orig: original_priority.
NoState == [test |-> "none", wait |-> FALSE, orig |-> "none"]
NoHealth == [d \in Downloads |-> NoState]
NoPass == [it |-> NoRows, mend |-> {}, left |-> {}]

HInit == Init /\ health = NoHealth /\ pass = NoPass

\* What all calls leave alone until they have an action of their own.
Others == UNCHANGED <<row, mem, handle, monitor, lock, view, max, approved, bounds>>

Ready == At(Health, "idle") /\ At(Boot, "idle")
BetweenPasses == pass.mend = {} /\ pass.left = {}
Ended(r) == r.st \in {"ABSENT", "CANCELLED", "FAILED", "COMPLETE"}

-----------------------------------------------------------------------------
(* run_once *)

\* reconcile_completed_downloads reads the table: some rows look complete ...
HealthFindsWhole ==
    /\ Ready /\ BetweenPasses
    /\ "finish" \in Events
    /\ \E whole \in SUBSET InStatus(row, {"DOWNLOADING", "QUEUED", "PAUSED", "STALLED"}) :
          whole # {} /\ pass' = [NoPass EXCEPT !.it = row, !.mend = whole]
    /\ UNCHANGED <<proc, health>>
    /\ Others

\* ... and each is stored as SEEDING, as it was read.  Its monitor stays.
HealthPromotes(d) ==
    /\ Ready
    /\ d \in pass.mend
    /\ Write(d, [pass.it[d] EXCEPT !.st = "SEEDING"])
    /\ slots' = slots \ {d}
    /\ pass' = IF pass.mend = {d} THEN NoPass
               ELSE [pass EXCEPT !.mend = @ \ {d}, !.it[d] = NoRows[d]]
    /\ UNCHANGED <<reserved, allowed, handle, monitor, lock, view, proc, max, approved,
                   bounds, health>>

\* The active rows are read, the states of all others forgotten.
HealthReads ==
    LET observed == InStatus(row, {"DOWNLOADING", "STALLED"}) IN
    /\ Ready /\ BetweenPasses
    /\ health' = [d \in Downloads |-> IF d \in Active(row) THEN health[d] ELSE NoState]
    /\ pass' = [it |-> [d \in Downloads |-> IF d \in observed THEN row[d] ELSE NoRows[d]],
                mend |-> {}, left |-> observed]
    /\ UNCHANGED proc
    /\ Others

\* The query names no order: any row may be next.
Looks(d) ==
    /\ Ready
    /\ d \in pass.left
    /\ pass' = [pass EXCEPT !.left = @ \ {d}, !.it[d] = NoRows[d]]
    /\ Others

-----------------------------------------------------------------------------
(* _handle_downloading and _maybe_start_health_test *)

\* Nothing is due: the download moves or has not idled long enough, its test
\* window is open, or its next test lies ahead.
HealthLeaves(d) ==
    /\ Looks(d)
    /\ \/ pass.it[d].st = "DOWNLOADING" /\ health[d].test # "over"
       \/ pass.it[d].st = "STALLED" /\ (health[d].test = "running" \/ health[d].wait)
    /\ UNCHANGED <<proc, health>>

\* _finish_successful_test, set_priority: bytes moved during the test.  The
\* priority in the pass's snapshot says whether there is one to restore.
HealthSucceeds(d) ==
    LET orig == health[d].orig IN
    /\ Looks(d)
    /\ pass.it[d].st = "DOWNLOADING" /\ health[d].test # "none"
    /\ health' = [health EXCEPT ![d] = NoState]
    /\ IF orig # "none" /\ pass.it[d].prio # orig /\ ~Ended(row[d])
       THEN Become(Health, [Idle EXCEPT !.at = "prioWrite", !.d = d,
                                        !.it[d] = [row[d] EXCEPT !.prio = orig]])
       ELSE UNCHANGED proc

\* _park: no bytes for the stall window, or for the whole test.
HealthParks(d) ==
    /\ Looks(d)
    /\ pass.it[d].st = "DOWNLOADING" /\ health[d].test # "running"
    /\ health' = [health EXCEPT ![d].test = "none", ![d].wait = TRUE]
    /\ IF Ended(row[d])
       THEN UNCHANGED proc
       ELSE Become(Health, [Idle EXCEPT !.at = "parking", !.d = d, !.it[d] = row[d]])

\* Mutant: a test whose window ended blocks the next one.
HealthTestsOnce(d) ==
    /\ Looks(d)
    /\ pass.it[d].st = "STALLED" /\ health[d].test = "none" /\ ~health[d].wait
    /\ IF Testable(row[d])
       THEN /\ health' = [health EXCEPT ![d] = [test |-> "running", wait |-> FALSE,
                                                orig |-> pass.it[d].prio]]
            /\ Become(Health, [Idle EXCEPT !.at = "testAllow", !.d = d, !.it[d] = row[d]])
       ELSE /\ health' = [health EXCEPT ![d] = [test |-> "none", wait |-> TRUE,
                                                orig |-> pass.it[d].prio]]
            /\ UNCHANGED proc

\* The original priority is the one the snapshot shows; a download that is no
\* longer testable is tried again a little later.
HealthTests(d) ==
    /\ Looks(d)
    /\ pass.it[d].st = "STALLED" /\ health[d].test # "running" /\ ~health[d].wait
    /\ IF Testable(row[d])
       THEN /\ health' = [health EXCEPT ![d] = [test |-> "running", wait |-> FALSE,
                                                orig |-> pass.it[d].prio]]
            /\ Become(Health, [Idle EXCEPT !.at = "testAllow", !.d = d, !.it[d] = row[d]])
       ELSE /\ health' = [health EXCEPT ![d] = [test |-> "none", wait |-> TRUE,
                                                orig |-> pass.it[d].prio]]
            /\ UNCHANGED proc

\* Time passes.  A pass compares with the time at which it began.
WindowEnds(d) ==
    /\ BetweenPasses
    /\ health[d].test = "running"
    /\ health' = [health EXCEPT ![d].test = "over"]
    /\ UNCHANGED <<vars, pass>>

IntervalEnds(d) ==
    /\ BetweenPasses
    /\ health[d].wait
    /\ health' = [health EXCEPT ![d].wait = FALSE]
    /\ UNCHANGED <<vars, pass>>

-----------------------------------------------------------------------------
(* park_stalled_download *)

ParkHandle ==
    /\ At(Health, "parking")
    /\ handle[Target(Health)] # "none"
    /\ handle' = [handle EXCEPT ![Target(Health)] = "paused"]
    /\ Goto(Health, "parked")
    /\ UNCHANGED <<row, mem, monitor, lock, view, max, approved, bounds>>

\* The reason is lengthened: "manual" is then no reason of the user's any more,
\* "user approved ..." still is.  The reservation stays.
ParkWrites ==
    LET d == Target(Health)
        r == Item(Health)
    IN
    /\ At(Health, "parked") \/ (At(Health, "parking") /\ handle[d] = "none")
    /\ slots' = slots \ {d}
    /\ Monitored(d, "off")
    /\ \E why \in IF r.why = "user" THEN {"user", "other"} ELSE {r.why} :
          Write(d, [r EXCEPT !.st = "STALLED", !.why = why])
    /\ Finish(Health)
    /\ UNCHANGED <<reserved, allowed, handle, lock, view, max, approved, bounds>>

\* The calls of a pass.  A start that raises ends it: the rows that are left are
\* not looked at.
HealthCall ==
    /\ \/ ParkHandle \/ ParkWrites
       \/ PriorityWrites(Health) \/ EnforceStep(Health)
       \/ TestStep(Health) \/ PauseStep(Health) \/ StartStep(Health)
       \/ ResumeWakes(Health) \/ ResumeSpawns(Health) \/ Unlock(Health)
    /\ pass' = IF At(Health, "failed") THEN NoPass ELSE pass
    /\ UNCHANGED health

HealthLook(d) ==
    HealthPromotes(d) \/ HealthLeaves(d) \/ HealthSucceeds(d) \/ HealthParks(d) \/ HealthTests(d)

HealthStep == HealthReads \/ HealthCall \/ \E d \in Downloads : HealthLook(d)

TimePasses(d) == WindowEnds(d) \/ IntervalEnds(d)

-----------------------------------------------------------------------------

Restart == Crash /\ health' = NoHealth /\ pass' = NoPass

HNext ==
    \/ /\ \/ LoopStep \/ BootStep \/ StorageStep
          \/ \E c \in Callers : Request(c) \/ CallerStep(c)
          \/ \E d \in Downloads : MonitorStep(d)
       /\ UNCHANGED <<health, pass>>
    \/ Restart
    \/ HealthFindsWhole \/ HealthStep
    \/ \E d \in Downloads : TimePasses(d)

HSpec == HInit /\ [][HNext]_hvars

\* The fairness of the queue, as there.
QueueFairness ==
    /\ WF_hvars(LoopStep /\ UNCHANGED <<health, pass>>)
    /\ WF_hvars(BootStep /\ UNCHANGED <<health, pass>>)
    /\ SF_hvars(StorageStep /\ UNCHANGED <<health, pass>>)
    /\ \A c \in Callers : SF_hvars(CallerStep(c) /\ UNCHANGED <<health, pass>>)

\* The job is run again and again and goes through its snapshot; the calls
\* return, waiting for the lock in FIFO order; time passes.
HFairness ==
    /\ SF_hvars(HealthStep)
    /\ \A d \in Downloads : SF_hvars(TimePasses(d))

HFairSpec == HSpec /\ QueueFairness /\ HFairness

-----------------------------------------------------------------------------
(* Properties *)

HTypeOK ==
    /\ TypeOK
    /\ health \in [Downloads -> [test : {"none", "running", "over"}, wait : BOOLEAN,
                                 orig : Priorities \cup {"none"}]]
    /\ pass \in [it : [Downloads -> Row], mend : SUBSET Downloads, left : SUBSET Downloads]

\* download_health.py:274, "The parked torrent will be tested again later so rare
\* torrents still get a chance": no download stays parked for ever, unless the
\* start of another one keeps raising and cuts every pass short before it.
ParkedIsTested ==
    \A d \in Downloads :
        \/ []<>(row[d].st # "STALLED")
        \/ []<>(At(Health, "failed") /\ Target(Health) # d)
=============================================================================
