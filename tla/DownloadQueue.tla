---------------------------- MODULE DownloadQueue ----------------------------
(***************************************************************************)
(* The download queue: QueueManager.run_loop, the request handlers of      *)
(* DownloadManager, DownloadStartCoordinator, DownloadStorageRecovery and  *)
(* the lifecycle monitors (src/src/core/queue_manager.py, downloader.py,   *)
(* downloader_start_coordinator.py, download_storage_recovery.py,          *)
(* downloader_lifecycle.py).                                               *)
(*                                                                         *)
(* All of them are coroutines of one asyncio loop over one database row    *)
(* per download, the torrent engine's handles and a few in-memory sets.    *)
(* A step is the code between two awaits.  A database read takes effect    *)
(* when it is issued and its caller goes on with that snapshot later; a    *)
(* write stores the caller's whole snapshot.                               *)
(***************************************************************************)
EXTENDS Naturals, Sequences, FiniteSets

CONSTANTS
    Downloads,    \* a set of numbers: download ids in the order of created_at
    Callers,      \* the tasks that serve API, chat and scheduler requests
    Requests,     \* the operations they call in this instance
    Events,       \* what may happen: a torrent finishes ("finish") or stalls
                  \* ("stall"), its monitor raises ("monitor"), the engine
                  \* refuses a start ("engine", "storage"), recovery outlasts
                  \* the first sleep of the queue loop ("slow")
    AutoItems,    \* downloads whose category policy allows automation
    InitRows,     \* the tables the program may be started on
    Limits,       \* the values of max_concurrent the settings take
    Nobody,       \* not a process
    MaxRequests,  \* bound: requests served
    MaxCrashes    \* bound: how often the process dies

Priorities == {"HIGH", "LOW"}
Loop == "loop"
Boot == "boot"
Storage == "storage"
Health == "health"      \* what it does is in DownloadHealth
Procs == Callers \cup {Loop, Boot, Storage, Health}

Statuses == {"ABSENT", "QUEUED", "DOWNLOADING", "PAUSED", "STALLED", "SEEDING",
             "COMPLETE", "FAILED", "CANCELLED"}

\* "user" stands for the reasons _is_explicit_user_reason accepts, "storage"
\* for those that hold StorageUnavailableDownloadReason.PREFIX.
Row == [st : Statuses, prio : Priorities, why : {"user", "storage", "other"}]

ASSUME QueueAssumption ==
    /\ Downloads \subseteq Nat /\ IsFiniteSet(Downloads)
    /\ AutoItems \subseteq Downloads
    /\ InitRows \subseteq [Downloads -> Row]
    /\ Limits \subseteq Nat \ {0} /\ Limits # {}
    /\ Nobody \notin Procs
    /\ Callers \cap {Loop, Boot, Storage, Health} = {}
    /\ MaxRequests \in Nat /\ MaxCrashes \in Nat

VARIABLES
    row,          \* the downloads table
    slots,        \* QueueManager._active_downloads
    reserved,     \* DownloadStartCoordinator._start_reservations
    allowed,      \* DownloadManager._explicit_start_allowed
    handle,       \* the engine's torrent handle per download
    mon,          \* the lifecycle monitor task per download
    seen,         \* the row a monitor has read and still needs
    lock,         \* holder of DownloadManager._queue_lock
    view,         \* rows the holder of the lock has read and still needs
    proc,         \* where each process is, and what it works on
    max,          \* max_concurrent
    approved,     \* history: downloads the user ever asked to start
    revived,      \* history: downloads that a change of priority stored as
                  \* DOWNLOADING again, and that no monitor was spawned for since
    orphaned,     \* history: downloads cancelled while they were being started
    requests,
    crashes

vars == <<row, slots, reserved, allowed, handle, mon, seen, lock, view, proc, max,
          approved, revived, orphaned, requests, crashes>>

mem == <<slots, reserved, allowed>>
monitor == <<mon, seen, revived>>
bounds == <<orphaned, requests, crashes>>

-----------------------------------------------------------------------------
(* Rows *)

InStatus(rows, statuses) == {d \in Downloads : rows[d].st \in statuses}
Downloading(rows) == InStatus(rows, {"DOWNLOADING"})

\* get_active_downloads
Active(rows) == InStatus(rows, {"QUEUED", "DOWNLOADING", "PAUSED", "SEEDING", "STALLED"})

Rank(prio) == IF prio = "HIGH" THEN 0 ELSE 2

Before(rows, d, e) ==
    \/ Rank(rows[d].prio) < Rank(rows[e].prio)
    \/ rows[d].prio = rows[e].prio /\ d < e

\* The orders of get_queued_downloads and of the enforcement: a set has one.
Sorted(rows, set) ==
    {s \in [1..Cardinality(set) -> set] :
        \A i, j \in DOMAIN s : i < j => Before(rows, s[i], s[j])}

\* The order of creation, in which the table is read.
ByAge(set) ==
    {s \in [1..Cardinality(set) -> set] : \A i, j \in DOMAIN s : i < j => s[i] < s[j]}

\* _can_start_queued_download: permission of the user, or the item's policy.
UserApproved(d, r) == d \in allowed \/ r.why = "user"

\* Mutant: whatever is queued may start.
CanStartAll(d, r) == TRUE

CanStart(d, r) == UserApproved(d, r) \/ d \in AutoItems

-----------------------------------------------------------------------------
(* Processes.  A process is at a label, works for download d on the         *)
(* snapshots it, has further downloads to do, and returns to a label from   *)
(* the operation it calls (start_download, pause_download).                 *)

NoRows == [d \in Downloads |-> [st |-> "ABSENT", prio |-> "LOW", why |-> "other"]]

Idle == [at |-> "idle", d |-> 0, it |-> NoRows, todo |-> << >>, then |-> "idle", n |-> 0]

At(p, label) == proc[p].at = label
Target(p) == proc[p].d
Item(p) == proc[p].it[Target(p)]

Become(p, state) == proc' = [proc EXCEPT ![p] = state]
Goto(p, label) ==
    Become(p, IF label = "idle" THEN Idle ELSE [proc[p] EXCEPT !.at = label])
Finish(p) == Become(p, Idle)

Write(d, r) == row' = [row EXCEPT ![d] = r]

\* TaskSupervisor spawns a monitor, cancelling one of the same name, or cancels it.
Monitored(d, stage) ==
    /\ mon' = [mon EXCEPT ![d] = stage]
    /\ seen' = [seen EXCEPT ![d] = NoRows[d]]
    /\ revived' = revived \ {d}

\* Downloads a start is on its way for: reserved, not yet monitored.
StartLabels == {"adding", "added", "written", "failed"}
Starting(d) == {p \in Procs : proc[p].at \in StartLabels /\ Target(p) = d}

Init ==
    /\ row \in InitRows
    /\ slots = {} /\ reserved = {} /\ allowed = {}
    /\ handle = [d \in Downloads |-> "none"]
    /\ mon = [d \in Downloads |-> "off"]
    /\ seen = NoRows
    /\ lock = Nobody
    /\ view = NoRows
    /\ proc = [p \in Procs |-> IF p = Boot THEN [Idle EXCEPT !.at = "recover"] ELSE Idle]
    /\ max \in Limits
    /\ approved = {d \in Downloads : row[d].why = "user"}
    /\ revived = {} /\ orphaned = {}
    /\ requests = 0 /\ crashes = 0

-----------------------------------------------------------------------------
(* run_start_once and start_download *)

\* Mutant: the reservation is not looked at.
StartAgain(p, s) ==
    /\ Become(p, [s EXCEPT !.at = "adding"])
    /\ reserved' = reserved \cup {s.d}

\* Called with state s: reserve the id and call the engine, or return at once
\* because the id is already reserved.
Start(p, s) ==
    IF s.d \in reserved
    THEN /\ Become(p, IF s.then = "idle" THEN Idle ELSE [s EXCEPT !.at = s.then])
         /\ UNCHANGED reserved
    ELSE /\ Become(p, [s EXCEPT !.at = "adding"])
         /\ reserved' = reserved \cup {s.d}

\* add_magnet: the handle is registered, then the bandwidth is rebalanced.
StartAdded(p) ==
    /\ At(p, "adding")
    /\ handle' = [handle EXCEPT ![Target(p)] = "running"]
    /\ Goto(p, "added")
    /\ UNCHANGED <<row, mem, monitor, lock, view, max, approved, bounds>>

StartWrites(p) ==
    /\ At(p, "added")
    /\ Write(Target(p), [Item(p) EXCEPT !.st = "DOWNLOADING"])
    /\ Goto(p, "written")
    /\ UNCHANGED <<mem, handle, monitor, lock, view, max, approved, bounds>>

\* Mutant: the slot is taken but no monitor is spawned.
StartSpawnsNothing(p) ==
    /\ At(p, "written")
    /\ slots' = slots \cup {Target(p)}
    /\ IF p = Boot
       THEN Become(p, [proc[p] EXCEPT !.at = proc[p].then, !.n = @ + 1])
       ELSE Goto(p, proc[p].then)
    /\ UNCHANGED <<row, reserved, allowed, handle, monitor, lock, view, max, approved, bounds>>

StartSpawns(p) ==
    /\ At(p, "written")
    /\ Monitored(Target(p), "run")
    /\ slots' = slots \cup {Target(p)}
    /\ IF p = Boot
       THEN Become(p, [proc[p] EXCEPT !.at = proc[p].then, !.n = @ + 1])
       ELSE Goto(p, proc[p].then)
    /\ UNCHANGED <<row, reserved, allowed, handle, lock, view, max, approved, bounds>>

\* The engine refuses: the row is stored as STALLED or FAILED ...
StartFails(p) ==
    /\ At(p, "adding")
    /\ \/ /\ "storage" \in Events
          /\ Write(Target(p), [Item(p) EXCEPT !.st = "STALLED", !.why = "storage"])
       \/ /\ "engine" \in Events
          /\ Write(Target(p), [Item(p) EXCEPT !.st = "FAILED", !.why = "other"])
    /\ Goto(p, "failed")
    /\ UNCHANGED <<mem, handle, monitor, lock, view, max, approved, bounds>>

\* ... and the error releases the reservation.  It ends an add_magnet without
\* the final enforcement, and a health test; a resume catches it, loop and
\* recovery go on.
StartRaises(p) ==
    /\ At(p, "failed")
    /\ reserved' = reserved \ {Target(p)}
    /\ CASE proc[p].then = "unlock" -> Goto(p, "requeue") /\ UNCHANGED lock
         [] proc[p].then \in {"release", "tested"} -> Finish(p) /\ lock' = Nobody
         [] OTHER -> Goto(p, proc[p].then) /\ UNCHANGED lock
    /\ UNCHANGED <<row, slots, allowed, handle, monitor, view, max, approved, bounds>>

-----------------------------------------------------------------------------
(* pause_download: a request's own, or called to requeue a victim *)

PauseLabels == {"pauseRead", "pausing", "paused"}
Requeues(p) == proc[p].then # "idle"

PauseRead(p) ==
    /\ At(p, "pauseRead")
    /\ IF row[Target(p)].st \in {"DOWNLOADING", "QUEUED"}
       THEN Become(p, [proc[p] EXCEPT !.at = "pausing", !.it[Target(p)] = row[Target(p)]])
       ELSE Goto(p, proc[p].then)
    /\ UNCHANGED <<row, mem, handle, monitor, lock, view, max, approved, bounds>>

PauseHandle(p) ==
    /\ At(p, "pausing")
    /\ handle[Target(p)] # "none"
    /\ handle' = [handle EXCEPT ![Target(p)] = "paused"]
    /\ Goto(p, "paused")
    /\ UNCHANGED <<row, mem, monitor, lock, view, max, approved, bounds>>

PauseWrites(p) ==
    /\ At(p, "paused") \/ (At(p, "pausing") /\ handle[Target(p)] = "none")
    /\ slots' = slots \ {Target(p)}
    /\ allowed' = IF Requeues(p) THEN allowed ELSE allowed \ {Target(p)}
    /\ Monitored(Target(p), "off")
    /\ Write(Target(p), [Item(p) EXCEPT !.st = IF Requeues(p) THEN "QUEUED" ELSE "PAUSED"])
    /\ IF Requeues(p) THEN Goto(p, "unloading") ELSE Finish(p)
    /\ UNCHANGED <<reserved, handle, lock, view, max, approved, bounds>>

PauseUnloads(p) ==
    /\ At(p, "unloading")
    /\ handle' = [handle EXCEPT ![Target(p)] = "none"]
    /\ Goto(p, proc[p].then)
    /\ UNCHANGED <<row, mem, monitor, lock, view, max, approved, bounds>>

-----------------------------------------------------------------------------
(* QueueManager.run_loop *)

LoopRead ==
    /\ At(Loop, "idle")
    /\ At(Boot, "idle") \/ "slow" \in Events
    /\ InStatus(row, {"QUEUED"}) # {}
    /\ Become(Loop, [Idle EXCEPT !.at = "pick", !.it = row])
    /\ UNCHANGED <<row, mem, handle, monitor, lock, view, max, approved, bounds>>

\* Mutant: a permitted head of the queue is started without counting the slots.
LoopStartsAlways(next, may, free) ==
    \/ /\ may
       /\ Start(Loop, [proc[Loop] EXCEPT !.d = next])
    \/ /\ ~may
       /\ Finish(Loop)
       /\ UNCHANGED reserved

\* The head of the queue may start: promote it, preempt for it, or leave it.
LoopDecides(next, may, free) ==
    LET rows == proc[Loop].it
        victims == {v \in Downloading(rows) : rows[v].prio = "LOW"}
    IN
    \/ /\ may /\ free
       /\ Start(Loop, [proc[Loop] EXCEPT !.d = next])
    \/ /\ may /\ ~free /\ rows[next].prio = "HIGH"
       /\ \E v \in victims :
             Become(Loop, [proc[Loop] EXCEPT !.at = "pauseRead", !.d = v,
                                             !.todo = <<next>>, !.then = "preempted"])
       /\ UNCHANGED reserved
    \/ /\ ~may \/ (~free /\ (rows[next].prio # "HIGH" \/ victims = {}))
       /\ Finish(Loop)
       /\ UNCHANGED reserved

\* Without permission of the user the item's policy is looked up first.
LoopPick ==
    LET rows == proc[Loop].it
        queued == InStatus(rows, {"QUEUED"})
    IN
    /\ At(Loop, "pick")
    /\ slots' = Downloading(rows)
    /\ \E next \in queued :
        /\ \A d \in queued \ {next} : Before(rows, next, d)
        /\ IF UserApproved(next, rows[next])
           THEN LoopDecides(next, TRUE, Cardinality(slots') < max)
           ELSE /\ Become(Loop, [proc[Loop] EXCEPT !.at = "gate", !.d = next])
                /\ UNCHANGED reserved
    /\ UNCHANGED <<row, allowed, handle, monitor, lock, view, max, approved, bounds>>

LoopGate ==
    LET next == Target(Loop) IN
    /\ At(Loop, "gate")
    /\ LoopDecides(next, CanStart(next, Item(Loop)), Cardinality(slots) < max)
    /\ UNCHANGED <<row, slots, allowed, handle, monitor, lock, view, max, approved, bounds>>

LoopPreempted ==
    /\ At(Loop, "preempted")
    /\ Start(Loop, [proc[Loop] EXCEPT !.d = Head(proc[Loop].todo), !.todo = << >>,
                                      !.then = "idle"])
    /\ UNCHANGED <<row, slots, allowed, handle, monitor, lock, view, max, approved, bounds>>

-----------------------------------------------------------------------------
(* Under _queue_lock: synchronise the slots, then start, resume or enforce *)

LockedLabels == {"addLock", "resumeLock", "testLock", "enforce"}

\* async with self._queue_lock, then _sync_active_slots_from_state reads.
Lock(p) ==
    /\ proc[p].at \in LockedLabels
    /\ lock = Nobody
    /\ lock' = p
    /\ view' = row
    /\ Goto(p, CASE At(p, "addLock") -> "addGate"
                 [] At(p, "resumeLock") -> "resumeGate"
                 [] At(p, "testLock") -> "testGate"
                 [] At(p, "enforce") -> "enforceSync")
    /\ UNCHANGED <<row, mem, handle, monitor, max, approved, bounds>>

\* Handles of rows that do not download are paused, and dropped when the row
\* is queued; a stalled row that still shows a rate is stored again as it was
\* read.  The awaits of this loop are one step here.
Sync ==
    /\ slots' = Downloading(view)
    /\ handle' = [d \in Downloads |->
                    IF handle[d] = "none" \/ view[d].st = "QUEUED" THEN "none"
                    ELSE IF view[d].st \in {"PAUSED", "STALLED"} THEN "paused" ELSE handle[d]]

Rewritten(rates) == [d \in Downloads |-> IF d \in rates THEN view[d] ELSE row[d]]

Stale == SUBSET InStatus(view, {"STALLED"})

Free == Cardinality(slots') < max

AddGate(p) ==
    /\ At(p, "addGate")
    /\ Sync
    /\ IF Free /\ UserApproved(Target(p), Item(p))
       THEN Start(p, [proc[p] EXCEPT !.then = "release"])
       ELSE Goto(p, IF Free THEN "addPolicy" ELSE "release") /\ UNCHANGED reserved
    /\ \E rates \in Stale : row' = Rewritten(rates)
    /\ view' = NoRows
    /\ UNCHANGED <<allowed, monitor, lock, max, approved, bounds>>

AddPolicy(p) ==
    /\ At(p, "addPolicy")
    /\ IF CanStart(Target(p), Item(p))
       THEN Start(p, [proc[p] EXCEPT !.then = "release"])
       ELSE Goto(p, "release") /\ UNCHANGED reserved
    /\ UNCHANGED <<row, slots, allowed, handle, monitor, lock, view, max, approved, bounds>>

\* add_magnet leaves the lock and then enforces the limit.
AddReleases(p) ==
    /\ At(p, "release")
    /\ lock' = Nobody
    /\ Goto(p, "enforce")
    /\ UNCHANGED <<row, mem, handle, monitor, view, max, approved, bounds>>

\* resume_download, and start_health_test, which goes on where that does.
Tests(p) == proc[p].then = "tested"

ResumeGate(p) ==
    /\ At(p, "resumeGate")
    /\ Sync
    /\ \/ /\ ~Free
          /\ \E rates \in Stale :
                row' = [Rewritten(rates) EXCEPT ![Target(p)] = [Item(p) EXCEPT !.st = "QUEUED"]]
          /\ Goto(p, "unlock")
       \/ /\ Free /\ handle'[Target(p)] # "none"
          /\ Goto(p, "waking")
          /\ \E rates \in Stale : row' = Rewritten(rates)
       \/ /\ Free /\ handle'[Target(p)] = "none"
          /\ \E rates \in Stale :
                row' = [Rewritten(rates) EXCEPT ![Target(p)] = [Item(p) EXCEPT !.st = "QUEUED"]]
          /\ Goto(p, "resumeStart")
    /\ view' = NoRows
    /\ UNCHANGED <<reserved, allowed, monitor, lock, max, approved, bounds>>

\* handle.resume answers, or times out and the item is started afresh.
ResumeWakes(p) ==
    /\ At(p, "waking")
    /\ \/ /\ handle' = [handle EXCEPT ![Target(p)] = IF @ = "none" THEN "none" ELSE "running"]
          /\ Write(Target(p), [Item(p) EXCEPT !.st = "DOWNLOADING"])
          /\ Goto(p, "awake")
       \/ /\ "engine" \in Events
          /\ Write(Target(p), [Item(p) EXCEPT !.st = "QUEUED"])
          /\ Goto(p, IF Tests(p) THEN "testStart" ELSE "resumeStart")
          /\ UNCHANGED handle
    /\ UNCHANGED <<mem, monitor, lock, view, max, approved, bounds>>

ResumeSpawns(p) ==
    /\ At(p, "awake")
    /\ slots' = slots \cup {Target(p)}
    /\ Monitored(Target(p), "run")
    /\ lock' = Nobody
    /\ Finish(p)
    /\ UNCHANGED <<row, reserved, allowed, handle, view, max, approved, bounds>>

ResumeStarts(p) ==
    /\ At(p, "resumeStart")
    /\ Start(p, [proc[p] EXCEPT !.it[Target(p)].st = "QUEUED", !.then = "unlock"])
    /\ UNCHANGED <<row, slots, allowed, handle, monitor, lock, view, max, approved, bounds>>

\* The immediate start failed: leave the item queued.
ResumeRequeues(p) ==
    /\ At(p, "requeue")
    /\ Write(Target(p), [Item(p) EXCEPT !.st = "QUEUED", !.why = "other"])
    /\ Goto(p, "unlock")
    /\ UNCHANGED <<mem, handle, monitor, lock, view, max, approved, bounds>>

\* Mutant: the lock is not released.
UnlockForgotten(p) ==
    /\ proc[p].at \in {"unlock", "tested"}
    /\ Finish(p)
    /\ UNCHANGED <<row, mem, handle, monitor, lock, view, max, approved, bounds>>

Unlock(p) ==
    /\ proc[p].at \in {"unlock", "tested"}
    /\ lock' = Nobody
    /\ Finish(p)
    /\ UNCHANGED <<row, mem, handle, monitor, view, max, approved, bounds>>

\* The handle is asked to resume, or the row is queued to start afresh.
TestResumes(p, s, torrents, rows) ==
    IF torrents[s.d] # "none"
    THEN Become(p, [s EXCEPT !.at = "waking", !.then = "tested"]) /\ row' = rows
    ELSE /\ Become(p, [s EXCEPT !.at = "testStart", !.then = "tested"])
         /\ row' = [rows EXCEPT ![s.d] = [s.it[s.d] EXCEPT !.st = "QUEUED"]]

TestGate(p) ==
    /\ At(p, "testGate")
    /\ Sync
    /\ \E rates \in Stale :
          IF Free
          THEN TestResumes(p, proc[p], handle', Rewritten(rates)) /\ view' = NoRows
          ELSE /\ row' = Rewritten(rates) /\ view' = row'
               /\ Goto(p, "testVictim")
    /\ UNCHANGED <<reserved, allowed, monitor, lock, max, approved, bounds>>

\* _find_health_test_victim: the last of the least important ones.
Victim(rows, others) ==
    {v \in others : \A w \in others \ {v} : Before(rows, w, v)}

\* A test that finds no victim goes beyond the limit.
TestVictim(p) ==
    LET others == Downloading(view) \ {Target(p)} IN
    /\ At(p, "testVictim")
    /\ IF others = {}
       THEN TestResumes(p, proc[p], handle, row)
       ELSE /\ \E v \in Victim(view, others) :
                  Become(p, [proc[p] EXCEPT !.at = "pauseRead", !.d = v,
                                            !.todo = <<Target(p)>>, !.then = "freed"])
            /\ UNCHANGED row
    /\ view' = NoRows
    /\ UNCHANGED <<mem, handle, monitor, lock, max, approved, bounds>>

TestFreed(p) ==
    /\ At(p, "freed")
    /\ TestResumes(p, [proc[p] EXCEPT !.d = Head(proc[p].todo), !.todo = << >>], handle, row)
    /\ UNCHANGED <<mem, handle, monitor, lock, view, max, approved, bounds>>

\* Without a handle the download is started like any queued one, if a slot is
\* free by now.
TestStarts(p) ==
    /\ At(p, "testStart")
    /\ CASE Cardinality(slots) >= max -> Finish(p) /\ lock' = Nobody /\ UNCHANGED reserved
         [] Cardinality(slots) < max /\ UserApproved(Target(p), Item(p)) ->
                Start(p, proc[p]) /\ UNCHANGED lock
         [] OTHER -> Goto(p, "testPolicy") /\ UNCHANGED <<lock, reserved>>
    /\ UNCHANGED <<row, slots, allowed, handle, monitor, view, max, approved, bounds>>

TestPolicy(p) ==
    /\ At(p, "testPolicy")
    /\ IF CanStart(Target(p), Item(p))
       THEN Start(p, proc[p]) /\ UNCHANGED lock
       ELSE Finish(p) /\ lock' = Nobody /\ UNCHANGED reserved
    /\ UNCHANGED <<row, slots, allowed, handle, monitor, view, max, approved, bounds>>

\* _enforce_concurrency_limit reads the rows again ...
EnforceSync(p) ==
    /\ At(p, "enforceSync")
    /\ Sync
    /\ \E rates \in Stale : row' = Rewritten(rates) /\ view' = Rewritten(rates)
    /\ Goto(p, "cut")
    /\ UNCHANGED <<reserved, allowed, monitor, lock, max, approved, bounds>>

\* ... keeps the first max of them and requeues the others one by one.
EnforceCut(p) ==
    /\ At(p, "cut")
    /\ \E active \in Sorted(view, Downloading(view)) :
        LET kept == IF Len(active) < max THEN Len(active) ELSE max IN
        /\ slots' = {active[i] : i \in 1..kept}
        /\ Become(p, [proc[p] EXCEPT !.at = "nextVictim", !.then = "nextVictim",
                                     !.todo = SubSeq(active, kept + 1, Len(active))])
    /\ view' = NoRows
    /\ UNCHANGED <<row, reserved, allowed, handle, monitor, lock, max, approved, bounds>>

EnforceNext(p) ==
    /\ At(p, "nextVictim")
    /\ IF proc[p].todo = << >>
       THEN Finish(p) /\ lock' = Nobody
       ELSE /\ Become(p, [proc[p] EXCEPT !.at = "pauseRead", !.d = Head(proc[p].todo),
                                         !.todo = Tail(@), !.then = "nextVictim"])
            /\ UNCHANGED lock
    /\ UNCHANGED <<row, mem, handle, monitor, view, max, approved, bounds>>

-----------------------------------------------------------------------------
(* Requests.  The web server only answers once recovery is over. *)

Serve(c, op) ==
    /\ op \in Requests
    /\ At(c, "idle")
    /\ At(Boot, "idle")
    /\ requests < MaxRequests
    /\ requests' = requests + 1
    /\ UNCHANGED <<orphaned, crashes>>

\* add_magnet of an explicit user request, or of background discovery that the
\* category policy allows; get_add_lock serialises the adds of one id.  Other
\* duplicates are answered with the row they found.
RequestAdd(c) ==
    \E d \in Downloads, prio \in Priorities, why \in {"user", "other"} :
    /\ Serve(c, "add")
    /\ why = "other" => d \in AutoItems
    /\ \A q \in Procs : ~(At(q, "addWrite") /\ Target(q) = d)
    /\ \/ row[d].st = "ABSENT"
       \/ row[d].st \in {"QUEUED", "PAUSED", "STALLED"} /\ why = "user"
       \/ row[d].st = "QUEUED" /\ CanStart(d, row[d])
    /\ LET st == IF row[d].st = "ABSENT" THEN "QUEUED" ELSE row[d].st IN
       Become(c, [Idle EXCEPT !.at = "addWrite", !.d = d,
                              !.it[d] = [st |-> st, prio |-> prio, why |-> why]])
    /\ UNCHANGED <<row, mem, handle, monitor, lock, view, max, approved>>

AddWrites(c) ==
    /\ At(c, "addWrite")
    /\ Write(Target(c), Item(c))
    /\ IF Item(c).why = "user"
       THEN /\ allowed' = allowed \cup {Target(c)}
            /\ approved' = approved \cup {Target(c)}
       ELSE UNCHANGED <<allowed, approved>>
    /\ Goto(c, "addLock")
    /\ UNCHANGED <<slots, reserved, handle, monitor, lock, view, max, bounds>>

RequestPause(c) ==
    \E d \in InStatus(row, {"DOWNLOADING", "QUEUED"}) :
    /\ Serve(c, "pause")
    /\ Become(c, [Idle EXCEPT !.at = "pauseRead", !.d = d])
    /\ UNCHANGED <<row, mem, handle, monitor, lock, view, max, approved>>

RequestResume(c) ==
    \E d \in InStatus(row, {"PAUSED", "STALLED"}) :
    /\ Serve(c, "resume")
    /\ Become(c, [Idle EXCEPT !.at = "resumeAllow", !.d = d, !.it[d] = row[d]])
    /\ UNCHANGED <<row, mem, handle, monitor, lock, view, max, approved>>

\* A resume is a permission to start, now or later.
ResumeAllows(c) ==
    /\ At(c, "resumeAllow")
    /\ allowed' = allowed \cup {Target(c)}
    /\ approved' = approved \cup {Target(c)}
    /\ Goto(c, "resumeLock")
    /\ UNCHANGED <<row, slots, reserved, handle, monitor, lock, view, max, bounds>>

RequestMax(c) ==
    \E n \in Limits \ {max} :
    /\ Serve(c, "max")
    /\ max' = n
    /\ Become(c, [Idle EXCEPT !.at = "enforce"])
    /\ UNCHANGED <<row, mem, handle, monitor, lock, view, approved>>

\* set_priority, then the limit is enforced.
RequestPriority(c) ==
    \E d \in Active(row), prio \in Priorities :
    /\ Serve(c, "priority")
    /\ Become(c, [Idle EXCEPT !.at = "prioWrite", !.d = d, !.it[d] = [row[d] EXCEPT !.prio = prio]])
    /\ UNCHANGED <<row, mem, handle, monitor, lock, view, max, approved>>

PriorityWrites(p) ==
    /\ At(p, "prioWrite")
    /\ Write(Target(p), Item(p))
    /\ revived' = IF Item(p).st = "DOWNLOADING" /\ row[Target(p)].st # "DOWNLOADING"
                  THEN revived \cup {Target(p)} ELSE revived
    /\ Goto(p, "enforce")
    /\ UNCHANGED <<mem, handle, mon, seen, lock, view, max, approved, bounds>>

\* start_health_test, asked for by the user: a permission to start.
Testable(r) == r.st \in {"STALLED", "PAUSED", "QUEUED"}

RequestTest(c) ==
    \E d \in Downloads :
    /\ Testable(row[d])
    /\ Serve(c, "test")
    /\ Become(c, [Idle EXCEPT !.at = "testAllow", !.d = d, !.it[d] = row[d]])
    /\ UNCHANGED <<row, mem, handle, monitor, lock, view, max, approved>>

TestAllows(p) ==
    LET r == [Item(p) EXCEPT !.prio = "HIGH"] IN
    /\ At(p, "testAllow")
    /\ allowed' = allowed \cup {Target(p)}
    /\ approved' = IF p = Health THEN approved ELSE approved \cup {Target(p)}
    /\ Write(Target(p), r)
    /\ Become(p, [proc[p] EXCEPT !.at = "testLock", !.it[Target(p)] = r])
    /\ UNCHANGED <<slots, reserved, handle, monitor, lock, view, max, bounds>>

\* cancel_download gives up the slot and the handle first ...
RequestCancel(c) ==
    \E d \in InStatus(row, Statuses \ {"ABSENT"}) :
    /\ Serve(c, "cancel")
    /\ slots' = slots \ {d}
    /\ allowed' = allowed \ {d}
    /\ handle' = [handle EXCEPT ![d] = "none"]
    /\ Become(c, [Idle EXCEPT !.at = "cancelling", !.d = d])
    /\ UNCHANGED <<row, reserved, monitor, lock, view, max, approved>>

\* ... then the monitor and the reservation, and reads the row ...
CancelReads(c) ==
    /\ At(c, "cancelling")
    /\ Monitored(Target(c), "off")
    /\ reserved' = reserved \ {Target(c)}
    /\ orphaned' = IF Starting(Target(c)) = {} THEN orphaned ELSE orphaned \cup {Target(c)}
    /\ Become(c, [proc[c] EXCEPT !.at = "cancelWrite", !.it[Target(c)] = row[Target(c)]])
    /\ UNCHANGED <<row, slots, allowed, handle, lock, view, max, approved, requests, crashes>>

\* ... and stores it as cancelled.
CancelWrites(c) ==
    /\ At(c, "cancelWrite")
    /\ Write(Target(c), [Item(c) EXCEPT !.st = "CANCELLED"])
    /\ Finish(c)
    /\ UNCHANGED <<mem, handle, monitor, lock, view, max, approved, bounds>>

RequestRestart(c) ==
    \E d \in InStatus(row, {"FAILED", "CANCELLED"}) :
    /\ Serve(c, "restart")
    /\ Become(c, [Idle EXCEPT !.at = "restarting", !.d = d, !.it[d] = row[d]])
    /\ UNCHANGED <<row, mem, handle, monitor, lock, view, max, approved>>

RestartUnloads(c) ==
    /\ At(c, "restarting")
    /\ handle' = [handle EXCEPT ![Target(c)] = "none"]
    /\ Goto(c, "restartWrite")
    /\ UNCHANGED <<row, mem, monitor, lock, view, max, approved, bounds>>

RestartWrites(c) ==
    /\ At(c, "restartWrite")
    /\ Write(Target(c), [Item(c) EXCEPT !.st = "QUEUED"])
    /\ Finish(c)
    /\ UNCHANGED <<mem, handle, monitor, lock, view, max, approved, bounds>>

-----------------------------------------------------------------------------
(* recover_downloads, and the queue loop beside it, after a (re)start *)

BootRead ==
    /\ At(Boot, "recover")
    /\ slots' = {}
    /\ \E todo \in ByAge(Active(row) \ InStatus(row, {"PAUSED"})) :
        Become(Boot, [Idle EXCEPT !.at = "recoverItem", !.it = row, !.todo = todo])
    /\ UNCHANGED <<row, reserved, allowed, handle, monitor, lock, view, max, approved, bounds>>

\* Mutant: recovery leaves the status as it finds it.
BootKeepsStatus ==
    LET d == Head(proc[Boot].todo)
        r == proc[Boot].it[d]
    IN
    /\ At(Boot, "recoverItem")
    /\ proc[Boot].todo # << >>
    /\ Write(d, r)
    /\ allowed' = IF r.why = "user" THEN allowed \cup {d} ELSE allowed
    /\ Become(Boot, [proc[Boot] EXCEPT !.todo = Tail(@)])
    /\ UNCHANGED <<slots, reserved, handle, monitor, lock, view, max, approved, bounds>>

BootItem ==
    LET d == Head(proc[Boot].todo)
        r == proc[Boot].it[d]
    IN
    /\ At(Boot, "recoverItem")
    /\ proc[Boot].todo # << >>
    /\ Write(d, [r EXCEPT !.st = "QUEUED"])
    /\ allowed' = IF r.why = "user" THEN allowed \cup {d} ELSE allowed
    /\ Become(Boot, [proc[Boot] EXCEPT !.todo = Tail(@), !.it[d].st = "QUEUED"])
    /\ UNCHANGED <<slots, reserved, handle, monitor, lock, view, max, approved, bounds>>

\* The rows that may start, in the order they were recovered.
BootSelect ==
    LET kept == {d \in InStatus(proc[Boot].it, {"QUEUED"}) : CanStart(d, proc[Boot].it[d])}
    IN
    /\ At(Boot, "recoverItem")
    /\ proc[Boot].todo = << >>
    /\ \E todo \in ByAge(kept) :
        Become(Boot, [proc[Boot] EXCEPT !.at = "recoverStart", !.then = "recoverStart",
                                        !.todo = todo])
    /\ UNCHANGED <<row, mem, handle, monitor, lock, view, max, approved, bounds>>

\* A start that another process reserved counts as started.
BootStart ==
    LET s == [proc[Boot] EXCEPT !.d = Head(proc[Boot].todo), !.todo = Tail(@)] IN
    /\ At(Boot, "recoverStart")
    /\ proc[Boot].todo # << >> /\ proc[Boot].n < max
    /\ IF s.d \in reserved
       THEN Become(Boot, [s EXCEPT !.n = @ + 1]) /\ UNCHANGED reserved
       ELSE Start(Boot, s)
    /\ UNCHANGED <<row, slots, allowed, handle, monitor, lock, view, max, approved, bounds>>

BootDone ==
    /\ At(Boot, "recoverStart")
    /\ proc[Boot].todo = << >> \/ proc[Boot].n >= max
    /\ Finish(Boot)
    /\ UNCHANGED <<row, mem, handle, monitor, lock, view, max, approved, bounds>>

Crash ==
    /\ crashes < MaxCrashes
    /\ crashes' = crashes + 1
    /\ slots' = {} /\ reserved' = {} /\ allowed' = {}
    /\ handle' = [d \in Downloads |-> "none"]
    /\ mon' = [d \in Downloads |-> "off"]
    /\ seen' = NoRows /\ revived' = {} /\ orphaned' = {}
    /\ lock' = Nobody
    /\ view' = NoRows
    /\ proc' = [p \in Procs |-> IF p = Boot THEN [Idle EXCEPT !.at = "recover"] ELSE Idle]
    /\ UNCHANGED <<row, max, approved, requests>>

-----------------------------------------------------------------------------
(* DownloadStorageRecoveryService.run_loop *)

Unavailable(rows) == {d \in InStatus(rows, {"STALLED"}) : rows[d].why = "storage"}

StorageRead ==
    /\ At(Storage, "idle")
    /\ Unavailable(row) # {}
    /\ \E todo \in ByAge(Unavailable(row)) :
        Become(Storage, [Idle EXCEPT !.at = "storageItem", !.it = row, !.todo = todo])
    /\ UNCHANGED <<row, mem, handle, monitor, lock, view, max, approved, bounds>>

\* The path of the item is writable again, or the item is skipped.
StorageItem ==
    LET d == Head(proc[Storage].todo) IN
    /\ At(Storage, "storageItem")
    /\ proc[Storage].todo # << >>
    /\ \/ /\ Write(d, [proc[Storage].it[d] EXCEPT !.st = "QUEUED"])
          /\ Become(Storage, [proc[Storage] EXCEPT !.todo = Tail(@), !.n = 1])
       \/ /\ Become(Storage, [proc[Storage] EXCEPT !.todo = Tail(@)])
          /\ UNCHANGED row
    /\ UNCHANGED <<mem, handle, monitor, lock, view, max, approved, bounds>>

StorageDone ==
    /\ At(Storage, "storageItem")
    /\ proc[Storage].todo = << >>
    /\ IF proc[Storage].n > 0 THEN Goto(Storage, "enforce") ELSE Finish(Storage)
    /\ UNCHANGED <<row, mem, handle, monitor, lock, view, max, approved, bounds>>

-----------------------------------------------------------------------------
(* DownloadLifecycleMonitor.run, per download *)

Watch(d, stage) == mon' = [mon EXCEPT ![d] = stage] /\ UNCHANGED revived
Quiet == UNCHANGED <<reserved, allowed, lock, view, proc, max, approved, bounds>>

\* One pass of the progress loop stores the row as DOWNLOADING; telemetry apart,
\* it changes nothing when it already is.
MonProgress(d) ==
    /\ mon[d] = "run"
    /\ row[d].st # "DOWNLOADING"
    /\ Write(d, [row[d] EXCEPT !.st = "DOWNLOADING"])
    /\ UNCHANGED <<slots, handle, monitor>>
    /\ Quiet

\* The content is complete, no byte moves, or the handle raises.  The monitor
\* reads the row and goes on with that snapshot.
MonReads(d, stage) ==
    /\ mon[d] = "run"
    /\ Watch(d, stage)
    /\ seen' = [seen EXCEPT ![d] = row[d]]
    /\ UNCHANGED <<row, slots, handle>>
    /\ Quiet

MonFinishes(d) == "finish" \in Events /\ MonReads(d, "finishing")
MonStalls(d) == "stall" \in Events /\ MonReads(d, "stalling")
MonRaises(d) == "monitor" \in Events /\ MonReads(d, "failing")

MonSeeds(d) ==
    /\ mon[d] = "finishing"
    /\ Write(d, [seen[d] EXCEPT !.st = "SEEDING", !.why = "other"])
    /\ slots' = slots \ {d}
    /\ Watch(d, "seeding")
    /\ seen' = [seen EXCEPT ![d] = NoRows[d]]
    /\ UNCHANGED handle
    /\ Quiet

\* The state machine refuses to stall a row that was not downloading.
MonParks(d) ==
    /\ mon[d] = "stalling"
    /\ IF seen[d].st \in {"DOWNLOADING", "STALLED"}
       THEN /\ Write(d, [seen[d] EXCEPT !.st = "STALLED", !.why = "other"])
            /\ slots' = slots \ {d}
            /\ Watch(d, "off")
            /\ seen' = [seen EXCEPT ![d] = NoRows[d]]
       ELSE /\ Watch(d, "failing")
            /\ seen' = [seen EXCEPT ![d] = row[d]]
            /\ UNCHANGED <<row, slots>>
    /\ handle' = [handle EXCEPT ![d] = IF @ = "none" THEN "none" ELSE "paused"]
    /\ Quiet

\* _mark_failed: slot and registry entry go, handle and reservation stay.
MonFails(d) ==
    /\ mon[d] = "failing"
    /\ Write(d, [seen[d] EXCEPT !.st = "FAILED", !.why = "other"])
    /\ slots' = slots \ {d}
    /\ Watch(d, "off")
    /\ seen' = [seen EXCEPT ![d] = NoRows[d]]
    /\ UNCHANGED handle
    /\ Quiet

\* The seeding policy is satisfied.
MonCompletes(d) ==
    /\ mon[d] = "seeding"
    /\ Write(d, [row[d] EXCEPT !.st = "COMPLETE", !.why = "other"])
    /\ Watch(d, "closing")
    /\ UNCHANGED <<slots, handle, seen>>
    /\ Quiet

MonCloses(d) ==
    /\ mon[d] = "closing"
    /\ handle' = [handle EXCEPT ![d] = "none"]
    /\ Watch(d, "off")
    /\ UNCHANGED <<row, slots, seen>>
    /\ Quiet

-----------------------------------------------------------------------------

StartStep(p) ==
    StartAdded(p) \/ StartWrites(p) \/ StartSpawns(p) \/ StartFails(p) \/ StartRaises(p)

PauseStep(p) == PauseRead(p) \/ PauseHandle(p) \/ PauseWrites(p) \/ PauseUnloads(p)

TestStep(p) ==
    \/ TestAllows(p) \/ TestGate(p) \/ TestVictim(p) \/ TestFreed(p)
    \/ TestStarts(p) \/ TestPolicy(p)

EnforceStep(p) == Lock(p) \/ EnforceSync(p) \/ EnforceCut(p) \/ EnforceNext(p)

LoopStep == LoopRead \/ LoopPick \/ LoopGate \/ LoopPreempted \/ StartStep(Loop) \/ PauseStep(Loop)

BootStep == BootRead \/ BootItem \/ BootSelect \/ BootStart \/ BootDone \/ StartStep(Boot)

StorageStep ==
    \/ StorageRead \/ StorageItem \/ StorageDone
    \/ EnforceStep(Storage) \/ PauseStep(Storage)

CallerStep(c) ==
    \/ AddWrites(c) \/ AddGate(c) \/ AddPolicy(c) \/ AddReleases(c)
    \/ ResumeAllows(c) \/ ResumeGate(c) \/ ResumeStarts(c) \/ ResumeRequeues(c)
    \/ ResumeWakes(c) \/ ResumeSpawns(c) \/ Unlock(c)
    \/ PriorityWrites(c) \/ TestStep(c)
    \/ CancelReads(c) \/ CancelWrites(c) \/ RestartUnloads(c) \/ RestartWrites(c)
    \/ EnforceStep(c) \/ StartStep(c) \/ PauseStep(c)

Request(c) ==
    \/ RequestAdd(c) \/ RequestPause(c) \/ RequestResume(c) \/ RequestMax(c)
    \/ RequestPriority(c) \/ RequestTest(c) \/ RequestCancel(c) \/ RequestRestart(c)

MonitorStep(d) ==
    \/ MonProgress(d) \/ MonFinishes(d) \/ MonStalls(d) \/ MonRaises(d)
    \/ MonSeeds(d) \/ MonParks(d) \/ MonFails(d) \/ MonCompletes(d) \/ MonCloses(d)

Next ==
    \/ LoopStep \/ BootStep \/ StorageStep \/ Crash
    \/ \E c \in Callers : Request(c) \/ CallerStep(c)
    \/ \E d \in Downloads : MonitorStep(d)

Spec == Init /\ [][Next]_vars

\* The event loop runs every ready coroutine, the database, the engine and the
\* waits with a timeout answer, and the loops wake up again; asyncio.Lock is
\* handed over in FIFO order, hence strong fairness for its waiters.  Nothing
\* is assumed of users, of torrents' progress or of crashes.
Fairness ==
    /\ WF_vars(LoopStep) /\ WF_vars(BootStep) /\ SF_vars(StorageStep)
    /\ \A c \in Callers : SF_vars(CallerStep(c))

FairSpec == Spec /\ Fairness

-----------------------------------------------------------------------------
(* Properties *)

Labels == {"idle", "pick", "gate", "preempted", "addPolicy", "resumeAllow", "cut", "nextVictim", "unlock", "release", "requeue",
           "unloading", "addGate", "resumeGate", "enforceSync", "waking", "awake",
           "resumeStart", "addWrite", "cancelling", "cancelWrite", "restarting",
           "restartWrite", "recover", "recoverItem", "recoverStart", "storageItem",
           "prioWrite", "testAllow", "testGate", "testVictim", "freed", "testStart",
           "testPolicy", "tested", "parking", "parked"}
              \cup StartLabels \cup PauseLabels \cup LockedLabels

\* Where an operation that is called goes on when it returns.
Returns == {"idle", "unlock", "release", "tested", "preempted", "freed", "nextVictim",
            "recoverStart"}

Process == [at : Labels, d : Downloads \cup {0}, it : [Downloads -> Row],
            todo : Seq(Downloads), then : Returns, n : Nat]

TypeOK ==
    /\ row \in [Downloads -> Row]
    /\ slots \subseteq Downloads /\ reserved \subseteq Downloads
    /\ allowed \subseteq Downloads /\ approved \subseteq Downloads
    /\ revived \subseteq Downloads /\ orphaned \subseteq Downloads
    /\ handle \in [Downloads -> {"none", "running", "paused"}]
    /\ mon \in [Downloads -> {"off", "run", "finishing", "stalling", "failing", "seeding",
                              "closing"}]
    /\ seen \in [Downloads -> Row]
    /\ lock \in Procs \cup {Nobody}
    /\ view \in [Downloads -> Row]
    /\ proc \in [Procs -> Process]
    /\ max \in Limits
    /\ requests \in 0..MaxRequests /\ crashes \in 0..MaxCrashes

\* Nobody works on download d.
Settled(d) == \A p \in Procs : Target(p) # d

\* At most one process at a time is starting a download in the engine, however
\* loop, recovery, adds and resumes interleave ("concurrent callers cannot both
\* acquire it", reserve_start), unless the download is cancelled meanwhile: that
\* gives up the reservation of a start that goes on.
OneStartPerDownload == \A d \in Downloads \ orphaned : Cardinality(Starting(d)) <= 1

\* A row that says DOWNLOADING is watched: unless a process is at work on the
\* download or the program is still recovering, its monitor is alive.  Nothing
\* else would ever move such a row or free its slot.  A priority change that
\* stores the row it has read over a pause or a park leaves one that is not.
DownloadingIsMonitored ==
    \A d \in Downloading(row) \ revived : Settled(d) /\ At(Boot, "idle") => mon[d] # "off"

\* The limit is exceeded by two at most.  The queue loop starts without the
\* lock, so it may start a download beside a request for the same free slot;
\* and a synchronisation that stores the slots it read earlier makes the loop,
\* waiting for an item's policy, see a free slot once more.
LimitExceededByTwo == Cardinality(Downloading(row)) <= max + 2

\* No engine start without permission: only downloads the user asked for or
\* whose category allows automation are ever started, also after a restart
\* ("must not become implicitly user-approved forever", recover_downloads).
Permitted ==
    \A d \in Downloads : Starting(d) # {} \/ handle[d] # "none" => d \in AutoItems \cup approved

\* Every request that was accepted returns.
RequestsReturn == \A c \in Callers : ~At(c, "idle") ~> At(c, "idle")

\* downloader_lifecycle.py:43, "DownloadStatus.CANCELLED: set()": no transition
\* leaves CANCELLED (the run has no restart requests).
CancelledIsFinal ==
    [][\A d \in Downloads : row[d].st = "CANCELLED" => row'[d].st = "CANCELLED"]_vars

\* downloader_start_coordinator.py:97-99, "Failed starts and explicit lifecycle
\* resets must release it before a later attempt is allowed": a queued download
\* that may start does not wait for ever beside a free slot.
QueuedIsStarted ==
    \A d \in Downloads :
        ~<>[](/\ row[d].st = "QUEUED" /\ CanStart(d, row[d])
              /\ Cardinality(Downloading(row)) < max)

=============================================================================
