---------------------------- MODULE ReleaseWatches ----------------------------
(***************************************************************************)
(* The watches that keep background work looking for missing episodes      *)
(* (src/src/core/scheduler.py, repositories/release_watch.py).  A watch    *)
(* plan of each show is turned into rows whenever an item is added,        *)
(* changed or removed; a job retries the rows that are due; RSS matches    *)
(* and the periodic check of a show discover episodes beside it; imports   *)
(* complete the rows, and cancelling a download cancels them.  The rows    *)
(* are written from all these places, mostly without a look at the status  *)
(* they replace.                                                           *)
(***************************************************************************)
EXTENDS Discovery

CONSTANTS
    Syncs,         \* rebuilds of the watch plans that may run at a time
    MaxEdits,      \* bound: item edits and cancellations by the user
    MaxEvents,     \* bound: RSS matches and periodic checks
    MaxTroubles    \* bound: crashes and provider outages

ASSUME WatchAssumption ==
    /\ Seekers = {"job", "event", "check"}
    /\ {MaxEdits, MaxEvents, MaxTroubles} \subseteq Nat

VARIABLES
    watch,         \* the table release_watches
    over,          \* episodes whose window of release has ended
    sync,          \* the rebuilds in progress
    pass,          \* the pass of the retry job
    cancelling,    \* episodes whose download is cancelled, and watch not yet
    edits, events, troubles

watchVars == <<watch, over, sync, pass, cancelling>>
vars == <<discoveryVars, watchVars, edits, events, troubles>>

Retryable == {"pending", "failed_retryable"}
Terminal == {"completed", "cancelled", "expired"}
WatchStatuses == {"none", "queued"} \cup Retryable \cup Terminal

\* ripe: next_check_at has passed, or the row has been queued for 30 minutes;
\* ends: it has an expires_at
NoWatch == [st |-> "none", ripe |-> FALSE, ends |-> FALSE]
NoSync == [at |-> "idle", left |-> {}, todo |-> {}, drop |-> {}]
NoPass == [at |-> "idle", todo |-> {}, found |-> [u \in Units |-> "gone"]]

Init ==
    /\ DiscoveryInit
    /\ watch = [u \in Units |-> NoWatch]
    /\ over = {}
    /\ \E s \in Syncs : sync = [r \in Syncs |-> [NoSync EXCEPT !.at = IF r = s THEN "start" ELSE "idle"]]
    /\ pass = NoPass
    /\ cancelling = {}
    /\ edits = 0 /\ events = 0 /\ troubles = 0

-----------------------------------------------------------------------------
(* The statements of the repository *)

Statuses(st) == {u \in Units : watch[u].st \in st}
Exists == Units \ Statuses({"none"})
Open(u) == watch[u].st \in Retryable \cup {"queued"}

SetStatus(U, st) ==
    watch' = [u \in Units |-> IF u \in U \cap Exists THEN [watch[u] EXCEPT !.st = st, !.ripe = FALSE]
                              ELSE watch[u]]

\* The row is pending, whatever it was; it keeps its due time if it was
\* retryable.
Upsert(u, ends) ==
    watch' = [watch EXCEPT ![u] = [st |-> "pending",
                                   ripe |-> watch[u].st \in Retryable /\ watch[u].ripe,
                                   ends |-> ends]]

CompleteWatch(u) == SetStatus({u}, "completed")
MarkQueued(u) == SetStatus({u}, "queued")
RecordAttempt(u, st) == SetStatus({u}, st)
CancelUnit(u) == SetStatus({u} \ Statuses({"completed", "expired"}), "cancelled")
ResetToRetryable(u) == SetStatus({u} \cap Statuses({"queued"}), "failed_retryable")

ExpireOverdue == SetStatus({u \in over \cap Statuses(Retryable) : watch[u].ends}, "expired")
StaleQueued == {u \in Statuses({"queued"}) : watch[u].ripe}
Due == {u \in Statuses(Retryable) : watch[u].ripe /\ ~(u \in over /\ watch[u].ends)}

Counters == <<edits, events, troubles>>
Spend(budget, max) == budget < max /\ budget' = budget + 1

-----------------------------------------------------------------------------
(* sync_all_category_watch_policies() *)

SyncAt(s, at) == sync[s].at = at
SyncTo(s, next) == sync' = [sync EXCEPT ![s] = next]
SyncKeeps == UNCHANGED <<discoveryVars, over, pass, cancelling, edits, events>>

Rest(shows) == IF shows = {} THEN NoSync ELSE [NoSync EXCEPT !.at = "items", !.left = shows]

\* The list of shows is the one at the start, whoever is removed from it.
SyncStarts(s) ==
    /\ SyncAt(s, "start")
    /\ SyncTo(s, Rest(tracked))
    /\ SyncKeeps /\ UNCHANGED <<watch, troubles>>

OfShow(i) == {u \in Units : ShowOf[u] = i}
Wanted(i) == IF i \in auto THEN {u \in OfShow(i) : Frontier(u)} ELSE {}

PlanIs(s, i, plan) ==
    /\ SyncAt(s, "items")
    /\ i \in sync[s].left
    /\ SyncTo(s, [at |-> "upsert", left |-> sync[s].left \ {i}, todo |-> plan, drop |-> OfShow(i) \ plan])
    /\ SyncKeeps /\ UNCHANGED watch

BuildPlan(s, i) == PlanIs(s, i, Wanted(i)) /\ UNCHANGED troubles

\* The episode guide cannot be read: the plan has no episodes.
GuideFails(s, i) == PlanIs(s, i, {}) /\ Spend(troubles, MaxTroubles)

SyncUpserts(s, u) ==
    /\ SyncAt(s, "upsert")
    /\ u \in sync[s].todo
    /\ Upsert(u, TRUE)
    /\ SyncTo(s, [sync[s] EXCEPT !.todo = @ \ {u}])
    /\ SyncKeeps /\ UNCHANGED troubles

\* retire_missing_for_item() reads the rows ...
ListRetired(s) ==
    /\ SyncAt(s, "upsert")
    /\ sync[s].todo = {}
    /\ LET stale == {u \in sync[s].drop : Open(u)}
       IN  SyncTo(s, IF stale = {} THEN Rest(sync[s].left)
                     ELSE [sync[s] EXCEPT !.at = "retire", !.drop = stale])
    /\ SyncKeeps /\ UNCHANGED <<watch, troubles>>

\* ... and cancels them one by one, whatever they have become.
Retire(s, u) ==
    /\ SyncAt(s, "retire")
    /\ u \in sync[s].drop
    /\ SetStatus({u}, "cancelled")
    /\ SyncTo(s, IF sync[s].drop = {u} THEN Rest(sync[s].left)
                 ELSE [sync[s] EXCEPT !.drop = @ \ {u}])
    /\ SyncKeeps /\ UNCHANGED troubles

SyncRuns(s) ==
    \/ SyncStarts(s)
    \/ \E i \in Shows : BuildPlan(s, i)
    \/ \E u \in Units : SyncUpserts(s, u) \/ Retire(s, u)
    \/ ListRetired(s)

-----------------------------------------------------------------------------
(* What users do: each edit of an item rebuilds the plans *)

Edit(s) ==
    /\ SyncAt(s, "idle")
    /\ SyncTo(s, [NoSync EXCEPT !.at = "start"])
    /\ Spend(edits, MaxEdits)
    /\ UNCHANGED <<library, rows, seek, raced, watch, over, pass, cancelling, events, troubles>>

AddItem(s, i) ==
    /\ i \notin tracked
    /\ tracked' = tracked \cup {i}
    /\ auto' \in {auto \cup {i}, auto \ {i}}
    /\ Edit(s)

UpdateItem(s, i) ==
    /\ i \in tracked
    /\ auto' = IF i \in auto THEN auto \ {i} ELSE auto \cup {i}
    /\ UNCHANGED tracked
    /\ Edit(s)

RemoveItem(s, i) ==
    /\ i \in tracked
    /\ tracked' = tracked \ {i}
    /\ UNCHANGED auto
    /\ Edit(s)

\* The user cancels the download of an episode ...
CancelDownload(u, m) ==
    /\ rows[u][m] \in Active
    /\ rows' = [rows EXCEPT ![u][m] = "cancelled"]
    /\ cancelling' = cancelling \cup {u}
    /\ Spend(edits, MaxEdits)
    /\ UNCHANGED <<tracked, auto, library, seek, raced, watch, over, sync, pass, events, troubles>>

\* ... whose watch is to stop.
CancelWatch(u) ==
    /\ u \in cancelling
    /\ CancelUnit(u)
    /\ cancelling' = cancelling \ {u}
    /\ UNCHANGED <<discoveryVars, over, sync, pass, Counters>>

-----------------------------------------------------------------------------
(* process_release_watches() *)

PassAt(at) == pass.at = at
PassKeeps == UNCHANGED <<tracked, auto, library, rows, raced, over, sync, cancelling, edits, events>>

PassStarts ==
    /\ PassAt("idle")
    /\ ExpireOverdue
    /\ pass' = [NoPass EXCEPT !.at = "stale"]
    /\ PassKeeps /\ UNCHANGED <<seek, troubles>>

ListStale ==
    /\ PassAt("stale")
    /\ pass' = [pass EXCEPT !.at = IF StaleQueued = {} THEN "recover" ELSE "read", !.todo = StaleQueued]
    /\ PassKeeps /\ UNCHANGED <<watch, seek, troubles>>

\* Mutant: a row that failed or was cancelled counts as a finished download.
FoundEnded(u) == CASE Live(u) -> "live"
                   [] ~Live(u) /\ HasRow(u, {"complete", "failed", "cancelled"}) -> "complete"
                   [] OTHER -> "gone"

\* Mutant: any row of the episode counts as a download in progress.
FoundAnyRow(u) == IF HasRow(u, RowStatuses \ {"none"}) THEN "live" ELSE "gone"

Found(u) == CASE Live(u) -> "live"
              [] ~Live(u) /\ HasRow(u, {"complete"}) -> "complete"
              [] OTHER -> "gone"

ReadDownloads ==
    /\ PassAt("read")
    /\ pass' = [pass EXCEPT !.at = "recover",
                            !.found = [u \in Units |-> IF u \in pass.todo THEN Found(u) ELSE "gone"]]
    /\ PassKeeps /\ UNCHANGED <<watch, seek, troubles>>

\* The downloads cannot be read: nothing is recovered in this pass.
ReadFails ==
    /\ PassAt("read")
    /\ pass' = [pass EXCEPT !.at = "recover", !.todo = {}]
    /\ Spend(troubles, MaxTroubles)
    /\ PassKeeps /\ UNCHANGED <<watch, seek>>

Recover(u) ==
    /\ PassAt("recover")
    /\ u \in pass.todo
    /\ \/ pass.found[u] = "live" /\ UNCHANGED watch
       \/ pass.found[u] = "complete" /\ CompleteWatch(u)
       \/ pass.found[u] = "gone" /\ ResetToRetryable(u)
    /\ pass' = [pass EXCEPT !.todo = @ \ {u}, !.found[u] = "gone"]
    /\ PassKeeps /\ UNCHANGED <<seek, troubles>>

ListDue ==
    /\ PassAt("recover")
    /\ pass.todo = {}
    /\ pass' = [pass EXCEPT !.at = "due", !.todo = Due]
    /\ PassKeeps /\ UNCHANGED <<watch, seek, troubles>>

JobAt(at, u) == SeekerAt("job", at) /\ u = seek["job"].unit
JobDone(u) ==
    /\ pass' = [pass EXCEPT !.todo = @ \ {u}]
    /\ seek' = [seek EXCEPT !["job"] = [at |-> "idle"]]
    /\ PassKeeps /\ UNCHANGED troubles

\* Mutants: the row of an item that is gone, or of an episode that has arrived,
\* is passed over.
ItemGoneSkips(u) ==
    /\ PassAt("due") /\ SeekerAt("job", "idle")
    /\ u \in pass.todo
    /\ ShowOf[u] \notin tracked
    /\ UNCHANGED watch
    /\ JobDone(u)

SatisfiedSkips(u) ==
    /\ JobAt("check", u)
    /\ u \in library
    /\ UNCHANGED watch
    /\ JobDone(u)

\* The rows are the ones listed; whether the item is tracked is seen now.
ItemGone(u) ==
    /\ PassAt("due") /\ SeekerAt("job", "idle")
    /\ u \in pass.todo
    /\ ShowOf[u] \notin tracked
    /\ RecordAttempt(u, "cancelled")
    /\ JobDone(u)

Take(u) ==
    /\ PassAt("due") /\ SeekerAt("job", "idle")
    /\ u \in pass.todo
    /\ ShowOf[u] \in tracked
    /\ seek' = [seek EXCEPT !["job"] = [at |-> "check", unit |-> u]]
    /\ PassKeeps /\ UNCHANGED <<watch, pass, troubles>>

Satisfied(u) ==
    /\ JobAt("check", u)
    /\ u \in library
    /\ CompleteWatch(u)
    /\ JobDone(u)

SearchDisabled(u) ==
    /\ JobAt("check", u)
    /\ u \notin library
    /\ ShowOf[u] \notin auto
    /\ CancelUnit(u)
    /\ JobDone(u)

Search(u) ==
    /\ JobAt("check", u)
    /\ u \notin library
    /\ ShowOf[u] \in auto
    /\ StartSearch("job", u)
    /\ PassKeeps /\ UNCHANGED <<watch, pass, troubles>>

Queued(u) ==
    /\ JobAt("queued", u)
    /\ MarkQueued(u)
    /\ JobDone(u)

Unsuccessful(u) ==
    /\ JobAt("nothing", u) \/ JobAt("refused", u)
    /\ RecordAttempt(u, "failed_retryable")
    /\ JobDone(u)

PassEnds ==
    /\ PassAt("due") /\ SeekerAt("job", "idle")
    /\ pass.todo = {}
    /\ pass' = NoPass
    /\ PassKeeps /\ UNCHANGED <<watch, seek, troubles>>

JobRuns ==
    \/ PassStarts \/ ListStale \/ ReadDownloads \/ ListDue \/ PassEnds
    \/ \E u \in Units : \/ Recover(u) \/ ItemGone(u) \/ Take(u)
                        \/ Satisfied(u) \/ SearchDisabled(u) \/ Search(u)
                        \/ Queued(u) \/ Unsuccessful(u)

-----------------------------------------------------------------------------
(* Other discoveries: RSS matches (handle_release_event) and the periodic  *)
(* check of a show, which has no watch to write                            *)

OtherKeeps == UNCHANGED <<tracked, auto, library, rows, raced, over, sync, pass, cancelling, edits, troubles>>

Allows(u) == Allowed(u) /\ u \notin library

\* An RSS match is downloaded, or, if it is not what the user prefers, watched.
EventArrives(u) ==
    /\ SeekerAt("event", "idle")
    /\ Allows(u)
    /\ \/ Frontier(u) /\ StartSearch("event", u)
       \/ seek' = [seek EXCEPT !["event"] = [at |-> "nothing", unit |-> u]]
    /\ Spend(events, MaxEvents)
    /\ OtherKeeps /\ UNCHANGED watch

CheckItem(u) ==
    /\ SeekerAt("check", "idle")
    /\ Allows(u) /\ Frontier(u)
    /\ StartSearch("check", u)
    /\ Spend(events, MaxEvents)
    /\ OtherKeeps /\ UNCHANGED watch

\* The match has not led to a download: the watch is written anew, without an
\* end.
EventWatches(u) ==
    /\ SeekerAt("event", "nothing") /\ u = seek["event"].unit
    /\ Upsert(u, FALSE)
    /\ seek' = [seek EXCEPT !["event"] = [at |-> "idle"]]
    /\ OtherKeeps /\ UNCHANGED events

EventQueued(u) ==
    /\ SeekerAt("event", "queued") /\ u = seek["event"].unit
    /\ MarkQueued(u)
    /\ seek' = [seek EXCEPT !["event"] = [at |-> "idle"]]
    /\ OtherKeeps /\ UNCHANGED events

OtherEnds(d) ==
    /\ \/ d = "event" /\ SeekerAt(d, "refused")
       \/ d = "check" /\ seek[d].at \in {"nothing", "refused", "queued"}
    /\ seek' = [seek EXCEPT ![d] = [at |-> "idle"]]
    /\ OtherKeeps /\ UNCHANGED <<watch, events>>

-----------------------------------------------------------------------------
(* Downloads, time and crashes *)

\* _complete_release_watches_for_imported_unit()
ImportCompletes(u, m) ==
    /\ SetRow(u, m, "linked", "seeding")
    /\ CompleteWatch(u)
    /\ UNCHANGED <<library, over, sync, pass, cancelling, Counters>>

RowEnds(u, m) == DownloadFails(u, m) \/ DownloadReady(u, m) \/ SeedingEnds(u, m)

Ripen(u) ==
    /\ Open(u)
    /\ ~watch[u].ripe
    /\ watch' = [watch EXCEPT ![u].ripe = TRUE]
    /\ UNCHANGED <<discoveryVars, over, sync, pass, cancelling, Counters>>

WindowCloses(u) ==
    /\ over' = over \cup {u}
    /\ UNCHANGED <<discoveryVars, watch, sync, pass, cancelling, Counters>>

\* The plans are rebuilt at the next start.
Crash ==
    /\ Spend(troubles, MaxTroubles)
    /\ seek' = [d \in Seekers |-> [at |-> "idle"]]
    /\ pass' = NoPass
    /\ cancelling' = {}
    /\ \E s \in Syncs : sync' = [r \in Syncs |-> [NoSync EXCEPT !.at = IF r = s THEN "start" ELSE "idle"]]
    /\ UNCHANGED <<tracked, auto, library, rows, raced, watch, over, edits, events>>

Discovers(d) == Discover(d) /\ UNCHANGED <<watchVars, Counters>>

Next ==
    \/ \E s \in Syncs : \/ SyncRuns(s)
                        \/ \E i \in Shows : \/ GuideFails(s, i)
                                            \/ AddItem(s, i) \/ UpdateItem(s, i) \/ RemoveItem(s, i)
    \/ JobRuns \/ ReadFails
    \/ \E d \in Seekers : Discovers(d) \/ OtherEnds(d)
    \/ \E u \in Units :
          \/ EventArrives(u) \/ CheckItem(u) \/ EventWatches(u) \/ EventQueued(u)
          \/ CancelWatch(u) \/ Ripen(u) \/ WindowCloses(u)
          \/ \E m \in Magnets : \/ CancelDownload(u, m) \/ ImportCompletes(u, m)
                                \/ RowEnds(u, m) /\ UNCHANGED <<watchVars, Counters>>
    \/ Crash

OtherRuns(d) ==
    \/ Discovers(d)
    \/ OtherEnds(d)
    \/ d = "event" /\ \E u \in Units : EventWatches(u) \/ EventQueued(u)

\* A linked or seeding torrent of the episode moves on.
ImportRuns(u) ==
    \E m \in Magnets : ImportCompletes(u, m) \/ (SeedingEnds(u, m) /\ UNCHANGED <<watchVars, Counters>>)

\* The job runs for ever, time passes, and whatever has begun goes on: a
\* search returns, a rebuild and an import end, and so does seeding.
Fairness ==
    /\ WF_vars(JobRuns \/ Discovers("job"))
    /\ \A d \in Seekers \ {"job"} : WF_vars(OtherRuns(d))
    /\ \A s \in Syncs : WF_vars(SyncRuns(s))
    /\ \A u \in Units : WF_vars(Ripen(u)) /\ WF_vars(CancelWatch(u)) /\ WF_vars(ImportRuns(u))

Spec == Init /\ [][Next]_vars /\ Fairness

-----------------------------------------------------------------------------
(* Properties *)

\* Every variable keeps to its type.
TypeOK ==
    /\ tracked \subseteq Shows
    /\ auto \subseteq Shows
    /\ library \cup over \cup cancelling \cup raced \cup pass.todo \subseteq Units
    /\ rows \in [Units -> [Magnets -> RowStatuses]]
    /\ watch \in [Units -> [st : WatchStatuses, ripe : BOOLEAN, ends : BOOLEAN]]
    /\ \A s \in Syncs : sync[s].left \subseteq Shows /\ sync[s].todo \cup sync[s].drop \subseteq Units
    /\ \A d \in Seekers : seek[d].at # "idle" => seek[d].unit \in Units
    /\ edits \in 0..MaxEdits /\ events \in 0..MaxEvents /\ troubles \in 0..MaxTroubles

\* A watch is closed as completed only when the episode has arrived: from the
\* import, from the library, or from a queued watch whose download is complete.
CompletedIsPresent ==
    \A u \in Units : watch[u].st = "completed" => u \in library

\* An episode has at most one download that is not over, whatever becomes of
\* its watch meanwhile, unless two callers added it at the same time under
\* different magnets, whose locks do not exclude each other.
TwinsWereRaced ==
    \A u \in Units \ raced : Cardinality({m \in Magnets : rows[u][m] \in Active}) <= 1

Searched(u) == \E d \in Seekers : SeekerAt(d, "search") /\ seek[d].unit = u
Closed(u) == watch[u].st \in Terminal \cup {"none"}

\* A watch never gets stuck: as long as it is open and no download is active,
\* the episode is searched for again and again.
KeptTrying ==
    \A u \in Units : Open(u) ~> (Searched(u) \/ Closed(u) \/ Live(u))

\* Once an episode is in the library its watch is closed for good, although a
\* plan built before may open it again and a late answer call it queued; only
\* a second download of the episode may keep it open.
ClosedWhenPresent ==
    \A u \in Units : u \in library ~> [](Closed(u) \/ HasRow(u, {"queued"}))

\* An episode of a show that is not tracked or not automatic is not watched
\* for long, although a rebuild that began before still writes its rows.
ClosedWhenUnwanted ==
    \A u \in Units : ~Allowed(u) ~> (Allowed(u) \/ Closed(u) \/ Live(u))

=============================================================================
