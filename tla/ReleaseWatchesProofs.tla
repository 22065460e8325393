------------------------- MODULE ReleaseWatchesProofs -------------------------
(***************************************************************************)
(* Proofs about ReleaseWatches, for any shows, episodes, releases, number  *)
(* of rebuilds, edits, events and crashes: its types, that a watch is only *)
(* completed with its episode present, and that an episode has one         *)
(* download at a time unless two callers added it together.                *)
(***************************************************************************)
EXTENDS ReleaseWatches, FiniteSetTheorems, TLAPS

SeekTypes ==
    [at : {"idle"}]
    \cup [at : {"check", "search", "nothing"}, unit : Units]
    \cup [at : {"policy", "add", "refused", "queued", "write"}, unit : Units, magnet : Magnets]

RowTypes == rows \in [Units -> [Magnets -> RowStatuses]]
WatchTypes == watch \in [Units -> [st : WatchStatuses, ripe : BOOLEAN, ends : BOOLEAN]]
SyncRecords == [at : {"idle", "start", "items", "upsert", "retire"}, left : SUBSET Shows, todo : SUBSET Units, drop : SUBSET Units]
SyncTypes == sync \in [Syncs -> SyncRecords]
PassTypes == pass \in [at : {"idle", "stale", "read", "recover", "due"}, todo : SUBSET Units, found : [Units -> {"live", "complete", "gone"}]]
SetTypes ==
    /\ tracked \subseteq Shows /\ auto \subseteq Shows
    /\ library \subseteq Units /\ over \subseteq Units /\ cancelling \subseteq Units /\ raced \subseteq Units
    /\ edits \in 0..MaxEdits /\ events \in 0..MaxEvents /\ troubles \in 0..MaxTroubles

Types == RowTypes /\ WatchTypes /\ SyncTypes /\ PassTypes /\ SetTypes /\ seek \in [Seekers -> SeekTypes]

\* What is completed has arrived: the watch, the download, and the download as
\* the pass of the retry job has seen it.
Present ==
    \A u \in Units :
        /\ watch[u].st = "completed" => u \in library
        /\ \A m \in Magnets : rows[u][m] \in {"linked", "seeding", "complete"} => u \in library
        /\ pass.found[u] = "complete" => u \in library

\* Between its look for a duplicate and its row, a caller is alone with an
\* episode that has no download, or the episode is a raced one.
Writers(u) == {d \in Seekers : SeekerAt(d, "write") /\ seek[d].unit = u}
OneWriter ==
    \A u \in Units \ raced :
        /\ \A d \in Writers(u), e \in Writers(u) : d = e
        /\ \A d \in Writers(u) : ~HasRow(u, Active \cup {"complete"})
        /\ \A m, n \in Magnets : rows[u][m] \in Active /\ rows[u][n] \in Active => m = n

IInv == Types /\ Present /\ OneWriter

-----------------------------------------------------------------------------

LEMMA InitHolds == Init => IInv
<1> SUFFICES ASSUME Init PROVE IInv
    OBVIOUS
<1> USE DiscoveryAssumption DEF Init, DiscoveryInit
<1>0. MaxEdits \in Nat /\ MaxEvents \in Nat /\ MaxTroubles \in Nat
      BY WatchAssumption
<1>1. RowTypes /\ WatchTypes
      BY DEF RowTypes, WatchTypes, RowStatuses, WatchStatuses, NoWatch, Active
<1>2. SyncTypes
  <2>1. NoSync \in SyncRecords /\ [NoSync EXCEPT !.at = "start"] \in SyncRecords
        BY DEF NoSync, SyncRecords
  <2>2. PICK s \in Syncs : sync = [r \in Syncs |-> [NoSync EXCEPT !.at = IF r = s THEN "start" ELSE "idle"]]
        OBVIOUS
  <2>3. [NoSync EXCEPT !.at = "idle"] \in SyncRecords
        BY DEF NoSync, SyncRecords
  <2>4. \A r \in Syncs : [NoSync EXCEPT !.at = IF r = s THEN "start" ELSE "idle"] \in SyncRecords
        BY <2>1, <2>3
  <2> QED BY <2>2, <2>4 DEF SyncTypes
<1>3. PassTypes
      BY DEF PassTypes, NoPass
<1>4. SetTypes
  <2>1. tracked \subseteq Shows /\ auto \subseteq Shows /\ library = {} /\ over = {} /\ cancelling = {} /\ raced = {}
        OBVIOUS
  <2>2. edits \in 0..MaxEdits /\ events \in 0..MaxEvents /\ troubles \in 0..MaxTroubles
        BY <1>0
  <2> QED BY <2>1, <2>2 DEF SetTypes
<1>5. Present
  <2>1. watch = [u \in Units |-> NoWatch] /\ rows = [u \in Units |-> [m \in Magnets |-> "none"]] /\ pass = NoPass
        OBVIOUS
  <2>2. NoWatch.st = "none" /\ NoPass.found = [u \in Units |-> "gone"]
        BY DEF NoWatch, NoPass
  <2> QED BY <2>1, <2>2 DEF Present
<1>7. seek \in [Seekers -> SeekTypes]
  <2>1. [at |-> "idle"] \in SeekTypes
        BY DEF SeekTypes
  <2> QED BY <2>1
<1>6. OneWriter
      BY DEF OneWriter, Writers, SeekerAt, Active, HasRow
<1> QED BY <1>1, <1>2, <1>3, <1>4, <1>5, <1>6, <1>7 DEF IInv, Types

\* The statements of the repository keep the types, and complete only the watch
\* they are given.
LEMMA SetStatusTypes ==
    ASSUME WatchTypes, NEW U \in SUBSET Units, NEW st \in WatchStatuses, SetStatus(U, st)
    PROVE  WatchTypes' /\ \A u \in Units : watch'[u].st \in {watch[u].st, st} /\ (u \notin U => watch'[u] = watch[u])
BY DEF WatchTypes, SetStatus, Exists, Statuses

LEMMA UpsertTypes ==
    ASSUME WatchTypes, NEW u \in Units, NEW ends \in BOOLEAN, Upsert(u, ends)
    PROVE  WatchTypes' /\ \A v \in Units : watch'[v].st \in {watch[v].st, "pending"}
BY DEF WatchTypes, Upsert, WatchStatuses, Retryable

\* A step that leaves the downloads and what was seen of them, and completes no
\* watch, keeps Present.
LEMMA PresentKept ==
    ASSUME IInv, UNCHANGED <<rows, library>>,
           \A u \in Units : watch'[u].st = "completed" => u \in library \/ watch[u].st = "completed",
           \A u \in Units : pass'.found[u] = "complete" => u \in library \/ pass.found[u] = "complete"
    PROVE  Present'
BY DEF IInv, Present

\* Callers that do not begin to write leave the writers alone.
LEMMA WritersKept ==
    ASSUME IInv, UNCHANGED <<rows, raced>>,
           \A d \in Seekers : seek'[d] = seek[d] \/ seek'[d].at # "write"
    PROVE  OneWriter'
<1>1. \A u \in Units : Writers(u)' \subseteq Writers(u)
      BY DEF Writers, SeekerAt
<1> QED BY <1>1 DEF IInv, OneWriter, HasRow

-----------------------------------------------------------------------------
(* The rebuilds of the plans and the edits *)

LEMMA RestTypes == ASSUME NEW S \in SUBSET Shows PROVE Rest(S) \in SyncRecords
BY DEF Rest, NoSync, SyncRecords

LEMMA SyncRunsHolds ==
    ASSUME IInv, NEW s \in Syncs, SyncRuns(s) \/ \E i \in Shows : GuideFails(s, i)
    PROVE  IInv'
<1> USE DEF SyncKeeps, discoveryVars
<1>1. UNCHANGED <<tracked, auto, library, rows, seek, raced, over, pass, cancelling, edits, events>>
      BY DEF SyncRuns, SyncStarts, BuildPlan, GuideFails, PlanIs, SyncUpserts, ListRetired, Retire
<1>2. troubles' \in 0..MaxTroubles
  <2>1. MaxTroubles \in Nat /\ troubles \in 0..MaxTroubles
        BY WatchAssumption DEF IInv, Types, SetTypes
  <2>2. CASE SyncRuns(s)
        BY <2>1, <2>2 DEF SyncRuns, SyncStarts, BuildPlan, SyncUpserts, ListRetired, Retire
  <2>3. CASE \E i \in Shows : GuideFails(s, i)
        BY <2>1, <2>3 DEF GuideFails, Spend
  <2> QED BY <2>2, <2>3
<1>3. sync[s] \in SyncRecords
      BY DEF IInv, Types, SyncTypes
<1>4. ASSUME NEW r \in SyncRecords, SyncTo(s, r) PROVE SyncTypes'
      BY <1>4 DEF SyncTo, IInv, Types, SyncTypes
<1>5. ASSUME SyncTypes', WatchTypes',
             \A u \in Units : watch'[u].st = "completed" => watch[u].st = "completed"
      PROVE  IInv'
  <2>1. Types'
        BY <1>1, <1>2, <1>5 DEF IInv, Types, RowTypes, PassTypes, SetTypes
  <2>2. Present' /\ OneWriter'
        BY <1>1, <1>5, PresentKept, WritersKept
  <2> QED BY <2>1, <2>2 DEF IInv
<1>6. CASE SyncStarts(s)
  <2>1. tracked \in SUBSET Shows
        BY DEF IInv, Types, SetTypes
  <2>2. SyncTypes'
        BY <2>1, <1>4, <1>6, RestTypes DEF SyncStarts
  <2> QED BY <2>2, <1>5, <1>6 DEF SyncStarts, IInv, Types, WatchTypes
<1>7. ASSUME NEW i \in Shows, BuildPlan(s, i) \/ GuideFails(s, i) PROVE IInv'
  <2>1. ASSUME NEW plan \in SUBSET Units, PlanIs(s, i, plan) PROVE IInv'
    <3>1. [at |-> "upsert", left |-> sync[s].left \ {i}, todo |-> plan, drop |-> OfShow(i) \ plan] \in SyncRecords
          BY <1>3 DEF SyncRecords, OfShow
    <3>2. SyncTypes'
          BY <2>1, <3>1, <1>4 DEF PlanIs
    <3> QED BY <3>2, <2>1, <1>5 DEF PlanIs, IInv, Types, WatchTypes
  <2>2. Wanted(i) \in SUBSET Units
        BY DEF Wanted, OfShow
  <2> QED BY <2>1, <2>2, <1>7 DEF BuildPlan, GuideFails
<1>8. ASSUME NEW u \in Units, SyncUpserts(s, u) PROVE IInv'
  <2>1. [sync[s] EXCEPT !.todo = @ \ {u}] \in SyncRecords
        BY <1>3 DEF SyncRecords
  <2>2. SyncTypes'
        BY <2>1, <1>4, <1>8 DEF SyncUpserts
  <2>3. WatchTypes' /\ \A v \in Units : watch'[v].st \in {watch[v].st, "pending"}
        BY <1>8, UpsertTypes DEF SyncUpserts, IInv, Types
  <2> QED BY <2>2, <2>3, <1>5
<1>9. CASE ListRetired(s)
  <2> DEFINE stale == {u \in sync[s].drop : Open(u)}
  <2>1. stale \in SUBSET Units /\ sync[s].left \in SUBSET Shows
        BY <1>3 DEF SyncRecords
  <2>2. [sync[s] EXCEPT !.at = "retire", !.drop = stale] \in SyncRecords
        BY <1>3, <2>1 DEF SyncRecords
  <2>3. SyncTypes'
        BY <2>1, <2>2, <1>4, <1>9, RestTypes DEF ListRetired
  <2> QED BY <2>3, <1>5, <1>9 DEF ListRetired, IInv, Types, WatchTypes
<1>10. ASSUME NEW u \in Units, Retire(s, u) PROVE IInv'
  <2>1. [sync[s] EXCEPT !.drop = @ \ {u}] \in SyncRecords /\ sync[s].left \in SUBSET Shows
        BY <1>3 DEF SyncRecords
  <2>2. SyncTypes'
        BY <2>1, <1>4, <1>10, RestTypes DEF Retire
  <2>3. WatchTypes' /\ \A v \in Units : watch'[v].st \in {watch[v].st, "cancelled"}
        BY <1>10, SetStatusTypes DEF Retire, IInv, Types, WatchStatuses, Terminal
  <2> QED BY <2>2, <2>3, <1>5
<1> QED BY <1>6, <1>7, <1>8, <1>9, <1>10 DEF SyncRuns

LEMMA EditHolds ==
    ASSUME IInv, NEW s \in Syncs, NEW i \in Shows, AddItem(s, i) \/ UpdateItem(s, i) \/ RemoveItem(s, i)
    PROVE  IInv'
<1>1. Edit(s)
      BY DEF AddItem, UpdateItem, RemoveItem
<1>2. tracked' \subseteq Shows /\ auto' \subseteq Shows
      BY DEF AddItem, UpdateItem, RemoveItem, IInv, Types, SetTypes
<1>3. SyncTypes'
  <2>1. [NoSync EXCEPT !.at = "start"] \in SyncRecords
        BY DEF NoSync, SyncRecords
  <2> QED BY <2>1, <1>1 DEF Edit, SyncTo, IInv, Types, SyncTypes
<1>4. edits' \in 0..MaxEdits
      BY <1>1, WatchAssumption DEF Edit, Spend, IInv, Types, SetTypes
<1>5. UNCHANGED <<library, rows, seek, raced, watch, over, pass, cancelling, events, troubles>>
      BY <1>1 DEF Edit
<1>6. Types'
      BY <1>2, <1>3, <1>4, <1>5 DEF IInv, Types, RowTypes, WatchTypes, PassTypes, SetTypes
<1>7. Present' /\ OneWriter'
      BY <1>5, PresentKept, WritersKept
<1> QED BY <1>6, <1>7 DEF IInv

LEMMA CancelWatchHolds ==
    ASSUME IInv, NEW u \in Units, CancelWatch(u)
    PROVE  IInv'
<1>1. UNCHANGED <<tracked, auto, library, rows, seek, raced, over, sync, pass, edits, events, troubles>>
      /\ cancelling' = cancelling \ {u}
      BY DEF CancelWatch, discoveryVars, Counters
<1>2. WatchTypes' /\ \A v \in Units : watch'[v].st \in {watch[v].st, "cancelled"}
      BY SetStatusTypes DEF CancelWatch, CancelUnit, IInv, Types, WatchStatuses, Terminal
<1>3. Types'
      BY <1>1, <1>2 DEF IInv, Types, RowTypes, SyncTypes, PassTypes, SetTypes
<1>4. Present' /\ OneWriter'
      BY <1>1, <1>2, PresentKept, WritersKept
<1> QED BY <1>3, <1>4 DEF IInv

-----------------------------------------------------------------------------
(* The pass of the retry job *)

\* What every step of a pass leaves alone, and what is left to show of it.
LEMMA PassStep ==
    ASSUME IInv, PassKeeps, troubles' \in 0..MaxTroubles, WatchTypes', PassTypes', seek' \in [Seekers -> SeekTypes],
           \A d \in Seekers : seek'[d] = seek[d] \/ seek'[d].at # "write",
           \A u \in Units : watch'[u].st = "completed" => u \in library \/ watch[u].st = "completed",
           \A u \in Units : pass'.found[u] = "complete" => u \in library \/ pass.found[u] = "complete"
    PROVE  IInv'
<1>1. UNCHANGED <<tracked, auto, library, rows, raced, over, sync, cancelling, edits, events>>
      BY DEF PassKeeps
<1>2. Types'
      BY <1>1 DEF IInv, Types, RowTypes, SyncTypes, SetTypes
<1>3. Present' /\ OneWriter'
      BY <1>1, PresentKept, WritersKept
<1> QED BY <1>2, <1>3 DEF IInv

LEMMA PassListsHold ==
    ASSUME IInv, \/ PassStarts \/ ListStale \/ ReadDownloads \/ ReadFails \/ ListDue \/ PassEnds
                 \/ \E u \in Units : Recover(u)
    PROVE  IInv'
<1>1. PassKeeps /\ seek' = seek
      BY DEF PassStarts, ListStale, ReadDownloads, ReadFails, ListDue, PassEnds, Recover
<1>2. seek' \in [Seekers -> SeekTypes]
      BY <1>1 DEF IInv, Types
<1>3. troubles' \in 0..MaxTroubles
  <2>1. MaxTroubles \in Nat /\ troubles \in 0..MaxTroubles
        BY WatchAssumption DEF IInv, Types, SetTypes
  <2>2. CASE ReadFails
        BY <2>1, <2>2 DEF ReadFails, Spend
  <2>3. CASE ~ReadFails
    <3>1. troubles' = troubles
          BY <2>3 DEF PassStarts, ListStale, ReadDownloads, ListDue, PassEnds, Recover
    <3> QED BY <3>1, <2>1
  <2> QED BY <2>2, <2>3
<1>4. PassTypes /\ WatchTypes /\ Present
      BY DEF IInv, Types
<1>5. ASSUME watch' = watch, PassTypes',
             \A u \in Units : pass'.found[u] = "complete" => u \in library \/ pass.found[u] = "complete"
      PROVE  IInv'
      BY <1>1, <1>2, <1>3, <1>4, <1>5, PassStep DEF WatchTypes
<1>6. CASE PassStarts
  <2>1. pass' = [at |-> "stale", todo |-> {}, found |-> [u \in Units |-> "gone"]]
        BY <1>6 DEF PassStarts, NoPass
  <2>2. WatchTypes' /\ \A u \in Units : watch'[u].st \in {watch[u].st, "expired"}
    <3>1. {u \in over \cap Statuses(Retryable) : watch[u].ends} \in SUBSET Units /\ "expired" \in WatchStatuses
          BY DEF Statuses, WatchStatuses, Terminal
    <3> QED BY <3>1, <1>4, <1>6, SetStatusTypes DEF PassStarts, ExpireOverdue
  <2>3. PassTypes' /\ \A u \in Units : pass'.found[u] = "gone"
        BY <2>1 DEF PassTypes
  <2> QED BY <2>2, <2>3, <1>1, <1>2, <1>3, PassStep
<1>7. CASE ListStale
  <2>1. StaleQueued \subseteq Units
        BY DEF StaleQueued, Statuses
  <2>2. PassTypes' /\ pass'.found = pass.found
        BY <2>1, <1>4, <1>7 DEF ListStale, PassTypes
  <2> QED BY <2>2, <1>5, <1>7 DEF ListStale
<1>8. CASE ReadDownloads
  <2> DEFINE seen == [u \in Units |-> IF u \in pass.todo THEN Found(u) ELSE "gone"]
  <2>1. \A u \in Units : Found(u) \in {"live", "complete", "gone"} /\ (Found(u) = "complete" => u \in library)
        BY <1>4 DEF Found, HasRow, Present
  <2>2. seen \in [Units -> {"live", "complete", "gone"}]
        BY <2>1
  <2>3. PassTypes' /\ pass'.found = seen
    <3> HIDE DEF seen
    <3> QED BY <2>2, <1>4, <1>8 DEF ReadDownloads, PassTypes, seen
  <2> QED BY <2>1, <2>3, <1>5, <1>8 DEF ReadDownloads
<1>9. CASE ReadFails
  <2>1. PassTypes' /\ pass'.found = pass.found
        BY <1>4, <1>9 DEF ReadFails, PassTypes
  <2> QED BY <2>1, <1>5, <1>9 DEF ReadFails
<1>10. CASE ListDue
  <2>1. Due \subseteq Units
        BY DEF Due, Statuses
  <2>2. PassTypes' /\ pass'.found = pass.found
        BY <2>1, <1>4, <1>10 DEF ListDue, PassTypes
  <2> QED BY <2>2, <1>5, <1>10 DEF ListDue
<1>11. CASE PassEnds
  <2>1. pass' = [at |-> "idle", todo |-> {}, found |-> [u \in Units |-> "gone"]]
        BY <1>11 DEF PassEnds, NoPass
  <2>2. PassTypes' /\ \A u \in Units : pass'.found[u] = "gone"
        BY <2>1 DEF PassTypes
  <2> QED BY <2>2, <1>5, <1>11 DEF PassEnds
<1>12. ASSUME NEW u \in Units, Recover(u) PROVE IInv'
  <2>1. pass' = [pass EXCEPT !.todo = @ \ {u}, !.found[u] = "gone"]
        BY <1>12 DEF Recover
  <2>2. PassTypes' /\ \A v \in Units : pass'.found[v] \in {pass.found[v], "gone"}
        BY <2>1, <1>4 DEF PassTypes
  <2>3. \/ watch' = watch
        \/ pass.found[u] = "complete" /\ CompleteWatch(u)
        \/ ResetToRetryable(u)
        BY <1>12 DEF Recover
  <2>4. WatchTypes' /\ \A v \in Units : watch'[v].st = "completed" => v \in library \/ watch[v].st = "completed"
    <3>1. CASE watch' = watch
          BY <3>1, <1>4 DEF WatchTypes
    <3>2. CASE pass.found[u] = "complete" /\ CompleteWatch(u)
      <4>1. u \in library /\ SetStatus({u}, "completed")
            BY <3>2, <1>4 DEF Present, CompleteWatch
      <4>2. WatchTypes /\ {u} \in SUBSET Units /\ "completed" \in WatchStatuses
            BY <1>4 DEF WatchStatuses, Terminal
      <4>3. WatchTypes' /\ \A v \in Units : watch'[v].st \in {watch[v].st, "completed"} /\ (v # u => watch'[v] = watch[v])
            BY <4>1, <4>2, SetStatusTypes
      <4> QED BY <4>1, <4>3
    <3>3. CASE ResetToRetryable(u)
          BY <3>3, <1>4, SetStatusTypes DEF ResetToRetryable, WatchStatuses, Retryable
    <3> QED BY <2>3, <3>1, <3>2, <3>3
  <2> QED BY <2>2, <2>4, <1>1, <1>2, <1>3, PassStep
<1> QED BY <1>6, <1>7, <1>8, <1>9, <1>10, <1>11, <1>12

\* One due row: closed, searched for, or answered by its search.
LEMMA DueHolds ==
    ASSUME IInv, NEW u \in Units,
           \/ ItemGone(u) \/ Take(u) \/ Satisfied(u) \/ SearchDisabled(u) \/ Search(u) \/ Queued(u) \/ Unsuccessful(u)
    PROVE  IInv'
<1>1. PassKeeps /\ troubles' = troubles
      BY DEF ItemGone, Take, Satisfied, SearchDisabled, Search, Queued, Unsuccessful, JobDone
<1>2. troubles' \in 0..MaxTroubles /\ "job" \in Seekers
      BY <1>1, WatchAssumption DEF IInv, Types, SetTypes
<1>3. PassTypes' /\ pass'.found = pass.found
      BY DEF ItemGone, Take, Satisfied, SearchDisabled, Search, Queued, Unsuccessful, JobDone, IInv, Types, PassTypes
<1>4. \E r \in SeekTypes : r.at # "write" /\ seek' = [seek EXCEPT !["job"] = r]
  <2>1. /\ [at |-> "idle"] \in SeekTypes
        /\ [at |-> "check", unit |-> u] \in SeekTypes
        /\ [at |-> "search", unit |-> u] \in SeekTypes
        BY DEF SeekTypes
  <2> QED BY <2>1 DEF ItemGone, Take, Satisfied, SearchDisabled, Search, Queued, Unsuccessful, JobDone, StartSearch
<1>5. seek' \in [Seekers -> SeekTypes] /\ \A d \in Seekers : seek'[d] = seek[d] \/ seek'[d].at # "write"
      BY <1>2, <1>4 DEF IInv, Types
<1>6. \/ watch' = watch
      \/ \E U \in SUBSET Units, st \in WatchStatuses : SetStatus(U, st) /\ (st # "completed" \/ U \subseteq library)
  <2>1. /\ {u} \in SUBSET Units /\ {u} \ Statuses({"completed", "expired"}) \in SUBSET Units
        /\ {"queued", "completed", "cancelled", "failed_retryable"} \subseteq WatchStatuses
        BY DEF WatchStatuses, Retryable, Terminal
  <2>2. CASE Take(u) \/ Search(u)
        BY <2>2 DEF Take, Search
  <2>3. CASE ItemGone(u)
        BY <2>1, <2>3 DEF ItemGone, RecordAttempt
  <2>4. CASE Satisfied(u)
        BY <2>1, <2>4 DEF Satisfied, CompleteWatch
  <2>5. CASE SearchDisabled(u)
        BY <2>1, <2>5 DEF SearchDisabled, CancelUnit
  <2>6. CASE Queued(u)
        BY <2>1, <2>6 DEF Queued, MarkQueued
  <2>7. CASE Unsuccessful(u)
        BY <2>1, <2>7 DEF Unsuccessful, RecordAttempt
  <2> QED BY <2>2, <2>3, <2>4, <2>5, <2>6, <2>7
<1>7. WatchTypes' /\ \A v \in Units : watch'[v].st = "completed" => v \in library \/ watch[v].st = "completed"
  <2>1. WatchTypes
        BY DEF IInv, Types
  <2>2. CASE watch' = watch
        BY <2>1, <2>2 DEF WatchTypes
  <2>3. ASSUME NEW U \in SUBSET Units, NEW st \in WatchStatuses, SetStatus(U, st), st # "completed" \/ U \subseteq library
        PROVE  WatchTypes' /\ \A v \in Units : watch'[v].st = "completed" => v \in library \/ watch[v].st = "completed"
        BY <2>1, <2>3, SetStatusTypes
  <2> QED BY <2>2, <2>3, <1>6
<1> QED BY <1>1, <1>2, <1>3, <1>5, <1>7, PassStep

-----------------------------------------------------------------------------
(* The other discoveries *)

LEMMA OtherHolds ==
    ASSUME IInv,
           \/ \E d \in Seekers : OtherEnds(d)
           \/ \E u \in Units : EventArrives(u) \/ CheckItem(u) \/ EventWatches(u) \/ EventQueued(u)
    PROVE  IInv'
<1>1. UNCHANGED <<tracked, auto, library, rows, raced, over, sync, pass, cancelling, edits, troubles>>
      BY DEF OtherKeeps, OtherEnds, EventArrives, CheckItem, EventWatches, EventQueued
<1>2. events' \in 0..MaxEvents
  <2>1. MaxEvents \in Nat /\ events \in 0..MaxEvents
        BY WatchAssumption DEF IInv, Types, SetTypes
  <2>2. events' = events \/ Spend(events, MaxEvents)
        BY DEF OtherEnds, EventArrives, CheckItem, EventWatches, EventQueued
  <2> QED BY <2>1, <2>2 DEF Spend
<1>3. \E d \in Seekers, r \in SeekTypes : r.at # "write" /\ seek' = [seek EXCEPT ![d] = r]
  <2>1. [at |-> "idle"] \in SeekTypes
        BY DEF SeekTypes
  <2>2. \A u \in Units : [at |-> "search", unit |-> u] \in SeekTypes /\ [at |-> "nothing", unit |-> u] \in SeekTypes
        BY DEF SeekTypes
  <2>3. "event" \in Seekers /\ "check" \in Seekers
        BY WatchAssumption
  <2>4. CASE \E d \in Seekers : OtherEnds(d)
        BY <2>1, <2>4 DEF OtherEnds
  <2>5. ASSUME NEW u \in Units, EventArrives(u) \/ CheckItem(u)
        PROVE  \E d \in Seekers, r \in SeekTypes : r.at # "write" /\ seek' = [seek EXCEPT ![d] = r]
        BY <2>2, <2>3, <2>5 DEF EventArrives, CheckItem, StartSearch
  <2>6. ASSUME NEW u \in Units, EventWatches(u) \/ EventQueued(u)
        PROVE  \E d \in Seekers, r \in SeekTypes : r.at # "write" /\ seek' = [seek EXCEPT ![d] = r]
        BY <2>1, <2>3, <2>6 DEF EventWatches, EventQueued
  <2> QED BY <2>4, <2>5, <2>6
<1>4. seek' \in [Seekers -> SeekTypes] /\ \A d \in Seekers : seek'[d] = seek[d] \/ seek'[d].at # "write"
      BY <1>3 DEF IInv, Types
<1>5. WatchTypes' /\ \A v \in Units : watch'[v].st = "completed" => watch[v].st = "completed"
  <2>1. WatchTypes
        BY DEF IInv, Types
  <2>2. ASSUME NEW u \in Units, EventWatches(u)
        PROVE  WatchTypes' /\ \A v \in Units : watch'[v].st = "completed" => watch[v].st = "completed"
        BY <2>1, <2>2, UpsertTypes DEF EventWatches
  <2>3. ASSUME NEW u \in Units, EventQueued(u)
        PROVE  WatchTypes' /\ \A v \in Units : watch'[v].st = "completed" => watch[v].st = "completed"
        BY <2>1, <2>3, SetStatusTypes DEF EventQueued, MarkQueued, WatchStatuses
  <2>4. CASE watch' = watch
        BY <2>1, <2>4 DEF WatchTypes
  <2> QED BY <2>2, <2>3, <2>4 DEF OtherEnds, EventArrives, CheckItem
<1>6. Types'
      BY <1>1, <1>2, <1>4, <1>5 DEF IInv, Types, RowTypes, SyncTypes, PassTypes, SetTypes
<1>7. Present' /\ OneWriter'
      BY <1>1, <1>4, <1>5, PresentKept, WritersKept
<1> QED BY <1>6, <1>7 DEF IInv

-----------------------------------------------------------------------------
(* Discovery *)

\* A caller that moves on keeps its unit and, once it has one, its magnet.
LEMMA MoveTypes ==
    ASSUME Types, NEW d \in Seekers, NEW at,
           \/ SeekerAt(d, "search") /\ at = "nothing"
           \/ /\ seek[d].at \in {"policy", "add", "write"}
              /\ at \in {"policy", "add", "refused", "queued", "write"},
           MoveTo(d, at)
    PROVE  seek' \in [Seekers -> SeekTypes]
<1>1. seek[d] \in SeekTypes
      BY DEF Types
<1>2. [seek[d] EXCEPT !.at = at] \in SeekTypes
      BY <1>1 DEF SeekTypes, SeekerAt
<1> QED BY <1>2 DEF MoveTo, Types

\* The unit of a caller that is searching, and the magnet it has found.
LEMMA SeekerHas ==
    ASSUME Types, NEW d \in Seekers
    PROVE  /\ seek[d].at # "idle" => seek[d].unit \in Units
           /\ seek[d].at \in {"policy", "add", "refused", "queued", "write"} => seek[d].magnet \in Magnets \/ seek[d].at = "nothing"
<1>1. seek[d] \in SeekTypes
      BY DEF Types
<1> QED BY <1>1 DEF SeekTypes

\* The look for a duplicate lets in one writer at a time, or records the race.
LEMMA LookUpKeepsWriters ==
    ASSUME IInv, NEW d \in Seekers, LookUp(d)
    PROVE  OneWriter'
<1>0. PICK w : w = seek[d].unit
      OBVIOUS
<1>1. SeekerAt(d, "add") /\ rows' = rows
      BY DEF LookUp
<1>2. seek \in [Seekers -> SeekTypes]
      BY DEF IInv, Types
<1>3. CASE Duplicate(d)
  <2>1. MoveTo(d, "queued") /\ raced' = raced
        BY <1>3 DEF LookUp
  <2>2. \A e \in Seekers : seek'[e] = seek[e] \/ seek'[e].at # "write"
    <3>1. seek'[d].at = "queued"
          BY <1>1, <1>2, <2>1 DEF MoveTo, SeekTypes, SeekerAt
    <3>2. \A e \in Seekers : e # d => seek'[e] = seek[e]
          BY <1>2, <2>1 DEF MoveTo
    <3> QED BY <3>1, <3>2
  <2> QED BY <1>1, <2>1, <2>2, WritersKept
<1>4. CASE ~Duplicate(d)
  <2>1. MoveTo(d, "write") /\ raced' = IF Rivals(d) # {} THEN raced \cup {w} ELSE raced
        BY <1>0, <1>4 DEF LookUp
  <2>2. \A e \in Seekers : (e # d => seek'[e] = seek[e]) /\ seek'[d].unit = w
        BY <1>0, <1>1, <1>2, <2>1 DEF MoveTo, SeekTypes, SeekerAt
  <2>3. \A u \in Units : u # w => Writers(u)' = Writers(u)
    <3>1. \A u \in Units : d \notin Writers(u)
          BY <1>1 DEF Writers, SeekerAt
    <3> QED BY <2>2, <3>1 DEF Writers, SeekerAt
  <2>4. w \notin raced' => Writers(w)' \subseteq {d}
        BY <1>0, <2>1, <2>2 DEF Writers, SeekerAt, Rivals
  <2>5. ~HasRow(w, Active \cup {"complete"})
        BY <1>0, <1>4 DEF Duplicate
  <2>6. ASSUME NEW u \in Units, u \notin raced'
        PROVE  /\ \A e \in Writers(u)', f \in Writers(u)' : e = f
               /\ \A e \in Writers(u)' : ~HasRow(u, Active \cup {"complete"})
               /\ \A m, n \in Magnets : rows[u][m] \in Active /\ rows[u][n] \in Active => m = n
    <3>1. u \notin raced
          BY <2>1, <2>6
    <3>2. /\ \A e \in Writers(u), f \in Writers(u) : e = f
          /\ \A e \in Writers(u) : ~HasRow(u, Active \cup {"complete"})
          /\ \A m, n \in Magnets : rows[u][m] \in Active /\ rows[u][n] \in Active => m = n
          BY <3>1 DEF IInv, OneWriter
    <3>3. CASE u = w
      <4>1. Writers(u)' \subseteq {d} /\ ~HasRow(u, Active \cup {"complete"})
            BY <2>4, <2>5, <2>6, <3>3
      <4> QED BY <3>2, <4>1
    <3>4. CASE u # w
      <4>1. Writers(u)' = Writers(u)
            BY <2>3, <3>4
      <4> QED BY <3>2, <4>1
    <3> QED BY <3>3, <3>4
  <2> QED BY <1>1, <2>6 DEF OneWriter, HasRow
<1> QED BY <1>3, <1>4

LEMMA WriteKeepsWriters ==
    ASSUME IInv, NEW d \in Seekers, Write(d)
    PROVE  OneWriter'
<1> DEFINE w == seek[d].unit
           c == seek[d].magnet
<1>1. /\ SeekerAt(d, "write") /\ raced' = raced
      /\ rows' = [rows EXCEPT ![w][c] = "queued"]
      /\ MoveTo(d, "queued")
      BY DEF Write
<1>2. Types
      BY DEF IInv
<1>3. w \in Units /\ c \in Magnets
      BY <1>1, <1>2, SeekerHas DEF SeekerAt
<1>4. seek \in [Seekers -> SeekTypes] /\ rows \in [Units -> [Magnets -> RowStatuses]]
      BY <1>2 DEF Types, RowTypes
<1>5. \A u \in Units : Writers(u)' = Writers(u) \ {d}
  <2>1. seek'[d].at = "queued"
        BY <1>1, <1>4 DEF MoveTo, SeekTypes, SeekerAt
  <2>2. \A e \in Seekers : e # d => seek'[e] = seek[e]
        BY <1>1, <1>4 DEF MoveTo
  <2> QED BY <2>1, <2>2 DEF Writers, SeekerAt
<1>6. d \in Writers(w)
      BY <1>1 DEF Writers
<1>7. ASSUME NEW u \in Units, u \notin raced
      PROVE  /\ \A e \in Writers(u)', f \in Writers(u)' : e = f
             /\ \A e \in Writers(u)' : ~HasRow(u, Active \cup {"complete"})'
             /\ \A m, n \in Magnets : rows'[u][m] \in Active /\ rows'[u][n] \in Active => m = n
  <2>1. CASE u = w
    <3>1. d \in Writers(u) /\ \A e \in Writers(u) : e = d
          BY <1>6, <1>7, <2>1 DEF IInv, OneWriter
    <3>2. Writers(u)' = {}
          BY <1>5, <3>1
    <3>3. \A m \in Magnets : rows[u][m] \notin Active
          BY <1>7, <3>1 DEF IInv, OneWriter, HasRow
    <3>4. \A m \in Magnets : m # c => rows'[u][m] = rows[u][m]
          BY <1>1, <1>3, <1>4, <2>1
    <3> QED BY <3>2, <3>3, <3>4
  <2>2. CASE u # w
    <3>1. Writers(u)' = Writers(u) /\ rows'[u] = rows[u]
          BY <1>1, <1>4, <1>5, <2>2 DEF Writers
    <3> QED BY <1>7, <3>1 DEF IInv, OneWriter, HasRow
  <2> QED BY <2>1, <2>2
<1> QED BY <1>1, <1>7 DEF OneWriter

LEMMA DiscoversHolds ==
    ASSUME IInv, NEW d \in Seekers, Discovers(d)
    PROVE  IInv'
<1>1. UNCHANGED <<tracked, auto, library, watch, over, sync, pass, cancelling, edits, events, troubles>>
      BY DEF Discovers, Discover, watchVars, Counters, SearchFinds, SearchFails, Permit, AddRaises, LookUp, Write
<1>2. Types /\ seek[d] \in SeekTypes
      BY DEF IInv, Types
<1>3. seek' \in [Seekers -> SeekTypes]
  <2>1. ASSUME NEW m \in Magnets, SearchFinds(d, m) PROVE seek' \in [Seekers -> SeekTypes]
    <3>1. [at |-> "policy", unit |-> seek[d].unit, magnet |-> m] \in SeekTypes
          BY <1>2, <2>1, SeekerHas DEF SeekTypes, SearchFinds, SeekerAt
    <3> QED BY <1>2, <2>1, <3>1 DEF SearchFinds, Types
  <2>2. CASE SearchFails(d)
        BY <1>2, <2>2, MoveTypes DEF SearchFails
  <2>3. CASE Permit(d) \/ AddRaises(d)
        BY <1>2, <2>3, MoveTypes DEF Permit, AddRaises, SeekerAt
  <2>4. CASE LookUp(d) \/ Write(d)
        BY <1>2, <2>4, MoveTypes DEF LookUp, Write, SeekerAt
  <2> QED BY <2>1, <2>2, <2>3, <2>4 DEF Discovers, Discover
<1>4. rows' = rows \/ Write(d)
      BY DEF Discovers, Discover, SearchFinds, SearchFails, Permit, AddRaises, LookUp
<1>5. RowTypes' /\ \A u \in Units, m \in Magnets : rows'[u][m] \in {rows[u][m], "queued"}
  <2>1. rows \in [Units -> [Magnets -> RowStatuses]]
        BY <1>2 DEF Types, RowTypes
  <2>2. CASE rows' = rows
        BY <2>1, <2>2 DEF RowTypes
  <2>3. CASE Write(d)
    <3>1. seek[d].unit \in Units /\ seek[d].magnet \in Magnets
          BY <1>2, <2>3, SeekerHas DEF Write, SeekerAt
    <3> QED BY <2>1, <2>3, <3>1 DEF Write, RowTypes, RowStatuses, Active
  <2> QED BY <1>4, <2>2, <2>3
<1>6. raced' \subseteq Units
  <2>1. raced' = raced \/ (LookUp(d) /\ raced' \subseteq raced \cup {seek[d].unit})
        BY DEF Discovers, Discover, SearchFinds, SearchFails, Permit, AddRaises, LookUp, Write
  <2>2. LookUp(d) => seek[d].unit \in Units
        BY <1>2, SeekerHas DEF LookUp, SeekerAt
  <2> QED BY <1>2, <2>1, <2>2 DEF Types, SetTypes
<1>7. Types'
      BY <1>1, <1>2, <1>3, <1>5, <1>6 DEF Types, WatchTypes, SyncTypes, PassTypes, SetTypes
<1>8. Present'
      BY <1>1, <1>5 DEF IInv, Present
<1>9. OneWriter'
  <2>1. ASSUME NEW r, r.at # "write", seek' = [seek EXCEPT ![d] = r], UNCHANGED <<rows, raced>> PROVE OneWriter'
    <3>1. \A e \in Seekers : seek'[e] = seek[e] \/ seek'[e].at # "write"
          BY <1>2, <2>1 DEF Types
    <3> QED BY <2>1, <3>1, WritersKept
  <2>2. ASSUME NEW m \in Magnets, SearchFinds(d, m) PROVE OneWriter'
        BY <2>1, <2>2 DEF SearchFinds
  <2>3. ASSUME SearchFails(d) \/ Permit(d) \/ AddRaises(d) PROVE OneWriter'
    <3>1. \E at \in {"nothing", "add", "refused"} : MoveTo(d, at)
          BY <2>3 DEF SearchFails, Permit, AddRaises
    <3>2. UNCHANGED <<rows, raced>>
          BY <2>3 DEF SearchFails, Permit, AddRaises
    <3>3. \A e \in Seekers : seek'[e] = seek[e] \/ seek'[e].at # "write"
          BY <1>2, <3>1 DEF MoveTo, Types, SeekTypes
    <3> QED BY <3>2, <3>3, WritersKept
  <2> QED BY <2>2, <2>3, LookUpKeepsWriters, WriteKeepsWriters DEF Discovers, Discover
<1> QED BY <1>7, <1>8, <1>9 DEF IInv

-----------------------------------------------------------------------------
(* Downloads, time and crashes *)

\* A row that is active and moves on gives no caller a second download.
LEMMA RowMoves ==
    ASSUME IInv, NEW u \in Units, NEW m \in Magnets, NEW to \in RowStatuses,
           rows[u][m] \in Active, rows' = [rows EXCEPT ![u][m] = to], UNCHANGED <<seek, raced>>
    PROVE  RowTypes' /\ OneWriter'
<1>1. rows \in [Units -> [Magnets -> RowStatuses]]
      BY DEF IInv, Types, RowTypes
<1>2. RowTypes'
      BY <1>1 DEF RowTypes
<1>3. \A v \in Units : Writers(v)' = Writers(v)
      BY DEF Writers, SeekerAt
<1>4. \A v \in Units, n \in Magnets : rows'[v][n] # rows[v][n] => v = u /\ rows[v][n] \in Active
      BY <1>1
<1>5. ASSUME NEW v \in Units, v \notin raced
      PROVE  /\ \A d \in Writers(v)', e \in Writers(v)' : d = e
             /\ \A d \in Writers(v)' : ~HasRow(v, Active \cup {"complete"})'
             /\ \A n, o \in Magnets : rows'[v][n] \in Active /\ rows'[v][o] \in Active => n = o
  <2>1. \A d \in Writers(v), n \in Magnets : rows[v][n] \notin Active \cup {"complete"}
        BY <1>5 DEF IInv, OneWriter, HasRow
  <2>2. \A d \in Writers(v), n \in Magnets : rows'[v][n] = rows[v][n]
        BY <1>4, <2>1
  <2>3. \A n \in Magnets : rows'[v][n] \in Active => rows[v][n] \in Active
        BY <1>4
  <2>4. \A n, o \in Magnets : rows[v][n] \in Active /\ rows[v][o] \in Active => n = o
        BY <1>5 DEF IInv, OneWriter
  <2>5. \A d \in Writers(v), e \in Writers(v) : d = e
        BY <1>5 DEF IInv, OneWriter
  <2>6. \A d \in Writers(v) : ~HasRow(v, Active \cup {"complete"})'
        BY <2>1, <2>2 DEF HasRow
  <2>7. \A n, o \in Magnets : rows'[v][n] \in Active /\ rows'[v][o] \in Active => n = o
        BY <2>3, <2>4
  <2> QED BY <1>3, <2>5, <2>6, <2>7
<1>6. raced' = raced
      OBVIOUS
<1> QED BY <1>2, <1>5, <1>6 DEF OneWriter

LEMMA RowEndsHolds ==
    ASSUME IInv, NEW u \in Units, NEW m \in Magnets, RowEnds(u, m), UNCHANGED <<watchVars, Counters>>
    PROVE  IInv'
<1>1. UNCHANGED <<tracked, auto, seek, raced, watch, over, sync, pass, cancelling, edits, events, troubles>>
      BY DEF RowEnds, DownloadFails, DownloadReady, SeedingEnds, SetRow, watchVars, Counters
<1>2. \E to \in RowStatuses : rows[u][m] \in Active /\ rows' = [rows EXCEPT ![u][m] = to]
      BY DEF RowEnds, DownloadFails, DownloadReady, SeedingEnds, SetRow, Active, RowStatuses
<1>3. RowTypes' /\ OneWriter'
      BY <1>1, <1>2, RowMoves
<1>4. library' \subseteq Units /\ library \subseteq library'
      BY DEF RowEnds, DownloadFails, DownloadReady, SeedingEnds, SetRow, IInv, Types, SetTypes
<1>5. Types'
      BY <1>1, <1>3, <1>4 DEF IInv, Types, WatchTypes, SyncTypes, PassTypes, SetTypes
<1>6. \A v \in Units, n \in Magnets :
          rows'[v][n] = rows[v][n] \/ rows'[v][n] = "failed" \/ v \in library'
  <2>1. rows \in [Units -> [Magnets -> RowStatuses]]
        BY DEF IInv, Types, RowTypes
  <2>2. CASE DownloadFails(u, m)
        BY <2>1, <2>2 DEF DownloadFails, SetRow
  <2>3. CASE DownloadReady(u, m)
        BY <2>1, <2>3 DEF DownloadReady, SetRow
  <2>4. CASE SeedingEnds(u, m)
    <3>1. u \in library
          BY <2>4 DEF SeedingEnds, SetRow, IInv, Present
    <3> QED BY <2>1, <2>4, <3>1 DEF SeedingEnds, SetRow
  <2> QED BY <2>2, <2>3, <2>4 DEF RowEnds
<1>7. Present'
      BY <1>1, <1>4, <1>6 DEF IInv, Present
<1> QED BY <1>3, <1>5, <1>7 DEF IInv

LEMMA ImportCompletesHolds ==
    ASSUME IInv, NEW u \in Units, NEW m \in Magnets, ImportCompletes(u, m)
    PROVE  IInv'
<1>1. UNCHANGED <<tracked, auto, library, seek, raced, over, sync, pass, cancelling, edits, events, troubles>>
      BY DEF ImportCompletes, SetRow, Counters
<1>2. rows[u][m] = "linked" /\ rows' = [rows EXCEPT ![u][m] = "seeding"]
      BY DEF ImportCompletes, SetRow
<1>3. RowTypes' /\ OneWriter'
      BY <1>1, <1>2, RowMoves DEF Active, RowStatuses
<1>4. u \in library
      BY <1>2 DEF IInv, Present
<1>5. WatchTypes' /\ \A v \in Units : watch'[v].st = "completed" => v \in library
  <2>1. WatchTypes /\ {u} \in SUBSET Units /\ "completed" \in WatchStatuses
        BY DEF IInv, Types, WatchStatuses, Terminal
  <2>2. SetStatus({u}, "completed")
        BY DEF ImportCompletes, CompleteWatch
  <2>3. WatchTypes' /\ \A v \in Units : watch'[v].st \in {watch[v].st, "completed"} /\ (v \notin {u} => watch'[v] = watch[v])
        BY <2>1, <2>2, SetStatusTypes
  <2> QED BY <1>4, <2>3 DEF IInv, Present
<1>6. Types'
      BY <1>1, <1>3, <1>5 DEF IInv, Types, SyncTypes, PassTypes, SetTypes
<1>7. \A v \in Units, n \in Magnets : rows'[v][n] = rows[v][n] \/ v = u
      BY <1>2 DEF IInv, Types, RowTypes
<1>8. Present'
      BY <1>1, <1>4, <1>5, <1>7 DEF IInv, Present
<1> QED BY <1>3, <1>6, <1>8 DEF IInv

LEMMA CancelDownloadHolds ==
    ASSUME IInv, NEW u \in Units, NEW m \in Magnets, CancelDownload(u, m)
    PROVE  IInv'
<1>1. UNCHANGED <<tracked, auto, library, seek, raced, watch, over, sync, pass, events, troubles>>
      /\ cancelling' = cancelling \cup {u}
      BY DEF CancelDownload
<1>2. rows[u][m] \in Active /\ rows' = [rows EXCEPT ![u][m] = "cancelled"]
      BY DEF CancelDownload
<1>3. RowTypes' /\ OneWriter'
      BY <1>1, <1>2, RowMoves DEF RowStatuses
<1>4. edits' \in 0..MaxEdits
      BY WatchAssumption DEF CancelDownload, Spend, IInv, Types, SetTypes
<1>5. Types'
      BY <1>1, <1>3, <1>4 DEF IInv, Types, WatchTypes, SyncTypes, PassTypes, SetTypes
<1>6. \A v \in Units, n \in Magnets : rows'[v][n] \in {rows[v][n], "cancelled"}
      BY <1>2 DEF IInv, Types, RowTypes
<1>7. Present'
      BY <1>1, <1>6 DEF IInv, Present
<1> QED BY <1>3, <1>5, <1>7 DEF IInv

LEMMA TimeHolds ==
    ASSUME IInv, NEW u \in Units, Ripen(u) \/ WindowCloses(u)
    PROVE  IInv'
<1>1. UNCHANGED <<tracked, auto, library, rows, seek, raced, sync, pass, cancelling, edits, events, troubles>>
      BY DEF Ripen, WindowCloses, discoveryVars, Counters
<1>2. over' \subseteq Units
      BY DEF Ripen, WindowCloses, IInv, Types, SetTypes
<1>3. WatchTypes' /\ \A v \in Units : watch'[v].st = watch[v].st
      BY DEF Ripen, WindowCloses, IInv, Types, WatchTypes
<1>4. Types'
      BY <1>1, <1>2, <1>3 DEF IInv, Types, RowTypes, SyncTypes, PassTypes, SetTypes
<1>5. Present' /\ OneWriter'
      BY <1>1, <1>3, PresentKept, WritersKept
<1> QED BY <1>4, <1>5 DEF IInv

LEMMA CrashHolds ==
    ASSUME IInv, Crash
    PROVE  IInv'
<1>1. UNCHANGED <<tracked, auto, library, rows, raced, watch, over, edits, events>> /\ cancelling' = {}
      BY DEF Crash
<1>2. troubles' \in 0..MaxTroubles
      BY WatchAssumption DEF Crash, Spend, IInv, Types, SetTypes
<1>3. SyncTypes'
  <2>1. \A at \in {"start", "idle"} : [NoSync EXCEPT !.at = at] \in SyncRecords
        BY DEF NoSync, SyncRecords
  <2>2. PICK s \in Syncs : sync' = [r \in Syncs |-> [NoSync EXCEPT !.at = IF r = s THEN "start" ELSE "idle"]]
        BY DEF Crash
  <2>3. \A r \in Syncs : [NoSync EXCEPT !.at = IF r = s THEN "start" ELSE "idle"] \in SyncRecords
        BY <2>1
  <2> QED BY <2>2, <2>3 DEF SyncTypes
<1>4. PassTypes' /\ \A u \in Units : pass'.found[u] = "gone"
  <2>1. pass' = [at |-> "idle", todo |-> {}, found |-> [u \in Units |-> "gone"]]
        BY DEF Crash, NoPass
  <2> QED BY <2>1 DEF PassTypes
<1>5. seek' \in [Seekers -> SeekTypes] /\ \A d \in Seekers : seek'[d].at = "idle"
  <2>1. seek' = [d \in Seekers |-> [at |-> "idle"]] /\ [at |-> "idle"] \in SeekTypes
        BY DEF Crash, SeekTypes
  <2> QED BY <2>1
<1>6. Types'
      BY <1>1, <1>2, <1>3, <1>4, <1>5 DEF IInv, Types, RowTypes, WatchTypes, SetTypes
<1>7. Present' /\ OneWriter'
      BY <1>1, <1>4, <1>5, PresentKept, WritersKept
<1> QED BY <1>6, <1>7 DEF IInv

-----------------------------------------------------------------------------

LEMMA StepHolds == IInv /\ [Next]_vars => IInv'
<1> SUFFICES ASSUME IInv, [Next]_vars PROVE IInv'
    OBVIOUS
<1>1. CASE UNCHANGED vars
  <2>1. UNCHANGED <<tracked, auto, library, rows, seek, raced, watch, over, sync, pass, cancelling, edits, events, troubles>>
        BY <1>1 DEF vars, discoveryVars, watchVars
  <2>2. Types'
        BY <2>1 DEF IInv, Types, RowTypes, WatchTypes, SyncTypes, PassTypes, SetTypes
  <2>3. Present' /\ OneWriter'
        BY <2>1, PresentKept, WritersKept
  <2> QED BY <2>2, <2>3 DEF IInv
<1>2. ASSUME NEW s \in Syncs, SyncRuns(s) \/ \E i \in Shows : \/ GuideFails(s, i)
                                                           \/ AddItem(s, i) \/ UpdateItem(s, i) \/ RemoveItem(s, i)
      PROVE  IInv'
      BY <1>2, SyncRunsHolds, EditHolds
<1>3. CASE JobRuns \/ ReadFails
      BY <1>3, PassListsHold, DueHolds DEF JobRuns
<1>4. ASSUME NEW d \in Seekers, Discovers(d) \/ OtherEnds(d) PROVE IInv'
      BY <1>4, DiscoversHolds, OtherHolds
<1>5. ASSUME NEW u \in Units, \/ EventArrives(u) \/ CheckItem(u) \/ EventWatches(u) \/ EventQueued(u)
                              \/ CancelWatch(u) \/ Ripen(u) \/ WindowCloses(u)
      PROVE  IInv'
      BY <1>5, OtherHolds, CancelWatchHolds, TimeHolds
<1>6. ASSUME NEW u \in Units, NEW m \in Magnets,
             \/ CancelDownload(u, m) \/ ImportCompletes(u, m)
             \/ RowEnds(u, m) /\ UNCHANGED <<watchVars, Counters>>
      PROVE  IInv'
      BY <1>6, CancelDownloadHolds, ImportCompletesHolds, RowEndsHolds
<1>7. CASE Crash
      BY <1>7, CrashHolds
<1> QED BY <1>1, <1>2, <1>3, <1>4, <1>5, <1>6, <1>7 DEF Next

LEMMA Inductive == Spec => []IInv
<1> QED BY InitHolds, StepHolds, PTL DEF Spec

\* Every variable keeps to its type (the tables of repositories/release_watch.py
\* and repositories/download.py, and the callers of run_discovery).
THEOREM TypeCorrect == Spec => []TypeOK
<1>1. IInv => TypeOK
  <2> SUFFICES ASSUME IInv PROVE TypeOK
      OBVIOUS
  <2>1. pass.todo \subseteq Units /\ \A s \in Syncs : sync[s].left \subseteq Shows /\ sync[s].todo \cup sync[s].drop \subseteq Units
        BY DEF IInv, Types, PassTypes, SyncTypes, SyncRecords
  <2>2. \A d \in Seekers : seek[d].at # "idle" => seek[d].unit \in Units
        BY SeekerHas DEF IInv
  <2>3. RowTypes /\ WatchTypes /\ SetTypes
        BY DEF IInv, Types
  <2> QED BY <2>1, <2>2, <2>3 DEF TypeOK, RowTypes, WatchTypes, SetTypes
<1> QED BY <1>1, Inductive, PTL

\* A watch that process_release_watches(), the import or the recovery of queued
\* watches has completed is the watch of an episode that is in the library.
THEOREM CompletedMeansPresent == Spec => []CompletedIsPresent
<1>1. IInv => CompletedIsPresent
      BY DEF IInv, Present, CompletedIsPresent
<1> QED BY <1>1, Inductive, PTL

\* add_magnet() queues one download of an episode at a time, except for two
\* callers who look for a duplicate under the locks of different magnets.
THEOREM TwinsOnlyRaced == Spec => []TwinsWereRaced
<1>1. IInv => TwinsWereRaced
  <2> SUFFICES ASSUME IInv, NEW u \in Units \ raced
               PROVE  Cardinality({m \in Magnets : rows[u][m] \in Active}) <= 1
      BY DEF TwinsWereRaced
  <2> DEFINE twins == {m \in Magnets : rows[u][m] \in Active}
  <2>1. \A m, n \in twins : m = n
        BY DEF IInv, OneWriter
  <2>2. CASE twins = {}
        BY <2>2, FS_EmptySet
  <2>3. CASE twins # {}
    <3>1. PICK m \in twins : TRUE
          BY <2>3
    <3>2. twins = {m}
          BY <2>1, <3>1
    <3>3. Cardinality({m}) = 1
          BY FS_Singleton
    <3> HIDE DEF twins
    <3>4. Cardinality(twins) <= 1
          BY <3>2, <3>3
    <3> QED BY <3>4 DEF twins
  <2> QED BY <2>2, <2>3
<1> QED BY <1>1, Inductive, PTL
===============================================================================
