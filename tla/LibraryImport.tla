----------------------------- MODULE LibraryImport -----------------------------
(***************************************************************************)
(* From the staging folder into the library                                *)
(* (src/src/core/download_handler.py, with the callbacks of                *)
(* downloader_lifecycle.py, the repairs of downloader.py and the order of  *)
(* start-up in main.py).                                                   *)
(*                                                                         *)
(* When the content of a torrent is there, each of its files is linked, or *)
(* copied, into the library while the torrent seeds; when it has seeded    *)
(* enough, what is still missing in the library is moved there and the     *)
(* staging files are deleted.  After a start of the process a repair does  *)
(* the same beside the monitors it has just restarted.  Every worker       *)
(* writes back the whole row it has read.                                  *)
(*                                                                         *)
(* Left out: the category's own naming (a payload has one planned target), *)
(* sidecars, hooks, and the sharing mode that seeds from the library.      *)
(***************************************************************************)
EXTENDS Naturals, FiniteSets

CONSTANTS
    Torrents,
    Payloads,      \* files, whatever brings them into staging
    FilesOf,       \* the files of each torrent
    Linkable,      \* files whose library is on the filesystem of staging
    Main,          \* the task that starts the process
    MaxSlots,      \* the planned target and its numbered siblings: the code
                   \* tries 999 names
    MaxTroubles    \* bound: ends of the process and operations that fail

ASSUME ImportAssumption ==
    /\ Torrents # {} /\ Payloads # {}
    /\ FilesOf \in [Torrents -> SUBSET Payloads]
    /\ Linkable \subseteq Payloads
    /\ Main \notin Torrents
    /\ MaxSlots \in Nat \ {0}
    /\ MaxTroubles \in Nat

VARIABLES
    staging,       \* the payloads that are whole in the download folder
    library,       \* of each payload and name: "none", "part" or "whole"
    row,           \* the status and the organized paths of a torrent; 0 is none
    worker,        \* the monitors, named by their torrent, and the repair
    troubles,
    failed         \* history: payloads some copy of which has failed since the
                   \* process started

importVars == <<staging, library, row, worker, troubles, failed>>

Slots == 1..MaxSlots
Workers == Torrents \cup {Main}
Statuses == {"absent", "active", "seeding", "complete"}

Taken(p) == {k \in Slots : library[p][k] # "none"}
Filed(p) == \E k \in Slots : library[p][k] = "whole"

Row == [st : Statuses, org : [Payloads -> 0..MaxSlots]]
NoRow == [st |-> "absent", org |-> [p \in Payloads |-> 0]]
AnyTorrent == CHOOSE t \in Torrents : TRUE

\* at:     where the worker waits
\* t, item: the torrent it deals with, and the row as it has read it
\* todo:   the files it still has to import;  file, slot: the one it is at
\* moves:  whether it moves files, or only links them
\* then:   where it goes after the import
\* list, left: the rows start-up has read, those it has not dealt with
Off == [at |-> "off", t |-> AnyTorrent, item |-> NoRow, todo |-> {},
        file |-> CHOOSE p \in Payloads : TRUE, slot |-> 1, moves |-> FALSE,
        changed |-> FALSE, then |-> "off", list |-> [t \in Torrents |-> NoRow], left |-> {},
        phase |-> "none"]

WorkerState ==
    [at : {"off", "boot", "next", "start", "mark", "ready", "seed", "poll", "enough", "complete",
           "clean", "file", "place", "copy", "drop"},
     t : Torrents, item : Row, todo : SUBSET Payloads, file : Payloads, slot : Slots,
     moves : BOOLEAN, changed : BOOLEAN, then : {"off", "seed", "clean", "next"},
     list : [Torrents -> Row], left : SUBSET Torrents,
     phase : {"none", "recover", "promote", "repair"}]

\* Some torrents have been downloaded; their monitors are about to notice, or
\* the process starts.
ImportInit == \E added \in SUBSET Torrents :
    /\ staging = UNION {FilesOf[t] : t \in added}
    /\ library = [p \in Payloads |-> [k \in Slots |-> "none"]]
    /\ row = [t \in Torrents |-> IF t \in added THEN [NoRow EXCEPT !.st = "active"] ELSE NoRow]
    /\ worker \in {[w \in Workers |-> IF w = Main THEN [Off EXCEPT !.at = "boot"] ELSE Off],
                   [w \in Workers |-> IF w \in added THEN [Off EXCEPT !.at = "start", !.t = w] ELSE Off]}
    /\ troubles = 0
    /\ failed = {}

At(w, at) == worker[w].at = at
Goes(w, at) == worker' = [worker EXCEPT ![w].at = at]
Writes(t, item) == row' = [row EXCEPT ![t] = item]

-----------------------------------------------------------------------------
(* One file *)

\* Mutant: a target that holds the payload is not reused.
FirstFree(p) ==
    LET free == Slots \ Taken(p) IN
    IF free = {} THEN 0 ELSE CHOOSE k \in free : \A l \in free : k <= l

\* _unique_destination(): the planned name if it is free or holds the payload
\* (the sizes are equal), else the first sibling without a file; 0 if none is.
Destination(p) ==
    LET free == Slots \ Taken(p) IN
    IF 1 \in free \/ library[p][1] = "whole" THEN 1
    ELSE IF free = {} THEN 0 ELSE CHOOSE k \in free : \A l \in free : k <= l

\* ensure_destination() and os.link() refuse a name that has been taken since.
Occupied(p, k) == library[p][k] # "none"

Put(p, k, content) == library' = [library EXCEPT ![p][k] = content]

\* The files the worker has left that it has no path for and still finds.
Pending(w) == {p \in worker[w].todo : /\ worker[w].item.org[p] = 0
                                      /\ p \in staging
                                      /\ Destination(p) # 0}

\* The worker notes the path and goes on to the next file.
Recorded(w, p, k) == worker' = [worker EXCEPT ![w].at = "file", ![w].item.org[p] = k,
                                              ![w].todo = @ \ {p}, ![w].changed = TRUE]

\* The target is there already.  A move deletes the source, unless it is the
\* same file.
Reuse(w) ==
    \E p \in Pending(w) :
    /\ At(w, "file")
    /\ library[p][Destination(p)] = "whole"
    /\ staging' = IF worker[w].moves /\ p \notin Linkable THEN staging \ {p} ELSE staging
    /\ Recorded(w, p, Destination(p))
    /\ UNCHANGED <<library, row, troubles, failed>>

\* A thread is given the source and the name.
TakeFile(w) ==
    \E p \in Pending(w) :
    /\ At(w, "file")
    /\ library[p][Destination(p)] # "whole"
    /\ worker' = [worker EXCEPT ![w].at = "place", ![w].file = p, ![w].slot = Destination(p),
                                ![w].todo = @ \ {p}]
    /\ UNCHANGED <<staging, library, row, troubles, failed>>

\* On one filesystem a link or a rename is one step.
Link(w) ==
    LET p == worker[w].file IN
    /\ At(w, "place")
    /\ p \in staging \cap Linkable
    /\ ~Occupied(p, worker[w].slot)
    /\ Put(p, worker[w].slot, "whole")
    /\ staging' = IF worker[w].moves THEN staging \ {p} ELSE staging
    /\ Recorded(w, p, worker[w].slot)
    /\ UNCHANGED <<row, troubles, failed>>

\* Otherwise the payload is copied straight to its name.
StartCopy(w) ==
    LET p == worker[w].file IN
    /\ At(w, "place")
    /\ p \in staging \ Linkable
    /\ ~Occupied(p, worker[w].slot)
    /\ Put(p, worker[w].slot, "part")
    /\ Goes(w, "copy")
    /\ UNCHANGED <<staging, row, troubles, failed>>

\* Another worker was first.
Refused(w) ==
    /\ At(w, "place")
    /\ \/ worker[w].file \notin staging
       \/ Occupied(worker[w].file, worker[w].slot)
    /\ Goes(w, "file")
    /\ UNCHANGED <<staging, library, row, troubles, failed>>

EndCopy(w) ==
    LET p == worker[w].file IN
    /\ At(w, "copy")
    /\ Put(p, worker[w].slot, "whole")
    /\ IF worker[w].moves THEN Goes(w, "drop") ELSE Recorded(w, p, worker[w].slot)
    /\ UNCHANGED <<staging, row, troubles, failed>>

\* Mutant: the failure of a copy is not noticed.
CopyFailsUnseen(w) ==
    /\ At(w, "copy")
    /\ troubles < MaxTroubles
    /\ troubles' = troubles + 1
    /\ Recorded(w, worker[w].file, worker[w].slot)
    /\ failed' = failed \cup {worker[w].file}
    /\ UNCHANGED <<staging, library, row>>

\* The disk is full, the mount is gone: what has been written stays.
CopyFails(w) ==
    /\ At(w, "copy")
    /\ troubles < MaxTroubles
    /\ troubles' = troubles + 1
    /\ failed' = failed \cup {worker[w].file}
    /\ Goes(w, "file")
    /\ UNCHANGED <<staging, library, row>>

\* shutil.move() deletes the source after the copy.
DropSource(w) ==
    /\ At(w, "drop")
    /\ staging' = staging \ {worker[w].file}
    /\ Recorded(w, worker[w].file, worker[w].slot)
    /\ UNCHANGED <<library, row, troubles, failed>>

\* After the last file the row is written back, if any got a path.
Update(w) ==
    /\ At(w, "file")
    /\ Pending(w) = {}
    /\ IF worker[w].changed THEN Writes(worker[w].t, worker[w].item) ELSE UNCHANGED row
    /\ worker' = [worker EXCEPT ![w].at = worker[w].then, ![w].changed = FALSE]
    /\ UNCHANGED <<staging, library, troubles, failed>>

Import(w) ==
    \/ Reuse(w) \/ TakeFile(w) \/ Link(w) \/ StartCopy(w) \/ Refused(w)
    \/ EndCopy(w) \/ CopyFails(w) \/ DropSource(w) \/ Update(w)

-----------------------------------------------------------------------------
(* The monitor of a torrent *)

Reads(t, at) == worker' = [worker EXCEPT ![t].at = at, ![t].item = row[t]]

\* libtorrent checks the files and fetches those that are missing.
MonitorStarts(t) ==
    /\ At(t, "start")
    /\ staging' = staging \cup FilesOf[t]
    /\ Reads(t, "mark")
    /\ UNCHANGED <<library, row, troubles, failed>>

MarkSeeding(t) ==
    /\ At(t, "mark")
    /\ Writes(t, [worker[t].item EXCEPT !.st = "seeding"])
    /\ worker' = [worker EXCEPT ![t].at = "ready", ![t].then = "seed"]
    /\ UNCHANGED <<staging, library, troubles, failed>>

\* on_download_ready(): the monitor's, or that of a promotion at start-up.
Ready(w) ==
    /\ At(w, "ready")
    /\ worker' = [worker EXCEPT ![w].at = "file", ![w].item = row[worker[w].t],
                                ![w].todo = FilesOf[worker[w].t], ![w].moves = FALSE]
    /\ UNCHANGED <<staging, library, row, troubles, failed>>

SeedReads(t) ==
    /\ At(t, "seed")
    /\ Reads(t, "poll")
    /\ UNCHANGED <<staging, library, row, troubles, failed>>

SeedWrites(t) ==
    /\ At(t, "poll")
    /\ Writes(t, worker[t].item)
    /\ \/ Goes(t, "seed")
       \/ Goes(t, "enough")
    /\ UNCHANGED <<staging, library, troubles, failed>>

\* The policy says that it has seeded enough.
MarkComplete(t) ==
    /\ At(t, "enough")
    /\ Writes(t, [worker[t].item EXCEPT !.st = "complete"])
    /\ Goes(t, "complete")
    /\ UNCHANGED <<staging, library, troubles, failed>>

\* on_download_complete(): _organize_missing_staging_payloads() first ...
Complete(t) ==
    /\ At(t, "complete")
    /\ worker' = [worker EXCEPT ![t].at = "file", ![t].item = row[t], ![t].todo = FilesOf[t],
                                ![t].moves = TRUE, ![t].then = "clean"]
    /\ UNCHANGED <<staging, library, row, troubles, failed>>

\* Mutant: every file of the torrent is deleted.
CleanAll(t) ==
    /\ At(t, "clean")
    /\ staging' = staging \ FilesOf[t]
    /\ worker' = [worker EXCEPT ![t] = Off]
    /\ UNCHANGED <<library, row, troubles, failed>>

\* ... then the row is read again and the files that have a path are deleted.
Clean(t) ==
    /\ At(t, "clean")
    /\ staging' = staging \ {p \in FilesOf[t] : row[t].org[p] # 0}
    /\ worker' = [worker EXCEPT ![t] = Off]
    /\ UNCHANGED <<library, row, troubles, failed>>

Monitor(t) ==
    \/ MonitorStarts(t) \/ MarkSeeding(t) \/ Ready(t) \/ SeedReads(t) \/ SeedWrites(t)
    \/ MarkComplete(t) \/ Complete(t) \/ Clean(t)

-----------------------------------------------------------------------------
(* Start-up: recover_downloads(), reconcile_completed_downloads() and          *)
(* reconcile_completed_imports(), one after the other                          *)

NeedsImport(item, t) == \E p \in FilesOf[t] : item.org[p] = 0

\* Each begins with a list of rows and keeps those it is for.
Phase(phase, left) == worker' = [worker EXCEPT ![Main].at = "next", ![Main].phase = phase,
                                               ![Main].list = row, ![Main].left = left]

Boot ==
    /\ At(Main, "boot")
    /\ Phase("recover", {t \in Torrents : row[t].st \in {"active", "seeding"}})
    /\ UNCHANGED <<staging, library, row, troubles, failed>>

\* A row is queued, and its monitor restarted if automation or its user allow.
Recover(t) ==
    /\ At(Main, "next") /\ worker[Main].phase = "recover" /\ t \in worker[Main].left
    /\ Writes(t, [worker[Main].list[t] EXCEPT !.st = "active"])
    /\ \E runs \in BOOLEAN :
          worker' = [worker EXCEPT ![Main].left = @ \ {t}, ![t].t = t,
                                   ![t].at = IF runs THEN "start" ELSE "off"]
    /\ UNCHANGED <<staging, library, troubles, failed>>

PromotePhase ==
    /\ At(Main, "next") /\ worker[Main].phase = "recover" /\ worker[Main].left = {}
    /\ Phase("promote", {t \in Torrents : row[t].st = "active"})
    /\ UNCHANGED <<staging, library, row, troubles, failed>>

\* The content looks complete, and the ready callback is called for it.
Promote(t) ==
    /\ At(Main, "next") /\ worker[Main].phase = "promote" /\ t \in worker[Main].left
    /\ Writes(t, [worker[Main].list[t] EXCEPT !.st = "seeding"])
    /\ worker' = [worker EXCEPT ![Main].left = @ \ {t}, ![Main].t = t, ![Main].at = "ready",
                                ![Main].then = "next"]
    /\ UNCHANGED <<staging, library, troubles, failed>>

\* Mutant: only the rows that seed are repaired.
SeedingPhase ==
    /\ At(Main, "next") /\ worker[Main].phase = "promote" /\ worker[Main].left = {}
    /\ Phase("repair", {t \in Torrents : row[t].st = "seeding" /\ NeedsImport(row[t], t)})
    /\ UNCHANGED <<staging, library, row, troubles, failed>>

RepairPhase ==
    /\ At(Main, "next") /\ worker[Main].phase = "promote" /\ worker[Main].left = {}
    /\ Phase("repair", {t \in Torrents : row[t].st \in {"seeding", "complete"} /\ NeedsImport(row[t], t)})
    /\ UNCHANGED <<staging, library, row, troubles, failed>>

\* A seeding row is linked, a complete one moved, as the list has it.
Repair(t) ==
    /\ At(Main, "next") /\ worker[Main].phase = "repair" /\ t \in worker[Main].left
    /\ worker' = [worker EXCEPT ![Main].left = @ \ {t}, ![Main].t = t, ![Main].at = "file",
                                ![Main].item = worker[Main].list[t], ![Main].todo = FilesOf[t],
                                ![Main].moves = worker[Main].list[t].st = "complete",
                                ![Main].then = "next"]
    /\ UNCHANGED <<staging, library, row, troubles, failed>>

BootEnds ==
    /\ At(Main, "next") /\ worker[Main].phase = "repair" /\ worker[Main].left = {}
    /\ worker' = [worker EXCEPT ![Main] = Off]
    /\ UNCHANGED <<staging, library, row, troubles, failed>>

StartUp ==
    \/ Boot \/ PromotePhase \/ RepairPhase \/ BootEnds \/ Ready(Main)
    \/ \E t \in Torrents : Recover(t) \/ Promote(t) \/ Repair(t)

\* The process ends; a supervisor or its user starts it again.
ImportCrash ==
    /\ troubles < MaxTroubles
    /\ troubles' = troubles + 1
    /\ worker' = [w \in Workers |-> IF w = Main THEN [Off EXCEPT !.at = "boot"] ELSE Off]
    /\ failed' = {}
    /\ UNCHANGED <<staging, library, row>>

=============================================================================
