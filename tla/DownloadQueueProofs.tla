------------------------- MODULE DownloadQueueProofs -------------------------
(***************************************************************************)
(* Proofs about DownloadQueue and DownloadHealth, for any downloads,       *)
(* callers, requests, events, tables and limits: their types, that no two  *)
(* processes start the same download until it is cancelled, that no        *)
(* download is started without permission, that one process at a time is   *)
(* in the lock of the queue, and that each download that is said to be     *)
(* transferring is watched.                                                *)
(***************************************************************************)
EXTENDS DownloadHealth, FiniteSetTheorems, TLAPS

-----------------------------------------------------------------------------
(* The invariants *)

\* At these labels a process works on no particular download.
PlainLabels == {"idle", "pick", "recover", "recoverItem", "recoverStart", "enforce",
                "enforceSync", "cut", "nextVictim", "storageItem"}

\* A process works on a download, and the loop that preempts and the test that
\* makes room remember for whom; recovery and storage go through lists of their own.
Carries(s) == s.at \in {"preempted", "freed"} \/ s.then \in {"preempted", "freed"}
ListLabels == {"recoverItem", "recoverStart", "storageItem"}

Sound(s) ==
    /\ s.at \notin PlainLabels => s.d \in Downloads
    /\ Carries(s) => s.todo # << >>
    /\ s.at \in ListLabels => ~Carries(s)

\* A process comes to these with a list or a row, or returns to them.
EntryLabels == {"addWrite", "preempted", "freed"} \cup ListLabels

ProcsSound == proc \in [Procs -> Process] /\ \A p \in Procs : Sound(proc[p])

TypeInv == TypeOK /\ ProcsSound

\* The downloads that may be started.
Cleared == AutoItems \cup approved

\* At these labels the start of a download has been decided.
ClearedLabels == StartLabels \cup {"resumeLock", "resumeGate", "resumeStart", "waking", "awake",
                                   "testLock", "testGate", "testVictim", "testStart", "testPolicy"}

\* Rows that name the user as their reason.
AskedRows(rows, cleared) == \A d \in Downloads : rows[d].why = "user" => d \in cleared

\* What a process is about to start may be started, and so may what it has put
\* off; its snapshots name the user only where the user has asked, but for the
\* row an add is about to store.
Good(s, cleared) ==
    /\ s.at \in ClearedLabels => s.d \in cleared
    /\ Carries(s) => Head(s.todo) \in cleared
    /\ s.at = "recoverStart" \/ s.then = "recoverStart" =>
          \A i \in 1..Len(s.todo) : s.todo[i] \in cleared
    /\ AskedRows(s.it, IF s.at = "addWrite" THEN cleared \cup {s.d} ELSE cleared)

ProcsGood == \A p \in Procs : Good(proc[p], Cleared)

\* The tables, the permissions and the handles.
TablesGood ==
    /\ allowed \subseteq Cleared
    /\ AskedRows(row, Cleared) /\ AskedRows(seen, Cleared) /\ AskedRows(view, Cleared)
    /\ \A d \in Downloads : handle[d] # "none" => d \in Cleared

PermitInv == ProcsGood /\ TablesGood

-----------------------------------------------------------------------------
(* Rows and processes *)

LEMMA NoRowsType == NoRows \in [Downloads -> Row] /\ \A d \in Downloads : NoRows[d].why = "other"
BY DEF NoRows, Row, Statuses, Priorities

LEMMA RowEdits ==
    ASSUME NEW r \in Row
    PROVE  /\ \A st \in Statuses : [r EXCEPT !.st = st] \in Row /\ [r EXCEPT !.st = st].why = r.why
           /\ \A prio \in Priorities :
                 [r EXCEPT !.prio = prio] \in Row /\ [r EXCEPT !.prio = prio].why = r.why
           /\ \A st \in Statuses, why \in {"user", "storage", "other"} :
                 /\ [r EXCEPT !.st = st, !.why = why] \in Row
                 /\ [r EXCEPT !.st = st, !.why = why].why = why
BY DEF Row

LEMMA Writes ==
    ASSUME TypeOK, NEW d \in Downloads, NEW r \in Row, Write(d, r)
    PROVE  row' \in [Downloads -> Row] /\ row'[d] = r /\ \A e \in Downloads \ {d} : row'[e] = row[e]
BY DEF Write, TypeOK

\* A write of a row that names the user only where the user has asked.
LEMMA WritesAsked ==
    ASSUME TypeOK, NEW d \in Downloads, NEW r \in Row, Write(d, r), AskedRows(row, Cleared),
           NEW cleared, Cleared \subseteq cleared, r.why = "user" => d \in cleared
    PROVE  AskedRows(row', cleared)
BY Writes DEF AskedRows

LEMMA AskedGrows ==
    ASSUME NEW rows, NEW c, NEW e, c \subseteq e, AskedRows(rows, c)
    PROVE  AskedRows(rows, e)
BY DEF AskedRows

LEMMA Singles ==
    ASSUME NEW d \in Downloads
    PROVE  <<d>> \in Seq(Downloads) /\ Head(<<d>>) = d /\ <<d>> # << >>
OBVIOUS

LEMMA LabelsAre ==
    /\ Returns \subseteq Labels /\ PlainLabels \subseteq Labels
    /\ StartLabels \cup PauseLabels \cup LockedLabels \subseteq Labels
BY DEF Labels, Returns, StartLabels, PauseLabels, LockedLabels, PlainLabels

LEMMA ReturnsAre == "addWrite" \notin Returns /\ Returns \cap ClearedLabels = {}
BY DEF Returns, ClearedLabels, StartLabels

LEMMA IdleType == Idle \in Process /\ Sound(Idle) /\ \A c : Good(Idle, c)
BY NoRowsType, LabelsAre
   DEF Idle, Process, PlainLabels, Returns, Sound, Carries, ListLabels, Good, ClearedLabels, StartLabels,
       AskedRows

LEMMA Working ==
    ASSUME ProcsSound, NEW p \in Procs
    PROVE  /\ proc[p] \in Process /\ Sound(proc[p])
           /\ proc[p].at \in Labels /\ proc[p].then \in Returns /\ proc[p].n \in Nat
           /\ proc[p].it \in [Downloads -> Row] /\ proc[p].todo \in Seq(Downloads)
           /\ proc[p].at \notin PlainLabels => Target(p) \in Downloads /\ Item(p) \in Row
BY DEF ProcsSound, Process, Sound, Target, Item

\* What a process works on is cleared.
LEMMA WorkingGood ==
    ASSUME ProcsSound, PermitInv, NEW p \in Procs
    PROVE  /\ Good(proc[p], Cleared)
           /\ proc[p].at \in ClearedLabels => Target(p) \in Cleared
           /\ proc[p].at # "addWrite" => AskedRows(proc[p].it, Cleared)
           /\ proc[p].at \notin PlainLabels \cup {"addWrite"} /\ Item(p).why = "user" => Target(p) \in Cleared
BY Working DEF PermitInv, ProcsGood, Good, Target, Item, AskedRows

-----------------------------------------------------------------------------
(* A process moves on *)

LEMMA GoodGrows ==
    ASSUME NEW s, NEW c, NEW e, c \subseteq e, Good(s, c)
    PROVE  Good(s, e)
BY DEF Good, AskedRows

LEMMA Turn ==
    ASSUME ProcsSound, NEW p \in Procs, NEW s \in Process, Sound(s), Become(p, s)
    PROVE  /\ ProcsSound'
           /\ proc'[p] = s
           /\ \A q \in Procs \ {p} : proc'[q] = proc[q]
           /\ ProcsGood /\ approved \subseteq approved' /\ Good(s, Cleared') => ProcsGood'
<1>1. /\ ProcsSound'
      /\ proc'[p] = s
      /\ \A q \in Procs \ {p} : proc'[q] = proc[q]
      BY DEF ProcsSound, Become, Sound
<1>2. ASSUME ProcsGood, approved \subseteq approved', Good(s, Cleared')
      PROVE  ProcsGood'
  <2>1. Cleared \subseteq Cleared'
        BY <1>2 DEF Cleared
  <2>2. \A q \in Procs : Good(proc'[q], Cleared')
        BY <1>1, <1>2, <2>1, GoodGrows DEF ProcsGood
  <2> QED BY <2>2 DEF ProcsGood
<1> QED BY <1>1, <1>2

\* A process goes to a label with what it works on.
LEMMA TurnTo ==
    ASSUME ProcsSound, NEW p \in Procs, NEW l \in Labels, Goto(p, l),
           proc[p].at \notin PlainLabels \/ l \in PlainLabels,
           l \notin EntryLabels \/ l = proc[p].then
    PROVE  /\ ProcsSound'
           /\ proc'[p] = IF l = "idle" THEN Idle ELSE [proc[p] EXCEPT !.at = l]
           /\ \A q \in Procs \ {p} : proc'[q] = proc[q]
           /\ /\ PermitInv /\ approved \subseteq approved'
              /\ l \in ClearedLabels => Target(p) \in Cleared'
              /\ proc[p].at = "addWrite" /\ Item(p).why = "user" => Target(p) \in Cleared'
              => ProcsGood'
<1> DEFINE s == IF l = "idle" THEN Idle ELSE [proc[p] EXCEPT !.at = l]
<1>1. proc[p] \in Process /\ Sound(proc[p])
      BY DEF ProcsSound
<1>2. s \in Process /\ Sound(s)
      BY <1>1, IdleType DEF Process, Sound, Carries, ListLabels, EntryLabels, PlainLabels
<1>3. Become(p, s)
      BY DEF Goto
<1>4. ASSUME PermitInv, approved \subseteq approved',
             l \in ClearedLabels => Target(p) \in Cleared',
             proc[p].at = "addWrite" /\ Item(p).why = "user" => Target(p) \in Cleared'
      PROVE  Good(s, Cleared')
  <2>1. Cleared \subseteq Cleared' /\ Good(proc[p], Cleared)
        BY <1>4 DEF Cleared, PermitInv, ProcsGood
  <2>2. CASE l = "idle"
        BY <2>2, IdleType
  <2>3. CASE l # "idle"
    <3>1. s \in Process /\ s.at = l /\ s.d = Target(p) /\ s.then = proc[p].then
          /\ s.todo = proc[p].todo /\ s.it = proc[p].it
          BY <1>1, <1>2, <2>3 DEF Process, Target
    <3>2. AskedRows(s.it, Cleared')
          BY <1>4, <2>1, <3>1 DEF Good, AskedRows, Item, Target
    <3>3. l # "addWrite"
          BY <1>1, ReturnsAre DEF EntryLabels, Process
    <3> QED BY <1>4, <2>1, <3>1, <3>2, <3>3 DEF Good, Carries, EntryLabels, ListLabels
  <2> QED BY <2>2, <2>3
<1> QED BY <1>2, <1>3, <1>4, Turn DEF PermitInv

\* A step that leaves the processes alone.
LEMMA NoTurn ==
    ASSUME ProcsSound, UNCHANGED <<proc, approved>>
    PROVE  ProcsSound' /\ (ProcsGood => ProcsGood')
BY DEF ProcsSound, ProcsGood, Cleared

-----------------------------------------------------------------------------
(* Starts *)

\* What every step of the program keeps.
Kept == TypeInv' /\ (PermitInv => PermitInv')

\* A process begins a start, or skips one that another process has reserved.
LEMMA Starts ==
    ASSUME TypeInv, NEW p \in Procs, NEW s \in Process, s.d \in Downloads,
           s.then \in {"preempted", "freed"} => s.todo # << >>, Start(p, s)
    PROVE  /\ ProcsSound' /\ reserved' \subseteq Downloads
           /\ /\ PermitInv /\ approved' = approved /\ s.d \in Cleared
              /\ s.then \in {"preempted", "freed"} => Head(s.todo) \in Cleared
              /\ s.then = "recoverStart" => \A i \in 1..Len(s.todo) : s.todo[i] \in Cleared
              /\ AskedRows(s.it, Cleared)
              => ProcsGood'
<1>1. ASSUME NEW l \in Labels, NEW u, u = [s EXCEPT !.at = l]
      PROVE  /\ u \in Process /\ u.at = l /\ u.d = s.d /\ u.then = s.then
             /\ u.todo = s.todo /\ u.it = s.it
      BY <1>1 DEF Process
<1>2. \A l \in Labels : /\ [s EXCEPT !.at = l] \in Process /\ [s EXCEPT !.at = l].at = l
                        /\ [s EXCEPT !.at = l].d = s.d /\ [s EXCEPT !.at = l].then = s.then
                        /\ [s EXCEPT !.at = l].todo = s.todo /\ [s EXCEPT !.at = l].it = s.it
      BY <1>1
<1>3. s.then \in Returns /\ s.then \in Labels /\ "adding" \in Labels /\ "adding" # "addWrite"
      BY LabelsAre DEF Process, StartLabels
<1>4. PICK u \in Process : Become(p, u) /\ (u = Idle \/ u = [s EXCEPT !.at = s.then]
                                              \/ u = [s EXCEPT !.at = "adding"])
      BY <1>2, <1>3, IdleType DEF Start
<1>5. Sound(u)
      BY <1>2, <1>3, <1>4, IdleType DEF Sound, Carries, ListLabels
<1>6. ASSUME s.d \in Cleared,
             s.then \in {"preempted", "freed"} => Head(s.todo) \in Cleared,
             s.then = "recoverStart" => \A i \in 1..Len(s.todo) : s.todo[i] \in Cleared,
             AskedRows(s.it, Cleared)
      PROVE  Good(u, Cleared)
  <2>1. CASE u = Idle
        BY <2>1, IdleType
  <2>2. CASE u = [s EXCEPT !.at = s.then]
        BY <1>2, <1>3, <1>6, <2>2, ReturnsAre DEF Good, Carries, ListLabels
  <2>3. CASE u = [s EXCEPT !.at = "adding"]
        BY <1>2, <1>3, <1>6, <2>3 DEF Good, Carries, ListLabels
  <2> QED BY <1>4, <2>1, <2>2, <2>3
<1>7. reserved' \subseteq Downloads
      BY DEF Start, TypeInv, TypeOK
<1> QED BY <1>4, <1>5, <1>6, <1>7, Turn DEF TypeInv, Cleared, PermitInv

LEMMA StartAddedKeeps ==
    ASSUME TypeInv, NEW p \in Procs, StartAdded(p)
    PROVE  Kept
<1> USE DEF StartAdded
<1>1. "added" \in Labels /\ proc[p].at \notin PlainLabels /\ proc[p].at \in ClearedLabels
      BY LabelsAre DEF StartLabels, At, PlainLabels, ClearedLabels
<1>2. ProcsSound' /\ (PermitInv => ProcsGood')
      BY <1>1, TurnTo, WorkingGood DEF TypeInv, At, Cleared, EntryLabels, ListLabels
<1>3. TypeOK'
      BY <1>2 DEF TypeInv, TypeOK, ProcsSound, mem, monitor, bounds
<1>4. PermitInv => TablesGood'
  <2> SUFFICES ASSUME PermitInv PROVE TablesGood'
      OBVIOUS
  <2>1. Target(p) \in Cleared
        BY <1>1, WorkingGood DEF TypeInv
  <2>2. \A d \in Downloads : handle'[d] # "none" => d \in Cleared
        BY <2>1 DEF PermitInv, TablesGood, TypeInv, TypeOK
  <2> QED BY <2>2 DEF PermitInv, TablesGood, Cleared, mem, monitor
<1> QED BY <1>2, <1>3, <1>4 DEF Kept, TypeInv, PermitInv

\* A step that writes one row and goes on.
LEMMA WriteKeeps ==
    ASSUME TypeInv, NEW d \in Downloads, NEW r \in Row, Write(d, r),
           slots' \subseteq Downloads, allowed' \subseteq allowed,
           mon' \in [Downloads -> {"off", "run", "finishing", "stalling", "failing", "seeding",
                                   "closing"}],
           seen' \in [Downloads -> Row],
           \A e \in Downloads : seen'[e] \in {seen[e], row[e], NoRows[e]}, revived' \subseteq Downloads,
           ProcsSound', UNCHANGED <<reserved, handle, lock, view, max, approved, bounds>>
    PROVE  /\ TypeInv'
           /\ PermitInv /\ ProcsGood' /\ (r.why = "user" => d \in Cleared) => PermitInv'
<1>1. TypeOK'
      BY Writes DEF TypeInv, TypeOK, ProcsSound, bounds
<1>2. ASSUME PermitInv, ProcsGood', r.why = "user" => d \in Cleared
      PROVE  PermitInv'
  <2>1. AskedRows(row', Cleared)
        BY <1>2, WritesAsked DEF TypeInv, PermitInv, TablesGood
  <2>2. AskedRows(seen', Cleared)
        BY <1>2, NoRowsType DEF PermitInv, TablesGood, AskedRows
  <2> QED BY <1>2, <2>1, <2>2 DEF PermitInv, TablesGood, Cleared, AskedRows
<1> QED BY <1>1, <1>2 DEF TypeInv

\* A step that brings no permission or handle into the tables, and no row but
\* one that names the user only where the user has asked.
LEMMA QuietKeeps ==
    ASSUME TypeInv, ProcsSound',
           slots' \subseteq Downloads, reserved' \subseteq Downloads, allowed' \subseteq allowed,
           row' \in [Downloads -> Row], seen' \in [Downloads -> Row], view' \in [Downloads -> Row],
           \A d \in Downloads :
               /\ \/ row'[d] \in {row[d], view[d]}
                  \/ PermitInv /\ row'[d].why = "user" => d \in Cleared
               /\ view'[d] \in {row[d], view[d], row'[d], NoRows[d]}
               /\ seen'[d] \in {seen[d], row[d], NoRows[d]},
           handle' \in [Downloads -> {"none", "running", "paused"}],
           \A d \in Downloads : handle[d] = "none" => handle'[d] = "none",
           mon' \in [Downloads -> {"off", "run", "finishing", "stalling", "failing", "seeding",
                                   "closing"}],
           lock' \in Procs \cup {Nobody}, max' \in Limits,
           revived' \subseteq Downloads, orphaned' \subseteq Downloads,
           requests' \in 0..MaxRequests, crashes' \in 0..MaxCrashes, UNCHANGED approved
    PROVE  TypeInv' /\ (PermitInv /\ ProcsGood' => PermitInv')
<1>1. TypeInv'
      BY DEF TypeInv, TypeOK, ProcsSound
<1>2. ASSUME PermitInv, ProcsGood'
      PROVE  PermitInv'
  <2>1. AskedRows(row', Cleared) /\ AskedRows(seen', Cleared) /\ AskedRows(view', Cleared)
        BY <1>2, NoRowsType DEF PermitInv, TablesGood, AskedRows
  <2>2. allowed' \subseteq Cleared
        BY <1>2 DEF PermitInv, TablesGood
  <2>3. \A d \in Downloads : handle'[d] # "none" => d \in Cleared
        BY <1>2 DEF PermitInv, TablesGood
  <2> QED BY <1>2, <2>1, <2>2, <2>3 DEF PermitInv, TablesGood, Cleared, AskedRows
<1> QED BY <1>1, <1>2

LEMMA StartWritesKeeps ==
    ASSUME TypeInv, NEW p \in Procs, StartWrites(p)
    PROVE  Kept
<1> USE DEF StartWrites
<1>1. "written" \in Labels /\ proc[p].at \notin PlainLabels /\ proc[p].at \in ClearedLabels
      BY LabelsAre DEF StartLabels, At, PlainLabels, ClearedLabels
<1>2. ProcsSound' /\ (PermitInv => ProcsGood')
      BY <1>1, TurnTo, WorkingGood DEF TypeInv, At, Cleared, EntryLabels, ListLabels
<1>3. Target(p) \in Downloads /\ Item(p) \in Row /\ (PermitInv => Target(p) \in Cleared)
      BY <1>1, Working, WorkingGood DEF TypeInv
<1>4. [Item(p) EXCEPT !.st = "DOWNLOADING"] \in Row
      BY <1>3, RowEdits DEF Statuses
<1> QED BY <1>2, <1>3, <1>4, WriteKeeps DEF Kept, TypeInv, TypeOK, mem, monitor

LEMMA StartSpawnsKeeps ==
    ASSUME TypeInv, NEW p \in Procs, StartSpawns(p)
    PROVE  Kept
<1> USE DEF StartSpawns
<1> DEFINE s == [proc[p] EXCEPT !.at = proc[p].then, !.n = @ + 1]
<1>1. /\ proc[p].at \notin PlainLabels /\ proc[p].at # "addWrite"
      /\ Target(p) \in Downloads /\ proc[p] \in Process /\ Sound(proc[p])
      /\ proc[p].then \in Returns \cap Labels
      BY Working, LabelsAre DEF TypeInv, At, PlainLabels
<1>2. /\ s \in Process /\ s.at = proc[p].then /\ s.d = proc[p].d /\ s.then = proc[p].then
      /\ s.todo = proc[p].todo /\ s.it = proc[p].it
  <2>1. s = [proc[p] EXCEPT !.at = proc[p].then, !.n = proc[p].n + 1] /\ proc[p].n + 1 \in Nat
        BY <1>1 DEF Process
  <2> HIDE DEF s
  <2> QED BY <1>1, <2>1 DEF Process
<1>3. Sound(s)
      BY <1>1, <1>2 DEF Sound, Carries, ListLabels, Target
<1>4. PermitInv => Good(s, Cleared)
      BY <1>1, <1>2, WorkingGood, ReturnsAre DEF Good, Carries, ListLabels, TypeInv
<1>5. ProcsSound' /\ (PermitInv => ProcsGood')
  <2>1. CASE p = Boot
        BY <1>2, <1>3, <1>4, <2>1, Turn DEF TypeInv, PermitInv, Cleared
  <2>2. CASE p # Boot
        BY <1>1, <2>2, TurnTo, ReturnsAre DEF TypeInv, PermitInv, At, EntryLabels, ListLabels
  <2> QED BY <2>1, <2>2
<1>6. /\ mon' \in [Downloads -> {"off", "run", "finishing", "stalling", "failing", "seeding",
                                 "closing"}]
      /\ seen' \in [Downloads -> Row] /\ \A d \in Downloads : seen'[d] \in {seen[d], NoRows[d]}
      /\ revived' \subseteq Downloads
      BY <1>1, NoRowsType DEF TypeInv, TypeOK, Monitored
<1> QED BY <1>1, <1>5, <1>6, QuietKeeps DEF Kept, TypeInv, TypeOK, PermitInv, monitor, bounds

LEMMA StartFailsKeeps ==
    ASSUME TypeInv, NEW p \in Procs, StartFails(p)
    PROVE  Kept
<1> USE DEF StartFails
<1>1. "failed" \in Labels /\ proc[p].at \notin PlainLabels /\ proc[p].at \in ClearedLabels
      BY LabelsAre DEF StartLabels, At, PlainLabels, ClearedLabels
<1>2. ProcsSound' /\ (PermitInv => ProcsGood')
      BY <1>1, TurnTo, WorkingGood DEF TypeInv, At, Cleared, EntryLabels, ListLabels
<1>3. Target(p) \in Downloads /\ Item(p) \in Row
      BY <1>1, Working DEF TypeInv
<1>4. PICK r \in Row : Write(Target(p), r) /\ r.why # "user"
      BY <1>3, RowEdits DEF Statuses
<1> QED BY <1>2, <1>3, <1>4, WriteKeeps DEF Kept, TypeInv, TypeOK, mem, monitor

LEMMA StartRaisesKeeps ==
    ASSUME TypeInv, NEW p \in Procs, StartRaises(p)
    PROVE  Kept
<1> USE DEF StartRaises
<1>1. /\ proc[p].at \notin PlainLabels /\ proc[p].at # "addWrite"
      /\ proc[p].then \in Returns \cap Labels
      /\ "requeue" \in Labels \ ClearedLabels
      BY Working, LabelsAre DEF TypeInv, At, PlainLabels, Labels, ClearedLabels, StartLabels
<1>2. Finish(p) \/ Goto(p, "requeue") \/ Goto(p, proc[p].then)
      OBVIOUS
<1>3. ProcsSound' /\ (PermitInv => ProcsGood')
  <2>1. CASE Finish(p)
        BY <2>1, IdleType, Turn DEF Finish, TypeInv, PermitInv
  <2>2. CASE Goto(p, "requeue")
        BY <1>1, <2>2, TurnTo DEF TypeInv, EntryLabels, ListLabels
  <2>3. CASE Goto(p, proc[p].then)
        BY <1>1, <2>3, TurnTo, ReturnsAre DEF TypeInv, EntryLabels, ListLabels
  <2> QED BY <1>2, <2>1, <2>2, <2>3
<1>4. lock' \in Procs \cup {Nobody}
      BY DEF TypeInv, TypeOK
<1> QED BY <1>3, <1>4, QuietKeeps DEF Kept, TypeInv, TypeOK, PermitInv, monitor, bounds

-----------------------------------------------------------------------------
(* Pauses *)

LEMMA MonitoredTypes ==
    ASSUME TypeInv, NEW d \in Downloads, NEW stage \in {"off", "run"}, Monitored(d, stage)
    PROVE  /\ mon' \in [Downloads -> {"off", "run", "finishing", "stalling", "failing",
                                      "seeding", "closing"}]
           /\ seen' \in [Downloads -> Row]
           /\ \A e \in Downloads : seen'[e] \in {seen[e], NoRows[e]}
           /\ revived' \subseteq Downloads
BY NoRowsType DEF Monitored, TypeInv, TypeOK

LEMMA PauseReadKeeps ==
    ASSUME TypeInv, NEW p \in Procs, PauseRead(p)
    PROVE  Kept
<1> USE DEF PauseRead
<1> DEFINE d == Target(p)
           s == [proc[p] EXCEPT !.at = "pausing", !.it[Target(p)] = row[Target(p)]]
<1>1. /\ proc[p].at \notin PlainLabels /\ proc[p].at \notin ClearedLabels \cup {"addWrite"}
      /\ proc[p].then \in Returns \cap Labels /\ d \in Downloads /\ row[d] \in Row
      /\ proc[p] \in Process /\ Sound(proc[p])
      /\ "pausing" \in Labels \ ClearedLabels
      BY Working, LabelsAre
         DEF TypeInv, TypeOK, At, PlainLabels, PauseLabels, ClearedLabels, StartLabels
<1>2. /\ s \in Process /\ s.at = "pausing" /\ s.d = proc[p].d /\ s.then = proc[p].then
      /\ s.todo = proc[p].todo /\ s.it = [proc[p].it EXCEPT ![d] = row[d]]
  <2>1. s = [proc[p] EXCEPT !.at = "pausing", !.it = [proc[p].it EXCEPT ![d] = row[d]]]
        BY <1>1 DEF Process
  <2>2. [proc[p].it EXCEPT ![d] = row[d]] \in [Downloads -> Row]
        BY <1>1 DEF Process
  <2> HIDE DEF s, d
  <2> QED BY <1>1, <2>1, <2>2 DEF Process
<1>3. Sound(s)
      BY <1>1, <1>2 DEF Sound, Carries, ListLabels, Target
<1>4. PermitInv => Good(s, Cleared)
  <2>1. SUFFICES ASSUME PermitInv PROVE Good(s, Cleared)
        OBVIOUS
  <2>2. Good(proc[p], Cleared) /\ AskedRows(row, Cleared)
        BY <2>1 DEF PermitInv, TablesGood, ProcsGood
  <2>3. AskedRows(s.it, Cleared)
        BY <1>1, <1>2, <2>2 DEF Good, AskedRows, Process
  <2> QED BY <1>1, <1>2, <2>2, <2>3 DEF Good, Carries, ListLabels
<1>5. ProcsSound' /\ (PermitInv => ProcsGood')
  <2>1. CASE Become(p, s)
        BY <1>2, <1>3, <1>4, <2>1, Turn DEF TypeInv, PermitInv, Cleared
  <2>2. CASE Goto(p, proc[p].then)
        BY <1>1, <2>2, TurnTo, ReturnsAre DEF TypeInv, EntryLabels, ListLabels
  <2> QED BY <2>1, <2>2
<1> QED BY <1>5, QuietKeeps DEF Kept, TypeInv, TypeOK, PermitInv, mem, monitor, bounds

LEMMA PauseHandleKeeps ==
    ASSUME TypeInv, NEW p \in Procs, PauseHandle(p)
    PROVE  Kept
<1> USE DEF PauseHandle
<1>1. /\ proc[p].at \notin PlainLabels /\ proc[p].at # "addWrite"
      /\ "paused" \in Labels \ ClearedLabels
      BY LabelsAre DEF At, PlainLabels, PauseLabels, ClearedLabels, StartLabels
<1>2. ProcsSound' /\ (PermitInv => ProcsGood')
      BY <1>1, TurnTo DEF TypeInv, EntryLabels, ListLabels
<1>3. /\ handle' \in [Downloads -> {"none", "running", "paused"}]
      /\ \A d \in Downloads : handle[d] = "none" => handle'[d] = "none"
      BY DEF TypeInv, TypeOK
<1> QED BY <1>2, <1>3, QuietKeeps DEF Kept, TypeInv, TypeOK, PermitInv, mem, monitor, bounds

LEMMA PauseWritesKeeps ==
    ASSUME TypeInv, NEW p \in Procs, PauseWrites(p)
    PROVE  Kept
<1> USE DEF PauseWrites
<1>1. /\ proc[p].at \notin PlainLabels \cup {"addWrite"}
      /\ "unloading" \in Labels \ ClearedLabels
      BY DEF At, PlainLabels, ClearedLabels, StartLabels, Labels
<1>2. ProcsSound' /\ (PermitInv => ProcsGood')
      BY <1>1, TurnTo, Turn, IdleType DEF TypeInv, Finish, PermitInv, EntryLabels, ListLabels
<1>3. Target(p) \in Downloads /\ Item(p) \in Row
      /\ (PermitInv /\ Item(p).why = "user" => Target(p) \in Cleared)
      BY <1>1, Working, WorkingGood DEF TypeInv
<1>4. PICK r \in Row : Write(Target(p), r) /\ r.why = Item(p).why
  <2> DEFINE st == IF Requeues(p) THEN "QUEUED" ELSE "PAUSED"
  <2>1. st \in Statuses /\ Write(Target(p), [Item(p) EXCEPT !.st = st])
        BY DEF Statuses
  <2> HIDE DEF st
  <2>2. /\ [Item(p) EXCEPT !.st = st] \in Row
        /\ [Item(p) EXCEPT !.st = st].why = Item(p).why
        BY <1>3, <2>1, RowEdits
  <2> QED BY <2>1, <2>2
<1>5. slots' \subseteq Downloads /\ allowed' \subseteq allowed
      BY DEF TypeInv, TypeOK
<1> QED BY <1>2, <1>3, <1>4, <1>5, MonitoredTypes, WriteKeeps DEF Kept, TypeInv, TypeOK

LEMMA PauseUnloadsKeeps ==
    ASSUME TypeInv, NEW p \in Procs, PauseUnloads(p)
    PROVE  Kept
<1> USE DEF PauseUnloads
<1>1. /\ proc[p].at \notin PlainLabels /\ proc[p].at # "addWrite"
      /\ proc[p].then \in Returns \cap Labels
      BY Working, LabelsAre DEF TypeInv, At, PlainLabels
<1>2. ProcsSound' /\ (PermitInv => ProcsGood')
      BY <1>1, TurnTo, ReturnsAre DEF TypeInv, EntryLabels, ListLabels
<1>3. /\ handle' \in [Downloads -> {"none", "running", "paused"}]
      /\ \A d \in Downloads : handle[d] = "none" => handle'[d] = "none"
      BY DEF TypeInv, TypeOK
<1> QED BY <1>2, <1>3, QuietKeeps DEF Kept, TypeInv, TypeOK, PermitInv, mem, monitor, bounds

-----------------------------------------------------------------------------
(* The queue loop *)

\* A permission is the user's or the item's.
LEMMA Clears ==
    ASSUME PermitInv, NEW d, NEW r,
           CanStart(d, r), r.why = "user" => d \in Cleared
    PROVE  d \in Cleared
BY DEF CanStart, UserApproved, PermitInv, TablesGood, Cleared

LEMMA LoopReadKeeps ==
    ASSUME TypeInv, LoopRead
    PROVE  Kept
<1> USE DEF LoopRead
<1> DEFINE s == [Idle EXCEPT !.at = "pick", !.it = row]
<1>1. /\ s \in Process /\ s.at = "pick" /\ s.then = "idle" /\ s.it = row /\ Loop \in Procs
      BY IdleType DEF TypeInv, TypeOK, Idle, Process, Labels, Procs
<1>2. Sound(s) /\ (PermitInv => Good(s, Cleared))
      BY <1>1 DEF Sound, Good, Carries, ListLabels, PlainLabels, ClearedLabels, StartLabels, PermitInv, TablesGood
<1>3. ProcsSound' /\ (PermitInv => ProcsGood')
      BY <1>1, <1>2, Turn DEF TypeInv, PermitInv, Cleared
<1> QED BY <1>3, QuietKeeps DEF Kept, TypeInv, TypeOK, PermitInv, mem, monitor, bounds

\* The victim is paused first, the head of the queue remembered.
LEMMA LoopDecidesKeeps ==
    ASSUME TypeInv, NEW next \in Downloads, NEW may, NEW free, LoopDecides(next, may, free),
           At(Loop, "pick") \/ At(Loop, "gate"), UNCHANGED approved
    PROVE  /\ ProcsSound' /\ reserved' \subseteq Downloads
           /\ PermitInv /\ (may => next \in Cleared) => ProcsGood'
<1>1. /\ Loop \in Procs /\ proc[Loop].at # "addWrite" /\ proc[Loop] \in Process
      /\ Sound(proc[Loop]) /\ "pauseRead" \in Labels \ ClearedLabels
      BY Working, LabelsAre DEF TypeInv, Procs, At, PauseLabels, ClearedLabels, StartLabels
<1>2. CASE may /\ Start(Loop, [proc[Loop] EXCEPT !.d = next])
  <2> DEFINE s == [proc[Loop] EXCEPT !.d = next]
  <2>1. /\ s \in Process /\ s.d = next /\ s.then = proc[Loop].then
        /\ s.todo = proc[Loop].todo /\ s.it = proc[Loop].it
        BY <1>1 DEF Process
  <2>2. s.then \in {"preempted", "freed"} => s.todo # << >>
        BY <1>1, <2>1 DEF Sound, Carries, ListLabels
  <2>3. PermitInv /\ (may => next \in Cleared) =>
          /\ s.d \in Cleared
          /\ s.then \in {"preempted", "freed"} => Head(s.todo) \in Cleared
          /\ s.then = "recoverStart" => \A i \in 1..Len(s.todo) : s.todo[i] \in Cleared
          /\ AskedRows(s.it, Cleared)
        BY <1>1, <1>2, <2>1 DEF PermitInv, ProcsGood, Good, Carries, ListLabels
  <2> HIDE DEF s
  <2> QED BY <1>1, <1>2, <2>1, <2>2, <2>3, Starts DEF s
<1>3. CASE \E v \in Downloads :
             Become(Loop, [proc[Loop] EXCEPT !.at = "pauseRead", !.d = v,
                                             !.todo = <<next>>, !.then = "preempted"])
           /\ may /\ UNCHANGED reserved
  <2>1. PICK v \in Downloads :
             Become(Loop, [proc[Loop] EXCEPT !.at = "pauseRead", !.d = v,
                                             !.todo = <<next>>, !.then = "preempted"])
        BY <1>3
  <2> DEFINE s == [proc[Loop] EXCEPT !.at = "pauseRead", !.d = v,
                                     !.todo = <<next>>, !.then = "preempted"]
  <2>2. /\ s \in Process /\ s.at = "pauseRead" /\ s.d = v /\ s.then = "preempted"
        /\ s.todo = <<next>> /\ s.it = proc[Loop].it
    <3>1. <<next>> \in Seq(Downloads) /\ "preempted" \in Returns
          BY DEF Returns
    <3> QED BY <1>1, <3>1 DEF Process
  <2>3. Sound(s)
        BY <2>2 DEF Sound, Carries, ListLabels
  <2>4. PermitInv /\ next \in Cleared => Good(s, Cleared)
    <3>1. Head(s.todo) = next
          BY <2>2
    <3> QED BY <1>1, <2>2, <3>1 DEF PermitInv, ProcsGood, Good, Carries, ListLabels
  <2> HIDE DEF s
  <2> QED BY <1>1, <1>3, <2>1, <2>2, <2>3, <2>4, Turn DEF s, TypeInv, TypeOK, PermitInv, Cleared
<1>4. CASE Finish(Loop) /\ UNCHANGED reserved
      BY <1>1, <1>4, IdleType, Turn DEF Finish, TypeInv, TypeOK, PermitInv
<1> QED BY <1>2, <1>3, <1>4 DEF LoopDecides, Downloading, InStatus

LEMMA LoopPickKeeps ==
    ASSUME TypeInv, LoopPick
    PROVE  Kept
<1> USE DEF LoopPick
<1> DEFINE rows == proc[Loop].it
<1>1. /\ Loop \in Procs /\ proc[Loop].at # "addWrite" /\ proc[Loop] \in Process
      /\ Sound(proc[Loop]) /\ "gate" \in Labels \ (ClearedLabels \cup {"addWrite"})
      BY Working, LabelsAre DEF TypeInv, Procs, At, Labels, ClearedLabels, StartLabels
<1>2. PICK next \in InStatus(rows, {"QUEUED"}) :
          IF UserApproved(next, rows[next])
          THEN LoopDecides(next, TRUE, Cardinality(slots') < max)
          ELSE /\ Become(Loop, [proc[Loop] EXCEPT !.at = "gate", !.d = next])
               /\ UNCHANGED reserved
      OBVIOUS
<1>3. next \in Downloads
      BY DEF InStatus
<1>4. CASE UserApproved(next, rows[next])
  <2>1. PermitInv => next \in Cleared
        BY <1>1, <1>3, <1>4, Clears, WorkingGood DEF CanStart, TypeInv, AskedRows
  <2>2. ProcsSound' /\ reserved' \subseteq Downloads /\ (PermitInv => ProcsGood')
        BY <1>2, <1>3, <1>4, <2>1, LoopDecidesKeeps
  <2>3. slots' \subseteq Downloads
        BY DEF Downloading, InStatus
  <2> QED BY <2>2, <2>3, QuietKeeps DEF Kept, TypeInv, TypeOK, PermitInv, monitor, bounds
<1>5. CASE ~UserApproved(next, rows[next])
  <2> DEFINE s == [proc[Loop] EXCEPT !.at = "gate", !.d = next]
  <2>1. /\ s \in Process /\ s.at = "gate" /\ s.d = next /\ s.then = proc[Loop].then
        /\ s.todo = proc[Loop].todo /\ s.it = proc[Loop].it
        BY <1>1, <1>3 DEF Process
  <2>2. Sound(s)
        BY <1>1, <1>3, <2>1 DEF Sound, Carries, ListLabels
  <2>3. PermitInv => Good(s, Cleared)
        BY <1>1, <2>1 DEF PermitInv, ProcsGood, Good, Carries, ListLabels
  <2>4. Become(Loop, s) /\ UNCHANGED <<reserved, approved>>
        BY <1>2, <1>5
  <2> HIDE DEF s
  <2>5. ProcsSound' /\ (PermitInv => ProcsGood')
        BY <1>1, <2>1, <2>2, <2>3, <2>4, Turn DEF TypeInv, PermitInv, Cleared
  <2>6. slots' \subseteq Downloads
        BY DEF Downloading, InStatus
  <2> QED BY <2>4, <2>5, <2>6, QuietKeeps DEF Kept, TypeInv, TypeOK, PermitInv, monitor, bounds
<1> QED BY <1>4, <1>5

LEMMA LoopGateKeeps ==
    ASSUME TypeInv, LoopGate
    PROVE  Kept
<1> USE DEF LoopGate
<1>1. /\ Loop \in Procs /\ proc[Loop].at \notin PlainLabels \cup {"addWrite"}
      /\ Target(Loop) \in Downloads
      BY Working DEF TypeInv, Procs, At, PlainLabels
<1>2. PermitInv /\ CanStart(Target(Loop), Item(Loop)) => Target(Loop) \in Cleared
      BY <1>1, Clears, WorkingGood DEF TypeInv
<1>3. ProcsSound' /\ reserved' \subseteq Downloads /\ (PermitInv => ProcsGood')
      BY <1>1, <1>2, LoopDecidesKeeps
<1> QED BY <1>3, QuietKeeps DEF Kept, TypeInv, TypeOK, PermitInv, monitor, bounds

LEMMA LoopPreemptedKeeps ==
    ASSUME TypeInv, LoopPreempted
    PROVE  Kept
<1> USE DEF LoopPreempted
<1> DEFINE s == [proc[Loop] EXCEPT !.d = Head(proc[Loop].todo), !.todo = << >>, !.then = "idle"]
<1>1. /\ Loop \in Procs /\ proc[Loop].at # "addWrite" /\ proc[Loop] \in Process
      /\ proc[Loop].todo \in Seq(Downloads) /\ proc[Loop].todo # << >>
      BY Working DEF TypeInv, Procs, At, Sound, Carries, ListLabels
<1>2. Head(proc[Loop].todo) \in Downloads
      BY <1>1
<1>3. /\ s \in Process /\ s.d = Head(proc[Loop].todo) /\ s.then = "idle" /\ s.it = proc[Loop].it
  <2>1. << >> \in Seq(Downloads) /\ "idle" \in Returns
        BY DEF Returns
  <2> QED BY <1>1, <1>2, <2>1 DEF Process
<1>4. PermitInv => s.d \in Cleared /\ AskedRows(s.it, Cleared)
      BY <1>1, <1>3 DEF PermitInv, ProcsGood, Good, Carries, ListLabels, At
<1>5. Start(Loop, s) /\ UNCHANGED approved
      OBVIOUS
<1> HIDE DEF s
<1>6. ProcsSound' /\ reserved' \subseteq Downloads /\ (PermitInv => ProcsGood')
      BY <1>1, <1>2, <1>3, <1>4, <1>5, Starts
<1> QED BY <1>6, QuietKeeps DEF Kept, TypeInv, TypeOK, PermitInv, monitor, bounds

-----------------------------------------------------------------------------
(* Under the lock *)

LEMMA SyncTypes ==
    ASSUME TypeInv, Sync
    PROVE  /\ slots' \subseteq Downloads
           /\ handle' \in [Downloads -> {"none", "running", "paused"}]
           /\ \A d \in Downloads : handle[d] = "none" => handle'[d] = "none"
<1>1. slots' \subseteq Downloads
      BY DEF Sync, Downloading, InStatus
<1>2. \A d \in Downloads : /\ handle'[d] \in {handle[d], "none", "paused"}
                          /\ handle[d] = "none" => handle'[d] = "none"
      BY DEF Sync
<1> QED BY <1>1, <1>2 DEF Sync, TypeInv, TypeOK

LEMMA RewrittenTypes ==
    ASSUME TypeInv, NEW rates
    PROVE  /\ Rewritten(rates) \in [Downloads -> Row]
           /\ \A d \in Downloads : Rewritten(rates)[d] \in {row[d], view[d]}
BY DEF Rewritten, TypeInv, TypeOK

LEMMA LockKeeps ==
    ASSUME TypeInv, NEW p \in Procs, Lock(p)
    PROVE  Kept
<1> USE DEF Lock
<1>1. \E l \in {"addGate", "resumeGate", "testGate", "enforceSync"} :
          /\ Goto(p, l)
          /\ l # "enforceSync" => ~At(p, "enforce")
          /\ l \in {"resumeGate", "testGate"} => proc[p].at \in ClearedLabels
      BY DEF LockedLabels, At, ClearedLabels
<1>2. PICK l \in {"addGate", "resumeGate", "testGate", "enforceSync"} :
          /\ Goto(p, l)
          /\ l # "enforceSync" => ~At(p, "enforce")
          /\ l \in {"resumeGate", "testGate"} => proc[p].at \in ClearedLabels
      BY <1>1
<1>3. /\ l \in Labels /\ proc[p].at # "addWrite" /\ l \notin EntryLabels
      /\ proc[p].at \notin PlainLabels \/ l \in PlainLabels
      /\ l \in ClearedLabels => l \in {"resumeGate", "testGate"}
      BY <1>2 DEF Labels, EntryLabels, ListLabels, LockedLabels, At, PlainLabels, ClearedLabels, StartLabels
<1>4. ProcsSound' /\ (PermitInv => ProcsGood')
      BY <1>2, <1>3, TurnTo, WorkingGood DEF TypeInv, Cleared, EntryLabels, ListLabels
<1> QED BY <1>4, QuietKeeps DEF Kept, TypeInv, TypeOK, PermitInv, mem, monitor, bounds

\* The operator Start is called with the state a process is in.
LEMMA StartsHere ==
    ASSUME TypeInv, NEW p \in Procs, NEW then \in Returns \ {"preempted", "freed", "recoverStart"},
           proc[p].at \notin PlainLabels \cup {"addWrite"},
           Start(p, [proc[p] EXCEPT !.then = then]), UNCHANGED approved
    PROVE  /\ ProcsSound' /\ reserved' \subseteq Downloads
           /\ PermitInv /\ Target(p) \in Cleared => ProcsGood'
<1> DEFINE s == [proc[p] EXCEPT !.then = then]
<1>1. proc[p] \in Process /\ Target(p) \in Downloads
      BY Working DEF TypeInv
<1>2. s \in Process /\ s.d = Target(p) /\ s.then = then /\ s.it = proc[p].it
      BY <1>1 DEF Process, Target
<1>3. Start(p, s)
      OBVIOUS
<1> HIDE DEF s
<1> QED BY <1>1, <1>2, <1>3, Starts, WorkingGood DEF TypeInv

LEMMA AddGateKeeps ==
    ASSUME TypeInv, NEW p \in Procs, AddGate(p)
    PROVE  Kept
<1> USE DEF AddGate
<1>1. /\ proc[p].at \notin PlainLabels \cup {"addWrite"} /\ Target(p) \in Downloads
      /\ {"addPolicy", "release"} \subseteq Labels \ (ClearedLabels \cup EntryLabels)
      /\ "release" \in Returns
      BY Working DEF TypeInv, At, PlainLabels, Labels, ClearedLabels, StartLabels, Returns, EntryLabels,
         ListLabels
<1>2. ProcsSound' /\ reserved' \subseteq Downloads /\ (PermitInv => ProcsGood')
  <2>1. CASE UserApproved(Target(p), Item(p)) /\ Start(p, [proc[p] EXCEPT !.then = "release"])
    <3>1. PermitInv => Target(p) \in Cleared
          BY <1>1, <2>1, Clears, WorkingGood DEF CanStart, TypeInv
    <3> QED BY <1>1, <2>1, <3>1, StartsHere
  <2>2. CASE (Goto(p, "addPolicy") \/ Goto(p, "release")) /\ UNCHANGED reserved
        BY <1>1, <2>2, TurnTo DEF TypeInv, TypeOK, EntryLabels, ListLabels
  <2> QED BY <2>1, <2>2
<1>3. PICK rates : row' = Rewritten(rates)
      OBVIOUS
<1> QED BY <1>2, <1>3, SyncTypes, RewrittenTypes, NoRowsType, QuietKeeps
        DEF Kept, TypeInv, TypeOK, PermitInv, monitor, bounds

LEMMA AddPolicyKeeps ==
    ASSUME TypeInv, NEW p \in Procs, AddPolicy(p)
    PROVE  Kept
<1> USE DEF AddPolicy
<1>1. /\ proc[p].at \notin PlainLabels \cup {"addWrite"} /\ Target(p) \in Downloads
      /\ "release" \in Labels \ ClearedLabels /\ "release" \in Returns
      BY Working DEF TypeInv, At, PlainLabels, Labels, ClearedLabels, StartLabels, Returns, EntryLabels,
         ListLabels
<1>2. ProcsSound' /\ reserved' \subseteq Downloads /\ (PermitInv => ProcsGood')
  <2>1. CASE CanStart(Target(p), Item(p)) /\ Start(p, [proc[p] EXCEPT !.then = "release"])
    <3>1. PermitInv => Target(p) \in Cleared
          BY <1>1, <2>1, Clears, WorkingGood DEF TypeInv
    <3> QED BY <1>1, <2>1, <3>1, StartsHere
  <2>2. CASE Goto(p, "release") /\ UNCHANGED reserved
        BY <1>1, <2>2, TurnTo DEF TypeInv, TypeOK, EntryLabels, ListLabels
  <2> QED BY <2>1, <2>2
<1> QED BY <1>2, QuietKeeps DEF Kept, TypeInv, TypeOK, PermitInv, monitor, bounds

LEMMA AddReleasesKeeps ==
    ASSUME TypeInv, NEW p \in Procs, AddReleases(p)
    PROVE  Kept
<1> USE DEF AddReleases
<1>1. /\ proc[p].at # "addWrite"
      /\ "enforce" \in (PlainLabels \cap Labels) \ ClearedLabels
      BY DEF At, PlainLabels, LockedLabels, Labels, ClearedLabels, StartLabels
<1>2. ProcsSound' /\ (PermitInv => ProcsGood')
      BY <1>1, TurnTo DEF TypeInv, EntryLabels, ListLabels
<1> QED BY <1>2, QuietKeeps DEF Kept, TypeInv, TypeOK, PermitInv, mem, monitor, bounds

\* Unlock and a return that only frees the lock.
LEMMA UnlockKeeps ==
    ASSUME TypeInv, NEW p \in Procs, Unlock(p)
    PROVE  Kept
<1> USE DEF Unlock
<1>1. ProcsSound' /\ (PermitInv => ProcsGood')
      BY IdleType, Turn DEF Finish, TypeInv, PermitInv
<1> QED BY <1>1, QuietKeeps DEF Kept, TypeInv, TypeOK, PermitInv, mem, monitor, bounds

-----------------------------------------------------------------------------
(* Resumes and tests *)

\* A row that is stored over the others, as queued.
LEMMA QueuedOver ==
    ASSUME TypeInv, NEW p \in Procs, proc[p].at \notin PlainLabels \cup {"addWrite"},
           NEW rows \in [Downloads -> Row],
           \A d \in Downloads : rows[d] \in {row[d], view[d]},
           row' = [rows EXCEPT ![Target(p)] = [Item(p) EXCEPT !.st = "QUEUED"]]
    PROVE  /\ row' \in [Downloads -> Row]
           /\ \A d \in Downloads : \/ row'[d] \in {row[d], view[d]}
                                   \/ PermitInv /\ row'[d].why = "user" => d \in Cleared
<1>1. /\ Target(p) \in Downloads /\ Item(p) \in Row
      /\ PermitInv /\ Item(p).why = "user" => Target(p) \in Cleared
      BY Working, WorkingGood DEF TypeInv
<1>2. /\ [Item(p) EXCEPT !.st = "QUEUED"] \in Row
      /\ [Item(p) EXCEPT !.st = "QUEUED"].why = Item(p).why
      BY <1>1, RowEdits DEF Statuses
<1> QED BY <1>1, <1>2

LEMMA ResumeGateKeeps ==
    ASSUME TypeInv, NEW p \in Procs, ResumeGate(p)
    PROVE  Kept
<1> USE DEF ResumeGate
<1>1. /\ proc[p].at \notin PlainLabels \cup {"addWrite"} /\ proc[p].at \in ClearedLabels
      /\ Target(p) \in Downloads
      /\ {"unlock", "waking", "resumeStart"} \subseteq Labels \ EntryLabels
      BY Working DEF TypeInv, At, PlainLabels, Labels, ClearedLabels, EntryLabels, ListLabels
<1>2. PICK l \in {"unlock", "waking", "resumeStart"} : Goto(p, l)
      OBVIOUS
<1>3. ProcsSound' /\ (PermitInv => ProcsGood')
      BY <1>1, <1>2, TurnTo, WorkingGood DEF TypeInv, Cleared, EntryLabels, ListLabels
<1>4. PICK rates : \/ row' = Rewritten(rates)
                   \/ row' = [Rewritten(rates) EXCEPT ![Target(p)] = [Item(p) EXCEPT !.st = "QUEUED"]]
      OBVIOUS
<1>5. /\ row' \in [Downloads -> Row]
      /\ \A d \in Downloads : \/ row'[d] \in {row[d], view[d]}
                              \/ PermitInv /\ row'[d].why = "user" => d \in Cleared
      BY <1>1, <1>4, RewrittenTypes, QueuedOver
<1> QED BY <1>3, <1>5, SyncTypes, NoRowsType, QuietKeeps
        DEF Kept, TypeInv, TypeOK, PermitInv, monitor, bounds

LEMMA ResumeWakesKeeps ==
    ASSUME TypeInv, NEW p \in Procs, ResumeWakes(p)
    PROVE  Kept
<1> USE DEF ResumeWakes
<1>1. /\ proc[p].at \notin PlainLabels \cup {"addWrite"} /\ proc[p].at \in ClearedLabels
      /\ Target(p) \in Downloads /\ Item(p) \in Row
      /\ {"awake", "testStart", "resumeStart"} \subseteq Labels \ EntryLabels
      BY Working DEF TypeInv, At, PlainLabels, Labels, ClearedLabels, EntryLabels, ListLabels
<1>2. PICK l \in {"awake", "testStart", "resumeStart"} : Goto(p, l)
      OBVIOUS
<1>3. ProcsSound' /\ (PermitInv => ProcsGood' /\ Target(p) \in Cleared)
      BY <1>1, <1>2, TurnTo, WorkingGood DEF TypeInv, Cleared, EntryLabels, ListLabels
<1>4. PICK r \in Row : Write(Target(p), r)
      BY <1>1, RowEdits DEF Statuses
<1>5. /\ handle' \in [Downloads -> {"none", "running", "paused"}]
      /\ \A d \in Downloads : handle[d] = "none" => handle'[d] = "none"
      BY DEF TypeInv, TypeOK
<1>6. /\ row' \in [Downloads -> Row]
      /\ \A d \in Downloads : row'[d] = row[d] \/ (PermitInv => d \in Cleared)
      BY <1>1, <1>3, <1>4, Writes DEF TypeInv
<1> QED BY <1>3, <1>5, <1>6, QuietKeeps DEF Kept, TypeInv, TypeOK, PermitInv, mem, monitor, bounds

LEMMA ResumeSpawnsKeeps ==
    ASSUME TypeInv, NEW p \in Procs, ResumeSpawns(p)
    PROVE  Kept
<1> USE DEF ResumeSpawns
<1>1. Target(p) \in Downloads
      BY Working DEF TypeInv, At, PlainLabels
<1>2. ProcsSound' /\ (PermitInv => ProcsGood')
      BY IdleType, Turn DEF Finish, TypeInv, PermitInv
<1> QED BY <1>1, <1>2, MonitoredTypes, QuietKeeps DEF Kept, TypeInv, TypeOK, PermitInv, bounds

LEMMA ResumeStartsKeeps ==
    ASSUME TypeInv, NEW p \in Procs, ResumeStarts(p)
    PROVE  Kept
<1> USE DEF ResumeStarts
<1> DEFINE s == [proc[p] EXCEPT !.it[Target(p)].st = "QUEUED", !.then = "unlock"]
<1>1. /\ proc[p].at \notin PlainLabels \cup {"addWrite"} /\ proc[p].at \in ClearedLabels
      /\ Target(p) \in Downloads /\ Item(p) \in Row /\ proc[p] \in Process
      BY Working DEF TypeInv, At, PlainLabels, ClearedLabels
<1> DEFINE r == [Item(p) EXCEPT !.st = "QUEUED"]
           it == [proc[p].it EXCEPT ![Target(p)] = r]
<1>2. r \in Row /\ r.why = Item(p).why
      BY <1>1, RowEdits DEF Statuses
<1>3. it \in [Downloads -> Row] /\ "unlock" \in Returns
      BY <1>1, <1>2 DEF Process, Returns
<1>4. s = [proc[p] EXCEPT !.it = it, !.then = "unlock"]
      BY <1>1 DEF Process, Item
<1> HIDE DEF s, it
<1>5. s \in Process /\ s.d = Target(p) /\ s.then = "unlock" /\ s.it = it
      BY <1>1, <1>3, <1>4 DEF Process, Target
<1>6. PermitInv => Target(p) \in Cleared /\ AskedRows(it, Cleared)
  <2> SUFFICES ASSUME PermitInv PROVE Target(p) \in Cleared /\ AskedRows(it, Cleared)
      OBVIOUS
  <2>1. Target(p) \in Cleared /\ AskedRows(proc[p].it, Cleared)
        BY <1>1, WorkingGood DEF TypeInv
  <2> QED BY <1>1, <2>1 DEF it, AskedRows, Process
<1>7. Start(p, s) /\ UNCHANGED approved
      BY DEF s
<1>8. ProcsSound' /\ reserved' \subseteq Downloads /\ (PermitInv => ProcsGood')
      BY <1>1, <1>5, <1>6, <1>7, Starts
<1> QED BY <1>8, QuietKeeps DEF Kept, TypeInv, TypeOK, PermitInv, monitor, bounds

LEMMA ResumeRequeuesKeeps ==
    ASSUME TypeInv, NEW p \in Procs, ResumeRequeues(p)
    PROVE  Kept
<1> USE DEF ResumeRequeues
<1>1. /\ proc[p].at \notin PlainLabels \cup {"addWrite"} /\ Target(p) \in Downloads /\ Item(p) \in Row
      /\ "unlock" \in Labels \ ClearedLabels
      BY Working DEF TypeInv, At, PlainLabels, Labels, ClearedLabels, StartLabels
<1>2. ProcsSound' /\ (PermitInv => ProcsGood')
      BY <1>1, TurnTo DEF TypeInv, EntryLabels, ListLabels
<1>3. /\ [Item(p) EXCEPT !.st = "QUEUED", !.why = "other"] \in Row
      /\ [Item(p) EXCEPT !.st = "QUEUED", !.why = "other"].why = "other"
      BY <1>1, RowEdits DEF Statuses
<1> QED BY <1>1, <1>2, <1>3, WriteKeeps DEF Kept, TypeInv, TypeOK, mem, monitor

\* A test goes on with state s: the handle is asked to resume, or the row is
\* stored over the others as queued.
LEMMA TestResumesKeeps ==
    ASSUME TypeInv, NEW p \in Procs, NEW s \in Process, NEW torrents,
           NEW rows \in [Downloads -> Row], TestResumes(p, s, torrents, rows),
           s.d \in Downloads, \A d \in Downloads : rows[d] \in {row[d], view[d]},
           s.at # "addWrite", UNCHANGED approved
    PROVE  /\ ProcsSound' /\ row' \in [Downloads -> Row]
           /\ PermitInv /\ s.d \in Cleared /\ AskedRows(s.it, Cleared) => ProcsGood'
           /\ \A d \in Downloads : row'[d] \in {row[d], view[d]} \/ d = s.d
<1>1. \A l \in {"waking", "testStart"} :
        LET u == [s EXCEPT !.at = l, !.then = "tested"]
        IN  /\ u \in Process /\ u.at = l /\ u.then = "tested" /\ u.d = s.d /\ u.it = s.it
  <2>1. {"waking", "testStart"} \subseteq Labels /\ "tested" \in Returns
        BY DEF Labels, Returns
  <2> QED BY <2>1 DEF Process
<1>2. PICK u \in Process : /\ Become(p, u) /\ u.at \in {"waking", "testStart"}
                           /\ u.then = "tested" /\ u.d = s.d /\ u.it = s.it
      BY <1>1 DEF TestResumes
<1>3. Sound(u) /\ (s.d \in Cleared /\ AskedRows(s.it, Cleared) => Good(u, Cleared))
      BY <1>2 DEF Sound, Good, Carries, ListLabels
<1>4. ProcsSound' /\ (PermitInv /\ s.d \in Cleared /\ AskedRows(s.it, Cleared) => ProcsGood')
      BY <1>2, <1>3, Turn DEF TypeInv, PermitInv, Cleared
<1>5. [s.it[s.d] EXCEPT !.st = "QUEUED"] \in Row
  <2>1. s.it[s.d] \in Row
        BY DEF Process
  <2> QED BY <2>1, RowEdits DEF Statuses
<1>6. /\ row' \in [Downloads -> Row]
      /\ \A d \in Downloads : row'[d] \in {row[d], view[d]} \/ d = s.d
      BY <1>5 DEF TestResumes
<1> QED BY <1>4, <1>6

LEMMA TestGateKeeps ==
    ASSUME TypeInv, NEW p \in Procs, TestGate(p)
    PROVE  Kept
<1> USE DEF TestGate
<1>1. /\ proc[p].at \notin PlainLabels \cup {"addWrite"} /\ proc[p].at \in ClearedLabels
      /\ Target(p) \in Downloads /\ proc[p] \in Process
      /\ "testVictim" \in Labels \ EntryLabels
      BY Working DEF TypeInv, At, PlainLabels, Labels, ClearedLabels, EntryLabels, ListLabels
<1>2. PICK rates : \/ TestResumes(p, proc[p], handle', Rewritten(rates)) /\ view' = NoRows
                   \/ row' = Rewritten(rates) /\ view' = row' /\ Goto(p, "testVictim")
      OBVIOUS
<1>3. PermitInv => Target(p) \in Cleared /\ AskedRows(proc[p].it, Cleared)
      BY <1>1, WorkingGood DEF TypeInv
<1>4. /\ ProcsSound' /\ (PermitInv => ProcsGood')
      /\ row' \in [Downloads -> Row] /\ view' \in {NoRows, row'}
      /\ \A d \in Downloads : row'[d] \in {row[d], view[d]} \/ (PermitInv => d \in Cleared)
  <2>1. CASE TestResumes(p, proc[p], handle', Rewritten(rates)) /\ view' = NoRows
        BY <1>1, <1>3, <2>1, RewrittenTypes, TestResumesKeeps DEF Target
  <2>2. CASE row' = Rewritten(rates) /\ view' = row' /\ Goto(p, "testVictim")
        BY <1>1, <1>3, <2>2, RewrittenTypes, TurnTo DEF TypeInv, Cleared, EntryLabels, ListLabels
  <2> QED BY <1>2, <2>1, <2>2
<1>5. view' \in [Downloads -> Row] /\ \A d \in Downloads : view'[d] \in {NoRows[d], row'[d]}
      BY <1>4, NoRowsType
<1> QED BY <1>4, <1>5, SyncTypes, QuietKeeps DEF Kept, TypeInv, TypeOK, PermitInv, monitor, bounds

LEMMA TestVictimKeeps ==
    ASSUME TypeInv, NEW p \in Procs, TestVictim(p)
    PROVE  Kept
<1> USE DEF TestVictim
<1>1. /\ proc[p].at \notin PlainLabels \cup {"addWrite"} /\ proc[p].at \in ClearedLabels
      /\ Target(p) \in Downloads /\ proc[p] \in Process
      /\ "pauseRead" \in Labels \ (ClearedLabels \cup EntryLabels)
      BY Working, LabelsAre DEF TypeInv, At, PlainLabels, PauseLabels, ClearedLabels, StartLabels, EntryLabels, ListLabels
<1>2. PermitInv => Target(p) \in Cleared /\ AskedRows(proc[p].it, Cleared)
      BY <1>1, WorkingGood DEF TypeInv
<1>3. /\ ProcsSound' /\ (PermitInv => ProcsGood')
      /\ row' \in [Downloads -> Row]
      /\ \A d \in Downloads : row'[d] \in {row[d], view[d]} \/ (PermitInv => d \in Cleared)
  <2>1. CASE TestResumes(p, proc[p], handle, row)
        BY <1>1, <1>2, <2>1, TestResumesKeeps DEF Target, TypeInv, TypeOK
  <2>2. CASE ~TestResumes(p, proc[p], handle, row)
    <3>1. PICK v \in Downloads :
             Become(p, [proc[p] EXCEPT !.at = "pauseRead", !.d = v,
                                       !.todo = <<Target(p)>>, !.then = "freed"])
          BY <2>2 DEF Victim, Downloading, InStatus
    <3> DEFINE s == [proc[p] EXCEPT !.at = "pauseRead", !.d = v,
                                    !.todo = <<Target(p)>>, !.then = "freed"]
    <3> DEFINE d == Target(p)
    <3> HIDE DEF d
    <3>2. d \in Downloads /\ "freed" \in Returns
          BY <1>1 DEF Returns, d
    <3>3. <<d>> \in Seq(Downloads) /\ Head(<<d>>) = d /\ <<d>> # << >>
          BY <3>2, Singles
    <3>4. /\ s \in Process /\ s.at = "pauseRead" /\ s.d = v /\ s.then = "freed"
          /\ s.todo = <<d>> /\ s.it = proc[p].it
          BY <1>1, <3>2, <3>3 DEF Process, d
    <3> HIDE DEF s
    <3>5. Sound(s) /\ (PermitInv => Good(s, Cleared))
          BY <1>1, <1>2, <3>3, <3>4 DEF Sound, Good, Carries, ListLabels, d
    <3>6. ProcsSound' /\ (PermitInv => ProcsGood')
          BY <3>1, <3>4, <3>5, Turn DEF s, TypeInv, PermitInv, Cleared
    <3> QED BY <2>2, <3>6 DEF TypeInv, TypeOK
  <2> QED BY <2>1, <2>2
<1> QED BY <1>3, NoRowsType, QuietKeeps DEF Kept, TypeInv, TypeOK, PermitInv, mem, monitor, bounds

LEMMA TestFreedKeeps ==
    ASSUME TypeInv, NEW p \in Procs, TestFreed(p)
    PROVE  Kept
<1> USE DEF TestFreed
<1> DEFINE s == [proc[p] EXCEPT !.d = Head(proc[p].todo), !.todo = << >>]
<1>1. /\ proc[p].at \notin PlainLabels \cup {"addWrite"} /\ proc[p] \in Process
      /\ proc[p].todo \in Seq(Downloads) /\ proc[p].todo # << >>
      BY Working DEF TypeInv, At, PlainLabels, Sound, Carries, ListLabels
<1>2. Head(proc[p].todo) \in Downloads /\ << >> \in Seq(Downloads)
      BY <1>1
<1>3. /\ s \in Process /\ s.d = Head(proc[p].todo) /\ s.it = proc[p].it /\ s.at = proc[p].at
      BY <1>1, <1>2 DEF Process
<1>4. PermitInv => s.d \in Cleared /\ AskedRows(s.it, Cleared)
      BY <1>1, <1>3 DEF PermitInv, ProcsGood, Good, Carries, ListLabels, At
<1>5. TestResumes(p, s, handle, row) /\ UNCHANGED approved
      OBVIOUS
<1> HIDE DEF s
<1>6. /\ ProcsSound' /\ (PermitInv => ProcsGood')
      /\ row' \in [Downloads -> Row]
      /\ \A d \in Downloads : row'[d] \in {row[d], view[d]} \/ (PermitInv => d \in Cleared)
      BY <1>1, <1>2, <1>3, <1>4, <1>5, TestResumesKeeps DEF TypeInv, TypeOK
<1> QED BY <1>6, QuietKeeps DEF Kept, TypeInv, TypeOK, PermitInv, mem, monitor, bounds

LEMMA TestStartsKeeps ==
    ASSUME TypeInv, NEW p \in Procs, TestStarts(p) \/ TestPolicy(p)
    PROVE  Kept
<1> USE DEF TestStarts, TestPolicy
<1>1. /\ proc[p].at \notin PlainLabels \cup {"addWrite"} /\ proc[p].at \in ClearedLabels
      /\ Target(p) \in Downloads /\ proc[p] \in Process
      /\ "testPolicy" \in Labels \ EntryLabels
      BY Working DEF TypeInv, At, PlainLabels, Labels, ClearedLabels, EntryLabels, ListLabels
<1>2. \/ Finish(p) /\ UNCHANGED reserved
      \/ Start(p, proc[p])
      \/ Goto(p, "testPolicy") /\ UNCHANGED reserved
      BY Zenon
<1>3. ProcsSound' /\ reserved' \subseteq Downloads /\ (PermitInv => ProcsGood')
  <2>1. CASE Finish(p) /\ UNCHANGED reserved
        BY <2>1, IdleType, Turn DEF Finish, TypeInv, TypeOK, PermitInv
  <2>2. CASE Start(p, proc[p])
    <3>1. PermitInv => Good(proc[p], Cleared)
          BY DEF PermitInv, ProcsGood
    <3>2. /\ proc[p].then \in {"preempted", "freed"} => proc[p].todo # << >>
          /\ PermitInv /\ proc[p].then \in {"preempted", "freed"} => Head(proc[p].todo) \in Cleared
          /\ PermitInv /\ proc[p].then = "recoverStart" =>
                \A i \in 1..Len(proc[p].todo) : proc[p].todo[i] \in Cleared
          BY <3>1, Working DEF TypeInv, Sound, Carries, ListLabels, Good
    <3>3. PermitInv => Target(p) \in Cleared /\ AskedRows(proc[p].it, Cleared)
          BY <1>1, WorkingGood DEF TypeInv
    <3> QED BY <1>1, <2>2, <3>2, <3>3, Starts DEF Target
  <2>3. CASE Goto(p, "testPolicy") /\ UNCHANGED reserved
        BY <1>1, <2>3, TurnTo, WorkingGood DEF TypeInv, TypeOK, Cleared, EntryLabels, ListLabels
  <2> QED BY <1>2, <2>1, <2>2, <2>3
<1>4. lock' \in Procs \cup {Nobody}
      BY DEF TypeInv, TypeOK
<1> QED BY <1>3, <1>4, QuietKeeps DEF Kept, TypeInv, TypeOK, PermitInv, monitor, bounds

-----------------------------------------------------------------------------
(* The limit is enforced *)

LEMMA EnforceSyncKeeps ==
    ASSUME TypeInv, NEW p \in Procs, EnforceSync(p)
    PROVE  Kept
<1> USE DEF EnforceSync
<1>1. /\ proc[p].at # "addWrite"
      /\ "cut" \in (Labels \cap PlainLabels) \ ClearedLabels
      BY DEF At, PlainLabels, Labels, ClearedLabels, StartLabels
<1>2. ProcsSound' /\ (PermitInv => ProcsGood')
      BY <1>1, TurnTo DEF TypeInv, EntryLabels, ListLabels
<1>3. PICK rates : row' = Rewritten(rates) /\ view' = Rewritten(rates)
      OBVIOUS
<1> QED BY <1>2, <1>3, SyncTypes, RewrittenTypes, QuietKeeps
        DEF Kept, TypeInv, TypeOK, PermitInv, monitor, bounds

\* The orders the tables are read in are sequences of the set's members.
LEMMA Ordered ==
    ASSUME NEW set \in SUBSET Downloads, NEW s,
           s \in ByAge(set) \/ \E rows : s \in Sorted(rows, set)
    PROVE  s \in Seq(Downloads) /\ \A i \in 1..Len(s) : s[i] \in set
<1>1. IsFiniteSet(set)
      BY QueueAssumption, FS_Subset
<1>2. Cardinality(set) \in Nat
      BY <1>1, FS_CardinalityType
<1>3. s \in [1..Cardinality(set) -> set]
      BY DEF ByAge, Sorted
<1> QED BY <1>2, <1>3

LEMMA EnforceCutKeeps ==
    ASSUME TypeInv, NEW p \in Procs, EnforceCut(p)
    PROVE  Kept
<1> USE DEF EnforceCut
<1>1. /\ proc[p].at # "addWrite" /\ proc[p] \in Process /\ max \in Nat
      /\ "nextVictim" \in (Labels \cap PlainLabels \cap Returns) \ ClearedLabels
      BY Working, QueueAssumption
         DEF TypeInv, TypeOK, At, PlainLabels, Labels, Returns, ClearedLabels, StartLabels
<1>2. PICK active \in Sorted(view, Downloading(view)) :
        LET kept == IF Len(active) < max THEN Len(active) ELSE max IN
        /\ slots' = {active[i] : i \in 1..kept}
        /\ Become(p, [proc[p] EXCEPT !.at = "nextVictim", !.then = "nextVictim",
                                     !.todo = SubSeq(active, kept + 1, Len(active))])
      BY Zenon
<1> DEFINE kept == IF Len(active) < max THEN Len(active) ELSE max
           todo == SubSeq(active, kept + 1, Len(active))
<1>3. active \in Seq(Downloads)
      BY Ordered DEF Downloading, InStatus
<1>4. kept \in Nat /\ kept <= Len(active) /\ todo \in Seq(Downloads) /\ slots' \subseteq Downloads
  <2>1. kept \in Nat /\ kept <= Len(active) /\ Len(active) \in Nat
        BY <1>1, <1>2, <1>3
  <2>2. todo \in Seq(Downloads)
        BY <1>2, <1>3, <2>1
  <2>3. \A i \in 1..kept : active[i] \in Downloads
        BY <1>3, <2>1
  <2> QED BY <1>2, <2>1, <2>2, <2>3
<1> DEFINE s == [proc[p] EXCEPT !.at = "nextVictim", !.then = "nextVictim", !.todo = todo]
<1>5. s \in Process /\ s.at = "nextVictim" /\ s.then = "nextVictim" /\ s.it = proc[p].it
      BY <1>1, <1>4 DEF Process
<1>6. Become(p, s) /\ UNCHANGED approved
      BY <1>2
<1> HIDE DEF s
<1>7. Sound(s)
      BY <1>1, <1>5 DEF Sound, Carries, ListLabels
<1>8. PermitInv => Good(s, Cleared)
      BY <1>1, <1>5, WorkingGood DEF TypeInv, Good, Carries
<1>9. ProcsSound' /\ (PermitInv => ProcsGood')
      BY <1>5, <1>6, <1>7, <1>8, Turn DEF TypeInv, PermitInv, Cleared
<1> QED BY <1>4, <1>9, NoRowsType, QuietKeeps DEF Kept, TypeInv, TypeOK, PermitInv, monitor, bounds

LEMMA EnforceNextKeeps ==
    ASSUME TypeInv, NEW p \in Procs, EnforceNext(p)
    PROVE  Kept
<1> USE DEF EnforceNext
<1>1. /\ proc[p].at # "addWrite" /\ proc[p] \in Process
      /\ "pauseRead" \in Labels \ ClearedLabels /\ "nextVictim" \in Returns
      BY Working, LabelsAre DEF TypeInv, At, PauseLabels, ClearedLabels, StartLabels, Returns
<1>2. ProcsSound' /\ (PermitInv => ProcsGood')
  <2>1. CASE proc[p].todo = << >>
        BY <2>1, IdleType, Turn DEF Finish, TypeInv, PermitInv
  <2>2. CASE proc[p].todo # << >>
    <3> DEFINE s == [proc[p] EXCEPT !.at = "pauseRead", !.d = Head(proc[p].todo),
                                    !.todo = Tail(@), !.then = "nextVictim"]
    <3>1. Head(proc[p].todo) \in Downloads /\ Tail(proc[p].todo) \in Seq(Downloads)
          BY <2>2, Working DEF TypeInv
    <3>2. s \in Process /\ s.at = "pauseRead" /\ s.d \in Downloads /\ s.then = "nextVictim"
          /\ s.it = proc[p].it
          BY <1>1, <3>1 DEF Process
    <3>3. Become(p, s) /\ UNCHANGED approved
          BY <2>2
    <3> HIDE DEF s
    <3>4. Sound(s) /\ (PermitInv => Good(s, Cleared))
          BY <1>1, <3>2, WorkingGood DEF TypeInv, Sound, Good, Carries, ListLabels
    <3> QED BY <3>2, <3>3, <3>4, Turn DEF TypeInv, PermitInv, Cleared
  <2> QED BY <2>1, <2>2
<1>3. lock' \in Procs \cup {Nobody}
      BY DEF TypeInv, TypeOK
<1> QED BY <1>2, <1>3, QuietKeeps DEF Kept, TypeInv, TypeOK, PermitInv, mem, monitor, bounds

-----------------------------------------------------------------------------
(* Requests *)

\* A caller begins to serve a request for a download, with the row it has read.
LEMMA Requested ==
    ASSUME TypeInv, NEW p \in Procs, NEW d \in Downloads, NEW r \in Row,
           NEW l \in Labels \ (PlainLabels \cup ClearedLabels \cup {"preempted", "freed"}),
           Become(p, [Idle EXCEPT !.at = l, !.d = d, !.it[d] = r]), UNCHANGED approved
    PROVE  /\ ProcsSound'
           /\ PermitInv /\ (r.why = "user" /\ l # "addWrite" => d \in Cleared) => ProcsGood'
<1> DEFINE s == [Idle EXCEPT !.at = l, !.d = d, !.it[d] = r]
<1> DEFINE it == [Idle.it EXCEPT ![d] = r]
<1>1. Idle \in Process /\ Idle.it = NoRows /\ Idle.then = "idle"
      BY IdleType DEF Idle
<1>2. s = [Idle EXCEPT !.at = l, !.d = d, !.it = it]
      BY <1>1 DEF Process
<1>3. Become(p, s)
      OBVIOUS
<1>4. it \in [Downloads -> Row] /\ it[d] = r /\ \A e \in Downloads \ {d} : it[e].why = "other"
      BY <1>1, NoRowsType
<1> HIDE DEF s, it
<1>5. s \in Process /\ s.at = l /\ s.d = d /\ s.it = it /\ s.then = "idle"
      BY <1>1, <1>2, <1>4 DEF Process
<1>6. Sound(s)
      BY <1>5 DEF Sound, Carries, ListLabels, PlainLabels
<1>7. (r.why = "user" /\ l # "addWrite" => d \in Cleared) => Good(s, Cleared)
  <2> SUFFICES ASSUME r.why = "user" /\ l # "addWrite" => d \in Cleared PROVE Good(s, Cleared)
      OBVIOUS
  <2>1. AskedRows(it, IF l = "addWrite" THEN Cleared \cup {d} ELSE Cleared)
        BY <1>4 DEF AskedRows
  <2> QED BY <1>5, <2>1 DEF Good, Carries, PlainLabels
<1> QED BY <1>3, <1>5, <1>6, <1>7, Turn DEF TypeInv, PermitInv, Cleared

\* What it does to the tables.
LEMMA ServeTypes ==
    ASSUME TypeInv, NEW c, NEW op, Serve(c, op)
    PROVE  requests' \in 0..MaxRequests /\ UNCHANGED <<orphaned, crashes>>
BY QueueAssumption DEF Serve, TypeInv, TypeOK

LEMMA RequestLabels ==
    {"addWrite", "pauseRead", "resumeAllow", "prioWrite", "testAllow", "cancelling", "restarting"}
        \subseteq Labels \ (PlainLabels \cup ClearedLabels \cup {"preempted", "freed"})
BY DEF Labels, PlainLabels, ClearedLabels, StartLabels, PauseLabels

LEMMA RequestAddKeeps ==
    ASSUME TypeInv, NEW c \in Callers, RequestAdd(c)
    PROVE  Kept
<1>1. PICK d \in Downloads, prio \in Priorities, why \in {"user", "other"} :
        /\ Serve(c, "add")
        /\ LET st == IF row[d].st = "ABSENT" THEN "QUEUED" ELSE row[d].st IN
           Become(c, [Idle EXCEPT !.at = "addWrite", !.d = d,
                                  !.it[d] = [st |-> st, prio |-> prio, why |-> why]])
        /\ UNCHANGED <<row, mem, handle, monitor, lock, view, max, approved>>
      BY DEF RequestAdd
<1> DEFINE r == [st |-> IF row[d].st = "ABSENT" THEN "QUEUED" ELSE row[d].st, prio |-> prio, why |-> why]
<1>2. r \in Row
      BY DEF TypeInv, TypeOK, Row, Statuses
<1>3. Become(c, [Idle EXCEPT !.at = "addWrite", !.d = d, !.it[d] = r])
      BY <1>1
<1> HIDE DEF r
<1>4. ProcsSound' /\ (PermitInv => ProcsGood')
      BY <1>1, <1>2, <1>3, Requested, RequestLabels DEF Procs
<1> QED BY <1>1, <1>4, ServeTypes, QuietKeeps
        DEF Kept, TypeInv, TypeOK, PermitInv, mem, monitor

\* A request that only reads the row of a download.
LEMMA ReadRequestKeeps ==
    ASSUME TypeInv, NEW c \in Callers, NEW d \in Downloads, NEW r \in Row, r.why = row[d].why,
           NEW l \in {"resumeAllow", "prioWrite", "testAllow", "restarting"},
           NEW op, Serve(c, op), Become(c, [Idle EXCEPT !.at = l, !.d = d, !.it[d] = r]),
           UNCHANGED <<row, mem, handle, monitor, lock, view, max, approved>>
    PROVE  Kept
<1>1. l \in Labels \ (PlainLabels \cup ClearedLabels \cup {"preempted", "freed"})
      BY RequestLabels
<1>2. PermitInv /\ r.why = "user" => d \in Cleared
      BY DEF PermitInv, TablesGood, AskedRows
<1>3. ProcsSound' /\ (PermitInv => ProcsGood')
      BY <1>1, <1>2, Requested DEF Procs
<1> QED BY <1>3, ServeTypes, QuietKeeps DEF Kept, TypeInv, TypeOK, PermitInv, mem, monitor

\* A request for a download that goes on without its row.
LEMMA PlainRequest ==
    ASSUME TypeInv, NEW c \in Callers, NEW d \in Downloads, NEW l \in {"pauseRead", "cancelling"},
           Become(c, [Idle EXCEPT !.at = l, !.d = d]), UNCHANGED approved
    PROVE  ProcsSound' /\ (PermitInv => ProcsGood')
<1>1. [Idle EXCEPT !.at = l, !.d = d] = [Idle EXCEPT !.at = l, !.d = d, !.it[d] = NoRows[d]]
  <2>1. Idle \in Process /\ Idle.it = NoRows
        BY IdleType DEF Idle
  <2>2. NoRows = [NoRows EXCEPT ![d] = NoRows[d]]
        BY NoRowsType
  <2>3. [Idle EXCEPT !.at = l, !.d = d] = [Idle EXCEPT !.at = l, !.d = d, !.it = Idle.it]
        BY <2>1 DEF Process
  <2> QED BY <2>1, <2>2, <2>3 DEF Process
<1>2. NoRows[d] \in Row /\ NoRows[d].why # "user"
      BY NoRowsType
<1>3. l \in Labels \ (PlainLabels \cup ClearedLabels \cup {"preempted", "freed"})
      BY RequestLabels
<1>4. Become(c, [Idle EXCEPT !.at = l, !.d = d, !.it[d] = NoRows[d]])
      BY <1>1, Zenon
<1>5. c \in Procs
      BY DEF Procs
<1> DEFINE r == NoRows[d]
<1>6. r \in Row /\ r.why # "user" /\ Become(c, [Idle EXCEPT !.at = l, !.d = d, !.it[d] = r])
      BY <1>2, <1>4
<1> HIDE DEF r
<1> QED BY <1>3, <1>5, <1>6, Requested

LEMMA RequestPauseKeeps ==
    ASSUME TypeInv, NEW c \in Callers, RequestPause(c)
    PROVE  Kept
<1>1. ProcsSound' /\ (PermitInv => ProcsGood')
      BY PlainRequest DEF RequestPause, InStatus
<1>2. requests' \in 0..MaxRequests /\ UNCHANGED <<orphaned, crashes>>
      BY ServeTypes DEF RequestPause
<1> QED BY <1>1, <1>2, QuietKeeps DEF RequestPause, Kept, TypeInv, TypeOK, PermitInv, mem, monitor

LEMMA RequestCancelKeeps ==
    ASSUME TypeInv, NEW c \in Callers, RequestCancel(c)
    PROVE  Kept
<1>1. PICK d \in Downloads :
        /\ Serve(c, "cancel")
        /\ slots' = slots \ {d}
        /\ allowed' = allowed \ {d}
        /\ handle' = [handle EXCEPT ![d] = "none"]
        /\ Become(c, [Idle EXCEPT !.at = "cancelling", !.d = d])
        /\ UNCHANGED <<row, reserved, monitor, lock, view, max, approved>>
      BY DEF RequestCancel, InStatus
<1>2. ProcsSound' /\ (PermitInv => ProcsGood')
      BY <1>1, PlainRequest
<1>3. requests' \in 0..MaxRequests /\ UNCHANGED <<orphaned, crashes>>
      BY <1>1, ServeTypes
<1>4. /\ handle' \in [Downloads -> {"none", "running", "paused"}]
      /\ \A e \in Downloads : handle[e] = "none" => handle'[e] = "none"
      BY <1>1 DEF TypeInv, TypeOK
<1> QED BY <1>1, <1>2, <1>3, <1>4, QuietKeeps DEF Kept, TypeInv, TypeOK, PermitInv, monitor

LEMMA RequestMaxKeeps ==
    ASSUME TypeInv, NEW c \in Callers, RequestMax(c)
    PROVE  Kept
<1> DEFINE s == [Idle EXCEPT !.at = "enforce"]
<1>1. s \in Process /\ Sound(s) /\ Good(s, Cleared)
  <2>1. "enforce" \in (Labels \cap PlainLabels) \ ClearedLabels
        BY LabelsAre DEF LockedLabels, PlainLabels, ClearedLabels, StartLabels
  <2>2. s.at = "enforce" /\ s.d = Idle.d /\ s.it = Idle.it /\ s.todo = Idle.todo /\ s.then = "idle"
        /\ s \in Process
        BY <2>1, IdleType DEF Idle, Process
  <2> HIDE DEF s
  <2> QED BY <2>1, <2>2, IdleType DEF Sound, Carries, ListLabels, Good, Idle
<1>2. Become(c, s) /\ max' \in Limits
      BY DEF RequestMax
<1> HIDE DEF s
<1>3. ProcsSound' /\ (PermitInv => ProcsGood')
      BY <1>1, <1>2, Turn DEF Procs, TypeInv, PermitInv, RequestMax, Cleared
<1>4. requests' \in 0..MaxRequests /\ UNCHANGED <<orphaned, crashes>>
      BY ServeTypes DEF RequestMax
<1> QED BY <1>2, <1>3, <1>4, QuietKeeps DEF RequestMax, Kept, TypeInv, TypeOK, PermitInv, mem, monitor

LEMMA ReadRequestsKeep ==
    ASSUME TypeInv, NEW c \in Callers,
           RequestResume(c) \/ RequestPriority(c) \/ RequestTest(c) \/ RequestRestart(c)
    PROVE  Kept
<1>1. CASE RequestResume(c) \/ RequestTest(c) \/ RequestRestart(c)
      BY <1>1, ReadRequestKeeps
         DEF RequestResume, RequestTest, RequestRestart, InStatus, TypeInv, TypeOK
<1>2. CASE RequestPriority(c)
  <2>1. PICK d \in Downloads, prio \in Priorities :
          /\ Serve(c, "priority")
          /\ Become(c, [Idle EXCEPT !.at = "prioWrite", !.d = d,
                                    !.it[d] = [row[d] EXCEPT !.prio = prio]])
          /\ UNCHANGED <<row, mem, handle, monitor, lock, view, max, approved>>
        BY <1>2 DEF RequestPriority, Active, InStatus
  <2>2. row[d] \in Row
        BY DEF TypeInv, TypeOK
  <2>3. [row[d] EXCEPT !.prio = prio] \in Row /\ [row[d] EXCEPT !.prio = prio].why = row[d].why
        BY <2>2, RowEdits
  <2> DEFINE r == [row[d] EXCEPT !.prio = prio]
  <2>4. r \in Row /\ r.why = row[d].why
        /\ Become(c, [Idle EXCEPT !.at = "prioWrite", !.d = d, !.it[d] = r])
        BY <2>1, <2>3
  <2> HIDE DEF r
  <2> QED BY <2>1, <2>4, ReadRequestKeeps
<1> QED BY <1>1, <1>2

-----------------------------------------------------------------------------
(* What callers do for their requests *)

\* A permission is given for a download, and its row is stored.
LEMMA ApproveKeeps ==
    ASSUME TypeInv, ProcsSound', NEW d \in Downloads,
           row' \in [Downloads -> Row], \A e \in Downloads \ {d} : row'[e] = row[e],
           allowed' \in {allowed, allowed \cup {d}}, approved' \in {approved, approved \cup {d}},
           UNCHANGED <<slots, reserved, handle, monitor, lock, view, max, bounds>>
    PROVE  /\ TypeInv'
           /\ /\ PermitInv /\ ProcsGood'
              /\ allowed' # allowed => d \in Cleared'
              /\ row'[d].why = "user" => d \in Cleared'
              => PermitInv'
<1>1. TypeInv'
      BY DEF TypeInv, TypeOK, ProcsSound, monitor, bounds
<1>2. ASSUME PermitInv, ProcsGood', allowed' # allowed => d \in Cleared',
             row'[d].why = "user" => d \in Cleared'
      PROVE  PermitInv'
  <2>1. Cleared \subseteq Cleared'
        BY DEF Cleared
  <2>2. AskedRows(row', Cleared') /\ AskedRows(seen', Cleared') /\ AskedRows(view', Cleared')
        BY <1>2, <2>1 DEF PermitInv, TablesGood, AskedRows, monitor
  <2>3. allowed' \subseteq Cleared' /\ \A e \in Downloads : handle'[e] # "none" => e \in Cleared'
        BY <1>2, <2>1 DEF PermitInv, TablesGood
  <2> QED BY <1>2, <2>2, <2>3 DEF PermitInv, TablesGood, AskedRows
<1> QED BY <1>1, <1>2

LEMMA AddWritesKeeps ==
    ASSUME TypeInv, NEW c \in Procs, AddWrites(c)
    PROVE  Kept
<1> USE DEF AddWrites
<1>1. /\ proc[c].at \notin PlainLabels /\ Target(c) \in Downloads /\ Item(c) \in Row
      /\ "addLock" \in Labels \ (PlainLabels \cup ClearedLabels \cup EntryLabels)
      BY Working, LabelsAre
         DEF TypeInv, At, PlainLabels, LockedLabels, ClearedLabels, StartLabels, EntryLabels, ListLabels
<1>2. /\ allowed' \in {allowed, allowed \cup {Target(c)}}
      /\ approved' \in {approved, approved \cup {Target(c)}}
      /\ Item(c).why = "user" => Target(c) \in Cleared'
      /\ allowed' # allowed => Item(c).why = "user"
      BY DEF Cleared
<1>3. ProcsSound' /\ (PermitInv => ProcsGood')
      BY <1>1, <1>2, TurnTo DEF TypeInv
<1>4. /\ row' \in [Downloads -> Row] /\ row'[Target(c)] = Item(c)
      /\ \A e \in Downloads \ {Target(c)} : row'[e] = row[e]
      BY <1>1, Writes DEF TypeInv
<1> QED BY <1>1, <1>2, <1>3, <1>4, ApproveKeeps DEF Kept, PermitInv

LEMMA ResumeAllowsKeeps ==
    ASSUME TypeInv, NEW c \in Procs, ResumeAllows(c)
    PROVE  Kept
<1> USE DEF ResumeAllows
<1>1. /\ proc[c].at \notin PlainLabels \cup {"addWrite"} /\ Target(c) \in Downloads
      /\ "resumeLock" \in Labels \ (PlainLabels \cup EntryLabels)
      BY Working, LabelsAre DEF TypeInv, At, PlainLabels, LockedLabels, EntryLabels, ListLabels
<1>2. approved \subseteq approved' /\ Target(c) \in Cleared'
      BY DEF Cleared
<1>3. ProcsSound' /\ (PermitInv => ProcsGood')
      BY <1>1, <1>2, TurnTo DEF TypeInv
<1> QED BY <1>1, <1>2, <1>3, ApproveKeeps DEF Kept, PermitInv, TypeInv, TypeOK

\* A test that the supervisor asks for gives no new permission.
LEMMA TestAllowsKeeps ==
    ASSUME TypeInv, NEW p \in Procs, TestAllows(p)
    PROVE  TypeInv' /\ (PermitInv /\ (p = Health => Target(p) \in Cleared) => PermitInv')
<1> USE DEF TestAllows
<1> DEFINE d == Target(p)
           r == [Item(p) EXCEPT !.prio = "HIGH"]
           s == [proc[p] EXCEPT !.at = "testLock", !.it[d] = r]
<1>1. /\ proc[p].at \notin PlainLabels \cup {"addWrite"} /\ d \in Downloads /\ Item(p) \in Row
      /\ proc[p] \in Process /\ Sound(proc[p])
      /\ "testLock" \in Labels \ (PlainLabels \cup EntryLabels)
      BY Working, LabelsAre DEF TypeInv, At, PlainLabels, LockedLabels, EntryLabels, ListLabels
<1>2. r \in Row /\ r.why = Item(p).why
      BY <1>1, RowEdits DEF Priorities
<1>3. Write(d, r) /\ Become(p, s)
      OBVIOUS
<1>4. approved' \in {approved, approved \cup {d}} /\ (p # Health => d \in Cleared')
      /\ Cleared \subseteq Cleared'
      BY DEF Cleared
<1>5. d = proc[p].d /\ Item(p) = proc[p].it[d]
      BY DEF Item, Target
<1> HIDE DEF r, d
<1>6. s = [proc[p] EXCEPT !.at = "testLock", !.it = [proc[p].it EXCEPT ![d] = r]]
      BY <1>1 DEF Process
<1>7. proc[p].it \in [Downloads -> Row]
      BY <1>1 DEF Process
<1>8. [proc[p].it EXCEPT ![d] = r] \in [Downloads -> Row]
      BY <1>2, <1>7
<1> HIDE DEF s
<1>9. /\ s \in Process /\ s.at = "testLock" /\ s.d = d /\ s.then = proc[p].then
      /\ s.todo = proc[p].todo /\ s.it = [proc[p].it EXCEPT ![d] = r]
      BY <1>1, <1>5, <1>6, <1>8 DEF Process
<1>10. Sound(s)
      BY <1>1, <1>9 DEF Sound, Carries, ListLabels, EntryLabels, At
<1>11. PermitInv /\ d \in Cleared' => Good(s, Cleared')
  <2> SUFFICES ASSUME PermitInv, d \in Cleared' PROVE Good(s, Cleared')
      OBVIOUS
  <2>1. Good(proc[p], Cleared) /\ AskedRows(proc[p].it, Cleared)
        BY <1>1, WorkingGood DEF TypeInv
  <2>2. AskedRows(s.it, Cleared')
        BY <1>4, <1>7, <1>9, <2>1 DEF AskedRows
  <2> QED BY <1>1, <1>4, <1>9, <2>1, <2>2 DEF Good, Carries, At
<1>12. ProcsSound' /\ (PermitInv /\ d \in Cleared' => ProcsGood')
      BY <1>3, <1>4, <1>9, <1>10, <1>11, Turn DEF TypeInv, PermitInv
<1>13. /\ row' \in [Downloads -> Row] /\ \A e \in Downloads \ {d} : row'[e] = row[e]
      BY <1>1, <1>2, <1>3, Writes DEF TypeInv
<1>14. allowed' \in {allowed, allowed \cup {d}}
      BY DEF d
<1> QED BY <1>1, <1>4, <1>12, <1>13, <1>14, ApproveKeeps DEF PermitInv, d

\* The steps that store the row as it was read, edited.
LEMMA StoresKeep ==
    ASSUME TypeInv, NEW p \in Procs,
           PriorityWrites(p) \/ CancelWrites(p) \/ RestartWrites(p)
    PROVE  Kept
<1>1. /\ proc[p].at \notin PlainLabels \cup {"addWrite"} /\ Target(p) \in Downloads /\ Item(p) \in Row
      /\ PermitInv /\ Item(p).why = "user" => Target(p) \in Cleared
  <2>1. proc[p].at \notin PlainLabels \cup {"addWrite"}
        BY DEF PriorityWrites, CancelWrites, RestartWrites, At, PlainLabels
  <2> QED BY <2>1, Working, WorkingGood DEF TypeInv
<1>2. PICK r \in Row : Write(Target(p), r) /\ r.why = Item(p).why
  <2>1. \A st \in Statuses : /\ [Item(p) EXCEPT !.st = st] \in Row
                            /\ [Item(p) EXCEPT !.st = st].why = Item(p).why
        BY <1>1, RowEdits
  <2>2. "CANCELLED" \in Statuses /\ "QUEUED" \in Statuses
        BY DEF Statuses
  <2>3. \/ Write(Target(p), Item(p)) \/ Write(Target(p), [Item(p) EXCEPT !.st = "CANCELLED"])
        \/ Write(Target(p), [Item(p) EXCEPT !.st = "QUEUED"])
        BY Zenon DEF PriorityWrites, CancelWrites, RestartWrites
  <2> QED BY <1>1, <2>1, <2>2, <2>3
<1>3. ProcsSound' /\ (PermitInv => ProcsGood')
  <2>1. CASE Finish(p) /\ UNCHANGED approved
        BY <2>1, IdleType, Turn DEF Finish, TypeInv, PermitInv
  <2>2. CASE Goto(p, "enforce") /\ UNCHANGED approved
    <3>1. "enforce" \in (Labels \cap PlainLabels) \ (ClearedLabels \cup EntryLabels)
          BY LabelsAre DEF LockedLabels, PlainLabels, ClearedLabels, StartLabels, EntryLabels, ListLabels
    <3> QED BY <1>1, <2>2, <3>1, TurnTo DEF TypeInv
  <2> QED BY <2>1, <2>2 DEF PriorityWrites, CancelWrites, RestartWrites
<1>4. UNCHANGED <<slots, allowed, mon, seen, reserved, handle, lock, view, max, approved, bounds>>
      BY DEF PriorityWrites, CancelWrites, RestartWrites, mem, monitor
<1>5. revived' \subseteq Downloads
      BY <1>1 DEF PriorityWrites, CancelWrites, RestartWrites, monitor, TypeInv, TypeOK
<1> QED BY <1>1, <1>2, <1>3, <1>4, <1>5, WriteKeeps DEF Kept, TypeInv, TypeOK

LEMMA RestartUnloadsKeeps ==
    ASSUME TypeInv, NEW c \in Procs, RestartUnloads(c)
    PROVE  Kept
<1> USE DEF RestartUnloads
<1>1. /\ proc[c].at \notin PlainLabels \cup {"addWrite"} /\ Target(c) \in Downloads
      /\ "restartWrite" \in Labels \ (ClearedLabels \cup EntryLabels)
      BY Working DEF TypeInv, At, PlainLabels, Labels, ClearedLabels, StartLabels, EntryLabels, ListLabels
<1>2. ProcsSound' /\ (PermitInv => ProcsGood')
      BY <1>1, TurnTo DEF TypeInv
<1>3. /\ handle' \in [Downloads -> {"none", "running", "paused"}]
      /\ \A e \in Downloads : handle[e] = "none" => handle'[e] = "none"
      BY DEF TypeInv, TypeOK
<1> QED BY <1>2, <1>3, QuietKeeps DEF Kept, TypeInv, TypeOK, PermitInv, mem, monitor, bounds

LEMMA CancelReadsKeeps ==
    ASSUME TypeInv, NEW c \in Procs, CancelReads(c)
    PROVE  Kept
<1> USE DEF CancelReads
<1> DEFINE d == Target(c)
           s == [proc[c] EXCEPT !.at = "cancelWrite", !.it[d] = row[d]]
<1>1. /\ proc[c].at \notin PlainLabels \cup {"addWrite"} /\ d \in Downloads
      /\ proc[c] \in Process /\ Sound(proc[c])
      /\ "cancelWrite" \in Labels \ (ClearedLabels \cup EntryLabels)
      BY Working DEF TypeInv, At, PlainLabels, Labels, ClearedLabels, StartLabels, EntryLabels, ListLabels
<1>2. row[d] \in Row /\ proc[c].it \in [Downloads -> Row]
      BY <1>1 DEF TypeInv, TypeOK, Process
<1>3. Become(c, s) /\ d = proc[c].d
      BY DEF Target
<1>4. /\ mon' \in [Downloads -> {"off", "run", "finishing", "stalling", "failing", "seeding",
                                 "closing"}]
      /\ seen' \in [Downloads -> Row] /\ \A e \in Downloads : seen'[e] \in {seen[e], NoRows[e]}
      /\ revived' \subseteq Downloads /\ orphaned' \subseteq Downloads
      BY <1>1, NoRowsType DEF TypeInv, TypeOK, Monitored
<1> HIDE DEF d
<1>5. s = [proc[c] EXCEPT !.at = "cancelWrite", !.it = [proc[c].it EXCEPT ![d] = row[d]]]
      BY <1>1 DEF Process
<1>6. [proc[c].it EXCEPT ![d] = row[d]] \in [Downloads -> Row]
      BY <1>2
<1> HIDE DEF s
<1>7. /\ s \in Process /\ s.at = "cancelWrite" /\ s.d = d /\ s.then = proc[c].then
      /\ s.todo = proc[c].todo /\ s.it = [proc[c].it EXCEPT ![d] = row[d]]
      BY <1>1, <1>3, <1>5, <1>6 DEF Process
<1>8. Sound(s)
      BY <1>1, <1>7 DEF Sound, Carries, EntryLabels
<1>9. PermitInv => Good(s, Cleared)
  <2> SUFFICES ASSUME PermitInv PROVE Good(s, Cleared)
      OBVIOUS
  <2>1. Good(proc[c], Cleared) /\ AskedRows(proc[c].it, Cleared) /\ AskedRows(row, Cleared)
        BY <1>1, WorkingGood DEF TypeInv, PermitInv, TablesGood
  <2>2. AskedRows(s.it, Cleared)
        BY <1>2, <1>7, <2>1 DEF AskedRows
  <2> QED BY <1>1, <1>7, <2>1, <2>2 DEF Good, Carries, At
<1>10. ProcsSound' /\ (PermitInv => ProcsGood')
      BY <1>3, <1>7, <1>8, <1>9, Turn DEF TypeInv, PermitInv, Cleared
<1> QED BY <1>4, <1>10, QuietKeeps DEF Kept, TypeInv, TypeOK, PermitInv, bounds

-----------------------------------------------------------------------------
(* Recovery, the storage service and crashes *)

LEMMA Tails ==
    ASSUME NEW S, NEW s \in Seq(S), s # << >>
    PROVE  /\ Head(s) \in S /\ Tail(s) \in Seq(S)
           /\ Head(s) = s[1] /\ 1 \in 1..Len(s)
           /\ \A i \in 1..Len(Tail(s)) : i + 1 \in 1..Len(s) /\ Tail(s)[i] = s[i + 1]
OBVIOUS

LEMMA TailsGood ==
    ASSUME NEW s \in Seq(Downloads), s # << >>, NEW cleared,
           \A i \in 1..Len(s) : s[i] \in cleared
    PROVE  Head(s) \in cleared /\ \A i \in 1..Len(Tail(s)) : Tail(s)[i] \in cleared
<1>1. /\ Head(s) = s[1] /\ 1 \in 1..Len(s)
      /\ \A i \in 1..Len(Tail(s)) : i + 1 \in 1..Len(s) /\ Tail(s)[i] = s[i + 1]
      BY Tails
<1> QED BY <1>1

\* A list of downloads is read from the table, to go through it.
LEMMA ListRead ==
    ASSUME TypeInv, NEW p \in Procs, NEW l \in {"recoverItem", "storageItem"},
           NEW set \in SUBSET Downloads, NEW todo \in ByAge(set),
           Become(p, [Idle EXCEPT !.at = l, !.it = row, !.todo = todo]), UNCHANGED approved
    PROVE  ProcsSound' /\ (PermitInv => ProcsGood')
<1> DEFINE s == [Idle EXCEPT !.at = l, !.it = row, !.todo = todo]
<1>1. todo \in Seq(Downloads)
      BY Ordered
<1>2. l \in (Labels \cap PlainLabels) \ (ClearedLabels \cup {"addWrite", "recoverStart"})
      BY DEF Labels, PlainLabels, ClearedLabels, StartLabels
<1>3. s \in Process /\ s.at = l /\ s.it = row /\ s.then = "idle"
      BY <1>1, <1>2, IdleType DEF TypeInv, TypeOK, Idle, Process
<1>4. Become(p, s)
      OBVIOUS
<1> HIDE DEF s
<1>5. Sound(s) /\ (PermitInv => Good(s, Cleared))
      BY <1>2, <1>3 DEF Sound, Good, Carries, PermitInv, TablesGood
<1> QED BY <1>3, <1>4, <1>5, Turn DEF TypeInv, PermitInv, Cleared

LEMMA BootReadKeeps ==
    ASSUME TypeInv, BootRead
    PROVE  Kept
<1> USE DEF BootRead
<1>1. ProcsSound' /\ (PermitInv => ProcsGood')
  <2>1. Active(row) \ InStatus(row, {"PAUSED"}) \in SUBSET Downloads
        BY DEF Active, InStatus
  <2> QED BY <2>1, ListRead DEF Procs
<1> QED BY <1>1, QuietKeeps DEF Kept, TypeInv, TypeOK, PermitInv, monitor, bounds

LEMMA StorageReadKeeps ==
    ASSUME TypeInv, StorageRead
    PROVE  Kept
<1> USE DEF StorageRead
<1>1. ProcsSound' /\ (PermitInv => ProcsGood')
  <2>1. Unavailable(row) \in SUBSET Downloads
        BY DEF Unavailable, InStatus
  <2> QED BY <2>1, ListRead DEF Procs
<1> QED BY <1>1, QuietKeeps DEF Kept, TypeInv, TypeOK, PermitInv, mem, monitor, bounds

\* A process goes on in its list: its row of the head may change its status.
LEMMA NextInList ==
    ASSUME TypeInv, NEW p \in Procs, proc[p].at \in {"recoverItem", "storageItem"},
           proc[p].todo # << >>, NEW s \in Process, Become(p, s), UNCHANGED <<approved, max>>,
           s.at = proc[p].at, s.d = proc[p].d, s.then = proc[p].then, s.todo = Tail(proc[p].todo),
           \A d \in Downloads : s.it[d].why = proc[p].it[d].why
    PROVE  ProcsSound' /\ (PermitInv => ProcsGood')
<1>1. proc[p] \in Process /\ Sound(proc[p]) /\ proc[p].todo \in Seq(Downloads)
      BY Working DEF TypeInv
<1>2. Sound(s)
      BY <1>1 DEF Sound, Carries, ListLabels, PlainLabels
<1>3. PermitInv => Good(s, Cleared)
  <2> SUFFICES ASSUME PermitInv PROVE Good(s, Cleared)
      OBVIOUS
  <2>1. Good(proc[p], Cleared)
        BY DEF PermitInv, ProcsGood
  <2>2. s.at = "recoverStart" \/ s.then = "recoverStart" =>
           \A i \in 1..Len(s.todo) : s.todo[i] \in Cleared
        BY <1>1, <2>1, TailsGood DEF Good
  <2> QED BY <1>1, <2>1, <2>2 DEF Good, Sound, Carries, ListLabels, AskedRows
<1> QED BY <1>2, <1>3, Turn DEF TypeInv, PermitInv, Cleared

LEMMA BootItemKeeps ==
    ASSUME TypeInv, BootItem
    PROVE  Kept
<1> DEFINE d == Head(proc[Boot].todo)
           r == proc[Boot].it[d]
           q == [r EXCEPT !.st = "QUEUED"]
           s == [proc[Boot] EXCEPT !.todo = Tail(@), !.it[d].st = "QUEUED"]
<1>1. /\ At(Boot, "recoverItem") /\ proc[Boot].todo # << >>
      /\ Write(d, q)
      /\ allowed' = IF r.why = "user" THEN allowed \cup {d} ELSE allowed
      /\ Become(Boot, s)
      /\ UNCHANGED <<slots, reserved, handle, monitor, lock, view, max, approved, bounds>>
      BY DEF BootItem
<1>2. /\ Boot \in Procs /\ proc[Boot] \in Process /\ Sound(proc[Boot]) /\ d \in Downloads
      /\ Tail(proc[Boot].todo) \in Seq(Downloads) /\ proc[Boot].it \in [Downloads -> Row]
      BY <1>1, Working, Tails DEF TypeInv, Procs
<1>3. r \in Row /\ q \in Row /\ q.why = r.why
  <2>1. r \in Row /\ "QUEUED" \in Statuses
        BY <1>2 DEF Statuses
  <2> HIDE DEF r
  <2> QED BY <2>1, RowEdits
<1>4. PermitInv /\ r.why = "user" => d \in Cleared
      BY <1>1, <1>2, WorkingGood DEF TypeInv, At, AskedRows
<1>5. s = [proc[Boot] EXCEPT !.todo = Tail(proc[Boot].todo), !.it = [proc[Boot].it EXCEPT ![d] = q]]
      BY <1>2, <1>3 DEF Process
<1> HIDE DEF d, q, s
<1>6. [proc[Boot].it EXCEPT ![d] = q] \in [Downloads -> Row]
      BY <1>2, <1>3
<1>7. /\ s \in Process /\ s.at = proc[Boot].at /\ s.d = proc[Boot].d /\ s.then = proc[Boot].then
      /\ s.todo = Tail(proc[Boot].todo) /\ s.it = [proc[Boot].it EXCEPT ![d] = q]
      BY <1>2, <1>5, <1>6 DEF Process
<1>8. \A e \in Downloads : s.it[e].why = proc[Boot].it[e].why
      BY <1>2, <1>3, <1>7
<1>9. ProcsSound' /\ (PermitInv => ProcsGood')
      BY <1>1, <1>2, <1>7, <1>8, NextInList DEF At
<1>10. /\ row' \in [Downloads -> Row] /\ row'[d] = q /\ \A e \in Downloads \ {d} : row'[e] = row[e]
      BY <1>1, <1>2, <1>3, Writes DEF TypeInv
<1>11. /\ allowed' \in {allowed, allowed \cup {d}}
       /\ PermitInv /\ allowed' # allowed => d \in Cleared'
       /\ PermitInv /\ row'[d].why = "user" => d \in Cleared'
      BY <1>1, <1>3, <1>4, <1>10 DEF Cleared
<1> QED BY <1>1, <1>2, <1>9, <1>10, <1>11, ApproveKeeps DEF Kept, PermitInv

LEMMA StorageItemKeeps ==
    ASSUME TypeInv, StorageItem
    PROVE  Kept
<1> USE DEF StorageItem
<1> DEFINE d == Head(proc[Storage].todo)
           r == proc[Storage].it[d]
<1>1. /\ Storage \in Procs /\ proc[Storage] \in Process /\ d \in Downloads
      /\ Tail(proc[Storage].todo) \in Seq(Downloads)
      /\ proc[Storage].at = "storageItem" /\ proc[Storage].todo # << >>
      /\ proc[Storage].it \in [Downloads -> Row]
      BY Working, Tails DEF TypeInv, Procs, At
<1>2. r \in Row /\ [r EXCEPT !.st = "QUEUED"] \in Row /\ [r EXCEPT !.st = "QUEUED"].why = r.why
  <2>1. r \in Row /\ "QUEUED" \in Statuses
        BY <1>1 DEF Statuses
  <2> HIDE DEF r
  <2> QED BY <2>1, RowEdits
<1>3. PermitInv /\ r.why = "user" => d \in Cleared
      BY <1>1, WorkingGood DEF TypeInv, AskedRows
<1>4. \E n \in Nat :
        Become(Storage, [proc[Storage] EXCEPT !.todo = Tail(proc[Storage].todo), !.n = n])
  <2>1. [proc[Storage] EXCEPT !.todo = Tail(@)]
          = [proc[Storage] EXCEPT !.todo = Tail(proc[Storage].todo), !.n = proc[Storage].n]
        BY <1>1 DEF Process
  <2>2. proc[Storage].n \in Nat
        BY <1>1 DEF Process
  <2> QED BY <2>1, <2>2
<1>5. PICK n \in Nat :
        Become(Storage, [proc[Storage] EXCEPT !.todo = Tail(proc[Storage].todo), !.n = n])
      BY <1>4
<1> DEFINE s == [proc[Storage] EXCEPT !.todo = Tail(proc[Storage].todo), !.n = n]
<1>6. /\ s \in Process /\ s.at = proc[Storage].at /\ s.d = proc[Storage].d
      /\ s.then = proc[Storage].then /\ s.todo = Tail(proc[Storage].todo) /\ s.it = proc[Storage].it
      BY <1>1 DEF Process
<1>7. Become(Storage, s)
      BY <1>5
<1> HIDE DEF s
<1>8. ProcsSound' /\ (PermitInv => ProcsGood')
      BY <1>1, <1>6, <1>7, NextInList
<1>9. /\ row' \in [Downloads -> Row]
      /\ \A e \in Downloads : row'[e] = row[e] \/ (PermitInv /\ row'[e].why = "user" => e \in Cleared)
  <2>1. CASE UNCHANGED row
        BY <2>1 DEF TypeInv, TypeOK
  <2>2. CASE Write(d, [r EXCEPT !.st = "QUEUED"])
    <3> DEFINE q == [r EXCEPT !.st = "QUEUED"]
    <3>1. q \in Row /\ (PermitInv /\ q.why = "user" => d \in Cleared) /\ d \in Downloads
          BY <1>1, <1>2, <1>3
    <3> HIDE DEF q, d
    <3> QED BY <2>2, <3>1, Writes DEF TypeInv, q
  <2> QED BY <2>1, <2>2
<1> QED BY <1>8, <1>9, QuietKeeps DEF Kept, TypeInv, TypeOK, PermitInv, mem, monitor, bounds

LEMMA StorageDoneKeeps ==
    ASSUME TypeInv, StorageDone
    PROVE  Kept
<1> USE DEF StorageDone
<1>1. /\ Storage \in Procs /\ proc[Storage].at # "addWrite"
      /\ "enforce" \in (Labels \cap PlainLabels) \ (ClearedLabels \cup EntryLabels)
      BY LabelsAre
         DEF Procs, At, LockedLabels, PlainLabels, ClearedLabels, StartLabels, EntryLabels, ListLabels
<1>2. ProcsSound' /\ (PermitInv => ProcsGood')
  <2>1. CASE Goto(Storage, "enforce")
        BY <1>1, <2>1, TurnTo DEF TypeInv
  <2>2. CASE Finish(Storage)
        BY <1>1, <2>2, IdleType, Turn DEF Finish, TypeInv, PermitInv
  <2> QED BY <2>1, <2>2
<1> QED BY <1>2, QuietKeeps DEF Kept, TypeInv, TypeOK, PermitInv, mem, monitor, bounds

LEMMA BootDoneKeeps ==
    ASSUME TypeInv, BootDone
    PROVE  Kept
<1> USE DEF BootDone
<1>1. ProcsSound' /\ (PermitInv => ProcsGood')
      BY IdleType, Turn DEF Procs, Finish, TypeInv, PermitInv
<1> QED BY <1>1, QuietKeeps DEF Kept, TypeInv, TypeOK, PermitInv, mem, monitor, bounds

LEMMA BootSelectKeeps ==
    ASSUME TypeInv, BootSelect
    PROVE  Kept
<1> USE DEF BootSelect
<1> DEFINE kept == {d \in InStatus(proc[Boot].it, {"QUEUED"}) : CanStart(d, proc[Boot].it[d])}
<1>1. /\ Boot \in Procs /\ proc[Boot] \in Process /\ Sound(proc[Boot])
      /\ proc[Boot].at = "recoverItem"
      /\ "recoverStart" \in (Labels \cap PlainLabels \cap Returns) \ (ClearedLabels \cup {"addWrite"})
      BY Working
         DEF TypeInv, Procs, At, Labels, PlainLabels, Returns, ClearedLabels, StartLabels
<1>2. kept \in SUBSET Downloads
      BY DEF InStatus
<1>3. PICK todo \in ByAge(kept) :
        Become(Boot, [proc[Boot] EXCEPT !.at = "recoverStart", !.then = "recoverStart",
                                        !.todo = todo])
      OBVIOUS
<1>4. todo \in Seq(Downloads) /\ \A i \in 1..Len(todo) : todo[i] \in kept
  <2> HIDE DEF kept
  <2> QED BY <1>2, <1>3, Ordered
<1> DEFINE s == [proc[Boot] EXCEPT !.at = "recoverStart", !.then = "recoverStart", !.todo = todo]
<1>5. Become(Boot, s)
      BY <1>3
<1>6. s \in Process /\ s.at = "recoverStart" /\ s.then = "recoverStart" /\ s.todo = todo
      /\ s.it = proc[Boot].it
      BY <1>1, <1>4 DEF Process
<1> HIDE DEF s
<1>7. Sound(s)
      BY <1>1, <1>6 DEF Sound, Carries
<1>8. PermitInv => Good(s, Cleared)
  <2> SUFFICES ASSUME PermitInv PROVE Good(s, Cleared)
      OBVIOUS
  <2>1. AskedRows(proc[Boot].it, Cleared)
        BY <1>1, WorkingGood DEF TypeInv
  <2>2. \A d \in kept : d \in Cleared
        BY <1>2, <2>1, Clears DEF AskedRows
  <2> HIDE DEF kept
  <2> QED BY <1>1, <1>4, <1>6, <2>1, <2>2 DEF Good, Carries
<1>9. ProcsSound' /\ (PermitInv => ProcsGood')
      BY <1>1, <1>5, <1>6, <1>7, <1>8, Turn DEF TypeInv, PermitInv, Cleared
<1> QED BY <1>9, QuietKeeps DEF Kept, TypeInv, TypeOK, PermitInv, mem, monitor, bounds

LEMMA BootStartKeeps ==
    ASSUME TypeInv, BootStart
    PROVE  Kept
<1> USE DEF BootStart
<1> DEFINE s == [proc[Boot] EXCEPT !.d = Head(proc[Boot].todo), !.todo = Tail(@)]
           t == [s EXCEPT !.n = @ + 1]
<1>1. /\ Boot \in Procs /\ proc[Boot] \in Process /\ Sound(proc[Boot])
      /\ proc[Boot].at = "recoverStart" /\ proc[Boot].todo # << >>
      /\ proc[Boot].todo \in Seq(Downloads)
      /\ Head(proc[Boot].todo) \in Downloads /\ Tail(proc[Boot].todo) \in Seq(Downloads)
      BY Working, Tails DEF TypeInv, Procs, At
<1>2. /\ s \in Process /\ s.at = "recoverStart" /\ s.d = Head(proc[Boot].todo)
      /\ s.then = proc[Boot].then /\ s.todo = Tail(proc[Boot].todo) /\ s.it = proc[Boot].it
      /\ s.n \in Nat
      BY <1>1 DEF Process
<1>3. \/ Become(Boot, t) /\ UNCHANGED reserved
      \/ Start(Boot, s)
      BY Zenon
<1> HIDE DEF s
<1>4. /\ t \in Process /\ t.at = s.at /\ t.d = s.d /\ t.then = s.then /\ t.todo = s.todo /\ t.it = s.it
  <2>1. t = [s EXCEPT !.n = s.n + 1] /\ s.n + 1 \in Nat
        BY <1>2 DEF Process
  <2> HIDE DEF t
  <2> QED BY <1>2, <2>1 DEF Process
<1> HIDE DEF t
<1>5. s.then \notin {"preempted", "freed"}
      BY <1>1, <1>2 DEF Sound, Carries, ListLabels
<1>6. PermitInv => /\ s.d \in Cleared /\ \A i \in 1..Len(s.todo) : s.todo[i] \in Cleared
                   /\ AskedRows(s.it, Cleared)
  <2> SUFFICES ASSUME PermitInv
               PROVE  /\ s.d \in Cleared /\ \A i \in 1..Len(s.todo) : s.todo[i] \in Cleared
                      /\ AskedRows(s.it, Cleared)
      OBVIOUS
  <2>1. Good(proc[Boot], Cleared)
        BY <1>1 DEF PermitInv, ProcsGood
  <2>2. \A i \in 1..Len(proc[Boot].todo) : proc[Boot].todo[i] \in Cleared
        BY <1>1, <2>1 DEF Good
  <2>3. s.d \in Cleared /\ \A i \in 1..Len(s.todo) : s.todo[i] \in Cleared
        BY <1>1, <1>2, <2>2, TailsGood
  <2> QED BY <1>1, <1>2, <2>1, <2>3 DEF Good
<1>7. ProcsSound' /\ reserved' \subseteq Downloads /\ (PermitInv => ProcsGood')
  <2>1. CASE Become(Boot, t) /\ UNCHANGED reserved
    <3>1. Sound(t) /\ (PermitInv => Good(t, Cleared))
          BY <1>1, <1>2, <1>4, <1>5, <1>6
             DEF Sound, Good, Carries, ListLabels, PlainLabels, ClearedLabels, StartLabels
    <3> QED BY <1>1, <1>4, <2>1, <3>1, Turn DEF TypeInv, TypeOK, PermitInv, Cleared
  <2>2. CASE Start(Boot, s)
        BY <1>1, <1>2, <1>5, <1>6, <2>2, Starts
  <2> QED BY <1>3, <2>1, <2>2
<1> QED BY <1>7, QuietKeeps DEF Kept, TypeInv, TypeOK, PermitInv, monitor, bounds

\* All processes idle, recovery about to begin: so the program starts.
LEMMA Fresh ==
    ASSUME NEW f, f = [p \in Procs |-> IF p = Boot THEN [Idle EXCEPT !.at = "recover"] ELSE Idle]
    PROVE  f \in [Procs -> Process] /\ \A p \in Procs : Sound(f[p]) /\ \A c : Good(f[p], c)
<1> DEFINE s == [Idle EXCEPT !.at = "recover"]
<1>1. s \in Process /\ Sound(s) /\ \A c : Good(s, c)
  <2>1. "recover" \in (Labels \cap PlainLabels) \ ClearedLabels
        BY DEF Labels, PlainLabels, ClearedLabels, StartLabels
  <2>2. s.at = "recover" /\ s.d = Idle.d /\ s.it = Idle.it /\ s.todo = Idle.todo /\ s.then = "idle"
        /\ s \in Process
        BY <2>1, IdleType DEF Idle, Process
  <2> HIDE DEF s
  <2> QED BY <2>1, <2>2, IdleType DEF Sound, Carries, ListLabels, Good, Idle
<1>2. \A p \in Procs : f[p] = s \/ f[p] = Idle
      OBVIOUS
<1> HIDE DEF s
<1> QED BY <1>1, <1>2, IdleType

LEMMA CrashKeeps ==
    ASSUME TypeInv, Crash
    PROVE  Kept
<1> USE DEF Crash
<1>1. ProcsSound' /\ ProcsGood'
      BY Fresh DEF ProcsSound, ProcsGood
<1>2. TypeOK'
      BY <1>1, NoRowsType, QueueAssumption DEF TypeInv, TypeOK, ProcsSound
<1>3. PermitInv => TablesGood'
      BY NoRowsType DEF PermitInv, TablesGood, AskedRows, Cleared
<1> QED BY <1>1, <1>2, <1>3 DEF Kept, TypeInv, PermitInv

LEMMA InitKept ==
    ASSUME Init
    PROVE  TypeInv /\ PermitInv
<1> USE DEF Init
<1>1. ProcsSound /\ ProcsGood
      BY Fresh DEF ProcsSound, ProcsGood
<1>2. TypeOK
      BY <1>1, NoRowsType, QueueAssumption DEF TypeOK, ProcsSound
<1>3. TablesGood
      BY NoRowsType DEF TablesGood, AskedRows, Cleared
<1> QED BY <1>1, <1>2, <1>3 DEF TypeInv, PermitInv

-----------------------------------------------------------------------------
(* Lifecycle monitors *)

LEMMA MonitorKeeps ==
    ASSUME TypeInv, NEW d \in Downloads, MonitorStep(d)
    PROVE  Kept
<1>1. UNCHANGED <<reserved, allowed, lock, view, proc, max, approved, bounds>>
      BY DEF MonitorStep, MonProgress, MonFinishes, MonStalls, MonRaises, MonReads, MonSeeds,
             MonParks, MonFails, MonCompletes, MonCloses, Quiet
<1>2. ProcsSound' /\ (PermitInv => ProcsGood')
      BY <1>1, NoTurn DEF TypeInv, PermitInv
<1>3. row[d] \in Row /\ seen[d] \in Row /\ NoRows[d] \in Row
      BY NoRowsType DEF TypeInv, TypeOK
<1>4. PermitInv => (row[d].why = "user" => d \in Cleared)
      BY DEF PermitInv, TablesGood, AskedRows
<1>5. /\ row' \in [Downloads -> Row]
      /\ \A e \in Downloads : row'[e] = row[e] \/ (PermitInv /\ row'[e].why = "user" => e \in Cleared)
  <2>1. \/ UNCHANGED row
        \/ Write(d, [row[d] EXCEPT !.st = "DOWNLOADING"])
        \/ \E r \in {row[d], seen[d]}, st \in Statuses : Write(d, [r EXCEPT !.st = st, !.why = "other"])
        BY Zenon
           DEF MonitorStep, MonProgress, MonFinishes, MonStalls, MonRaises, MonReads, MonSeeds,
               MonParks, MonFails, MonCompletes, MonCloses, Statuses
  <2>2. CASE UNCHANGED row
        BY <2>2 DEF TypeInv, TypeOK
  <2>3. ASSUME NEW r \in Row, Write(d, r), PermitInv => (r.why = "user" => d \in Cleared)
        PROVE  /\ row' \in [Downloads -> Row]
               /\ \A e \in Downloads : \/ row'[e] = row[e]
                                       \/ PermitInv /\ row'[e].why = "user" => e \in Cleared
        BY <2>3, Writes DEF TypeInv
  <2>4. [row[d] EXCEPT !.st = "DOWNLOADING"] \in Row
        /\ [row[d] EXCEPT !.st = "DOWNLOADING"].why = row[d].why
    <3> DEFINE r == row[d]
    <3>1. r \in Row /\ "DOWNLOADING" \in Statuses
          BY <1>3 DEF Statuses
    <3> HIDE DEF r
    <3>2. [r EXCEPT !.st = "DOWNLOADING"] \in Row /\ [r EXCEPT !.st = "DOWNLOADING"].why = r.why
          BY <3>1, RowEdits
    <3> QED BY <3>2 DEF r
  <2>5. \A r \in {row[d], seen[d]}, st \in Statuses :
           [r EXCEPT !.st = st, !.why = "other"] \in Row /\ [r EXCEPT !.st = st, !.why = "other"].why = "other"
    <3>1. \A r \in Row, st \in Statuses :
             [r EXCEPT !.st = st, !.why = "other"] \in Row /\ [r EXCEPT !.st = st, !.why = "other"].why = "other"
          BY RowEdits
    <3> QED BY <1>3, <3>1
  <2> QED BY <1>4, <2>1, <2>2, <2>3, <2>4, <2>5
<1>6. /\ slots' \subseteq slots
      /\ mon' \in [Downloads -> {"off", "run", "finishing", "stalling", "failing", "seeding",
                                 "closing"}]
      /\ revived' \subseteq Downloads
      BY DEF TypeInv, TypeOK, MonitorStep, MonProgress, MonFinishes, MonStalls, MonRaises, MonReads,
             MonSeeds, MonParks, MonFails, MonCompletes, MonCloses, Watch, monitor
<1>7. /\ seen' \in [Downloads -> Row]
      /\ \A e \in Downloads : seen'[e] \in {seen[e], row[e], NoRows[e]}
      BY <1>3 DEF TypeInv, TypeOK, MonitorStep, MonProgress, MonFinishes, MonStalls, MonRaises,
             MonReads, MonSeeds, MonParks, MonFails, MonCompletes, MonCloses, monitor
<1>8. /\ handle' \in [Downloads -> {"none", "running", "paused"}]
      /\ \A e \in Downloads : handle[e] = "none" => handle'[e] = "none"
      BY DEF TypeInv, TypeOK, MonitorStep, MonProgress, MonFinishes, MonStalls, MonRaises,
             MonReads, MonSeeds, MonParks, MonFails, MonCompletes, MonCloses
<1> QED BY <1>1, <1>2, <1>5, <1>6, <1>7, <1>8, QuietKeeps
        DEF Kept, TypeInv, TypeOK, PermitInv, bounds

-----------------------------------------------------------------------------
(* The theorems about types and permissions *)

LEMMA Pausing ==
    ASSUME TypeInv, NEW p \in Procs, PauseStep(p)
    PROVE  Kept
BY PauseReadKeeps, PauseHandleKeeps, PauseWritesKeeps, PauseUnloadsKeeps DEF PauseStep

LEMMA Enforcing ==
    ASSUME TypeInv, NEW p \in Procs, EnforceStep(p)
    PROVE  Kept
BY LockKeeps, EnforceSyncKeeps, EnforceCutKeeps, EnforceNextKeeps DEF EnforceStep

LEMMA StartGoesOn ==
    ASSUME TypeInv, NEW p \in Procs, StartStep(p)
    PROVE  Kept
BY StartAddedKeeps, StartWritesKeeps, StartSpawnsKeeps, StartFailsKeeps, StartRaisesKeeps DEF StartStep

LEMMA Waking ==
    ASSUME TypeInv, NEW p \in Procs, ResumeWakes(p) \/ ResumeSpawns(p) \/ Unlock(p)
    PROVE  Kept
BY ResumeWakesKeeps, ResumeSpawnsKeeps, UnlockKeeps

LEMMA Testing ==
    ASSUME TypeInv, NEW p \in Procs, TestStep(p)
    PROVE  TypeInv' /\ (PermitInv /\ (p = Health /\ At(p, "testAllow") => Target(p) \in Cleared)
                        => PermitInv')
<1>1. CASE TestAllows(p)
      BY <1>1, TestAllowsKeeps DEF TestAllows
<1>2. CASE ~TestAllows(p)
      BY <1>2, TestGateKeeps, TestVictimKeeps, TestFreedKeeps, TestStartsKeeps DEF TestStep, Kept
<1> QED BY <1>1, <1>2

LEMMA CallerKeeps ==
    ASSUME TypeInv, NEW c \in Callers, Request(c) \/ CallerStep(c)
    PROVE  Kept
<1>1. c \in Procs /\ c # Health
      BY QueueAssumption DEF Procs
<1>2. CASE Request(c)
      BY <1>2, RequestAddKeeps, RequestPauseKeeps, RequestMaxKeeps, RequestCancelKeeps,
         ReadRequestsKeep DEF Request
<1>3. CASE CallerStep(c)
  <2>1. CASE TestStep(c)
        BY <1>1, <2>1, Testing DEF Kept
  <2>2. CASE EnforceStep(c) \/ StartStep(c) \/ PauseStep(c)
        BY <1>1, <2>2, Enforcing, StartGoesOn, Pausing
  <2>3. CASE ResumeWakes(c) \/ ResumeSpawns(c) \/ Unlock(c) \/ ResumeAllows(c) \/ ResumeGate(c)
             \/ ResumeStarts(c) \/ ResumeRequeues(c)
        BY <1>1, <2>3, Waking, ResumeAllowsKeeps, ResumeGateKeeps, ResumeStartsKeeps,
           ResumeRequeuesKeeps
  <2>4. CASE AddWrites(c) \/ AddGate(c) \/ AddPolicy(c) \/ AddReleases(c)
        BY <1>1, <2>4, AddWritesKeeps, AddGateKeeps, AddPolicyKeeps, AddReleasesKeeps
  <2>5. CASE PriorityWrites(c) \/ CancelReads(c) \/ CancelWrites(c) \/ RestartUnloads(c)
             \/ RestartWrites(c)
        BY <1>1, <2>5, StoresKeep, CancelReadsKeeps, RestartUnloadsKeeps
  <2> QED BY <1>3, <2>1, <2>2, <2>3, <2>4, <2>5 DEF CallerStep
<1> QED BY <1>2, <1>3

LEMMA NextKeeps ==
    ASSUME TypeInv, [Next]_vars
    PROVE  Kept
<1>1. Loop \in Procs /\ Boot \in Procs /\ Storage \in Procs
      BY DEF Procs
<1>2. CASE LoopStep
      BY <1>1, <1>2, LoopReadKeeps, LoopPickKeeps, LoopGateKeeps, LoopPreemptedKeeps, StartGoesOn, Pausing
         DEF LoopStep
<1>3. CASE BootStep
      BY <1>1, <1>3, BootReadKeeps, BootItemKeeps, BootSelectKeeps, BootStartKeeps, BootDoneKeeps,
         StartGoesOn DEF BootStep
<1>4. CASE StorageStep
      BY <1>1, <1>4, StorageReadKeeps, StorageItemKeeps, StorageDoneKeeps, Enforcing, Pausing
         DEF StorageStep
<1>5. CASE Crash
      BY <1>5, CrashKeeps
<1>6. CASE \E c \in Callers : Request(c) \/ CallerStep(c)
      BY <1>6, CallerKeeps
<1>7. CASE \E d \in Downloads : MonitorStep(d)
      BY <1>7, MonitorKeeps
<1>8. CASE UNCHANGED vars
  <2>1. ProcsSound' /\ (PermitInv => ProcsGood')
        BY <1>8, NoTurn DEF TypeInv, PermitInv, vars
  <2> QED BY <1>8, <2>1, QuietKeeps DEF Kept, TypeInv, TypeOK, PermitInv, vars
<1> QED BY <1>2, <1>3, <1>4, <1>5, <1>6, <1>7, <1>8 DEF Next

\* Every state of the program is well formed: TypeOK, for any downloads, callers
\* and tables.
THEOREM QueueTypes == Spec => []TypeOK
<1>1. Init => TypeInv
      BY InitKept
<1>2. TypeInv /\ [Next]_vars => TypeInv'
      BY NextKeeps DEF Kept
<1>3. TypeInv => TypeOK
      BY DEF TypeInv
<1> QED BY <1>1, <1>2, <1>3, PTL DEF Spec

LEMMA PermitImplies ==
    ASSUME PermitInv
    PROVE  Permitted
<1>1. \A d \in Downloads : Starting(d) # {} => d \in Cleared
      BY DEF PermitInv, ProcsGood, Good, Starting, Target, ClearedLabels
<1> QED BY <1>1 DEF PermitInv, TablesGood, Permitted, Cleared

\* No download is handed to the engine, or kept there, without permission: the
\* user asked for it or its category allows automation, through every queue
\* pass, request, recovery and crash (_can_start_queued_download, recover_downloads).
THEOREM NothingStartsUnasked == Spec => []Permitted
<1>1. Init => TypeInv /\ PermitInv
      BY InitKept
<1>2. TypeInv /\ PermitInv /\ [Next]_vars => (TypeInv /\ PermitInv)'
      BY NextKeeps DEF Kept
<1>3. TypeInv /\ PermitInv => Permitted
      BY PermitImplies
<1> QED BY <1>1, <1>2, <1>3, PTL DEF Spec

-----------------------------------------------------------------------------
(* One start per download.  Whoever starts a download holds its reservation; *)
(* only a cancel takes it away from him, so the invariant speaks of downloads *)
(* dls that are not cancelled while somebody starts them.                     *)

Alone(dls) ==
    \A p \in Procs : proc[p].at \in StartLabels /\ Target(p) \in dls =>
        /\ Target(p) \in reserved
        /\ \A q \in Procs \ {p} : proc[q].at \in StartLabels => Target(q) # Target(p)

\* A process moves to another label, or on with its start.
LEMMA AloneMoves ==
    ASSUME NEW dls, Alone(dls), TypeInv, NEW p \in Procs, NEW s, Become(p, s),
           s.at \notin StartLabels \/ (proc[p].at \in StartLabels /\ s.d = Target(p)),
           UNCHANGED reserved
    PROVE  Alone(dls)'
<1>1. proc'[p] = s /\ \A q \in Procs \ {p} : proc'[q] = proc[q]
      BY DEF Become, TypeInv, ProcsSound
<1> QED BY <1>1 DEF Alone, Target

LEMMA AloneGoes ==
    ASSUME NEW dls, Alone(dls), TypeInv, NEW p \in Procs, UNCHANGED reserved,
           \/ Finish(p)
           \/ \E l \in Labels : Goto(p, l) /\ (l \notin StartLabels \/ proc[p].at \in StartLabels)
    PROVE  Alone(dls)'
<1>1. proc[p] \in Process
      BY Working DEF TypeInv
<1>2. Idle.at \notin StartLabels
      BY DEF Idle, StartLabels
<1>3. CASE Finish(p)
      BY <1>2, <1>3, AloneMoves DEF Finish
<1>4. ASSUME NEW l \in Labels, Goto(p, l), l \notin StartLabels \/ proc[p].at \in StartLabels
      PROVE  Alone(dls)'
  <2>1. CASE l = "idle"
        BY <1>2, <1>4, <2>1, AloneMoves DEF Goto
  <2>2. CASE l # "idle"
    <3> DEFINE s == [proc[p] EXCEPT !.at = l]
    <3>1. s.at = l /\ s.d = Target(p)
          BY <1>1 DEF Process, Target
    <3>2. Become(p, s)
          BY <1>4, <2>2 DEF Goto
    <3> HIDE DEF s
    <3> QED BY <1>4, <3>1, <3>2, AloneMoves
  <2> QED BY <2>1, <2>2
<1> QED BY <1>3, <1>4

\* Only a download nobody has reserved is started (reserve_start).
LEMMA AloneStarts ==
    ASSUME NEW dls, Alone(dls), TypeInv, NEW p \in Procs, proc[p].at \notin StartLabels,
           NEW s \in Process, Start(p, s)
    PROVE  Alone(dls)'
<1>1. Idle.at \notin StartLabels /\ s.then \notin StartLabels
      BY DEF Idle, StartLabels, Process, Returns
<1>2. [s EXCEPT !.at = s.then].at = s.then
      BY DEF Process
<1>3. CASE s.d \in reserved
  <2>1. CASE s.then = "idle"
        BY <1>1, <1>3, <2>1, AloneMoves DEF Start
  <2>2. CASE s.then # "idle"
    <3> DEFINE u == [s EXCEPT !.at = s.then]
    <3>1. Become(p, u) /\ UNCHANGED reserved
          BY <1>3, <2>2 DEF Start
    <3>2. u.at \notin StartLabels
          BY <1>1, <1>2
    <3> HIDE DEF u
    <3> QED BY <3>1, <3>2, AloneMoves
  <2> QED BY <2>1, <2>2
<1>4. CASE s.d \notin reserved
  <2> DEFINE u == [s EXCEPT !.at = "adding"]
  <2>1. Become(p, u) /\ reserved' = reserved \cup {s.d}
        BY <1>4 DEF Start
  <2>2. u.at = "adding" /\ u.d = s.d
        BY DEF Process
  <2> HIDE DEF u
  <2>3. proc'[p] = u /\ \A q \in Procs \ {p} : proc'[q] = proc[q]
        BY <2>1 DEF Become, TypeInv, ProcsSound
  <2> QED BY <1>4, <2>1, <2>2, <2>3 DEF Alone, Target, StartLabels
<1> QED BY <1>3, <1>4

\* A start goes on, and its reservation is released when it has failed.
LEMMA AloneInStart ==
    ASSUME NEW dls, Alone(dls), TypeInv, NEW p \in Procs, StartStep(p)
    PROVE  Alone(dls)'
<1>1. proc[p] \in Process /\ proc[p].then \in Returns \cap Labels /\ Returns \cap StartLabels = {}
      BY Working, LabelsAre DEF TypeInv, Returns, StartLabels
<1>2. {"added", "written", "failed", "requeue"} \subseteq Labels
      BY LabelsAre DEF StartLabels, Labels
<1>3. CASE StartAdded(p) \/ StartWrites(p) \/ StartFails(p)
  <2>1. \E l \in {"added", "written", "failed"} : Goto(p, l)
        BY <1>3 DEF StartAdded, StartWrites, StartFails
  <2>2. proc[p].at \in StartLabels /\ UNCHANGED reserved
        BY <1>3 DEF StartAdded, StartWrites, StartFails, At, StartLabels, mem
  <2> QED BY <1>2, <2>1, <2>2, AloneGoes
<1>4. CASE StartSpawns(p)
  <2>1. UNCHANGED reserved
        BY <1>4 DEF StartSpawns
  <2>2. CASE Goto(p, proc[p].then)
        BY <1>1, <2>1, <2>2, AloneGoes
  <2>3. CASE Become(p, [proc[p] EXCEPT !.at = proc[p].then, !.n = @ + 1])
    <3> DEFINE s == [proc[p] EXCEPT !.at = proc[p].then, !.n = @ + 1]
    <3>1. s.at = proc[p].then
          BY <1>1 DEF Process
    <3> HIDE DEF s
    <3> QED BY <1>1, <2>1, <2>3, <3>1, AloneMoves DEF s
  <2> QED BY <1>4, <2>2, <2>3 DEF StartSpawns
<1>5. CASE StartRaises(p)
  <2>1. PICK s : Become(p, s) /\ s.at \notin StartLabels
    <3>1. Idle.at \notin StartLabels /\ "requeue" \notin StartLabels
          BY DEF Idle, StartLabels
    <3>2. \A l \in Labels : [proc[p] EXCEPT !.at = l].at = l
          BY <1>1 DEF Process
    <3>3. Finish(p) \/ Goto(p, "requeue") \/ Goto(p, proc[p].then)
          BY <1>5 DEF StartRaises
    <3> QED BY <1>1, <1>2, <3>1, <3>2, <3>3 DEF Finish, Goto
  <2>2. proc'[p] = s /\ \A q \in Procs \ {p} : proc'[q] = proc[q]
        BY <2>1 DEF Become, TypeInv, ProcsSound
  <2>3. reserved' = reserved \ {Target(p)} /\ proc[p].at \in StartLabels
        BY <1>5 DEF StartRaises, At, StartLabels
  <2> QED BY <2>1, <2>2, <2>3 DEF Alone, Target
<1> QED BY <1>3, <1>4, <1>5 DEF StartStep

LEMMA AlonePauses ==
    ASSUME NEW dls, Alone(dls), TypeInv, NEW p \in Procs, PauseStep(p)
    PROVE  Alone(dls)'
<1>1. proc[p] \in Process /\ proc[p].then \in Returns \cap Labels /\ Returns \cap StartLabels = {}
      BY Working, LabelsAre DEF TypeInv, Returns, StartLabels
<1>2. {"paused", "unloading"} \subseteq Labels \ StartLabels
      BY LabelsAre DEF PauseLabels, Labels, StartLabels
<1>3. UNCHANGED reserved
      BY DEF PauseStep, PauseRead, PauseHandle, PauseWrites, PauseUnloads, mem
<1>4. CASE PauseRead(p)
  <2>1. CASE Goto(p, proc[p].then)
        BY <1>1, <1>3, <2>1, AloneGoes
  <2>2. CASE Become(p, [proc[p] EXCEPT !.at = "pausing", !.it[Target(p)] = row[Target(p)]])
    <3> DEFINE s == [proc[p] EXCEPT !.at = "pausing", !.it[Target(p)] = row[Target(p)]]
    <3>1. s.at \notin StartLabels
          BY <1>1 DEF Process, StartLabels
    <3> HIDE DEF s
    <3> QED BY <1>3, <2>2, <3>1, AloneMoves DEF s
  <2> QED BY <1>4, <2>1, <2>2 DEF PauseRead
<1>5. CASE PauseHandle(p) \/ PauseWrites(p) \/ PauseUnloads(p)
  <2>1. Finish(p) \/ Goto(p, "paused") \/ Goto(p, "unloading") \/ Goto(p, proc[p].then)
        BY <1>5 DEF PauseHandle, PauseWrites, PauseUnloads
  <2> QED BY <1>1, <1>2, <1>3, <2>1, AloneGoes
<1> QED BY <1>4, <1>5 DEF PauseStep

LEMMA AloneEnforces ==
    ASSUME NEW dls, Alone(dls), TypeInv, NEW p \in Procs, EnforceStep(p)
    PROVE  Alone(dls)'
<1>1. proc[p] \in Process
      BY Working DEF TypeInv
<1>2. {"addGate", "resumeGate", "testGate", "enforceSync", "cut"} \subseteq Labels \ StartLabels
      BY DEF Labels, StartLabels
<1>3. UNCHANGED reserved
      BY DEF EnforceStep, Lock, EnforceSync, EnforceCut, EnforceNext, mem
<1>4. CASE Lock(p) \/ EnforceSync(p)
  <2>1. \E l \in {"addGate", "resumeGate", "testGate", "enforceSync", "cut"} : Goto(p, l)
        BY <1>4 DEF Lock, EnforceSync, LockedLabels, At
  <2> QED BY <1>2, <1>3, <2>1, AloneGoes
<1>5. CASE EnforceCut(p)
  <2>1. PICK todo : Become(p, [proc[p] EXCEPT !.at = "nextVictim", !.then = "nextVictim", !.todo = todo])
        BY <1>5 DEF EnforceCut
  <2> DEFINE s == [proc[p] EXCEPT !.at = "nextVictim", !.then = "nextVictim", !.todo = todo]
  <2>2. s.at \notin StartLabels
        BY <1>1 DEF Process, StartLabels
  <2> HIDE DEF s
  <2> QED BY <1>3, <2>1, <2>2, AloneMoves DEF s
<1>6. CASE EnforceNext(p)
  <2>1. CASE Finish(p)
        BY <1>3, <2>1, AloneGoes
  <2>2. CASE ~Finish(p)
    <3> DEFINE s == [proc[p] EXCEPT !.at = "pauseRead", !.d = Head(proc[p].todo),
                                    !.todo = Tail(@), !.then = "nextVictim"]
    <3>1. s.at \notin StartLabels
          BY <1>1 DEF Process, StartLabels
    <3>2. Become(p, s)
          BY <1>6, <2>2 DEF EnforceNext
    <3> HIDE DEF s
    <3> QED BY <1>3, <3>1, <3>2, AloneMoves
  <2> QED BY <2>1, <2>2
<1> QED BY <1>4, <1>5, <1>6 DEF EnforceStep

LEMMA AloneLoops ==
    ASSUME NEW dls, Alone(dls), TypeInv, LoopStep
    PROVE  Alone(dls)'
<1>1. /\ Loop \in Procs /\ proc[Loop] \in Process
      /\ proc[Loop].todo \in Seq(Downloads) /\ Sound(proc[Loop])
      BY Working DEF TypeInv, Procs
<1>2. CASE LoopRead
  <2> DEFINE s == [Idle EXCEPT !.at = "pick", !.it = row]
  <2>1. s.at \notin StartLabels
        BY DEF Idle, StartLabels
  <2>2. Become(Loop, s) /\ UNCHANGED reserved
        BY <1>2 DEF LoopRead, mem
  <2> HIDE DEF s
  <2> QED BY <1>1, <2>1, <2>2, AloneMoves
<1>3. ASSUME NEW next \in Downloads, NEW may, NEW free, LoopDecides(next, may, free),
             proc[Loop].at \notin StartLabels
      PROVE  Alone(dls)'
  <2>1. CASE Start(Loop, [proc[Loop] EXCEPT !.d = next])
    <3>1. [proc[Loop] EXCEPT !.d = next] \in Process
          BY <1>1 DEF Process
    <3> QED BY <1>1, <1>3, <2>1, <3>1, AloneStarts
  <2>2. CASE Finish(Loop) /\ UNCHANGED reserved
        BY <1>1, <2>2, AloneGoes
  <2>3. CASE \E v : Become(Loop, [proc[Loop] EXCEPT !.at = "pauseRead", !.d = v,
                                                   !.todo = <<next>>, !.then = "preempted"])
             /\ UNCHANGED reserved
    <3>1. PICK v : Become(Loop, [proc[Loop] EXCEPT !.at = "pauseRead", !.d = v,
                                                  !.todo = <<next>>, !.then = "preempted"])
          BY <2>3
    <3> DEFINE s == [proc[Loop] EXCEPT !.at = "pauseRead", !.d = v,
                                       !.todo = <<next>>, !.then = "preempted"]
    <3>2. s.at \notin StartLabels
          BY <1>1 DEF Process, StartLabels
    <3> HIDE DEF s
    <3> QED BY <1>1, <2>3, <3>1, <3>2, AloneMoves DEF s
  <2> QED BY <1>3, <2>1, <2>2, <2>3 DEF LoopDecides
<1>4. CASE LoopPick
  <2>1. /\ proc[Loop].at \notin StartLabels
        /\ \E next \in Downloads :
              \/ \E may, free : LoopDecides(next, may, free)
              \/ /\ Become(Loop, [proc[Loop] EXCEPT !.at = "gate", !.d = next])
                 /\ UNCHANGED reserved
        BY <1>4, Zenon DEF LoopPick, At, StartLabels, InStatus
  <2>2. PICK next \in Downloads :
              \/ \E may, free : LoopDecides(next, may, free)
              \/ /\ Become(Loop, [proc[Loop] EXCEPT !.at = "gate", !.d = next])
                 /\ UNCHANGED reserved
        BY <2>1
  <2>3. [proc[Loop] EXCEPT !.at = "gate", !.d = next].at \notin StartLabels
        BY <1>1 DEF Process, StartLabels
  <2> QED BY <1>1, <1>3, <2>1, <2>2, <2>3, AloneMoves
<1>5. CASE LoopGate
  <2>1. proc[Loop].at \notin StartLabels /\ Target(Loop) \in Downloads
        BY <1>1, <1>5 DEF LoopGate, At, StartLabels, Sound, PlainLabels, Target
  <2> QED BY <1>3, <1>5, <2>1 DEF LoopGate
<1>6. CASE LoopPreempted
  <2> DEFINE s == [proc[Loop] EXCEPT !.d = Head(proc[Loop].todo), !.todo = << >>, !.then = "idle"]
  <2>1. Head(proc[Loop].todo) \in Downloads
        BY <1>1, <1>6 DEF LoopPreempted, At, Sound, Carries
  <2>2. << >> \in Seq(Downloads) /\ "idle" \in Returns
        BY DEF Returns
  <2>3. s \in Process
        BY <1>1, <2>1, <2>2 DEF Process
  <2>4. Start(Loop, s) /\ proc[Loop].at \notin StartLabels
        BY <1>6 DEF LoopPreempted, At, StartLabels
  <2> HIDE DEF s
  <2> QED BY <1>1, <2>3, <2>4, AloneStarts
<1> QED BY <1>1, <1>2, <1>4, <1>5, <1>6, AloneInStart, AlonePauses DEF LoopStep

LEMMA AloneTests ==
    ASSUME NEW dls, Alone(dls), TypeInv, NEW p \in Procs, TestStep(p)
    PROVE  Alone(dls)'
<1>1. proc[p] \in Process
      BY Working DEF TypeInv
<1>2. {"testVictim", "testPolicy"} \subseteq Labels \ StartLabels
      BY DEF Labels, StartLabels
<1>3. ASSUME NEW s, s.at \notin StartLabels, Become(p, s), UNCHANGED reserved
      PROVE  Alone(dls)'
      BY <1>3, AloneMoves
<1>4. ASSUME NEW s \in Process, NEW torrents, NEW rows, TestResumes(p, s, torrents, rows),
             UNCHANGED reserved
      PROVE  Alone(dls)'
  <2>1. \A l \in {"waking", "testStart"} : [s EXCEPT !.at = l, !.then = "tested"].at = l
        BY DEF Process
  <2>2. \E l \in {"waking", "testStart"} : Become(p, [s EXCEPT !.at = l, !.then = "tested"])
        BY <1>4 DEF TestResumes
  <2>3. "waking" \notin StartLabels /\ "testStart" \notin StartLabels
        BY DEF StartLabels
  <2> QED BY <1>3, <1>4, <2>1, <2>2, <2>3
<1>5. CASE TestAllows(p)
  <2> DEFINE s == [proc[p] EXCEPT !.at = "testLock", !.it[Target(p)] = [Item(p) EXCEPT !.prio = "HIGH"]]
  <2>1. s.at \notin StartLabels
        BY <1>1 DEF Process, StartLabels
  <2>2. Become(p, s) /\ UNCHANGED reserved
        BY <1>5 DEF TestAllows
  <2> HIDE DEF s
  <2> QED BY <1>3, <2>1, <2>2
<1>6. CASE TestGate(p)
      BY <1>1, <1>2, <1>4, <1>6, AloneGoes DEF TestGate
<1>7. CASE TestVictim(p)
  <2>1. UNCHANGED reserved
        BY <1>7 DEF TestVictim, mem
  <2>2. CASE TestResumes(p, proc[p], handle, row)
        BY <1>1, <1>4, <2>1, <2>2
  <2>3. CASE ~TestResumes(p, proc[p], handle, row)
    <3>1. PICK v : Become(p, [proc[p] EXCEPT !.at = "pauseRead", !.d = v,
                                             !.todo = <<Target(p)>>, !.then = "freed"])
          BY <1>7, <2>3 DEF TestVictim
    <3> DEFINE s == [proc[p] EXCEPT !.at = "pauseRead", !.d = v,
                                    !.todo = <<Target(p)>>, !.then = "freed"]
    <3>2. s.at \notin StartLabels
          BY <1>1 DEF Process, StartLabels
    <3> HIDE DEF s
    <3> QED BY <1>3, <2>1, <3>1, <3>2 DEF s
  <2> QED BY <2>2, <2>3
<1>8. CASE TestFreed(p)
  <2> DEFINE s == [proc[p] EXCEPT !.d = Head(proc[p].todo), !.todo = << >>]
  <2>1. proc[p].todo \in Seq(Downloads) /\ proc[p].todo # << >>
        BY <1>8, Working DEF TypeInv, TestFreed, At, Sound, Carries
  <2>2. Head(proc[p].todo) \in Downloads /\ << >> \in Seq(Downloads)
        BY <2>1
  <2>3. s \in Process
        BY <1>1, <2>2 DEF Process
  <2>4. TestResumes(p, s, handle, row) /\ UNCHANGED reserved
        BY <1>8 DEF TestFreed, mem
  <2> HIDE DEF s
  <2> QED BY <1>4, <2>3, <2>4
<1>9. CASE TestStarts(p) \/ TestPolicy(p)
  <2>1. proc[p].at \notin StartLabels
        BY <1>9 DEF TestStarts, TestPolicy, At, StartLabels
  <2>2. \/ Start(p, proc[p])
        \/ (Finish(p) \/ Goto(p, "testPolicy")) /\ UNCHANGED reserved
        BY <1>9, Zenon DEF TestStarts, TestPolicy
  <2> QED BY <1>1, <1>2, <2>1, <2>2, AloneStarts, AloneGoes
<1> QED BY <1>5, <1>6, <1>7, <1>8, <1>9 DEF TestStep

\* What serves a request, a cancel apart, and what a caller asks for.
LEMMA AloneServes ==
    ASSUME NEW dls, Alone(dls), TypeInv, NEW p \in Procs,
           \/ AddWrites(p) \/ AddGate(p) \/ AddPolicy(p) \/ AddReleases(p)
           \/ ResumeAllows(p) \/ ResumeGate(p) \/ ResumeStarts(p) \/ ResumeRequeues(p)
           \/ ResumeWakes(p) \/ ResumeSpawns(p) \/ Unlock(p)
           \/ PriorityWrites(p) \/ CancelWrites(p) \/ RestartUnloads(p) \/ RestartWrites(p)
    PROVE  Alone(dls)'
<1>1. proc[p] \in Process
      BY Working DEF TypeInv
<1> DEFINE places == {"addLock", "addPolicy", "release", "enforce", "resumeLock", "unlock", "waking",
                      "resumeStart", "awake", "testStart", "restartWrite"}
<1>2. places \subseteq Labels \ StartLabels
      BY LabelsAre DEF Labels, LockedLabels, StartLabels
<1> HIDE DEF places
<1>3. ASSUME UNCHANGED reserved, Finish(p) \/ \E l \in places : Goto(p, l)
      PROVE  Alone(dls)'
      BY <1>2, <1>3, AloneGoes
<1>4. ASSUME NEW s \in Process, Start(p, s), proc[p].at \notin StartLabels
      PROVE  Alone(dls)'
      BY <1>4, AloneStarts
<1>5. CASE AddGate(p) \/ AddPolicy(p)
  <2>1. [proc[p] EXCEPT !.then = "release"] \in Process /\ proc[p].at \notin StartLabels
        BY <1>1, <1>5 DEF Process, Returns, AddGate, AddPolicy, At, StartLabels
  <2>2. \/ Start(p, [proc[p] EXCEPT !.then = "release"])
        \/ (Goto(p, "addPolicy") \/ Goto(p, "release")) /\ UNCHANGED reserved
        BY <1>5 DEF AddGate, AddPolicy
  <2> QED BY <1>3, <1>4, <2>1, <2>2 DEF places
<1>6. CASE ResumeStarts(p)
  <2> DEFINE r == [Item(p) EXCEPT !.st = "QUEUED"]
             it == [proc[p].it EXCEPT ![Target(p)] = r]
             s == [proc[p] EXCEPT !.it[Target(p)].st = "QUEUED", !.then = "unlock"]
  <2>1. Target(p) \in Downloads /\ Item(p) \in Row /\ proc[p].at \notin StartLabels
        BY <1>6, Working DEF TypeInv, ResumeStarts, At, PlainLabels, StartLabels
  <2>2. r \in Row
        BY <2>1, RowEdits DEF Statuses
  <2>3. it \in [Downloads -> Row] /\ "unlock" \in Returns
        BY <1>1, <2>1, <2>2 DEF Process, Returns
  <2>4. s = [proc[p] EXCEPT !.it = it, !.then = "unlock"]
        BY <1>1 DEF Process, Item
  <2>5. Start(p, s)
        BY <1>6 DEF ResumeStarts
  <2> HIDE DEF s, it
  <2>6. s \in Process
        BY <1>1, <2>3, <2>4 DEF Process
  <2> QED BY <1>4, <2>1, <2>5, <2>6
<1>7. CASE AddWrites(p) \/ AddReleases(p) \/ ResumeAllows(p) \/ ResumeGate(p) \/ ResumeRequeues(p)
           \/ ResumeWakes(p) \/ ResumeSpawns(p) \/ Unlock(p)
  <2>1. UNCHANGED reserved
        BY <1>7 DEF AddWrites, AddReleases, ResumeAllows, ResumeGate, ResumeRequeues, ResumeWakes,
                    ResumeSpawns, Unlock, mem
  <2>2. Finish(p) \/ \E l \in places : Goto(p, l)
        BY <1>7 DEF AddWrites, AddReleases, ResumeAllows, ResumeGate, ResumeRequeues, ResumeWakes,
                    ResumeSpawns, Unlock, places
  <2> QED BY <1>3, <2>1, <2>2
<1>8. CASE PriorityWrites(p) \/ CancelWrites(p) \/ RestartUnloads(p) \/ RestartWrites(p)
  <2>1. UNCHANGED reserved /\ (Finish(p) \/ \E l \in places : Goto(p, l))
        BY <1>8 DEF PriorityWrites, CancelWrites, RestartUnloads, RestartWrites, mem, places
  <2> QED BY <1>3, <2>1
<1> QED BY <1>5, <1>6, <1>7, <1>8

LEMMA AloneAsks ==
    ASSUME NEW dls, Alone(dls), TypeInv, NEW c \in Callers, Request(c)
    PROVE  Alone(dls)'
<1>1. c \in Procs /\ UNCHANGED reserved
      BY DEF Procs, Request, RequestAdd, RequestPause, RequestResume, RequestMax, RequestPriority,
             RequestTest, RequestCancel, RequestRestart, mem
<1>2. Idle \in Process
      BY IdleType
<1>3. \A l, d : /\ [Idle EXCEPT !.at = l].at = l /\ [Idle EXCEPT !.at = l, !.d = d].at = l
                /\ \A r : [Idle EXCEPT !.at = l, !.d = d, !.it[d] = r].at = l
      BY <1>2 DEF Process
<1>4. \E l \in {"addWrite", "pauseRead", "resumeAllow", "prioWrite", "testAllow", "cancelling",
                "restarting", "enforce"} :
      \E d :
         \/ Become(c, [Idle EXCEPT !.at = l]) \/ Become(c, [Idle EXCEPT !.at = l, !.d = d])
         \/ \E r : Become(c, [Idle EXCEPT !.at = l, !.d = d, !.it[d] = r])
      BY Zenon DEF Request, RequestAdd, RequestPause, RequestResume, RequestMax, RequestPriority,
                   RequestTest, RequestCancel, RequestRestart
<1>5. {"addWrite", "pauseRead", "resumeAllow", "prioWrite", "testAllow", "cancelling", "restarting",
       "enforce"} \cap StartLabels = {}
      BY DEF StartLabels
<1>6. PICK s : Become(c, s) /\ s.at \notin StartLabels
  <2>1. PICK l \in {"addWrite", "pauseRead", "resumeAllow", "prioWrite", "testAllow", "cancelling",
                    "restarting", "enforce"} :
         \E d :
           \/ Become(c, [Idle EXCEPT !.at = l]) \/ Become(c, [Idle EXCEPT !.at = l, !.d = d])
           \/ \E r : Become(c, [Idle EXCEPT !.at = l, !.d = d, !.it[d] = r])
        BY <1>4
  <2>6. PICK d :
           \/ Become(c, [Idle EXCEPT !.at = l]) \/ Become(c, [Idle EXCEPT !.at = l, !.d = d])
           \/ \E r : Become(c, [Idle EXCEPT !.at = l, !.d = d, !.it[d] = r])
        BY <2>1
  <2>2. l \notin StartLabels
        BY <1>5
  <2>3. CASE Become(c, [Idle EXCEPT !.at = l])
        BY <1>3, <2>2, <2>3
  <2>4. CASE Become(c, [Idle EXCEPT !.at = l, !.d = d])
    <3> DEFINE s == [Idle EXCEPT !.at = l, !.d = d]
    <3>1. s.at = l /\ Become(c, s)
          BY <1>3, <2>4
    <3> HIDE DEF s
    <3> QED BY <2>2, <3>1
  <2>5. CASE \E r : Become(c, [Idle EXCEPT !.at = l, !.d = d, !.it[d] = r])
    <3>1. PICK r : Become(c, [Idle EXCEPT !.at = l, !.d = d, !.it[d] = r])
          BY <2>5
    <3> DEFINE s == [Idle EXCEPT !.at = l, !.d = d, !.it[d] = r]
    <3>2. s.at = l /\ Become(c, s)
          BY <1>3, <3>1
    <3> HIDE DEF s
    <3> QED BY <2>2, <3>2
  <2> QED BY <2>6, <2>3, <2>4, <2>5
<1> QED BY <1>1, <1>6, AloneMoves

LEMMA AloneRecovers ==
    ASSUME NEW dls, Alone(dls), TypeInv, BootStep \/ StorageStep
    PROVE  Alone(dls)'
<1>1. /\ Boot \in Procs /\ Storage \in Procs /\ Idle \in Process
      /\ proc[Boot] \in Process /\ proc[Storage] \in Process
      BY Working, IdleType DEF TypeInv, Procs
<1>2. {"recoverItem", "storageItem", "enforce"} \subseteq Labels \ StartLabels
      BY DEF Labels, LockedLabels, StartLabels
<1>3. CASE BootRead \/ StorageRead
  <2>1. UNCHANGED reserved
        BY <1>3 DEF BootRead, StorageRead, mem
  <2>2. PICK p \in {Boot, Storage}, l \in {"recoverItem", "storageItem"} :
           \E todo : Become(p, [Idle EXCEPT !.at = l, !.it = row, !.todo = todo])
        BY <1>3 DEF BootRead, StorageRead
  <2>5. PICK todo : Become(p, [Idle EXCEPT !.at = l, !.it = row, !.todo = todo])
        BY <2>2
  <2> DEFINE s == [Idle EXCEPT !.at = l, !.it = row, !.todo = todo]
  <2>3. s.at = l
        BY <1>1 DEF Process
  <2> HIDE DEF s
  <2> QED BY <1>1, <1>2, <2>1, <2>2, <2>3, <2>5, AloneMoves DEF s
<1>4. CASE BootItem \/ BootSelect
  <2>1. UNCHANGED reserved /\ proc[Boot].at = "recoverItem"
        BY <1>4 DEF BootItem, BootSelect, mem, At
  <2>2. CASE BootItem
    <3> DEFINE d == Head(proc[Boot].todo)
               s == [proc[Boot] EXCEPT !.todo = Tail(@), !.it[d].st = "QUEUED"]
    <3>1. s.at = "recoverItem"
          BY <1>1, <2>1 DEF Process
    <3>2. Become(Boot, s)
          BY <2>2 DEF BootItem
    <3> HIDE DEF s
    <3> QED BY <1>1, <1>2, <2>1, <3>1, <3>2, AloneMoves
  <2>3. CASE BootSelect
    <3>1. PICK todo : Become(Boot, [proc[Boot] EXCEPT !.at = "recoverStart",
                                                      !.then = "recoverStart", !.todo = todo])
          BY <2>3 DEF BootSelect
    <3> DEFINE s == [proc[Boot] EXCEPT !.at = "recoverStart", !.then = "recoverStart", !.todo = todo]
    <3>2. s.at \notin StartLabels
          BY <1>1 DEF Process, StartLabels
    <3> HIDE DEF s
    <3> QED BY <1>1, <2>1, <3>1, <3>2, AloneMoves DEF s
  <2> QED BY <1>4, <2>2, <2>3
<1>5. CASE BootStart
  <2> DEFINE s == [proc[Boot] EXCEPT !.d = Head(proc[Boot].todo), !.todo = Tail(@)]
             t == [s EXCEPT !.n = @ + 1]
  <2>1. proc[Boot].at = "recoverStart" /\ proc[Boot].todo # << >> /\ proc[Boot].todo \in Seq(Downloads)
        BY <1>1, <1>5, Working DEF TypeInv, BootStart, At
  <2>2. Head(proc[Boot].todo) \in Downloads /\ Tail(proc[Boot].todo) \in Seq(Downloads)
        BY <2>1, Tails
  <2>3. s \in Process /\ s.at = "recoverStart" /\ t.at = "recoverStart"
        BY <1>1, <2>1, <2>2 DEF Process
  <2>4. (Become(Boot, t) /\ UNCHANGED reserved) \/ Start(Boot, s)
        BY <1>5, Zenon DEF BootStart
  <2> HIDE DEF s, t
  <2>5. "recoverStart" \notin StartLabels
        BY DEF StartLabels
  <2> QED BY <1>1, <2>1, <2>3, <2>4, <2>5, AloneMoves, AloneStarts
<1>6. CASE BootDone
      BY <1>1, <1>6, AloneGoes DEF BootDone, mem
<1>7. CASE StorageItem
  <2>1. proc[Storage].at = "storageItem" /\ UNCHANGED reserved
        BY <1>7 DEF StorageItem, At, mem
  <2>2. PICK s : Become(Storage, s) /\ s.at = "storageItem"
    <3>1. /\ [proc[Storage] EXCEPT !.todo = Tail(@), !.n = 1].at = "storageItem"
          /\ [proc[Storage] EXCEPT !.todo = Tail(@)].at = "storageItem"
          BY <1>1, <2>1 DEF Process
    <3> QED BY <1>7, <3>1 DEF StorageItem
  <2> QED BY <1>1, <1>2, <2>1, <2>2, AloneMoves
<1>8. CASE StorageDone
      BY <1>1, <1>2, <1>8, AloneGoes DEF StorageDone, mem
<1> QED BY <1>1, <1>3, <1>4, <1>5, <1>6, <1>7, <1>8, AloneInStart, AlonePauses, AloneEnforces
        DEF BootStep, StorageStep

LEMMA AloneStep ==
    ASSUME NEW dls, Alone(dls), TypeInv, Next,
           \A c \in Callers : CancelReads(c) /\ Starting(Target(c)) # {} => Target(c) \notin dls
    PROVE  Alone(dls)'
<1>1. CASE LoopStep \/ BootStep \/ StorageStep
      BY <1>1, AloneLoops, AloneRecovers
<1>2. CASE Crash
  <2>1. Idle.at \notin StartLabels /\ [Idle EXCEPT !.at = "recover"].at \notin StartLabels
        BY DEF Idle, StartLabels
  <2>2. \A p \in Procs : proc'[p].at \notin StartLabels
        BY <1>2, <2>1 DEF Crash
  <2> QED BY <2>2 DEF Alone
<1>3. CASE \E d \in Downloads : MonitorStep(d)
  <2>1. UNCHANGED <<reserved, proc>>
        BY <1>3 DEF MonitorStep, MonProgress, MonFinishes, MonStalls, MonRaises, MonReads, MonSeeds,
                    MonParks, MonFails, MonCompletes, MonCloses, Quiet
  <2> QED BY <2>1 DEF Alone, Target
<1>4. ASSUME NEW c \in Callers, Request(c) \/ CallerStep(c)
      PROVE  Alone(dls)'
  <2>1. c \in Procs
        BY DEF Procs
  <2>2. CASE CancelReads(c)
    <3> DEFINE s == [proc[c] EXCEPT !.at = "cancelWrite", !.it[Target(c)] = row[Target(c)]]
    <3>1. s.at \notin StartLabels
          BY <2>1, Working DEF TypeInv, Process, StartLabels
    <3>2. Become(c, s) /\ reserved' = reserved \ {Target(c)}
          BY <2>2 DEF CancelReads
    <3> HIDE DEF s
    <3>3. proc'[c] = s /\ \A q \in Procs \ {c} : proc'[q] = proc[q]
          BY <2>1, <3>2 DEF Become, TypeInv, ProcsSound
    <3>4. \A q \in Procs : proc[q].at \in StartLabels /\ Target(q) \in dls => Target(q) # Target(c)
          BY <2>2 DEF Starting
    <3> QED BY <3>1, <3>2, <3>3, <3>4 DEF Alone, Target
  <2> QED BY <1>4, <2>1, <2>2, AloneAsks, AloneServes, AloneTests, AloneEnforces, AloneInStart,
             AlonePauses DEF CallerStep
<1> QED BY <1>1, <1>2, <1>3, <1>4 DEF Next

\* Whoever is alone is one at most.
LEMMA AloneCounts ==
    ASSUME NEW dls, Alone(dls), NEW d \in dls
    PROVE  Cardinality(Starting(d)) <= 1
<1>1. CASE Starting(d) = {}
      BY <1>1, FS_EmptySet
<1>2. CASE Starting(d) # {}
  <2>1. PICK p : p \in Starting(d)
        BY <1>2
  <2>2. \A q \in Starting(d) : q = p
        BY <2>1 DEF Alone, Starting, Target
  <2>3. Starting(d) = {p}
        BY <2>1, <2>2
  <2> QED BY <2>3, FS_Singleton
<1> QED BY <1>1, <1>2

LEMMA AloneAtFirst ==
    ASSUME Init, NEW dls
    PROVE  Alone(dls)
<1>1. Idle.at \notin StartLabels /\ [Idle EXCEPT !.at = "recover"].at \notin StartLabels
      BY DEF Idle, StartLabels
<1> QED BY <1>1 DEF Init, Alone

\* No cancel gives up the reservation that somebody starts one of these downloads with.
NoneCancelled(dls) ==
    \A c \in Callers : CancelReads(c) /\ Starting(Target(c)) # {} => Target(c) \notin dls

LEMMA AloneGoesOn ==
    ASSUME NEW dls, TypeInv, Alone(dls), [Next]_vars, [NoneCancelled(dls)]_vars
    PROVE  TypeInv' /\ Alone(dls)'
<1>1. TypeInv'
      BY NextKeeps DEF Kept
<1>2. CASE UNCHANGED vars
      BY <1>1, <1>2 DEF vars, Alone, Target
<1>3. CASE Next /\ NoneCancelled(dls)
      BY <1>1, <1>3, AloneStep DEF NoneCancelled
<1> QED BY <1>2, <1>3

\* Unless a cancel falls into its start, at most one process at a time starts a
\* download in the engine: whatever else is cancelled, and however the queue loop,
\* recovery, adds, resumes and health tests interleave (run_start_once,
\* reserve_start).
THEOREM OneStartUntilCancelled ==
    ASSUME NEW dls \in SUBSET Downloads
    PROVE  Spec /\ [][NoneCancelled(dls)]_vars => [](\A d \in dls : Cardinality(Starting(d)) <= 1)
<1>1. Init => TypeInv /\ Alone(dls)
      BY InitKept, AloneAtFirst
<1>2. TypeInv /\ Alone(dls) /\ [Next]_vars /\ [NoneCancelled(dls)]_vars
        => (TypeInv /\ Alone(dls))'
      BY AloneGoesOn
<1>3. Alone(dls) => \A d \in dls : Cardinality(Starting(d)) <= 1
      BY AloneCounts
<1> QED BY <1>1, <1>2, <1>3, PTL DEF Spec

\* What a step of p does to the histories: only a cancel adds to the orphaned
\* downloads, a change of priority to the revived ones, and a download is revived
\* until its monitor is spawned or cancelled.
Forgets(p) == StartSpawns(p) \/ ResumeSpawns(p) \/ PauseWrites(p) \/ CancelReads(p)

Remembers(p) ==
    /\ orphaned' = orphaned \/ CancelReads(p)
    /\ revived' = revived \/ Forgets(p) \/ PriorityWrites(p)

LEMMA OperationRemembers ==
    ASSUME NEW p, StartStep(p) \/ PauseStep(p) \/ EnforceStep(p) \/ TestStep(p)
    PROVE  orphaned' = orphaned /\ (revived' = revived \/ StartSpawns(p) \/ PauseWrites(p))
<1>1. CASE StartStep(p) \/ PauseStep(p)
      BY <1>1 DEF StartStep, StartAdded, StartWrites, StartSpawns, StartFails,
                  StartRaises, PauseStep, PauseRead, PauseHandle, PauseWrites, PauseUnloads, monitor, bounds
<1>2. CASE EnforceStep(p)
      BY <1>2 DEF EnforceStep, Lock, EnforceSync, EnforceCut, EnforceNext, monitor, bounds
<1>3. CASE TestStep(p)
      BY <1>3 DEF TestStep, TestAllows, TestGate, TestVictim, TestFreed, TestStarts,
                  TestPolicy, monitor, bounds
<1> QED BY <1>1, <1>2, <1>3

LEMMA ServiceRemembers ==
    ASSUME NEW p,
           \/ AddWrites(p) \/ AddGate(p) \/ AddPolicy(p) \/ AddReleases(p)
           \/ ResumeAllows(p) \/ ResumeGate(p) \/ ResumeStarts(p) \/ ResumeRequeues(p)
           \/ ResumeWakes(p) \/ ResumeSpawns(p) \/ Unlock(p)
           \/ PriorityWrites(p) \/ CancelReads(p) \/ CancelWrites(p)
           \/ RestartUnloads(p) \/ RestartWrites(p)
    PROVE  Remembers(p)
<1>1. CASE AddWrites(p) \/ AddGate(p) \/ AddPolicy(p) \/ AddReleases(p)
      BY <1>1 DEF Remembers, AddWrites, AddGate, AddPolicy, AddReleases, monitor, bounds
<1>2. CASE ResumeAllows(p) \/ ResumeGate(p) \/ ResumeStarts(p) \/ ResumeRequeues(p)
           \/ ResumeWakes(p) \/ ResumeSpawns(p) \/ Unlock(p)
      BY <1>2 DEF Remembers, Forgets, ResumeAllows, ResumeGate, ResumeStarts, ResumeRequeues,
                  ResumeWakes, ResumeSpawns, Unlock, monitor, bounds
<1>3. CASE PriorityWrites(p) \/ CancelReads(p) \/ CancelWrites(p) \/ RestartUnloads(p) \/ RestartWrites(p)
      BY <1>3 DEF Remembers, Forgets, PriorityWrites, CancelWrites, RestartUnloads, RestartWrites,
                  monitor, bounds
<1> QED BY <1>1, <1>2, <1>3

LEMMA QueueRemembers ==
    ASSUME LoopStep \/ BootStep \/ StorageStep \/ \E c \in Callers : Request(c) \/ CallerStep(c)
    PROVE  \E p \in Procs : Remembers(p)
<1>1. Loop \in Procs /\ Boot \in Procs /\ Storage \in Procs /\ \A c \in Callers : c \in Procs
      BY DEF Procs
<1>2. CASE LoopStep
  <2>1. Remembers(Loop)
        BY <1>2, OperationRemembers DEF LoopStep, Remembers, Forgets, LoopRead, LoopPick, LoopGate, LoopPreempted,
                                        monitor, bounds
  <2> QED BY <1>1, <2>1
<1>3. CASE BootStep
  <2>1. Remembers(Boot)
        BY <1>3, OperationRemembers DEF BootStep, Remembers, Forgets, BootRead, BootItem, BootSelect, BootStart,
                                        BootDone, monitor, bounds
  <2> QED BY <1>1, <2>1
<1>4. CASE StorageStep
  <2>1. Remembers(Storage)
        BY <1>4, OperationRemembers DEF StorageStep, Remembers, Forgets, StorageRead, StorageItem, StorageDone,
                                        monitor, bounds
  <2> QED BY <1>1, <2>1
<1>5. ASSUME NEW c \in Callers, Request(c)
      PROVE  Remembers(c)
      BY <1>5 DEF Request, Remembers, RequestAdd, RequestPause, RequestResume, RequestMax, RequestPriority,
                  RequestTest, RequestCancel, RequestRestart, Serve, monitor
<1>6. ASSUME NEW c \in Callers, CallerStep(c)
      PROVE  Remembers(c)
      BY <1>6, OperationRemembers, ServiceRemembers DEF CallerStep, Remembers, Forgets
<1> QED BY <1>1, <1>2, <1>3, <1>4, <1>5, <1>6

LEMMA MonitorRemembers ==
    ASSUME NEW d \in Downloads, MonitorStep(d)
    PROVE  UNCHANGED <<revived, orphaned>>
BY DEF MonitorStep, MonProgress, MonFinishes, MonStalls, MonRaises, MonReads, MonSeeds, MonParks, MonFails,
       MonCompletes, MonCloses, Watch, Quiet, monitor, bounds

\* Whoever starts a download is alone with it, unless a cancel fell into its start.
AloneInv == Alone(Downloads \ orphaned)

\* Of the downloads that are not orphaned after a step, none is cancelled in it while
\* somebody starts it.
LEMMA AloneWithin ==
    ASSUME AloneInv, orphaned \subseteq orphaned',
           NEW dls, dls = Downloads \ orphaned'
    PROVE  Alone(dls) /\ NoneCancelled(dls)
<1>1. \A c \in Callers : CancelReads(c) /\ Starting(Target(c)) # {} => Target(c) \in orphaned'
      BY DEF CancelReads
<1> QED BY <1>1 DEF AloneInv, Alone, NoneCancelled

LEMMA OrphansStay ==
    ASSUME Next, ~Crash
    PROVE  orphaned \subseteq orphaned'
<1>1. CASE \E d \in Downloads : MonitorStep(d)
      BY <1>1, MonitorRemembers
<1>2. CASE \E p \in Procs : Remembers(p)
      BY <1>2 DEF Remembers, CancelReads
<1> QED BY <1>1, <1>2, QueueRemembers DEF Next

\* A crash leaves nobody on the way.
LEMMA AloneAfterCrash ==
    ASSUME Crash
    PROVE  AloneInv'
<1>1. Idle.at \notin StartLabels /\ [Idle EXCEPT !.at = "recover"].at \notin StartLabels
      BY DEF Idle, StartLabels
<1>2. \A p \in Procs : proc'[p].at \notin StartLabels
      BY <1>1 DEF Crash
<1> QED BY <1>2 DEF AloneInv, Alone

LEMMA AloneStays ==
    ASSUME TypeInv, AloneInv, [Next]_vars
    PROVE  TypeInv' /\ AloneInv'
<1>1. TypeInv'
      BY NextKeeps DEF Kept
<1>2. CASE UNCHANGED vars
  <2>1. UNCHANGED <<proc, reserved, orphaned>>
        BY <1>2 DEF vars
  <2> QED BY <1>1, <2>1 DEF AloneInv, Alone, Target
<1>3. CASE Next /\ ~Crash
  <2>1. PICK dls : dls = Downloads \ orphaned'
        OBVIOUS
  <2>2. Alone(dls) /\ NoneCancelled(dls)
        BY <1>3, <2>1, AloneWithin, OrphansStay
  <2>3. Alone(dls)'
        BY <1>3, <2>2, AloneStep DEF NoneCancelled
  <2> QED BY <1>1, <2>1, <2>3 DEF AloneInv, Alone
<1> QED BY <1>1, <1>2, <1>3, AloneAfterCrash

LEMMA AloneIsOne ==
    ASSUME AloneInv
    PROVE  OneStartPerDownload
<1>1. \A d \in Downloads \ orphaned : Cardinality(Starting(d)) <= 1
      BY AloneCounts DEF AloneInv
<1> QED BY <1>1 DEF OneStartPerDownload

\* No download is started twice at once, whatever the queue loop, recovery, the
\* requests and the crashes of the program do: the only starts that may meet
\* another one are those a cancel has taken the reservation from while they were
\* under way (run_start_once; cancel_download clears the reservation).
THEOREM StartsOnce == Spec => []OneStartPerDownload
<1>1. Init => TypeInv /\ AloneInv
      BY InitKept, AloneAtFirst DEF AloneInv
<1>2. TypeInv /\ AloneInv /\ [Next]_vars => (TypeInv /\ AloneInv)'
      BY AloneStays
<1>3. AloneInv => OneStartPerDownload
      BY AloneIsOne
<1> QED BY <1>1, <1>2, <1>3, PTL DEF Spec

-----------------------------------------------------------------------------
(* The same with the health supervisor *)

HInv == TypeInv /\ HTypeOK

LEMMA InHealth == Health \in Procs /\ \A c \in Callers : c # Health
BY QueueAssumption DEF Procs

\* The supervisor takes up a download, with the row it has read.
LEMMA TakesUp ==
    ASSUME TypeInv, NEW d \in Downloads, NEW r \in Row,
           NEW l \in {"prioWrite", "parking", "testAllow"}, UNCHANGED <<approved, reserved>>,
           Become(Health, [Idle EXCEPT !.at = l, !.d = d, !.it[d] = r])
    PROVE  ProcsSound' /\ \A dls : Alone(dls) => Alone(dls)'
<1>1. l \in Labels \ (PlainLabels \cup ClearedLabels \cup {"preempted", "freed"})
      BY DEF Labels, PlainLabels, ClearedLabels, StartLabels
<1>2. ProcsSound'
      BY <1>1, InHealth, Requested
<1>3. [Idle EXCEPT !.at = l, !.d = d, !.it[d] = r].at \notin StartLabels
      BY <1>1, IdleType DEF Process, ClearedLabels
<1> DEFINE s == [Idle EXCEPT !.at = l, !.d = d, !.it[d] = r]
<1>4. Become(Health, s) /\ s.at \notin StartLabels
      BY <1>3
<1> HIDE DEF s
<1>5. ASSUME NEW dls, Alone(dls) PROVE Alone(dls)'
      BY <1>4, <1>5, InHealth, AloneMoves
<1> QED BY <1>2, <1>5

\* The looks of a pass change no table; they may take up a download.
LEMMA LooksKeep ==
    ASSUME HInv, NEW d \in Downloads, Looks(d),
           HealthLeaves(d) \/ HealthSucceeds(d) \/ HealthParks(d) \/ HealthTests(d)
    PROVE  HInv' /\ \A dls : Alone(dls) => Alone(dls)'
<1> USE DEF Looks
<1>1. row[d] \in Row /\ pass.it[d] \in Row
      BY DEF HInv, HTypeOK, TypeOK
<1>2. \A prio \in Priorities : [row[d] EXCEPT !.prio = prio] \in Row
      BY <1>1, RowEdits
<1>3. health[d].orig \in Priorities \cup {"none"}
      BY DEF HInv, HTypeOK
<1>4. \/ UNCHANGED proc
      \/ \E r \in Row, l \in {"prioWrite", "parking", "testAllow"} :
            Become(Health, [Idle EXCEPT !.at = l, !.d = d, !.it[d] = r])
      BY <1>1, <1>2, <1>3 DEF HealthLeaves, HealthSucceeds, HealthParks, HealthTests
<1>5. UNCHANGED <<row, slots, reserved, allowed, handle, mon, seen, revived, orphaned, lock, view,
                  max, approved, requests, crashes>>
      BY DEF Others, mem, monitor, bounds
<1>6. ProcsSound' /\ \A dls : Alone(dls) => Alone(dls)'
  <2>1. CASE UNCHANGED proc
        BY <1>5, <2>1, NoTurn DEF HInv, TypeInv, Alone, Target
  <2>2. CASE ~UNCHANGED proc
        BY <1>4, <1>5, <2>2, TakesUp DEF HInv
  <2> QED BY <2>1, <2>2
<1>7. TypeOK'
      BY <1>5, <1>6 DEF HInv, TypeInv, TypeOK, ProcsSound
<1>8. pass' \in [it : [Downloads -> Row], mend : SUBSET Downloads, left : SUBSET Downloads]
  <2>1. pass' = [pass EXCEPT !.left = pass.left \ {d}, !.it = [pass.it EXCEPT ![d] = NoRows[d]]]
        BY DEF HInv, HTypeOK
  <2>2. [pass.it EXCEPT ![d] = NoRows[d]] \in [Downloads -> Row]
        BY NoRowsType DEF HInv, HTypeOK
  <2>3. pass \in [it : [Downloads -> Row], mend : SUBSET Downloads, left : SUBSET Downloads]
        BY DEF HInv, HTypeOK
  <2> DEFINE it == [pass.it EXCEPT ![d] = NoRows[d]]
  <2>4. pass' = [pass EXCEPT !.left = pass.left \ {d}, !.it = it]
        BY <2>1
  <2> HIDE DEF it
  <2> QED BY <2>2, <2>3, <2>4 DEF it
<1>9. health' \in [Downloads -> [test : {"none", "running", "over"}, wait : BOOLEAN,
                                 orig : Priorities \cup {"none"}]]
  <2> DEFINE States == [test : {"none", "running", "over"}, wait : BOOLEAN,
                        orig : Priorities \cup {"none"}]
  <2>1. health \in [Downloads -> States] /\ pass.it[d].prio \in Priorities
        BY <1>1 DEF HInv, HTypeOK, Row
  <2>2. health[d] \in States
        BY <2>1
  <2>3. [health[d] EXCEPT !.test = "none", !.wait = TRUE] \in States /\ NoState \in States
        BY <2>2 DEF NoState
  <2>4. \A test \in {"none", "running"}, wait \in BOOLEAN :
           [test |-> test, wait |-> wait, orig |-> pass.it[d].prio] \in States
        BY <2>1
  <2>5. UNCHANGED health \/ \E h \in States : health' = [health EXCEPT ![d] = h]
    <3>1. CASE HealthLeaves(d)
          BY <3>1 DEF HealthLeaves
    <3>2. CASE HealthSucceeds(d)
          BY <2>3, <3>2 DEF HealthSucceeds
    <3>3. CASE HealthParks(d)
      <4>1. health' = [health EXCEPT ![d] = [health[d] EXCEPT !.test = "none", !.wait = TRUE]]
            BY <2>1, <2>2, <3>3 DEF HealthParks
      <4> QED BY <2>3, <4>1
    <3>4. CASE HealthTests(d)
          BY <2>4, <3>4 DEF HealthTests
    <3> QED BY <3>1, <3>2, <3>3, <3>4
  <2> HIDE DEF States
  <2>6. health' \in [Downloads -> States]
        BY <2>1, <2>5
  <2> QED BY <2>6 DEF States
<1> QED BY <1>6, <1>7, <1>8, <1>9 DEF HInv, HTypeOK, TypeInv

LEMMA PromotesKeep ==
    ASSUME HInv, NEW d \in Downloads, HealthPromotes(d)
    PROVE  HInv' /\ \A dls : Alone(dls) => Alone(dls)'
<1> USE DEF HealthPromotes
<1>1. pass.it[d] \in Row
      BY DEF HInv, HTypeOK
<1>2. [pass.it[d] EXCEPT !.st = "SEEDING"] \in Row
      BY <1>1, RowEdits DEF Statuses
<1>3. ProcsSound' /\ \A dls : Alone(dls) => Alone(dls)'
      BY NoTurn DEF HInv, TypeInv, Alone, Target
<1>4. TypeInv'
      BY <1>2, <1>3, WriteKeeps DEF HInv, TypeInv, TypeOK, monitor
<1>5. pass' \in [it : [Downloads -> Row], mend : SUBSET Downloads, left : SUBSET Downloads]
  <2>1. NoPass \in [it : [Downloads -> Row], mend : SUBSET Downloads, left : SUBSET Downloads]
        BY NoRowsType DEF NoPass
  <2>2. [pass EXCEPT !.mend = @ \ {d}, !.it[d] = NoRows[d]]
          = [pass EXCEPT !.mend = pass.mend \ {d}, !.it = [pass.it EXCEPT ![d] = NoRows[d]]]
        BY DEF HInv, HTypeOK
  <2>3. [pass.it EXCEPT ![d] = NoRows[d]] \in [Downloads -> Row]
        BY NoRowsType DEF HInv, HTypeOK
  <2> QED BY <2>1, <2>2, <2>3 DEF HInv, HTypeOK
<1> QED BY <1>3, <1>4, <1>5 DEF HInv, HTypeOK, TypeInv

\* The other steps of the supervisor change only what it remembers.
LEMMA RemembersKeep ==
    ASSUME HInv, HealthFindsWhole \/ HealthReads \/ \E d \in Downloads : TimePasses(d)
    PROVE  HInv' /\ \A dls : Alone(dls) => Alone(dls)'
<1>1. UNCHANGED vars
      BY DEF HealthFindsWhole, HealthReads, TimePasses, WindowEnds, IntervalEnds, Others, vars, mem,
             monitor, bounds
<1>2. TypeInv' /\ \A dls : Alone(dls) => Alone(dls)'
  <2>1. TypeInv'
        BY <1>1, NextKeeps DEF HInv, Kept
  <2>2. UNCHANGED <<proc, reserved>>
        BY <1>1 DEF vars
  <2> QED BY <2>1, <2>2 DEF Alone, Target
<1>3. pass' \in [it : [Downloads -> Row], mend : SUBSET Downloads, left : SUBSET Downloads]
  <2>1. CASE HealthFindsWhole
    <3>1. PICK whole \in SUBSET Downloads : pass' = [NoPass EXCEPT !.it = row, !.mend = whole]
          BY <2>1 DEF HealthFindsWhole, InStatus
    <3>2. NoPass \in [it : [Downloads -> Row], mend : SUBSET Downloads, left : SUBSET Downloads]
          BY NoRowsType DEF NoPass
    <3> QED BY <3>1, <3>2 DEF HInv, TypeInv, TypeOK
  <2>2. CASE HealthReads
    <3> DEFINE observed == InStatus(row, {"DOWNLOADING", "STALLED"})
    <3>1. observed \subseteq Downloads
          BY DEF InStatus
    <3>2. [d \in Downloads |-> IF d \in observed THEN row[d] ELSE NoRows[d]] \in [Downloads -> Row]
          BY NoRowsType DEF HInv, TypeInv, TypeOK
    <3>3. pass' = [it |-> [d \in Downloads |-> IF d \in observed THEN row[d] ELSE NoRows[d]],
                   mend |-> {}, left |-> observed]
          BY <2>2 DEF HealthReads
    <3> HIDE DEF observed
    <3> QED BY <3>1, <3>2, <3>3
  <2>3. CASE \E d \in Downloads : TimePasses(d)
        BY <2>3 DEF TimePasses, WindowEnds, IntervalEnds, HInv, HTypeOK
  <2> QED BY <2>1, <2>2, <2>3
<1>4. health' \in [Downloads -> [test : {"none", "running", "over"}, wait : BOOLEAN,
                                 orig : Priorities \cup {"none"}]]
  <2> DEFINE States == [test : {"none", "running", "over"}, wait : BOOLEAN,
                        orig : Priorities \cup {"none"}]
  <2>1. health \in [Downloads -> States] /\ NoState \in States
        BY DEF HInv, HTypeOK, NoState
  <2>2. CASE HealthReads
        BY <2>1, <2>2 DEF HealthReads
  <2>3. CASE \E d \in Downloads : TimePasses(d)
    <3>1. PICK d \in Downloads : TimePasses(d)
          BY <2>3
    <3>2. health[d] \in States
          BY <2>1
    <3>3. [health[d] EXCEPT !.test = "over"] \in States /\ [health[d] EXCEPT !.wait = FALSE] \in States
          BY <3>2
    <3>4. \/ health' = [health EXCEPT ![d] = [health[d] EXCEPT !.test = "over"]]
          \/ health' = [health EXCEPT ![d] = [health[d] EXCEPT !.wait = FALSE]]
          BY <2>1, <3>1, <3>2 DEF TimePasses, WindowEnds, IntervalEnds
    <3>5. PICK h \in States : health' = [health EXCEPT ![d] = h]
          BY <3>3, <3>4, Zenon
    <3> HIDE DEF States
    <3>6. health' \in [Downloads -> States]
          BY <2>1, <3>5
    <3> QED BY <3>6 DEF States
  <2>4. CASE HealthFindsWhole
        BY <2>1, <2>4 DEF HealthFindsWhole
  <2> QED BY <2>2, <2>3, <2>4
<1> QED BY <1>2, <1>3, <1>4 DEF HInv, HTypeOK, TypeInv

LEMMA ParksKeep ==
    ASSUME TypeInv, ParkHandle \/ ParkWrites
    PROVE  TypeInv' /\ \A dls : Alone(dls) => Alone(dls)'
<1>1. /\ proc[Health].at \notin PlainLabels \cup {"addWrite"} /\ Target(Health) \in Downloads
      /\ Item(Health) \in Row
  <2>1. proc[Health].at \notin PlainLabels \cup {"addWrite"}
        BY DEF ParkHandle, ParkWrites, At, PlainLabels
  <2> QED BY <2>1, InHealth, Working DEF TypeInv
<1>2. "parked" \in Labels \ (EntryLabels \cup StartLabels)
      BY DEF Labels, EntryLabels, ListLabels, StartLabels
<1>3. UNCHANGED reserved /\ (Finish(Health) \/ Goto(Health, "parked"))
      BY DEF ParkHandle, ParkWrites, mem
<1>4. ProcsSound'
  <2>1. CASE Finish(Health)
        BY <2>1, InHealth, IdleType, Turn DEF Finish, TypeInv
  <2>2. CASE Goto(Health, "parked")
        BY <1>1, <1>2, <2>2, InHealth, TurnTo DEF TypeInv
  <2> QED BY <1>3, <2>1, <2>2
<1>5. ASSUME NEW dls, Alone(dls) PROVE Alone(dls)'
      BY <1>2, <1>3, <1>5, InHealth, AloneGoes
<1>6. TypeInv'
  <2>1. CASE ParkHandle
    <3>1. /\ handle' \in [Downloads -> {"none", "running", "paused"}]
          /\ \A d \in Downloads : handle[d] = "none" => handle'[d] = "none"
          BY <1>1, <2>1 DEF ParkHandle, TypeInv, TypeOK
    <3> QED BY <1>4, <2>1, <3>1, QuietKeeps DEF ParkHandle, TypeInv, TypeOK, mem, monitor, bounds
  <2>2. CASE ParkWrites
    <3>1. PICK why \in {"user", "storage", "other"} :
             Write(Target(Health), [Item(Health) EXCEPT !.st = "STALLED", !.why = why])
          BY <1>1, <2>2 DEF ParkWrites, Row
    <3>2. [Item(Health) EXCEPT !.st = "STALLED", !.why = why] \in Row
      <4> DEFINE r == Item(Health)
      <4>1. r \in Row /\ "STALLED" \in Statuses
            BY <1>1 DEF Statuses
      <4> HIDE DEF r
      <4>2. [r EXCEPT !.st = "STALLED", !.why = why] \in Row
            BY <4>1, RowEdits
      <4> QED BY <4>2 DEF r
    <3>3. Monitored(Target(Health), "off")
          BY <2>2 DEF ParkWrites
    <3> QED BY <1>1, <1>4, <2>2, <3>1, <3>2, <3>3, MonitoredTypes, WriteKeeps
            DEF ParkWrites, TypeInv, TypeOK
  <2> QED BY <2>1, <2>2
<1> QED BY <1>5, <1>6

LEMMA CallsKeep ==
    ASSUME HInv, HealthCall
    PROVE  HInv' /\ \A dls : Alone(dls) => Alone(dls)'
<1>1. TypeInv
      BY DEF HInv
<1>2. TypeInv' /\ \A dls : Alone(dls) => Alone(dls)'
  <2>1. CASE ParkHandle \/ ParkWrites
        BY <1>1, <2>1, ParksKeep
  <2>2. CASE TestStep(Health)
        BY <1>1, <2>2, InHealth, Testing, AloneTests
  <2>3. CASE EnforceStep(Health) \/ PauseStep(Health) \/ StartStep(Health)
        BY <1>1, <2>3, InHealth, Enforcing, Pausing, StartGoesOn, AloneEnforces, AlonePauses,
           AloneInStart DEF Kept
  <2>4. CASE PriorityWrites(Health) \/ ResumeWakes(Health) \/ ResumeSpawns(Health) \/ Unlock(Health)
        BY <1>1, <2>4, InHealth, StoresKeep, Waking, AloneServes DEF Kept
  <2> QED BY <2>1, <2>2, <2>3, <2>4 DEF HealthCall
<1>3. /\ pass' \in [it : [Downloads -> Row], mend : SUBSET Downloads, left : SUBSET Downloads]
      /\ UNCHANGED health
      BY NoRowsType DEF HealthCall, NoPass, HInv, HTypeOK
<1> QED BY <1>2, <1>3 DEF HInv, HTypeOK, TypeInv

LEMMA HealthKeeps ==
    ASSUME HInv, NEW dls, Alone(dls), [HNext]_hvars, [NoneCancelled(dls)]_hvars
    PROVE  HInv' /\ Alone(dls)'
<1>1. CASE [Next]_vars /\ [NoneCancelled(dls)]_vars
           /\ (UNCHANGED <<health, pass>> \/ (health' = NoHealth /\ pass' = NoPass))
  <2>1. TypeInv' /\ Alone(dls)'
        BY <1>1, AloneGoesOn DEF HInv
  <2>2. NoHealth \in [Downloads -> [test : {"none", "running", "over"}, wait : BOOLEAN,
                                    orig : Priorities \cup {"none"}]]
        BY DEF NoHealth, NoState
  <2>3. NoPass \in [it : [Downloads -> Row], mend : SUBSET Downloads, left : SUBSET Downloads]
        BY NoRowsType DEF NoPass
  <2> QED BY <1>1, <2>1, <2>2, <2>3 DEF HInv, HTypeOK, TypeInv
<1>2. CASE HNext /\ NoneCancelled(dls)
  <2>1. \/ Next /\ (UNCHANGED <<health, pass>> \/ (health' = NoHealth /\ pass' = NoPass))
        \/ HealthFindsWhole \/ HealthReads \/ HealthCall
        \/ \E d \in Downloads : HealthLook(d)
        \/ \E d \in Downloads : TimePasses(d)
        BY <1>2 DEF HNext, Next, Restart, HealthStep
  <2>2. CASE \E d \in Downloads : HealthLook(d)
    <3>1. PICK d \in Downloads : HealthLook(d)
          BY <2>2
    <3>2. HealthPromotes(d) \/ Looks(d)
          BY <3>1 DEF HealthLook, HealthLeaves, HealthSucceeds, HealthParks, HealthTests
    <3> QED BY <3>1, <3>2, PromotesKeep, LooksKeep DEF HealthLook
  <2> QED BY <1>1, <1>2, <2>1, <2>2, RemembersKeep, CallsKeep
<1>3. CASE UNCHANGED hvars
      BY <1>1, <1>3 DEF hvars
<1> QED BY <1>2, <1>3

LEMMA HealthAtFirst ==
    ASSUME HInit
    PROVE  HInv
<1>1. /\ NoHealth \in [Downloads -> [test : {"none", "running", "over"}, wait : BOOLEAN,
                                     orig : Priorities \cup {"none"}]]
      /\ NoPass \in [it : [Downloads -> Row], mend : SUBSET Downloads, left : SUBSET Downloads]
      BY NoRowsType DEF NoHealth, NoState, NoPass
<1> QED BY <1>1, InitKept DEF HInit, HInv, HTypeOK, TypeInv

\* Also with the health supervisor every state is well formed.
THEOREM SupervisedTypes == HSpec => []HTypeOK
<1>1. HInit => HInv
      BY HealthAtFirst
<1>2. HInv /\ [HNext]_hvars => HInv'
  <2>1. NoneCancelled({}) /\ Alone({})
        BY DEF NoneCancelled, Alone
  <2> QED BY <2>1, HealthKeeps
<1>3. HInv => HTypeOK
      BY DEF HInv
<1> QED BY <1>1, <1>2, <1>3, PTL DEF HSpec

\* The supervisor cancels nothing.
LEMMA SupervisorRemembers ==
    ASSUME HealthStep \/ HealthFindsWhole \/ \E d \in Downloads : TimePasses(d)
    PROVE  /\ orphaned' = orphaned
           /\ revived' = revived \/ Forgets(Health) \/ ParkWrites \/ PriorityWrites(Health)
<1>1. CASE HealthCall
  <2>1. CASE ParkHandle \/ ParkWrites
        BY <2>1 DEF ParkHandle, ParkWrites, monitor, bounds
  <2>2. CASE TestStep(Health) \/ EnforceStep(Health) \/ StartStep(Health) \/ PauseStep(Health)
        BY <2>2, OperationRemembers DEF Forgets
  <2>3. CASE PriorityWrites(Health) \/ ResumeWakes(Health) \/ ResumeSpawns(Health) \/ Unlock(Health)
        BY <2>3 DEF Forgets, PriorityWrites, ResumeWakes, ResumeSpawns, Unlock, monitor, bounds
  <2> QED BY <1>1, <2>1, <2>2, <2>3 DEF HealthCall
<1>2. CASE HealthReads \/ HealthFindsWhole \/ \E d \in Downloads : TimePasses(d)
      BY <1>2 DEF HealthReads, HealthFindsWhole, TimePasses, WindowEnds, IntervalEnds, Others, vars,
                  monitor, bounds
<1>3. CASE \E d \in Downloads : HealthLook(d)
      BY <1>3 DEF HealthLook, HealthPromotes, HealthLeaves, HealthSucceeds, HealthParks, HealthTests,
                  Looks, Others, monitor, bounds
<1> QED BY <1>1, <1>2, <1>3 DEF HealthStep

LEMMA SupervisedKeeps ==
    ASSUME HInv, [HNext]_hvars
    PROVE  HInv'
<1>1. NoneCancelled({}) /\ Alone({})
      BY DEF NoneCancelled, Alone
<1> QED BY <1>1, HealthKeeps

LEMMA SupervisedAlone ==
    ASSUME HInv, AloneInv, [HNext]_hvars
    PROVE  HInv' /\ AloneInv'
<1>1. HInv'
      BY SupervisedKeeps
<1>2. CASE UNCHANGED hvars
  <2>1. UNCHANGED <<proc, reserved, orphaned>>
        BY <1>2 DEF hvars, vars
  <2> QED BY <1>1, <2>1 DEF AloneInv, Alone, Target
<1>3. CASE HNext /\ ~Crash
  <2>1. orphaned \subseteq orphaned'
    <3>1. \/ Next \/ HealthStep \/ HealthFindsWhole
          \/ \E d \in Downloads : TimePasses(d)
          BY <1>3 DEF HNext, Next, Restart
    <3> QED BY <1>3, <3>1, OrphansStay, SupervisorRemembers
  <2>2. PICK dls : dls = Downloads \ orphaned'
        OBVIOUS
  <2>3. Alone(dls) /\ NoneCancelled(dls)
        BY <2>1, <2>2, AloneWithin
  <2>4. Alone(dls)'
        BY <1>3, <2>3, HealthKeeps
  <2> QED BY <1>1, <2>2, <2>4 DEF AloneInv, Alone
<1> QED BY <1>1, <1>2, <1>3, AloneAfterCrash

\* A health test, a park and the supervisor's priority changes start no download
\* beside another start of it either.
THEOREM SupervisedStartsOnce == HSpec => []OneStartPerDownload
<1>1. HInit => HInv /\ AloneInv
      BY HealthAtFirst, AloneAtFirst DEF HInit, AloneInv
<1>2. HInv /\ AloneInv /\ [HNext]_hvars => (HInv /\ AloneInv)'
      BY SupervisedAlone
<1>3. AloneInv => OneStartPerDownload
      BY AloneIsOne
<1> QED BY <1>1, <1>2, <1>3, PTL DEF HSpec

-----------------------------------------------------------------------------
(* The lock of the queue.  At these labels a process has it; so it has where *)
(* an operation that it called returns to one of them.                       *)

Sections == {"addGate", "addPolicy", "release", "resumeGate", "waking", "awake", "resumeStart",
             "requeue", "unlock", "testGate", "testVictim", "freed", "testStart", "testPolicy",
             "tested", "enforceSync", "cut", "nextVictim"}
Calls == StartLabels \cup PauseLabels \cup {"unloading"}

InSection(at, then) == at \in Sections \/ (at \in Calls /\ then \in Sections)
Inside(p) == InSection(proc[p].at, proc[p].then)

\* The queue loop and recovery never have the lock, all others start with it; the
\* storage recovery starts nothing.
Late == {"testStart", "testPolicy"}
Fits(p, at, then) ==
    /\ p \in {Loop, Boot} => at \notin Sections /\ then \notin Sections
    /\ p \notin {Loop, Boot} /\ at \in StartLabels => then \in Sections
    /\ p = Storage => at \notin StartLabels
    /\ at \in Late => then = "tested"

LockInv ==
    \A p \in Procs : (Inside(p) <=> lock = p) /\ Fits(p, proc[p].at, proc[p].then)

\* What becomes of the lock when p goes on to a label.
Hands(p, at, then) ==
    \/ lock' = lock /\ (InSection(at, then) <=> Inside(p))
    \/ lock = Nobody /\ lock' = p /\ InSection(at, then)
    \/ Inside(p) /\ lock' = Nobody /\ ~InSection(at, then)

HandsOn(p) == \E s : Become(p, s) /\ Hands(p, s.at, s.then) /\ Fits(p, s.at, s.then)

LEMMA SectionsAre ==
    /\ Sections \cap Calls = {} /\ "idle" \notin Sections \cup Calls
    /\ Sections \cup Calls \subseteq Labels /\ Returns \cap Calls = {}
    /\ Late \subseteq Labels /\ Late \cap (Returns \cup Calls \cup {"idle"}) = {}
    /\ StartLabels \subseteq Calls /\ StartLabels \cap (Returns \cup {"idle"} \cup Late) = {}
BY LabelsAre DEF Late, Sections, Calls, Labels, StartLabels, PauseLabels, Returns

LEMMA LockMoves ==
    ASSUME TypeInv, LockInv, NEW p \in Procs, HandsOn(p)
    PROVE  LockInv'
<1>1. PICK s : Become(p, s) /\ Hands(p, s.at, s.then) /\ Fits(p, s.at, s.then)
      BY DEF HandsOn
<1>2. proc'[p] = s /\ \A q \in Procs \ {p} : proc'[q] = proc[q]
      BY <1>1 DEF Become, TypeInv, ProcsSound
<1>3. Inside(p)' = InSection(s.at, s.then) /\ \A q \in Procs \ {p} : Inside(q)' = Inside(q)
      BY <1>2 DEF Inside
<1>4. Nobody \notin Procs
      BY QueueAssumption
<1> QED BY <1>1, <1>2, <1>3, <1>4 DEF Hands, LockInv

LEMMA LockGoes ==
    ASSUME TypeInv, LockInv, NEW p \in Procs, NEW l \in Labels, Goto(p, l),
           Hands(p, l, proc[p].then), l \in Late => proc[p].then = "tested",
           l \in StartLabels => proc[p].at \in StartLabels,
           p \in {Loop, Boot} => l \notin Sections
    PROVE  HandsOn(p)
<1>1. /\ Idle.at = "idle" /\ Idle.then = "idle"
      /\ [proc[p] EXCEPT !.at = l].at = l /\ [proc[p] EXCEPT !.at = l].then = proc[p].then
      BY Working DEF TypeInv, Process, Idle
<1>2. CASE l = "idle"
      BY <1>1, <1>2, SectionsAre DEF Goto, HandsOn, Hands, InSection, Fits
<1>3. CASE l # "idle"
      BY <1>1, <1>3 DEF Goto, HandsOn, LockInv, Fits
<1> QED BY <1>2, <1>3

LEMMA LockEnds ==
    ASSUME NEW p \in Procs, Finish(p), Hands(p, "idle", "idle")
    PROVE  HandsOn(p)
BY SectionsAre DEF Finish, HandsOn, Idle, Fits

\* A start returns into the section it was called from.
LEMMA LockStarts ==
    ASSUME TypeInv, NEW p \in Procs, NEW s \in Process, Start(p, s),
           Hands(p, "adding", s.then), p # Storage,
           p \in {Loop, Boot} <=> s.then \notin Sections
    PROVE  HandsOn(p)
<1>1. /\ s.then \in Returns /\ [s EXCEPT !.at = "adding"].at = "adding"
      /\ [s EXCEPT !.at = "adding"].then = s.then
      /\ [s EXCEPT !.at = s.then].at = s.then /\ [s EXCEPT !.at = s.then].then = s.then
      BY DEF Process
<1>2. InSection(s.then, s.then) <=> InSection("adding", s.then)
      BY <1>1, SectionsAre DEF InSection, Calls, StartLabels
<1>3. Hands(p, s.then, s.then)
      BY <1>2 DEF Hands
<1>7. Fits(p, s.then, s.then) /\ Fits(p, "adding", s.then)
  <2>1. "adding" \in StartLabels
        BY DEF StartLabels
  <2> QED BY <1>1, <2>1, SectionsAre DEF Fits
<1>4. CASE s.d \notin reserved
      BY <1>1, <1>4, <1>7 DEF Start, HandsOn
<1>5. CASE s.d \in reserved /\ s.then # "idle"
      BY <1>1, <1>3, <1>5, <1>7 DEF Start, HandsOn
<1>6. CASE s.d \in reserved /\ s.then = "idle"
  <2>1. Finish(p)
        BY <1>6 DEF Start, Finish
  <2>2. Hands(p, "idle", "idle")
        BY <1>3, <1>6
  <2> QED BY <2>1, <2>2, LockEnds
<1> QED BY <1>4, <1>5, <1>6

\* A start goes on inside or outside, as it began; one that fails ends an add or a
\* test, and releases the lock.
LEMMA LockInStart ==
    ASSUME TypeInv, LockInv, NEW p \in Procs, StartStep(p)
    PROVE  HandsOn(p)
<1>1. proc[p] \in Process /\ proc[p].then \in Returns /\ proc[p].then \in Labels
      BY Working, LabelsAre DEF TypeInv
<1>2. Inside(p) <=> proc[p].then \in Sections
      BY SectionsAre DEF StartStep, StartAdded, StartWrites, StartSpawns, StartFails, StartRaises, At,
                         Inside, InSection, Calls, StartLabels
<1>3. \A l \in StartLabels : InSection(l, proc[p].then) <=> Inside(p)
      BY <1>2, SectionsAre DEF InSection, Calls
<1>4. InSection(proc[p].then, proc[p].then) <=> Inside(p)
      BY <1>1, <1>2, SectionsAre DEF InSection
<1>5. p \in {Loop, Boot} => proc[p].then \notin Sections
      BY DEF LockInv, Fits
<1>6. CASE StartAdded(p) \/ StartWrites(p) \/ StartFails(p)
  <2>1. \E l \in StartLabels : Goto(p, l) /\ lock' = lock
        BY <1>6 DEF StartAdded, StartWrites, StartFails, StartLabels
  <2>2. proc[p].at \in StartLabels
        BY <1>6 DEF StartAdded, StartWrites, StartFails, At, StartLabels
  <2>3. PICK l \in StartLabels : Goto(p, l) /\ lock' = lock
        BY <2>1
  <2>4. l \in Labels /\ l \notin Late \cup Sections /\ Hands(p, l, proc[p].then)
        BY <1>3, <2>3, LabelsAre, SectionsAre DEF Hands
  <2> QED BY <2>2, <2>3, <2>4, LockGoes
<1>7. CASE StartSpawns(p)
  <2>1. lock' = lock
        BY <1>7 DEF StartSpawns
  <2>2. CASE p = Boot
    <3> DEFINE s == [proc[p] EXCEPT !.at = proc[p].then, !.n = @ + 1]
    <3>1. s.at = proc[p].then /\ s.then = proc[p].then
          BY <1>1 DEF Process
    <3>2. Become(p, s)
          BY <1>7, <2>2 DEF StartSpawns
    <3> HIDE DEF s
    <3> QED BY <1>1, <1>4, <2>1, <3>1, <3>2, SectionsAre DEF HandsOn, Hands, LockInv, Fits
  <2>3. CASE p # Boot
        BY <1>1, <1>4, <1>7, <1>5, <2>1, <2>3, SectionsAre, LockGoes DEF StartSpawns, Hands
  <2> QED BY <2>2, <2>3
<1>8. CASE StartRaises(p)
  <2>1. CASE proc[p].then = "unlock"
    <3>1. /\ Goto(p, "requeue") /\ lock' = lock /\ InSection("requeue", proc[p].then)
          /\ Inside(p) /\ p \notin {Loop, Boot}
          BY <1>2, <1>8, <1>5, <2>1 DEF StartRaises, InSection, Sections
    <3> QED BY <3>1, SectionsAre, LockGoes DEF Hands, Labels, Late, StartLabels
  <2>2. CASE proc[p].then \in {"release", "tested"}
    <3>1. Finish(p) /\ lock' = Nobody /\ Inside(p)
          BY <1>2, <1>8, <2>2 DEF StartRaises, Sections
    <3> QED BY <3>1, SectionsAre, LockEnds DEF Hands, InSection
  <2>3. CASE proc[p].then \notin {"unlock", "release", "tested"}
    <3>1. Goto(p, proc[p].then) /\ lock' = lock
          BY <1>8, <2>3 DEF StartRaises
    <3> QED BY <1>1, <1>4, <1>5, <3>1, SectionsAre, LockGoes DEF Hands
  <2> QED BY <2>1, <2>2, <2>3
<1> QED BY <1>6, <1>7, <1>8 DEF StartStep

LEMMA LockPauses ==
    ASSUME TypeInv, LockInv, NEW p \in Procs, PauseStep(p)
    PROVE  HandsOn(p)
<1>1. proc[p] \in Process /\ proc[p].then \in Returns /\ proc[p].then \in Labels
      BY Working, LabelsAre DEF TypeInv
<1>2. Inside(p) <=> proc[p].then \in Sections
      BY SectionsAre DEF PauseStep, PauseRead, PauseHandle, PauseWrites, PauseUnloads, At,
                         Inside, InSection, Calls, PauseLabels
<1>3. \A l \in PauseLabels \cup {"unloading"} : InSection(l, proc[p].then) <=> Inside(p)
      BY <1>2, SectionsAre DEF InSection, Calls
<1>4. InSection(proc[p].then, proc[p].then) <=> Inside(p)
      BY <1>1, <1>2, SectionsAre DEF InSection
<1>5. lock' = lock
      BY DEF PauseStep, PauseRead, PauseHandle, PauseWrites, PauseUnloads
<1>6. p \in {Loop, Boot} => proc[p].then \notin Sections
      BY DEF LockInv, Fits
<1>7. CASE Become(p, [proc[p] EXCEPT !.at = "pausing", !.it[Target(p)] = row[Target(p)]])
  <2> DEFINE s == [proc[p] EXCEPT !.at = "pausing", !.it[Target(p)] = row[Target(p)]]
  <2>1. s.at = "pausing" /\ s.then = proc[p].then
        BY <1>1 DEF Process
  <2>2. Become(p, s)
        BY <1>7
  <2> HIDE DEF s
  <2> QED BY <1>3, <1>5, <1>6, <2>1, <2>2
          DEF HandsOn, Hands, PauseLabels, StartLabels, Fits, Late, Sections
<1>8. CASE Goto(p, proc[p].then)
      BY <1>1, <1>4, <1>5, <1>8, <1>6, SectionsAre, LockGoes DEF Hands
<1>9. CASE Goto(p, "paused") \/ Goto(p, "unloading")
  <2>1. /\ {"paused", "unloading"} \subseteq Labels \cap (PauseLabels \cup {"unloading"})
        /\ {"paused", "unloading"} \cap Sections = {}
        BY DEF Labels, PauseLabels, Sections
  <2> QED BY <1>3, <1>5, <1>9, <2>1, LockGoes DEF Hands, Late, StartLabels
<1>10. CASE Finish(p) /\ proc[p].then = "idle"
      BY <1>2, <1>5, <1>10, SectionsAre, LockEnds DEF Hands, InSection
<1> QED BY <1>7, <1>8, <1>9, <1>10
        DEF PauseStep, PauseRead, PauseHandle, PauseWrites, PauseUnloads, Requeues

LEMMA LockEnforces ==
    ASSUME TypeInv, LockInv, NEW p \in Procs \ {Loop, Boot}, EnforceStep(p)
    PROVE  HandsOn(p)
<1>1. proc[p] \in Process
      BY Working DEF TypeInv
<1>2. CASE Lock(p)
  <2>1. PICK l \in {"addGate", "resumeGate", "testGate", "enforceSync"} : Goto(p, l)
        BY <1>2 DEF Lock, LockedLabels, At
  <2>2. l \in Labels /\ InSection(l, proc[p].then) /\ lock = Nobody /\ lock' = p
        BY <1>2, <2>1 DEF Lock, Labels, InSection, Sections
  <2> QED BY <2>1, <2>2, LockGoes DEF Hands, Late, StartLabels
<1>3. CASE EnforceSync(p)
  <2>1. Goto(p, "cut") /\ lock' = lock /\ Inside(p) /\ InSection("cut", proc[p].then) /\ "cut" \in Labels
        BY <1>3 DEF EnforceSync, At, Inside, InSection, Sections, Labels
  <2> QED BY <2>1, LockGoes DEF Hands, Late, StartLabels
<1>4. CASE EnforceCut(p)
  <2>1. PICK todo : Become(p, [proc[p] EXCEPT !.at = "nextVictim", !.then = "nextVictim", !.todo = todo])
        BY <1>4 DEF EnforceCut
  <2> DEFINE s == [proc[p] EXCEPT !.at = "nextVictim", !.then = "nextVictim", !.todo = todo]
  <2>2. s.at = "nextVictim"
        BY <1>1 DEF Process
  <2>3. Become(p, s)
        BY <2>1
  <2>4. lock' = lock /\ Inside(p)
        BY <1>4 DEF EnforceCut, At, Inside, InSection, Sections
  <2>5. s.then = "nextVictim"
        BY <1>1 DEF Process
  <2> HIDE DEF s
  <2> QED BY <2>2, <2>3, <2>4, <2>5 DEF HandsOn, Hands, InSection, Sections, Fits, Late, StartLabels
<1>5. CASE EnforceNext(p)
  <2>1. Inside(p)
        BY <1>5 DEF EnforceNext, At, Inside, InSection, Sections
  <2>2. CASE proc[p].todo = << >>
    <3>1. Finish(p) /\ lock' = Nobody
          BY <1>5, <2>2 DEF EnforceNext
    <3> QED BY <2>1, <3>1, SectionsAre, LockEnds DEF Hands, InSection
  <2>3. CASE proc[p].todo # << >>
    <3> DEFINE s == [proc[p] EXCEPT !.at = "pauseRead", !.d = Head(proc[p].todo),
                                    !.todo = Tail(@), !.then = "nextVictim"]
    <3>1. s.at = "pauseRead" /\ s.then = "nextVictim"
          BY <1>1 DEF Process
    <3>2. Become(p, s) /\ lock' = lock
          BY <1>5, <2>3 DEF EnforceNext
    <3> HIDE DEF s
    <3> QED BY <2>1, <3>1, <3>2
            DEF HandsOn, Hands, InSection, Calls, PauseLabels, StartLabels, Sections, Fits, Late
  <2> QED BY <2>2, <2>3
<1> QED BY <1>2, <1>3, <1>4, <1>5 DEF EnforceStep

\* The queue loop and the recovery of downloads never ask for the lock.
LEMMA LockLoops ==
    ASSUME TypeInv, LockInv, LoopStep
    PROVE  HandsOn(Loop)
<1>1. /\ Loop \in Procs /\ proc[Loop] \in Process /\ Idle \in Process
      /\ proc[Loop].then \notin Sections /\ proc[Loop].then \in Returns /\ Loop # Storage
      BY Working, IdleType DEF TypeInv, Procs, LockInv, Fits, Loop, Storage
<1>2. ASSUME NEW s, Become(Loop, s), lock' = lock, proc[Loop].at \notin Sections \cup Calls,
             s.at \notin Sections \cup Late, s.then \notin Sections
      PROVE  HandsOn(Loop)
      BY <1>1, <1>2 DEF HandsOn, Hands, Fits, Inside, InSection
<1>3. {"pick", "gate", "preempted", "idle", "pauseRead"} \cap (Sections \cup Late) = {}
      BY DEF Sections, Late
<1>4. {"pick", "gate", "preempted", "idle"} \cap Calls = {}
      BY DEF Calls, StartLabels, PauseLabels
<1>5. ASSUME NEW s \in Process, Start(Loop, s), lock' = lock, s.then \notin Sections,
             proc[Loop].at \in {"pick", "gate", "preempted"}
      PROVE  HandsOn(Loop)
  <2>1. Hands(Loop, "adding", s.then)
        BY <1>3, <1>4, <1>5, SectionsAre DEF Hands, Inside, InSection, Calls, StartLabels
  <2> QED BY <1>1, <1>5, <2>1, LockStarts
<1>6. CASE LoopRead
  <2> DEFINE s == [Idle EXCEPT !.at = "pick", !.it = row]
  <2>1. s.at = "pick" /\ s.then = "idle"
        BY DEF Idle
  <2>2. Become(Loop, s) /\ lock' = lock /\ proc[Loop].at = "idle"
        BY <1>6 DEF LoopRead, At
  <2> HIDE DEF s
  <2> QED BY <1>2, <1>3, <1>4, <2>1, <2>2
<1>7. ASSUME NEW next \in Downloads, NEW may, NEW free, LoopDecides(next, may, free),
             proc[Loop].at \in {"pick", "gate"}, lock' = lock
      PROVE  HandsOn(Loop)
  <2>1. CASE Start(Loop, [proc[Loop] EXCEPT !.d = next])
    <3> DEFINE s == [proc[Loop] EXCEPT !.d = next]
    <3>1. s \in Process /\ s.then = proc[Loop].then /\ Start(Loop, s)
          BY <1>1, <2>1 DEF Process
    <3> HIDE DEF s
    <3> QED BY <1>1, <1>5, <1>7, <3>1
  <2>2. CASE Finish(Loop)
    <3>1. Become(Loop, Idle) /\ Idle.at = "idle" /\ Idle.then = "idle"
          BY <2>2 DEF Finish, Idle
    <3> QED BY <1>2, <1>3, <1>4, <1>7, <3>1
  <2>3. CASE \E v : Become(Loop, [proc[Loop] EXCEPT !.at = "pauseRead", !.d = v,
                                                   !.todo = <<next>>, !.then = "preempted"])
    <3>1. PICK v : Become(Loop, [proc[Loop] EXCEPT !.at = "pauseRead", !.d = v,
                                                  !.todo = <<next>>, !.then = "preempted"])
          BY <2>3
    <3> DEFINE s == [proc[Loop] EXCEPT !.at = "pauseRead", !.d = v,
                                       !.todo = <<next>>, !.then = "preempted"]
    <3>2. s.at = "pauseRead" /\ s.then = "preempted" /\ Become(Loop, s)
          BY <1>1, <3>1 DEF Process
    <3> HIDE DEF s
    <3> QED BY <1>2, <1>3, <1>4, <1>7, <3>2
  <2> QED BY <1>7, <2>1, <2>2, <2>3 DEF LoopDecides
<1>8. CASE LoopPick
  <2>1. /\ proc[Loop].at = "pick" /\ lock' = lock
        /\ \E next \in Downloads :
              \/ \E may, free : LoopDecides(next, may, free)
              \/ Become(Loop, [proc[Loop] EXCEPT !.at = "gate", !.d = next])
        BY <1>8, Zenon DEF LoopPick, At, InStatus
  <2>2. PICK next \in Downloads :
              \/ \E may, free : LoopDecides(next, may, free)
              \/ Become(Loop, [proc[Loop] EXCEPT !.at = "gate", !.d = next])
        BY <2>1
  <2>3. CASE Become(Loop, [proc[Loop] EXCEPT !.at = "gate", !.d = next])
    <3> DEFINE s == [proc[Loop] EXCEPT !.at = "gate", !.d = next]
    <3>1. s.at = "gate" /\ s.then = proc[Loop].then /\ Become(Loop, s)
          BY <1>1, <2>3 DEF Process
    <3> HIDE DEF s
    <3> QED BY <1>1, <1>2, <1>3, <1>4, <2>1, <3>1
  <2>4. CASE \E may, free : LoopDecides(next, may, free)
        BY <1>7, <2>1, <2>4
  <2> QED BY <2>2, <2>3, <2>4
<1>9. CASE LoopGate
  <2>1. proc[Loop].at = "gate" /\ Target(Loop) \in Downloads /\ lock' = lock
        BY <1>1, <1>9, Working DEF TypeInv, LoopGate, At, PlainLabels
  <2> QED BY <1>7, <1>9, <2>1 DEF LoopGate
<1>10. CASE LoopPreempted
  <2> DEFINE s == [proc[Loop] EXCEPT !.d = Head(proc[Loop].todo), !.todo = << >>, !.then = "idle"]
  <2>1. proc[Loop].todo \in Seq(Downloads) /\ proc[Loop].todo # << >> /\ proc[Loop].at = "preempted"
        BY <1>1, <1>10, Working DEF TypeInv, LoopPreempted, At, Sound, Carries
  <2>2. Head(proc[Loop].todo) \in Downloads /\ << >> \in Seq(Downloads) /\ "idle" \in Returns
        BY <2>1 DEF Returns
  <2>3. s \in Process /\ s.then = "idle"
        BY <1>1, <2>2 DEF Process
  <2>4. Start(Loop, s) /\ lock' = lock
        BY <1>10 DEF LoopPreempted
  <2> HIDE DEF s
  <2> QED BY <1>3, <1>5, <2>1, <2>3, <2>4
<1> QED BY <1>1, <1>6, <1>8, <1>9, <1>10, LockInStart, LockPauses DEF LoopStep

LEMMA LockRecovers ==
    ASSUME TypeInv, LockInv, BootStep
    PROVE  HandsOn(Boot)
<1>1. /\ Boot \in Procs /\ proc[Boot] \in Process /\ Idle \in Process
      /\ proc[Boot].then \notin Sections /\ proc[Boot].then \in Returns /\ Boot # Storage
      BY Working, IdleType DEF TypeInv, Procs, LockInv, Fits, Boot, Storage
<1>2. {"recover", "recoverItem", "recoverStart", "idle"} \cap (Sections \cup Calls \cup Late) = {}
      BY DEF Sections, Late, Calls, StartLabels, PauseLabels
<1>3. ASSUME NEW s, Become(Boot, s), lock' = lock,
             proc[Boot].at \in {"recover", "recoverItem", "recoverStart"},
             s.at \in {"recoverItem", "recoverStart", "idle"}, s.then \notin Sections
      PROVE  HandsOn(Boot)
      BY <1>1, <1>2, <1>3 DEF HandsOn, Hands, Fits, Inside, InSection
<1>4. CASE BootRead
  <2>1. PICK todo : Become(Boot, [Idle EXCEPT !.at = "recoverItem", !.it = row, !.todo = todo])
        BY <1>4 DEF BootRead
  <2> DEFINE s == [Idle EXCEPT !.at = "recoverItem", !.it = row, !.todo = todo]
  <2>2. s.at = "recoverItem" /\ s.then = "idle" /\ Become(Boot, s)
        BY <2>1 DEF Idle
  <2>3. lock' = lock /\ proc[Boot].at = "recover"
        BY <1>4 DEF BootRead, At
  <2> HIDE DEF s
  <2> QED BY <1>2, <1>3, <2>2, <2>3
<1>5. CASE BootItem
  <2> DEFINE d == Head(proc[Boot].todo)
             s == [proc[Boot] EXCEPT !.todo = Tail(@), !.it[d].st = "QUEUED"]
  <2>1. proc[Boot].at = "recoverItem" /\ lock' = lock
        BY <1>5 DEF BootItem, At
  <2>2. s.at = "recoverItem" /\ s.then = proc[Boot].then
        BY <1>1, <2>1 DEF Process
  <2>3. Become(Boot, s)
        BY <1>5 DEF BootItem
  <2> HIDE DEF s
  <2> QED BY <1>1, <1>3, <2>1, <2>2, <2>3
<1>6. CASE BootSelect
  <2>1. PICK todo : Become(Boot, [proc[Boot] EXCEPT !.at = "recoverStart",
                                                    !.then = "recoverStart", !.todo = todo])
        BY <1>6 DEF BootSelect
  <2> DEFINE s == [proc[Boot] EXCEPT !.at = "recoverStart", !.then = "recoverStart", !.todo = todo]
  <2>2. s.at = "recoverStart" /\ s.then = "recoverStart" /\ Become(Boot, s)
        BY <1>1, <2>1 DEF Process
  <2>3. lock' = lock /\ proc[Boot].at = "recoverItem"
        BY <1>6 DEF BootSelect, At
  <2> HIDE DEF s
  <2> QED BY <1>2, <1>3, <2>2, <2>3
<1>7. CASE BootStart
  <2> DEFINE s == [proc[Boot] EXCEPT !.d = Head(proc[Boot].todo), !.todo = Tail(@)]
             t == [s EXCEPT !.n = @ + 1]
  <2>1. /\ proc[Boot].at = "recoverStart" /\ proc[Boot].todo # << >> /\ lock' = lock
        /\ proc[Boot].todo \in Seq(Downloads)
        BY <1>1, <1>7, Working DEF TypeInv, BootStart, At
  <2>2. Head(proc[Boot].todo) \in Downloads /\ Tail(proc[Boot].todo) \in Seq(Downloads)
        BY <2>1, Tails
  <2>3. /\ s \in Process /\ s.then = proc[Boot].then
        /\ t.at = "recoverStart" /\ t.then = proc[Boot].then
        BY <1>1, <2>1, <2>2 DEF Process
  <2>4. Become(Boot, t) \/ Start(Boot, s)
        BY <1>7, Zenon DEF BootStart
  <2> HIDE DEF s, t
  <2>5. Hands(Boot, "adding", s.then)
        BY <1>1, <1>2, <2>1, <2>3, SectionsAre DEF Hands, Inside, InSection, Calls, StartLabels
  <2> QED BY <1>1, <1>3, <2>1, <2>3, <2>4, <2>5, LockStarts
<1>8. CASE BootDone
  <2>1. Become(Boot, Idle) /\ Idle.at = "idle" /\ Idle.then = "idle"
        BY <1>8 DEF BootDone, Finish, Idle
  <2>2. lock' = lock /\ proc[Boot].at = "recoverStart"
        BY <1>8 DEF BootDone, At
  <2> QED BY <1>2, <1>3, <2>1, <2>2
<1> QED BY <1>1, <1>4, <1>5, <1>6, <1>7, <1>8, LockInStart DEF BootStep

LEMMA LockRequeues ==
    ASSUME TypeInv, LockInv, StorageStep
    PROVE  HandsOn(Storage)
<1>1. Storage \in Procs \ {Loop, Boot} /\ proc[Storage] \in Process
      BY Working DEF TypeInv, Procs, Storage, Loop, Boot
<1>2. {"storageItem", "enforce", "idle"} \cap (Sections \cup Calls \cup Late) = {}
      BY DEF Sections, Late, Calls, StartLabels, PauseLabels
<1>3. ASSUME NEW s, Become(Storage, s), lock' = lock, proc[Storage].at \in {"storageItem", "idle"},
             s.at \in {"storageItem", "idle"}
      PROVE  HandsOn(Storage)
      BY <1>1, <1>2, <1>3, SectionsAre DEF HandsOn, Hands, Fits, Inside, InSection
<1>4. CASE StorageRead
  <2>1. PICK todo : Become(Storage, [Idle EXCEPT !.at = "storageItem", !.it = row, !.todo = todo])
        BY <1>4 DEF StorageRead
  <2> DEFINE s == [Idle EXCEPT !.at = "storageItem", !.it = row, !.todo = todo]
  <2>2. s.at = "storageItem" /\ Become(Storage, s)
        BY <2>1 DEF Idle
  <2>3. lock' = lock /\ proc[Storage].at = "idle"
        BY <1>4 DEF StorageRead, At
  <2> HIDE DEF s
  <2> QED BY <1>3, <2>2, <2>3
<1>5. CASE StorageItem
  <2>1. proc[Storage].at = "storageItem" /\ lock' = lock
        BY <1>5 DEF StorageItem, At
  <2>2. PICK s : Become(Storage, s) /\ s.at = "storageItem"
    <3>1. /\ [proc[Storage] EXCEPT !.todo = Tail(@), !.n = 1].at = "storageItem"
          /\ [proc[Storage] EXCEPT !.todo = Tail(@)].at = "storageItem"
          BY <1>1, <2>1 DEF Process
    <3> QED BY <1>5, <3>1 DEF StorageItem
  <2> QED BY <1>3, <2>1, <2>2
<1>6. CASE StorageDone
  <2>1. lock' = lock /\ proc[Storage].at = "storageItem"
        BY <1>6 DEF StorageDone, At
  <2>2. Goto(Storage, "enforce") \/ Finish(Storage)
        BY <1>6 DEF StorageDone
  <2>3. Hands(Storage, "enforce", proc[Storage].then) /\ Hands(Storage, "idle", "idle")
        BY <1>2, <2>1 DEF Hands, Inside, InSection
  <2>4. "enforce" \in Labels
        BY DEF Labels, LockedLabels
  <2> QED BY <1>1, <1>2, <2>2, <2>3, <2>4, SectionsAre, LockGoes, LockEnds
<1> QED BY <1>1, <1>4, <1>5, <1>6, LockEnforces, LockPauses DEF StorageStep

\* A step from one label of a section to another, and one outside.
LEMMA LockStays ==
    ASSUME TypeInv, LockInv, NEW p \in Procs \ {Loop, Boot}, NEW l \in Labels \ Calls, Goto(p, l), lock' = lock,
           \/ proc[p].at \in Sections /\ l \in Sections
           \/ proc[p].at \notin Sections \cup Calls /\ l \notin Sections,
           l \in Late => proc[p].then = "tested"
    PROVE  HandsOn(p)
<1>1. Hands(p, l, proc[p].then)
      BY SectionsAre DEF Hands, Inside, InSection
<1> QED BY <1>1, SectionsAre, LockGoes

LEMMA LockTests ==
    ASSUME TypeInv, LockInv, NEW p \in Procs \ {Loop, Boot, Storage}, TestStep(p)
    PROVE  HandsOn(p)
<1>1. proc[p] \in Process
      BY Working DEF TypeInv
<1>2. /\ {"testGate", "testVictim", "freed", "testStart", "testPolicy", "waking", "tested"} \subseteq Sections
      /\ {"testVictim", "testPolicy"} \subseteq Labels \ Calls
      /\ {"waking", "testStart", "testLock", "testAllow"} \cap Calls = {}
      /\ {"testLock", "testAllow"} \cap (Sections \cup Late) = {}
      /\ "waking" \notin Late /\ "tested" \in Returns
      BY DEF Sections, Labels, LockedLabels, Calls, StartLabels, PauseLabels, Late, Returns
<1>3. ASSUME NEW s \in Process, NEW torrents, NEW rows, TestResumes(p, s, torrents, rows),
             lock' = lock, proc[p].at \in Sections
      PROVE  HandsOn(p)
  <2>1. PICK l \in {"waking", "testStart"} : Become(p, [s EXCEPT !.at = l, !.then = "tested"])
        BY <1>3 DEF TestResumes
  <2> DEFINE t == [s EXCEPT !.at = l, !.then = "tested"]
  <2>2. t.at = l /\ t.then = "tested" /\ Become(p, t)
        BY <2>1 DEF Process
  <2>3. Inside(p) /\ InSection(l, "tested") /\ l \notin StartLabels
        BY <1>2, <1>3, SectionsAre DEF Inside, InSection
  <2> HIDE DEF t
  <2> QED BY <1>3, <2>2, <2>3 DEF HandsOn, Hands, Fits
<1>4. CASE TestAllows(p)
  <2> DEFINE s == [proc[p] EXCEPT !.at = "testLock", !.it[Target(p)] = [Item(p) EXCEPT !.prio = "HIGH"]]
  <2>1. s.at = "testLock"
        BY <1>1 DEF Process
  <2>2. Become(p, s) /\ lock' = lock /\ proc[p].at = "testAllow"
        BY <1>4 DEF TestAllows, At
  <2> HIDE DEF s
  <2> QED BY <1>2, <2>1, <2>2, SectionsAre DEF HandsOn, Hands, Inside, InSection, Fits
<1>5. CASE TestGate(p)
  <2>1. proc[p].at \in Sections /\ lock' = lock
        BY <1>2, <1>5 DEF TestGate, At
  <2>2. \/ \E rates : TestResumes(p, proc[p], handle', Rewritten(rates))
        \/ Goto(p, "testVictim")
        BY <1>5 DEF TestGate
  <2> QED BY <1>1, <1>2, <1>3, <2>1, <2>2, SectionsAre, LockStays DEF Late
<1>6. CASE TestVictim(p)
  <2>1. proc[p].at \in Sections /\ lock' = lock
        BY <1>2, <1>6 DEF TestVictim, At
  <2>2. CASE TestResumes(p, proc[p], handle, row)
        BY <1>1, <1>3, <2>1, <2>2
  <2>3. CASE ~TestResumes(p, proc[p], handle, row)
    <3>1. PICK v : Become(p, [proc[p] EXCEPT !.at = "pauseRead", !.d = v,
                                             !.todo = <<Target(p)>>, !.then = "freed"])
          BY <1>6, <2>3 DEF TestVictim
    <3> DEFINE s == [proc[p] EXCEPT !.at = "pauseRead", !.d = v,
                                    !.todo = <<Target(p)>>, !.then = "freed"]
    <3>2. s.at = "pauseRead" /\ s.then = "freed" /\ Become(p, s)
          BY <1>1, <3>1 DEF Process
    <3>3. InSection("pauseRead", "freed") /\ Inside(p)
          BY <1>2, <2>1 DEF InSection, Inside, Calls, PauseLabels
    <3> HIDE DEF s
    <3> QED BY <1>2, <2>1, <3>2, <3>3 DEF HandsOn, Hands, Fits, Late
  <2> QED BY <2>2, <2>3
<1>7. CASE TestFreed(p)
  <2> DEFINE s == [proc[p] EXCEPT !.d = Head(proc[p].todo), !.todo = << >>]
  <2>1. proc[p].todo \in Seq(Downloads) /\ proc[p].todo # << >>
        BY <1>7, Working DEF TypeInv, TestFreed, At, Sound, Carries
  <2>2. Head(proc[p].todo) \in Downloads /\ << >> \in Seq(Downloads)
        BY <2>1
  <2>3. s \in Process
        BY <1>1, <2>2 DEF Process
  <2>4. TestResumes(p, s, handle, row) /\ lock' = lock /\ proc[p].at \in Sections
        BY <1>2, <1>7 DEF TestFreed, At
  <2> HIDE DEF s
  <2> QED BY <1>3, <2>3, <2>4
<1>8. CASE TestStarts(p) \/ TestPolicy(p)
  <2>1. proc[p].at \in Late /\ proc[p].at \in Sections /\ Inside(p)
        BY <1>2, <1>8 DEF TestStarts, TestPolicy, At, Late, Inside, InSection
  <2>2. proc[p].then = "tested"
        BY <2>1 DEF LockInv, Fits
  <2>3. \/ Start(p, proc[p]) /\ lock' = lock
        \/ Finish(p) /\ lock' = Nobody
        \/ Goto(p, "testPolicy") /\ lock' = lock
        BY <1>8, Zenon DEF TestStarts, TestPolicy
  <2>4. CASE Start(p, proc[p]) /\ lock' = lock
    <3>1. Hands(p, "adding", "tested")
          BY <1>2, <2>1, <2>4 DEF Hands, InSection, Calls, StartLabels
    <3> QED BY <1>1, <1>2, <2>2, <2>4, <3>1, LockStarts
  <2>5. CASE Finish(p) /\ lock' = Nobody
        BY <2>1, <2>5, SectionsAre, LockEnds DEF Hands, InSection
  <2> QED BY <1>2, <2>1, <2>2, <2>3, <2>4, <2>5, LockStays
<1> QED BY <1>4, <1>5, <1>6, <1>7, <1>8 DEF TestStep

\* What serves a request, and the request itself.
LEMMA LockServes ==
    ASSUME TypeInv, LockInv, NEW p \in Procs \ {Loop, Boot, Storage},
           \/ AddWrites(p) \/ AddGate(p) \/ AddPolicy(p) \/ AddReleases(p)
           \/ ResumeAllows(p) \/ ResumeGate(p) \/ ResumeStarts(p) \/ ResumeRequeues(p)
           \/ ResumeWakes(p) \/ ResumeSpawns(p) \/ Unlock(p)
           \/ PriorityWrites(p) \/ CancelReads(p) \/ CancelWrites(p) \/ RestartUnloads(p)
           \/ RestartWrites(p)
    PROVE  HandsOn(p)
<1>1. proc[p] \in Process
      BY Working DEF TypeInv
<1>2. /\ {"addPolicy", "release", "unlock", "waking", "resumeStart", "awake", "testStart"}
            \subseteq (Sections \cap Labels) \ Calls
      /\ {"addLock", "enforce", "resumeLock", "restartWrite"} \subseteq Labels \ (Sections \cup Calls)
      /\ {"addLock", "enforce", "resumeLock", "restartWrite"} \cap Late = {}
      /\ {"addPolicy", "release", "unlock", "waking", "resumeStart", "awake"} \cap (Late \ {"addPolicy"}) = {}
      /\ "addPolicy" \notin Late
      BY DEF Sections, Labels, LockedLabels, Calls, StartLabels, PauseLabels, Late
<1>3. ASSUME NEW s \in Process, Start(p, s), lock' = lock, proc[p].at \in Sections, s.then \in Sections
      PROVE  HandsOn(p)
  <2>1. Hands(p, "adding", s.then)
        BY <1>3 DEF Hands, Inside, InSection, Calls, StartLabels
  <2> QED BY <1>3, <2>1, LockStarts
<1>4. CASE AddGate(p) \/ AddPolicy(p)
  <2> DEFINE s == [proc[p] EXCEPT !.then = "release"]
  <2>1. s \in Process /\ s.then = "release" /\ proc[p].at \in Sections /\ lock' = lock
        BY <1>1, <1>4 DEF Process, Returns, AddGate, AddPolicy, At, Sections
  <2>2. Start(p, s) \/ Goto(p, "addPolicy") \/ Goto(p, "release")
        BY <1>4 DEF AddGate, AddPolicy
  <2> HIDE DEF s
  <2> QED BY <1>2, <1>3, <2>1, <2>2, LockStays
<1>5. CASE ResumeStarts(p)
  <2> DEFINE r == [Item(p) EXCEPT !.st = "QUEUED"]
             it == [proc[p].it EXCEPT ![Target(p)] = r]
             s == [proc[p] EXCEPT !.it[Target(p)].st = "QUEUED", !.then = "unlock"]
  <2>1. Target(p) \in Downloads /\ Item(p) \in Row /\ proc[p].at \in Sections
        BY <1>5, Working DEF TypeInv, ResumeStarts, At, PlainLabels, Sections
  <2>2. r \in Row
        BY <2>1, RowEdits DEF Statuses
  <2>3. it \in [Downloads -> Row] /\ "unlock" \in Returns
        BY <1>1, <2>1, <2>2 DEF Process, Returns
  <2>4. s = [proc[p] EXCEPT !.it = it, !.then = "unlock"]
        BY <1>1 DEF Process, Item
  <2>5. Start(p, s) /\ lock' = lock
        BY <1>5 DEF ResumeStarts
  <2> HIDE DEF s, it
  <2>6. s \in Process /\ s.then = "unlock"
        BY <1>1, <2>3, <2>4 DEF Process
  <2> QED BY <1>2, <1>3, <2>1, <2>5, <2>6
<1>6. CASE ResumeGate(p) \/ ResumeRequeues(p)
  <2>1. PICK l \in {"unlock", "waking", "resumeStart"} : Goto(p, l) /\ lock' = lock
        BY <1>6 DEF ResumeGate, ResumeRequeues
  <2>2. proc[p].at \in Sections
        BY <1>6 DEF ResumeGate, ResumeRequeues, At, Sections
  <2> QED BY <1>2, <2>1, <2>2, LockStays
<1>7. CASE ResumeWakes(p)
  <2>1. PICK l \in {"awake", "testStart", "resumeStart"} :
           Goto(p, l) /\ lock' = lock /\ (l = "testStart" => Tests(p))
        BY <1>7 DEF ResumeWakes
  <2>2. proc[p].at \in Sections
        BY <1>7 DEF ResumeWakes, At, Sections
  <2> QED BY <1>2, <2>1, <2>2, LockStays DEF Tests
<1>8. CASE AddReleases(p) \/ ResumeSpawns(p) \/ Unlock(p)
  <2>1. Inside(p) /\ lock' = Nobody
        BY <1>8 DEF AddReleases, ResumeSpawns, Unlock, At, Inside, InSection, Sections
  <2>2. Goto(p, "enforce") \/ Finish(p)
        BY <1>8 DEF AddReleases, ResumeSpawns, Unlock
  <2>3. Hands(p, "enforce", proc[p].then) /\ Hands(p, "idle", "idle")
        BY <1>2, <2>1, SectionsAre DEF Hands, InSection
  <2> QED BY <1>2, <2>2, <2>3, SectionsAre, LockGoes, LockEnds
<1>9. CASE \/ AddWrites(p) \/ ResumeAllows(p) \/ PriorityWrites(p) \/ CancelWrites(p)
           \/ RestartUnloads(p) \/ RestartWrites(p)
  <2>1. proc[p].at \notin Sections \cup Calls /\ lock' = lock
        BY <1>9 DEF AddWrites, ResumeAllows, PriorityWrites, CancelWrites, RestartUnloads, RestartWrites,
                    At, Sections, Calls, StartLabels, PauseLabels
  <2>2. Finish(p) \/ \E l \in {"addLock", "enforce", "resumeLock", "restartWrite"} : Goto(p, l)
        BY <1>9 DEF AddWrites, ResumeAllows, PriorityWrites, CancelWrites, RestartUnloads, RestartWrites
  <2>3. Hands(p, "idle", "idle")
        BY <2>1, SectionsAre DEF Hands, Inside, InSection
  <2> QED BY <1>2, <2>1, <2>2, <2>3, LockStays, LockEnds
<1>10. CASE CancelReads(p)
  <2> DEFINE s == [proc[p] EXCEPT !.at = "cancelWrite", !.it[Target(p)] = row[Target(p)]]
  <2>1. s.at = "cancelWrite"
        BY <1>1 DEF Process
  <2>2. Become(p, s) /\ lock' = lock /\ proc[p].at = "cancelling"
        BY <1>10 DEF CancelReads, At
  <2>3. {"cancelling", "cancelWrite"} \cap (Sections \cup Calls \cup Late) = {}
        BY DEF Sections, Late, Calls, StartLabels, PauseLabels
  <2> HIDE DEF s
  <2> QED BY <2>1, <2>2, <2>3, SectionsAre DEF HandsOn, Hands, Inside, InSection, Fits
<1> QED BY <1>4, <1>5, <1>6, <1>7, <1>8, <1>9, <1>10

\* A process that is not at work takes up a download.
LEMMA LockTakesUp ==
    ASSUME TypeInv, LockInv, NEW p \in Procs \ {Loop, Boot}, At(p, "idle"), lock' = lock,
           NEW l \in Labels \ (Sections \cup StartLabels \cup Late),
           NEW d, NEW r,
           \/ Become(p, [Idle EXCEPT !.at = l]) \/ Become(p, [Idle EXCEPT !.at = l, !.d = d])
           \/ Become(p, [Idle EXCEPT !.at = l, !.d = d, !.it[d] = r])
    PROVE  HandsOn(p)
<1>1. PICK s : Become(p, s) /\ s.at = l /\ s.then = "idle"
  <2>1. CASE Become(p, [Idle EXCEPT !.at = l])
        BY <2>1 DEF Idle
  <2>2. CASE Become(p, [Idle EXCEPT !.at = l, !.d = d])
    <3> DEFINE s == [Idle EXCEPT !.at = l, !.d = d]
    <3>1. s.at = l /\ s.then = "idle" /\ Become(p, s)
          BY <2>2 DEF Idle
    <3> HIDE DEF s
    <3> QED BY <3>1
  <2>3. CASE Become(p, [Idle EXCEPT !.at = l, !.d = d, !.it[d] = r])
    <3> DEFINE s == [Idle EXCEPT !.at = l, !.d = d, !.it[d] = r]
    <3>1. s.at = l /\ s.then = "idle" /\ Become(p, s)
          BY <2>3 DEF Idle
    <3> HIDE DEF s
    <3> QED BY <3>1
  <2> QED BY <2>1, <2>2, <2>3
<1>2. ~Inside(p) /\ ~InSection(l, "idle")
      BY SectionsAre DEF At, Inside, InSection
<1> QED BY <1>1, <1>2 DEF HandsOn, Hands, Fits

LEMMA LockAsks ==
    ASSUME TypeInv, LockInv, NEW c \in Callers, Request(c)
    PROVE  HandsOn(c)
<1>1. c \in Procs \ {Loop, Boot} /\ At(c, "idle") /\ lock' = lock
      BY QueueAssumption
      DEF Procs, Serve, Request, RequestAdd, RequestPause, RequestResume, RequestMax, RequestPriority,
          RequestTest, RequestCancel, RequestRestart
<1>2. PICK l \in {"addWrite", "pauseRead", "resumeAllow", "prioWrite", "testAllow", "cancelling",
                  "restarting", "enforce"} :
      \E d :
         \/ Become(c, [Idle EXCEPT !.at = l]) \/ Become(c, [Idle EXCEPT !.at = l, !.d = d])
         \/ \E r : Become(c, [Idle EXCEPT !.at = l, !.d = d, !.it[d] = r])
      BY Zenon DEF Request, RequestAdd, RequestPause, RequestResume, RequestMax, RequestPriority,
                   RequestTest, RequestCancel, RequestRestart
<1>3. l \in Labels \ (Sections \cup StartLabels \cup Late)
      BY DEF Labels, LockedLabels, PauseLabels, Sections, StartLabels, Late
<1> QED BY <1>1, <1>2, <1>3, LockTakesUp

LEMMA LockNext ==
    ASSUME TypeInv, LockInv, [Next]_vars
    PROVE  LockInv'
<1>1. /\ Loop \in Procs /\ Boot \in Procs /\ Storage \in Procs
      /\ \A c \in Callers : c \in Procs \ {Loop, Boot, Storage}
      BY QueueAssumption DEF Procs
<1>2. CASE LoopStep \/ BootStep \/ StorageStep
      BY <1>1, <1>2, LockLoops, LockRecovers, LockRequeues, LockMoves
<1>3. CASE \E c \in Callers : Request(c) \/ CallerStep(c)
  <2>1. PICK c \in Callers : Request(c) \/ CallerStep(c)
        BY <1>3
  <2>2. HandsOn(c)
        BY <1>1, <2>1, LockAsks, LockServes, LockTests, LockEnforces, LockInStart, LockPauses
           DEF CallerStep
  <2> QED BY <1>1, <2>2, LockMoves
<1>4. CASE Crash
  <2>1. \A p \in Procs : proc'[p].at \in {"idle", "recover"} /\ proc'[p].then = "idle"
        BY <1>4 DEF Crash, Idle
  <2>2. {"idle", "recover"} \cap (Sections \cup Calls \cup Late) = {} /\ Nobody \notin Procs
        BY QueueAssumption DEF Sections, Calls, StartLabels, PauseLabels, Late
  <2>3. lock' = Nobody
        BY <1>4 DEF Crash
  <2> QED BY <2>1, <2>2, <2>3, SectionsAre DEF LockInv, Inside, InSection, Fits
<1>5. CASE UNCHANGED <<lock, proc>>
      BY <1>5 DEF LockInv, Inside
<1>6. (\E d \in Downloads : MonitorStep(d)) \/ UNCHANGED vars
      => UNCHANGED <<lock, proc>>
      BY DEF MonitorStep, MonProgress, MonFinishes, MonStalls, MonRaises, MonReads, MonSeeds, MonParks,
             MonFails, MonCompletes, MonCloses, Quiet, vars
<1> QED BY <1>2, <1>3, <1>4, <1>5, <1>6 DEF Next

\* Requests are served and passes made only once recovery is over.
Served == ~At(Boot, "idle") => \A p \in Procs \ {Loop, Boot, Storage} : At(p, "idle")

LEMMA AtWork ==
    /\ \A p \in Procs : EnforceStep(p) \/ StartStep(p) \/ PauseStep(p) \/ TestStep(p)
                         => ~At(p, "idle")
    /\ \A c \in Callers : CallerStep(c) => ~At(c, "idle")
    /\ BootStep => ~At(Boot, "idle")
    /\ HealthCall => ~At(Health, "idle")
<1>1. ASSUME NEW p, EnforceStep(p) \/ StartStep(p) \/ PauseStep(p) \/ TestStep(p)
      PROVE  ~At(p, "idle")
      BY <1>1
      DEF EnforceStep, Lock, LockedLabels, EnforceSync, EnforceCut, EnforceNext, StartStep, StartAdded,
          StartWrites, StartSpawns, StartFails, StartRaises, PauseStep, PauseRead, PauseHandle,
          PauseWrites, PauseUnloads, TestStep, TestAllows, TestGate, TestVictim, TestFreed, TestStarts,
          TestPolicy, At
<1>2. ASSUME NEW p, \/ ResumeWakes(p) \/ ResumeSpawns(p) \/ Unlock(p) \/ PriorityWrites(p)
                    \/ AddWrites(p) \/ AddGate(p) \/ AddPolicy(p) \/ AddReleases(p)
                    \/ ResumeAllows(p) \/ ResumeGate(p) \/ ResumeStarts(p) \/ ResumeRequeues(p)
                    \/ CancelReads(p) \/ CancelWrites(p) \/ RestartUnloads(p) \/ RestartWrites(p)
      PROVE  ~At(p, "idle")
      BY <1>2 DEF ResumeWakes, ResumeSpawns, Unlock, PriorityWrites, AddWrites, AddGate, AddPolicy,
                  AddReleases, ResumeAllows, ResumeGate, ResumeStarts, ResumeRequeues, CancelReads,
                  CancelWrites, RestartUnloads, RestartWrites, At
<1>3. BootStep => ~At(Boot, "idle")
      BY <1>1 DEF BootStep, BootRead, BootItem, BootSelect, BootStart, BootDone, At
<1>4. HealthCall => ~At(Health, "idle")
      BY <1>1, <1>2 DEF HealthCall, ParkHandle, ParkWrites, At
<1> QED BY <1>1, <1>2, <1>3, <1>4 DEF CallerStep

LEMMA ServedMoves ==
    ASSUME TypeInv, Served, NEW p \in Procs, NEW s, Become(p, s),
           p \in {Loop, Storage} \/ (p = Boot /\ ~At(Boot, "idle")) \/ (p # Boot /\ At(Boot, "idle"))
    PROVE  Served'
<1>1. \A q \in Procs \ {p} : proc'[q] = proc[q]
      BY DEF Become, TypeInv, ProcsSound
<1>2. Boot \in Procs /\ Boot # Loop /\ Boot # Storage
      BY DEF Procs, Boot, Loop, Storage
<1> QED BY <1>1, <1>2 DEF Served, At

LEMMA ServedNext ==
    ASSUME TypeInv, LockInv, Served, [Next]_vars
    PROVE  Served'
<1>1. /\ Loop \in Procs /\ Boot \in Procs /\ Storage \in Procs
      /\ \A c \in Callers : c \in Procs \ {Loop, Boot, Storage}
      BY QueueAssumption DEF Procs
<1>2. CASE LoopStep \/ BootStep \/ StorageStep
      BY <1>1, <1>2, AtWork, LockLoops, LockRecovers, LockRequeues, ServedMoves DEF HandsOn
<1>3. CASE \E c \in Callers : Request(c) \/ CallerStep(c)
  <2>1. PICK c \in Callers : Request(c) \/ CallerStep(c)
        BY <1>3
  <2>2. HandsOn(c)
        BY <1>1, <2>1, LockAsks, LockServes, LockTests, LockEnforces, LockInStart, LockPauses
           DEF CallerStep
  <2>3. At(Boot, "idle")
    <3>1. CASE Request(c)
          BY <3>1 DEF Serve, Request, RequestAdd, RequestPause, RequestResume, RequestMax,
                      RequestPriority, RequestTest, RequestCancel, RequestRestart
    <3>2. CASE CallerStep(c)
          BY <1>1, <3>2, AtWork DEF Served
    <3> QED BY <2>1, <3>1, <3>2
  <2> QED BY <1>1, <2>2, <2>3, ServedMoves DEF HandsOn
<1>4. CASE Crash
  <2>1. \A p \in Procs \ {Loop, Boot, Storage} : proc'[p] = Idle
        BY <1>4 DEF Crash
  <2> QED BY <2>1 DEF Served, At, Idle
<1>5. CASE (\E d \in Downloads : MonitorStep(d)) \/ UNCHANGED vars
  <2>1. proc' = proc
        BY <1>5 DEF MonitorStep, MonProgress, MonFinishes, MonStalls, MonRaises, MonReads, MonSeeds,
                    MonParks, MonFails, MonCompletes, MonCloses, Quiet, vars
  <2> QED BY <2>1 DEF Served, At
<1> QED BY <1>2, <1>3, <1>4, <1>5 DEF Next

LEMMA LockAtFirst ==
    ASSUME Init
    PROVE  LockInv /\ Served
<1>1. \A p \in Procs : proc[p].at \in {"idle", "recover"} /\ proc[p].then = "idle"
      BY DEF Init, Idle
<1>2. {"idle", "recover"} \cap (Sections \cup Calls \cup Late) = {} /\ Nobody \notin Procs
      BY QueueAssumption DEF Sections, Calls, StartLabels, PauseLabels, Late
<1>3. \A p \in Procs \ {Loop, Boot, Storage} : proc[p].at = "idle"
      BY DEF Init, Idle
<1> QED BY <1>1, <1>2, <1>3, SectionsAre DEF Init, LockInv, Served, At, Inside, InSection, Fits

\* The supervisor asks for the lock in its tests, and where a restored priority
\* makes it enforce the limit.
LEMMA LockHealth ==
    ASSUME HInv, LockInv, Served, [HNext]_hvars
    PROVE  LockInv' /\ Served'
<1>1. TypeInv /\ Health \in Procs \ {Loop, Boot, Storage}
      BY DEF HInv, Procs, Health, Loop, Boot, Storage
<1>2. CASE UNCHANGED <<lock, proc>>
      BY <1>2 DEF LockInv, Inside, Served, At
<1>3. CASE [Next]_vars
      BY <1>1, <1>3, LockNext, ServedNext
<1>4. ASSUME HandsOn(Health), HealthCall \/ At(Boot, "idle")
      PROVE  LockInv' /\ Served'
  <2>1. At(Boot, "idle") /\ Health # Boot
        BY <1>1, <1>4, AtWork DEF Served
  <2> QED BY <1>1, <1>4, <2>1, LockMoves, ServedMoves DEF HandsOn
<1>5. CASE HealthCall
  <2>1. CASE ParkHandle
    <3>1. Goto(Health, "parked") /\ lock' = lock /\ proc[Health].at = "parking"
          BY <2>1 DEF ParkHandle, At
    <3>2. {"parking", "parked"} \cap (Sections \cup Calls \cup Late) = {} /\ "parked" \in Labels
          BY DEF Sections, Calls, StartLabels, PauseLabels, Late, Labels
    <3> QED BY <1>1, <1>4, <1>5, <3>1, <3>2, LockStays
  <2>2. CASE ParkWrites
    <3>1. Finish(Health) /\ lock' = lock /\ proc[Health].at \in {"parking", "parked"}
          BY <2>2 DEF ParkWrites, At
    <3>2. {"parking", "parked"} \cap (Sections \cup Calls) = {}
          BY DEF Sections, Calls, StartLabels, PauseLabels
    <3>3. Hands(Health, "idle", "idle")
          BY <3>1, <3>2, SectionsAre DEF Hands, Inside, InSection
    <3> QED BY <1>1, <1>4, <1>5, <3>1, <3>3, LockEnds
  <2>3. CASE HandsOn(Health)
        BY <1>4, <1>5, <2>3
  <2> QED BY <1>1, <1>5, <2>1, <2>2, <2>3, LockServes, LockTests, LockEnforces, LockInStart, LockPauses
          DEF HealthCall
<1>6. ASSUME NEW d \in Downloads, HealthLook(d)
      PROVE  LockInv' /\ Served'
  <2>1. CASE HealthPromotes(d)
        BY <1>2, <2>1 DEF HealthPromotes
  <2>2. CASE ~HealthPromotes(d)
    <3>1. Looks(d) /\ At(Health, "idle") /\ At(Boot, "idle") /\ lock' = lock
          BY <1>6, <2>2 DEF HealthLook, HealthLeaves, HealthSucceeds, HealthParks, HealthTests, Looks,
                            Ready, Others
    <3>2. \/ UNCHANGED proc
          \/ \E l \in {"prioWrite", "parking", "testAllow"} : \E r :
                Become(Health, [Idle EXCEPT !.at = l, !.d = d, !.it[d] = r])
      <4>1. CASE HealthLeaves(d)
            BY <4>1 DEF HealthLeaves
      <4>2. CASE HealthSucceeds(d)
        <5>1. CASE UNCHANGED proc
              BY <5>1
        <5>2. CASE ~UNCHANGED proc
          <6>1. Become(Health, [Idle EXCEPT !.at = "prioWrite", !.d = d,
                                            !.it[d] = [row[d] EXCEPT !.prio = health[d].orig]])
                BY <4>2, <5>2 DEF HealthSucceeds
          <6> QED BY <6>1, Zenon
        <5> QED BY <5>1, <5>2
      <4>3. CASE HealthParks(d) \/ HealthTests(d)
        <5>1. \/ UNCHANGED proc
              \/ \E l \in {"parking", "testAllow"} :
                    Become(Health, [Idle EXCEPT !.at = l, !.d = d, !.it[d] = row[d]])
              BY <4>3 DEF HealthParks, HealthTests
        <5> QED BY <5>1, Zenon
      <4> QED BY <1>6, <2>2, <4>1, <4>2, <4>3 DEF HealthLook
    <3>3. {"prioWrite", "parking", "testAllow"} \subseteq Labels \ (Sections \cup StartLabels \cup Late)
          BY DEF Labels, Sections, StartLabels, Late
    <3> QED BY <1>1, <1>2, <1>4, <3>1, <3>2, <3>3, LockTakesUp
  <2> QED BY <2>1, <2>2
<1>7. CASE HealthFindsWhole \/ HealthReads \/ \E d \in Downloads : TimePasses(d)
      BY <1>2, <1>7 DEF HealthFindsWhole, HealthReads, TimePasses, WindowEnds, IntervalEnds, Others, vars
<1>8. CASE UNCHANGED hvars
      BY <1>2, <1>8 DEF hvars, vars
<1> QED BY <1>3, <1>6, <1>7, <1>8, <1>5 DEF HNext, Next, Restart, HealthStep

\* Only the storage recovery takes the lock before recovery is over.
LEMMA LockedLater ==
    ASSUME TypeInv, LockInv', Served, NEW p \in Procs \ {Storage}, Lock(p)
    PROVE  At(Boot, "idle")
<1>1. proc'[p].at \in Sections
  <2>1. PICK l \in {"addGate", "resumeGate", "testGate", "enforceSync"} : Goto(p, l)
        BY DEF Lock, LockedLabels, At
  <2>2. proc'[p].at = l
        BY <2>1, Working DEF Goto, Become, TypeInv, ProcsSound, Process
  <2> QED BY <2>2 DEF Sections
<1>2. p \notin {Loop, Boot}
      BY <1>1 DEF LockInv, Fits
<1>3. ~At(p, "idle")
      BY AtWork DEF EnforceStep
<1> QED BY <1>2, <1>3 DEF Served

-----------------------------------------------------------------------------
(* What the lock gives *)

OneInside == \A p, q \in Procs : Inside(p) /\ Inside(q) => p = q

\* Nobody leaves a section with the lock.
HeldInside == lock \in Procs => Inside(lock)

StartsAtOnce == {p \in Procs : proc[p].at \in StartLabels}

LEMMA LockGives ==
    ASSUME TypeInv, LockInv, Served
    PROVE  OneInside /\ HeldInside /\ Cardinality(StartsAtOnce) <= 2
<1>1. OneInside /\ HeldInside
      BY DEF LockInv, OneInside, HeldInside
<1>2. PICK other \in {Boot, lock} : StartsAtOnce \subseteq {Loop, other}
  <2>1. ASSUME NEW p \in Procs, proc[p].at \in StartLabels, p \notin {Loop, Boot}
        PROVE  p = lock /\ p # Storage
    <3>1. proc[p].then \in Sections /\ proc[p].at \in Calls /\ p # Storage
          BY <2>1, SectionsAre DEF LockInv, Fits
    <3> QED BY <3>1 DEF LockInv, Inside, InSection
  <2>2. CASE At(Boot, "idle")
    <3>1. proc[Boot].at \notin StartLabels
          BY <2>2 DEF At, StartLabels
    <3> QED BY <2>1, <3>1 DEF StartsAtOnce
  <2>3. CASE ~At(Boot, "idle")
    <3>1. \A p \in Procs \ {Loop, Boot, Storage} : proc[p].at \notin StartLabels
          BY <2>3 DEF Served, At, StartLabels
    <3> QED BY <2>1, <3>1 DEF StartsAtOnce
  <2> QED BY <2>2, <2>3
<1>3. IsFiniteSet({Loop, other}) /\ Cardinality({Loop, other}) <= 2
  <2>1. /\ IsFiniteSet({Loop}) /\ Cardinality({Loop}) = 1
        BY FS_Singleton
  <2>2. /\ IsFiniteSet({Loop} \cup {other})
        /\ Cardinality({Loop} \cup {other}) = IF other \in {Loop} THEN 1 ELSE 2
        BY <2>1, FS_AddElement
  <2>3. {Loop} \cup {other} = {Loop, other}
        OBVIOUS
  <2> QED BY <2>2, <2>3
<1>4. Cardinality(StartsAtOnce) <= 2
  <2>1. IsFiniteSet(StartsAtOnce) /\ Cardinality(StartsAtOnce) <= Cardinality({Loop, other})
        BY <1>2, <1>3, FS_Subset
  <2> QED BY <1>3, <2>1, FS_CardinalityType
<1> QED BY <1>1, <1>4

\* Mutual exclusion of the async with self._queue_lock blocks (core/downloader.py):
\* across every await in them, the starts and the requeues they call included,
\* one process at most is inside, and the lock is held only by one that is: every
\* return, every refusal and every start that raises gives it back.
THEOREM OneInTheQueueLock == Spec => [](OneInside /\ HeldInside)
<1>1. Init => TypeInv /\ LockInv /\ Served
      BY InitKept, LockAtFirst
<1>2. TypeInv /\ LockInv /\ Served /\ [Next]_vars => (TypeInv /\ LockInv /\ Served)'
      BY NextKeeps, LockNext, ServedNext DEF Kept
<1>3. TypeInv /\ LockInv /\ Served => OneInside /\ HeldInside
      BY LockGives
<1> QED BY <1>1, <1>2, <1>3, PTL DEF Spec

\* However many requests there are, at most two downloads are being started at
\* once: run_loop and recover_downloads start without the lock, every other start
\* is made by its holder, and the web server answers after the recovery only.
THEOREM TwoStartsAtOnce == Spec => [](Cardinality(StartsAtOnce) <= 2)
<1>1. Init => TypeInv /\ LockInv /\ Served
      BY InitKept, LockAtFirst
<1>2. TypeInv /\ LockInv /\ Served /\ [Next]_vars => (TypeInv /\ LockInv /\ Served)'
      BY NextKeeps, LockNext, ServedNext DEF Kept
<1>3. TypeInv /\ LockInv /\ Served => Cardinality(StartsAtOnce) <= 2
      BY LockGives
<1> QED BY <1>1, <1>2, <1>3, PTL DEF Spec

\* Neither changes with the health supervisor, whose tests start downloads too.
THEOREM SupervisedLock ==
    HSpec => [](OneInside /\ HeldInside /\ Cardinality(StartsAtOnce) <= 2)
<1>1. HInit => HInv /\ LockInv /\ Served
      BY HealthAtFirst, LockAtFirst DEF HInit
<1>2. HInv /\ LockInv /\ Served /\ [HNext]_hvars => (HInv /\ LockInv /\ Served)'
      BY SupervisedKeeps, LockHealth
<1>3. HInv /\ LockInv /\ Served => OneInside /\ HeldInside /\ Cardinality(StartsAtOnce) <= 2
      BY LockGives DEF HInv
<1> QED BY <1>1, <1>2, <1>3, PTL DEF HSpec

-----------------------------------------------------------------------------
(* What one step of a process may do to the rows that say DOWNLOADING or     *)
(* STALLED, to the monitors and to the rows read under the lock              *)

Moving == {"DOWNLOADING", "STALLED"}
Watching == {"run", "finishing", "stalling", "failing"}

\* At these labels a process is about to spawn a monitor, or to store its
\* download as cancelled; to store a row as it was read; to look at the table
\* once more.
Attending == {"written", "awake", "cancelWrite"}
Storing == {"prioWrite", "addWrite", "testAllow"}
Gates == {"testGate", "enforceSync"}

Entered == Storing \cup {"parking", "parked"} \cup Gates

\* Recovery has yet to read this download, or to store it as QUEUED.
ToRecover(d) ==
    \/ At(Boot, "recover")
    \/ At(Boot, "recoverItem") /\ \E i \in 1..Len(proc[Boot].todo) : proc[Boot].todo[i] = d

RowsMove(p, s) ==
    \A d \in Downloads :
        /\ row'[d].st = "DOWNLOADING" /\ row[d].st # "DOWNLOADING" =>
              /\ d = Target(p)
              /\ \/ proc[p].at \in {"added", "waking"} /\ s.at \in {"written", "awake"} /\ s.d = d
                 \/ PriorityWrites(p) /\ Item(p).st = "DOWNLOADING"
                 \/ proc[p].at \in {"addWrite", "testAllow"} /\ Item(p).st = "DOWNLOADING"
        /\ row'[d].st = "STALLED" /\ row[d].st # "STALLED" =>
              \/ view[d].st = "STALLED"
              \/ d = Target(p) /\ proc[p].at \in {"adding", "parking", "parked"}
              \/ d = Target(p) /\ proc[p].at \in Storing /\ Item(p).st = "STALLED"

MonitorsMove(p, s) ==
    /\ \A d \in Downloads : mon'[d] # mon[d] =>
          /\ d = Target(p)
          /\ \/ mon'[d] = "run" /\ proc[p].at \in {"written", "awake"}
             \/ mon'[d] = "off" /\ row'[d].st # "DOWNLOADING"
             \/ mon'[d] = "off" /\ s.at = "cancelWrite" /\ s.d = d
    /\ proc[p].at \in Attending => mon'[Target(p)] = "run" \/ row'[Target(p)].st # "DOWNLOADING"

ViewMoves(p) ==
    \A d \in Downloads :
        \/ view'[d] \in {view[d], NoRows[d]}
        \/ view'[d] = row'[d] /\ (Lock(p) \/ proc[p].at \in Gates)

\* The rows that are to be stored, and what a pass of the supervisor takes up.
Enters(p, s) ==
    /\ s.at \in Storing =>
          /\ At(Boot, "idle") /\ s.d \in Downloads
          /\ s.it[s.d].st \in Moving => s.it[s.d].st = row[s.d].st
          /\ s.at # "prioWrite" => s.it[s.d].st # "DOWNLOADING"
          /\ s.at = "addWrite" /\ s.it[s.d].st \in Moving => s.it[s.d].why = "user"
    /\ s.at = "parking" \/ (p = Health /\ s.at = "testAllow") =>
          s.d \in Downloads /\ pass.it[s.d].st \in Moving
    /\ s.at = "parked" => At(p, "parking") /\ s.d = Target(p)
    /\ s.at \in Gates => Lock(p)

Approves(p) ==
    /\ approved \subseteq approved'
    /\ proc[p].at = "addWrite" /\ Item(p).why = "user" => Target(p) \in approved'
    /\ proc[p].at = "testAllow" /\ p # Health => Target(p) \in approved'

Recovers(p) ==
    p = Boot =>
        /\ ~At(Boot, "idle")
        /\ \A d \in Downloads : ToRecover(d) /\ row'[d].st \in Moving => ToRecover(d)'

Moved(p, s) ==
    /\ Become(p, s)
    /\ RowsMove(p, s) /\ MonitorsMove(p, s) /\ ViewMoves(p)
    /\ Enters(p, s) /\ Approves(p) /\ Recovers(p)

-----------------------------------------------------------------------------
(* Every download that says DOWNLOADING is watched *)

WatchInv ==
    /\ \A d \in Downloads : row[d].st = "DOWNLOADING" =>
          \/ mon[d] \in Watching
          \/ \E p \in Procs : proc[p].at \in Attending /\ Target(p) = d
          \/ ToRecover(d)
          \/ d \in revived
    /\ \A p \in Procs : proc[p].at \in {"addWrite", "testAllow"} => Item(p).st # "DOWNLOADING"

\* A download is no longer revived when a monitor watches it, when its row says
\* something else, or when a process is about to see to that.
RevivedStay ==
    \A d \in revived \ revived' :
        \/ mon'[d] \in Watching
        \/ row'[d].st # "DOWNLOADING"
        \/ \E q \in Procs : proc'[q].at \in Attending /\ Target(q)' = d

LEMMA WatchMoves ==
    ASSUME TypeInv, WatchInv, RevivedStay, NEW p \in Procs, NEW s, Moved(p, s)
    PROVE  WatchInv'
<1>1. proc'[p] = s /\ \A q \in Procs \ {p} : proc'[q] = proc[q]
      BY DEF Moved, Become, TypeInv, ProcsSound
<1>2. ASSUME NEW d \in Downloads, row'[d].st = "DOWNLOADING"
      PROVE  \/ mon'[d] \in Watching
             \/ \E q \in Procs : proc'[q].at \in Attending /\ Target(q)' = d
             \/ ToRecover(d)'
             \/ d \in revived'
  <2>1. CASE s.at \in Attending /\ s.d = d
        BY <1>1, <2>1 DEF Target
  <2>2. CASE mon'[d] # mon[d]
        BY <1>2, <2>1, <2>2 DEF Moved, MonitorsMove, Watching, Attending
  <2>3. CASE d \in revived
        BY <1>2, <2>3 DEF RevivedStay
  <2>4. CASE d \notin revived' /\ d \notin revived /\ mon'[d] = mon[d] /\ ~(s.at \in Attending /\ s.d = d)
    <3>1. row[d].st = "DOWNLOADING"
          BY <1>2, <2>4 DEF Moved, RowsMove, Attending, WatchInv, PriorityWrites
    <3>2. CASE mon[d] \in Watching
          BY <2>4, <3>2
    <3>3. CASE \E q \in Procs : proc[q].at \in Attending /\ Target(q) = d
      <4>1. PICK q \in Procs : proc[q].at \in Attending /\ Target(q) = d
            BY <3>3
      <4>2. CASE q = p
            BY <1>2, <4>1, <4>2 DEF Moved, MonitorsMove, Watching
      <4>3. CASE q # p
            BY <1>1, <4>1, <4>3 DEF Target
      <4> QED BY <4>2, <4>3
    <3>4. CASE ToRecover(d)
      <4>1. CASE p = Boot
            BY <1>2, <3>4, <4>1 DEF Moved, Recovers, Moving
      <4>2. CASE p # Boot
        <5>1. proc'[Boot] = proc[Boot]
              BY <1>1, <4>2 DEF Procs
        <5> QED BY <3>4, <5>1 DEF ToRecover, At
      <4> QED BY <4>1, <4>2
    <3> QED BY <2>4, <3>1, <3>2, <3>3, <3>4 DEF WatchInv
  <2> QED BY <2>1, <2>2, <2>3, <2>4
<1>3. ASSUME NEW q \in Procs, proc'[q].at \in {"addWrite", "testAllow"}
      PROVE  Item(q)'.st # "DOWNLOADING"
      BY <1>1, <1>3 DEF WatchInv, Moved, Enters, Storing, Item, Target
<1> QED BY <1>2, <1>3 DEF WatchInv

-----------------------------------------------------------------------------
(* What moves is cleared *)

MovingInv ==
    /\ \A d \in Downloads :
          /\ row[d].st \in Moving => d \in Cleared \/ ToRecover(d)
          /\ view[d].st \in Moving => d \in Cleared
          /\ mon[d] # "off" => d \in Cleared
    /\ \A p \in Procs :
          /\ At(p, "prioWrite") /\ Item(p).st \in Moving => Target(p) \in Cleared
          /\ At(p, "addWrite") /\ Item(p).st \in Moving => Item(p).why = "user"
          /\ proc[p].at \in {"parking", "parked"} \/ (p = Health /\ At(p, "testAllow"))
                => Target(p) \in Cleared
          /\ proc[p].at \in Gates => At(Boot, "idle")

\* The storage recovery does not take the lock while recovery is under way.
StorageWaits == Lock(Storage) => At(Boot, "idle")

\* What a pass remembers.
PassGood == AskedRows(pass.it, Cleared) /\ \A d \in Downloads : pass.it[d].st \in Moving => d \in Cleared

LEMMA MovingMoves ==
    ASSUME TypeInv, PermitInv, MovingInv, PassGood, NEW p \in Procs, NEW s, Moved(p, s),
           Lock(p) => At(Boot, "idle")
    PROVE  MovingInv'
<1>1. proc'[p] = s /\ \A q \in Procs \ {p} : proc'[q] = proc[q]
      BY DEF Moved, Become, TypeInv, ProcsSound
<1>2. Cleared \subseteq Cleared'
      BY DEF Moved, Approves, Cleared
<1>3. At(Boot, "idle") => At(Boot, "idle")'
      BY <1>1 DEF Moved, Recovers, At, Procs
<1>4. \A d \in Downloads : ToRecover(d) /\ row'[d].st \in Moving => ToRecover(d)'
  <2>1. CASE p = Boot
        BY <2>1 DEF Moved, Recovers
  <2>2. CASE p # Boot
    <3>1. proc'[Boot] = proc[Boot]
          BY <1>1, <2>2 DEF Procs
    <3> QED BY <3>1 DEF ToRecover, At
  <2> QED BY <2>1, <2>2
<1>5. ~At(Boot, "idle") \/ \A d \in Downloads : ~ToRecover(d)
      BY DEF ToRecover, At
<1>6. proc[p].at \in {"added", "adding", "waking", "written", "awake"} => Target(p) \in Cleared
      BY WorkingGood DEF TypeInv, ClearedLabels, StartLabels
<1>7. ASSUME NEW d \in Downloads, row'[d].st \in Moving
      PROVE  d \in Cleared' \/ ToRecover(d)'
  <2>1. CASE row[d].st \in Moving \/ view[d].st \in Moving
        BY <1>2, <1>4, <1>7, <2>1 DEF MovingInv
  <2>2. CASE row[d].st \notin Moving /\ view[d].st \notin Moving
    <3>1. /\ d = Target(p)
          /\ \/ proc[p].at \in {"added", "waking", "adding", "parking", "parked"}
             \/ proc[p].at \in Storing /\ Item(p).st \in Moving
          BY <1>7, <2>2 DEF Moved, RowsMove, Moving, PriorityWrites, At, Storing
    <3>2. CASE proc[p].at \in {"added", "waking", "adding"}
          BY <1>2, <1>6, <3>1, <3>2
    <3>3. CASE proc[p].at \in {"parking", "parked"} \/ (p = Health /\ At(p, "testAllow"))
          BY <1>2, <3>1, <3>3 DEF MovingInv
    <3>4. CASE proc[p].at \in Storing /\ Item(p).st \in Moving /\ ~(At(p, "testAllow") /\ p = Health)
      <4>1. Target(p) \in Cleared \/ Target(p) \in approved'
            BY <3>4 DEF Storing, MovingInv, Moved, Approves, At
      <4> QED BY <1>2, <3>1, <4>1 DEF Cleared
    <3> QED BY <3>1, <3>2, <3>3, <3>4 DEF At
  <2> QED BY <2>1, <2>2
<1>8. ASSUME NEW d \in Downloads, view'[d].st \in Moving
      PROVE  d \in Cleared'
  <2>1. view'[d] = view[d] \/ (view'[d] = row'[d] /\ (Lock(p) \/ proc[p].at \in Gates))
        BY <1>8 DEF Moved, ViewMoves, NoRows, Moving
  <2>2. CASE view'[d] = view[d]
        BY <1>2, <1>8, <2>2 DEF MovingInv
  <2>3. CASE view'[d] = row'[d] /\ (Lock(p) \/ proc[p].at \in Gates)
    <3>1. At(Boot, "idle")'
          BY <1>3, <2>3 DEF MovingInv
    <3>2. ~ToRecover(d)'
          BY <3>1 DEF ToRecover, At
    <3> QED BY <1>7, <1>8, <2>3, <3>2
  <2> QED BY <2>1, <2>2, <2>3
<1>9. ASSUME NEW d \in Downloads, mon'[d] # "off"
      PROVE  d \in Cleared'
      BY <1>2, <1>6, <1>9 DEF Moved, MonitorsMove, MovingInv
<1>10. ASSUME NEW q \in Procs
       PROVE  /\ At(q, "prioWrite")' /\ Item(q)'.st \in Moving => Target(q)' \in Cleared'
              /\ At(q, "addWrite")' /\ Item(q)'.st \in Moving => Item(q)'.why = "user"
              /\ proc'[q].at \in {"parking", "parked"} \/ (q = Health /\ At(q, "testAllow")')
                    => Target(q)' \in Cleared'
              /\ proc'[q].at \in Gates => At(Boot, "idle")'
  <2>1. CASE q # p
        BY <1>1, <1>2, <1>3, <2>1 DEF MovingInv, At, Item, Target
  <2>2. CASE q = p
    <3>1. proc'[q] = s /\ Target(q)' = s.d /\ Item(q)' = s.it[s.d]
          BY <1>1, <2>2 DEF Target, Item
    <3>2. s.at = "prioWrite" /\ s.it[s.d].st \in Moving => s.d \in Cleared'
          BY <1>2, <1>5 DEF Moved, Enters, Storing, MovingInv
    <3>3. s.at = "addWrite" /\ s.it[s.d].st \in Moving => s.it[s.d].why = "user"
          BY DEF Moved, Enters, Storing
    <3>4. s.at = "parking" \/ (p = Health /\ s.at = "testAllow") => s.d \in Cleared'
          BY <1>2 DEF Moved, Enters, PassGood
    <3>5. s.at = "parked" => s.d \in Cleared'
          BY <1>2 DEF Moved, Enters, MovingInv, At
    <3>6. s.at \in Gates => At(Boot, "idle")'
          BY <1>3 DEF Moved, Enters
    <3> QED BY <2>2, <3>1, <3>2, <3>3, <3>4, <3>5, <3>6 DEF At
  <2> QED BY <2>1, <2>2
<1> QED BY <1>7, <1>8, <1>9, <1>10 DEF MovingInv

-----------------------------------------------------------------------------
(* Each step of a process is such a move *)

BootLabels == {"idle", "recover", "recoverItem"}

LEMMA Moves ==
    ASSUME TypeInv, NEW p \in Procs, NEW s, Become(p, s), s.at \notin Entered,
           RowsMove(p, s), MonitorsMove(p, s), ViewMoves(p), approved \subseteq approved',
           proc[p].at \notin {"addWrite", "testAllow"}, p # Boot \/ proc[p].at \notin BootLabels
    PROVE  Moved(p, s)
<1>1. Enters(p, s)
      BY DEF Enters, Entered, Storing
<1>2. Approves(p)
      BY DEF Approves
<1>3. Recovers(p)
      BY DEF Recovers, BootLabels, ToRecover, At
<1> QED BY <1>1, <1>2, <1>3 DEF Moved

\* No row begins to move but one that the holder of the lock has read.
Still == \A d \in Downloads :
            \/ row'[d].st \in {row[d].st} \cup (Statuses \ Moving)
            \/ row'[d].st = "STALLED" /\ view[d].st = "STALLED"

LEMMA StillMoves ==
    ASSUME NEW p, NEW s, Still
    PROVE  RowsMove(p, s)
BY DEF Still, RowsMove, Moving

LEMMA StillWrites ==
    ASSUME TypeInv, NEW d \in Downloads, NEW r \in Row, Write(d, r), r.st \notin Moving
    PROVE  Still
BY Writes DEF Still, TypeInv, Row

LEMMA Unmonitored ==
    ASSUME UNCHANGED mon, NEW p, NEW s, proc[p].at \notin Attending
    PROVE  MonitorsMove(p, s)
BY DEF MonitorsMove

\* Where a process goes on.
LEMMA Stands ==
    ASSUME TypeInv, NEW p \in Procs, NEW l \in Labels, Goto(p, l)
    PROVE  \E s : Become(p, s) /\ s.at = l /\ (l # "idle" => s.d = Target(p))
<1>1. Idle.at = "idle" /\ [proc[p] EXCEPT !.at = l].at = l /\ [proc[p] EXCEPT !.at = l].d = Target(p)
      BY Working DEF TypeInv, Process, Idle, Target
<1>2. CASE l = "idle"
      BY <1>1, <1>2 DEF Goto
<1>3. CASE l # "idle"
      BY <1>1, <1>3 DEF Goto
<1> QED BY <1>2, <1>3

LEMMA Ends ==
    ASSUME NEW p, Finish(p)
    PROVE  \E s : Become(p, s) /\ s.at = "idle"
BY DEF Finish, Idle

LEMMA Plainly == Returns \subseteq Labels /\ (Returns \cup {"idle"}) \cap (Entered \cup Attending) = {}
BY LabelsAre DEF Returns, Entered, Storing, Gates, Attending

\* A step that changes no monitor and stores no row that moves.
LEMMA GoesOn ==
    ASSUME TypeInv, NEW p \in Procs, Still, ViewMoves(p), UNCHANGED <<mon, approved>>,
           proc[p].at \notin Attending \cup {"addWrite", "testAllow"},
           p # Boot \/ proc[p].at \notin BootLabels,
           Finish(p) \/ (\E l \in Labels \ Entered : Goto(p, l)) \/ \E s : Become(p, s) /\ s.at \notin Entered
    PROVE  \E s : Moved(p, s)
<1>1. PICK s : Become(p, s) /\ s.at \notin Entered
      BY Ends, Stands, Plainly
<1>2. RowsMove(p, s) /\ MonitorsMove(p, s)
      BY StillMoves, Unmonitored
<1> QED BY <1>1, <1>2, Moves

LEMMA StartMoves ==
    ASSUME TypeInv, NEW p \in Procs, StartStep(p)
    PROVE  \E s : Moved(p, s)
<1>1. /\ Target(p) \in Downloads /\ Item(p) \in Row /\ proc[p].then \in Returns /\ proc[p] \in Process
      /\ proc[p].at \in StartLabels /\ proc[p].at \notin BootLabels \cup {"addWrite", "testAllow"}
      /\ view' = view /\ approved' = approved
  <2>1. proc[p].at \in StartLabels /\ view' = view /\ approved' = approved
        BY DEF StartStep, StartAdded, StartWrites, StartSpawns, StartFails, StartRaises, At, StartLabels
  <2> QED BY <2>1, Working DEF TypeInv, StartLabels, PlainLabels, BootLabels
<1>2. ViewMoves(p)
      BY <1>1 DEF ViewMoves
<1>3. {"added", "written", "failed", "requeue"} \subseteq Labels \ Entered
      BY DEF Labels, StartLabels, Entered, Storing, Gates
<1>4. CASE StartAdded(p) \/ StartRaises(p)
  <2>1. /\ row' = row /\ mon' = mon /\ proc[p].at \notin Attending
        /\ Finish(p) \/ \E l \in {"added", "requeue"} \cup Returns : Goto(p, l)
        BY <1>1, <1>4 DEF StartAdded, StartRaises, monitor, At, Attending
  <2>2. Still
        BY <2>1 DEF Still
  <2> QED BY <1>1, <1>2, <1>3, <2>1, <2>2, GoesOn, Plainly
<1>5. CASE StartWrites(p)
  <2>1. PICK s : Become(p, s) /\ s.at = "written" /\ s.d = Target(p)
        BY <1>3, <1>5, Stands DEF StartWrites
  <2>2. MonitorsMove(p, s)
        BY <1>5, Unmonitored DEF StartWrites, monitor, At, Attending
  <2> DEFINE r == Item(p)
             q == [r EXCEPT !.st = "DOWNLOADING"]
  <2>3. q \in Row /\ q.st = "DOWNLOADING"
    <3>1. r \in Row
          BY <1>1
    <3> HIDE DEF r
    <3> QED BY <3>1 DEF Row, Statuses
  <2>4. Write(Target(p), q) /\ At(p, "added")
        BY <1>5 DEF StartWrites
  <2> HIDE DEF q
  <2>5. RowsMove(p, s)
        BY <1>1, <2>1, <2>3, <2>4, Writes DEF RowsMove, TypeInv, At
  <2> QED BY <1>1, <1>2, <1>3, <2>1, <2>2, <2>5, Moves
<1>6. CASE StartFails(p)
  <2>1. PICK s : Become(p, s) /\ s.at = "failed"
        BY <1>3, <1>6, Stands DEF StartFails
  <2>2. MonitorsMove(p, s)
        BY <1>6, Unmonitored DEF StartFails, monitor, At, Attending
  <2>3. PICK q \in Row : Write(Target(p), q) /\ q.st # "DOWNLOADING"
    <3> DEFINE r == Item(p)
    <3>1. r \in Row
          BY <1>1
    <3>2. \/ Write(Target(p), [r EXCEPT !.st = "STALLED", !.why = "storage"])
          \/ Write(Target(p), [r EXCEPT !.st = "FAILED", !.why = "other"])
          BY <1>6 DEF StartFails
    <3> HIDE DEF r
    <3>3. \A st \in {"STALLED", "FAILED"}, why \in {"storage", "other"} :
             [r EXCEPT !.st = st, !.why = why] \in Row /\ [r EXCEPT !.st = st, !.why = why].st # "DOWNLOADING"
          BY <3>1 DEF Row, Statuses
    <3> QED BY <3>2, <3>3
  <2>4. RowsMove(p, s)
        BY <1>1, <1>6, <2>3, Writes DEF RowsMove, TypeInv, At, StartFails
  <2> QED BY <1>1, <1>2, <1>3, <2>1, <2>2, <2>4, Moves
<1>7. CASE StartSpawns(p)
  <2>1. PICK s : Become(p, s) /\ s.at = proc[p].then
    <3>1. CASE Goto(p, proc[p].then)
          BY <1>1, <3>1, Stands, Plainly
    <3>2. CASE Become(p, [proc[p] EXCEPT !.at = proc[p].then, !.n = @ + 1])
      <4>1. [proc[p] EXCEPT !.at = proc[p].then, !.n = @ + 1].at = proc[p].then
            BY <1>1 DEF Process
      <4> QED BY <3>2, <4>1
    <3> QED BY <1>7, <3>1, <3>2 DEF StartSpawns
  <2>2. row' = row /\ mon' = [mon EXCEPT ![Target(p)] = "run"] /\ At(p, "written")
        BY <1>7 DEF StartSpawns, Monitored
  <2>3. RowsMove(p, s)
        BY <2>2 DEF RowsMove
  <2>4. MonitorsMove(p, s)
        BY <1>1, <2>2 DEF MonitorsMove, TypeInv, TypeOK, At
  <2> QED BY <1>1, <1>2, <2>1, <2>3, <2>4, Moves, Plainly
<1> QED BY <1>4, <1>5, <1>6, <1>7 DEF StartStep

LEMMA PauseMoves ==
    ASSUME TypeInv, NEW p \in Procs, PauseStep(p)
    PROVE  \E s : Moved(p, s)
<1>1. /\ Target(p) \in Downloads /\ Item(p) \in Row /\ proc[p].then \in Returns /\ proc[p] \in Process
      /\ proc[p].at \notin BootLabels \cup Attending \cup {"addWrite", "testAllow"}
      /\ view' = view /\ approved' = approved
  <2>1. proc[p].at \in PauseLabels \cup {"unloading"} /\ view' = view /\ approved' = approved
        BY DEF PauseStep, PauseRead, PauseHandle, PauseWrites, PauseUnloads, At, PauseLabels
  <2> QED BY <2>1, Working DEF TypeInv, PauseLabels, PlainLabels, BootLabels, Attending
<1>2. ViewMoves(p)
      BY <1>1 DEF ViewMoves
<1>3. {"paused", "pausing", "unloading"} \subseteq Labels \ Entered
      BY DEF Labels, PauseLabels, Entered, Storing, Gates
<1>4. CASE PauseRead(p) \/ PauseHandle(p) \/ PauseUnloads(p)
  <2>1. UNCHANGED <<row, mon>>
        BY <1>4 DEF PauseRead, PauseHandle, PauseUnloads, monitor
  <2>2. Still
        BY <2>1 DEF Still
  <2>3. \/ \E l \in {"paused"} \cup Returns : Goto(p, l)
        \/ \E s : Become(p, s) /\ s.at = "pausing"
    <3>1. [proc[p] EXCEPT !.at = "pausing", !.it[Target(p)] = row[Target(p)]].at = "pausing"
          BY <1>1 DEF Process
    <3> QED BY <1>1, <1>4, <3>1 DEF PauseRead, PauseHandle, PauseUnloads
  <2> QED BY <1>1, <1>2, <1>3, <2>1, <2>2, <2>3, GoesOn, Plainly
<1>5. CASE PauseWrites(p)
  <2>1. PICK s : Become(p, s) /\ s.at \in {"idle", "unloading"}
        BY <1>3, <1>5, Stands, Ends DEF PauseWrites
  <2> DEFINE r == Item(p)
             q == [r EXCEPT !.st = IF Requeues(p) THEN "QUEUED" ELSE "PAUSED"]
  <2>2. q \in Row /\ q.st \in {"QUEUED", "PAUSED"}
    <3>1. r \in Row
          BY <1>1
    <3> HIDE DEF r
    <3> QED BY <3>1 DEF Row, Statuses
  <2>3. Write(Target(p), q) /\ Monitored(Target(p), "off")
        BY <1>5 DEF PauseWrites
  <2> HIDE DEF q
  <2>4. Still
        BY <1>1, <2>2, <2>3, StillWrites DEF Moving
  <2>5. MonitorsMove(p, s)
        BY <1>1, <2>2, <2>3, Writes DEF MonitorsMove, Monitored, TypeInv, TypeOK
  <2> QED BY <1>1, <1>2, <1>3, <2>1, <2>4, <2>5, StillMoves, Moves, Plainly
<1> QED BY <1>4, <1>5 DEF PauseStep

LEMMA EnforceMoves ==
    ASSUME TypeInv, NEW p \in Procs, EnforceStep(p)
    PROVE  \E s : Moved(p, s)
<1>1. /\ proc[p] \in Process
      /\ proc[p].at \notin BootLabels \cup Attending \cup {"addWrite", "testAllow"}
      /\ mon' = mon /\ approved' = approved
  <2>1. /\ proc[p].at \in LockedLabels \cup {"enforceSync", "cut", "nextVictim"}
        /\ mon' = mon /\ approved' = approved
        BY DEF EnforceStep, Lock, EnforceSync, EnforceCut, EnforceNext, At, monitor
  <2> QED BY <2>1, Working DEF TypeInv, LockedLabels, BootLabels, Attending
<1>2. CASE Lock(p)
  <2>1. PICK l \in {"addGate", "resumeGate", "testGate", "enforceSync"} : Goto(p, l)
        BY <1>2 DEF Lock, LockedLabels, At
  <2>2. PICK s : Become(p, s) /\ s.at = l
        BY <2>1, Stands DEF Labels
  <2>3. row' = row /\ view' = row
        BY <1>2 DEF Lock
  <2>4. RowsMove(p, s) /\ ViewMoves(p)
        BY <1>2, <2>3 DEF RowsMove, ViewMoves
  <2>5. MonitorsMove(p, s)
        BY <1>1, Unmonitored
  <2>6. Enters(p, s) /\ Approves(p) /\ Recovers(p)
        BY <1>1, <1>2, <2>1, <2>2 DEF Enters, Approves, Recovers, Storing, BootLabels, ToRecover, At
  <2> QED BY <2>2, <2>4, <2>5, <2>6 DEF Moved
<1>3. CASE EnforceSync(p)
  <2>1. PICK rates \in Stale : row' = Rewritten(rates) /\ view' = Rewritten(rates)
        BY <1>3 DEF EnforceSync
  <2>2. Still
        BY <2>1 DEF Stale, InStatus, Rewritten, Still
  <2>3. ViewMoves(p)
        BY <1>3, <2>1 DEF ViewMoves, EnforceSync, At, Gates
  <2>4. "cut" \in Labels \ Entered
        BY DEF Labels, Entered, Storing, Gates
  <2>5. Goto(p, "cut")
        BY <1>3 DEF EnforceSync
  <2> QED BY <1>1, <2>2, <2>3, <2>4, <2>5, GoesOn
<1>4. CASE EnforceCut(p) \/ EnforceNext(p)
  <2>1. row' = row /\ \A d \in Downloads : view'[d] \in {view[d], NoRows[d]}
        BY <1>4 DEF EnforceCut, EnforceNext
  <2>2. Still /\ ViewMoves(p)
        BY <2>1 DEF Still, ViewMoves
  <2>3. Finish(p) \/ \E s : Become(p, s) /\ s.at \notin Entered
    <3>1. CASE EnforceCut(p)
      <4>1. PICK todo : Become(p, [proc[p] EXCEPT !.at = "nextVictim", !.then = "nextVictim", !.todo = todo])
            BY <3>1 DEF EnforceCut
      <4> DEFINE s == [proc[p] EXCEPT !.at = "nextVictim", !.then = "nextVictim", !.todo = todo]
      <4>2. s.at \notin Entered
            BY <1>1 DEF Process, Entered, Storing, Gates
      <4> HIDE DEF s
      <4> QED BY <4>1, <4>2 DEF s
    <3>2. CASE EnforceNext(p) /\ ~Finish(p)
      <4> DEFINE s == [proc[p] EXCEPT !.at = "pauseRead", !.d = Head(proc[p].todo),
                                      !.todo = Tail(@), !.then = "nextVictim"]
      <4>1. s.at \notin Entered
            BY <1>1 DEF Process, Entered, Storing, Gates
      <4>2. Become(p, s)
            BY <3>2 DEF EnforceNext
      <4> HIDE DEF s
      <4> QED BY <4>1, <4>2
    <3> QED BY <1>4, <3>1, <3>2
  <2> QED BY <1>1, <2>2, <2>3, GoesOn
<1> QED BY <1>2, <1>3, <1>4 DEF EnforceStep

\* The operator Start ends where it was called from, or begins a start.
LEMMA StartsMove ==
    ASSUME TypeInv, NEW p \in Procs, NEW s \in Process, Start(p, s), Still, ViewMoves(p),
           UNCHANGED <<mon, approved>>, proc[p].at \notin Attending \cup {"addWrite", "testAllow"},
           p # Boot \/ proc[p].at \notin BootLabels
    PROVE  \E t : Moved(p, t)
<1>1. Idle.at \notin Entered /\ s.then \notin Entered /\ "adding" \notin Entered
      BY Plainly DEF Idle, Process, Entered, Storing, Gates
<1>2. \A l \in {"adding", s.then} : [s EXCEPT !.at = l].at = l
      BY DEF Process
<1>3. \E u : Become(p, u) /\ u.at \notin Entered
      BY <1>1, <1>2 DEF Start
<1> QED BY <1>3, GoesOn

LEMMA LoopMoves ==
    ASSUME TypeInv, LoopStep
    PROVE  \E s : Moved(Loop, s)
<1>1. /\ Loop \in Procs /\ Loop # Boot /\ proc[Loop] \in Process
      /\ proc[Loop].todo \in Seq(Downloads) /\ Sound(proc[Loop])
      BY Working DEF TypeInv, Procs, Loop, Boot
<1>2. CASE LoopRead \/ LoopPick \/ LoopGate \/ LoopPreempted
  <2>1. /\ row' = row /\ mon' = mon /\ view' = view /\ approved' = approved
        /\ proc[Loop].at \notin Attending \cup {"addWrite", "testAllow"}
        BY <1>2 DEF LoopRead, LoopPick, LoopGate, LoopPreempted, At, Attending, monitor
  <2>2. Still /\ ViewMoves(Loop)
        BY <2>1 DEF Still, ViewMoves
  <2>3. ASSUME NEW s, Become(Loop, s), s.at \notin Entered
        PROVE  \E t : Moved(Loop, t)
        BY <1>1, <2>1, <2>2, <2>3, GoesOn
  <2>4. ASSUME NEW s \in Process, Start(Loop, s)
        PROVE  \E t : Moved(Loop, t)
        BY <1>1, <2>1, <2>2, <2>4, StartsMove
  <2>5. ASSUME NEW next \in Downloads, NEW may, NEW free, LoopDecides(next, may, free)
        PROVE  \E t : Moved(Loop, t)
    <3>1. CASE Start(Loop, [proc[Loop] EXCEPT !.d = next])
      <4>1. [proc[Loop] EXCEPT !.d = next] \in Process
            BY <1>1 DEF Process
      <4> QED BY <2>4, <3>1, <4>1
    <3>2. CASE Finish(Loop)
          BY <1>1, <2>1, <2>2, <3>2, GoesOn
    <3>3. CASE \E v : Become(Loop, [proc[Loop] EXCEPT !.at = "pauseRead", !.d = v,
                                                     !.todo = <<next>>, !.then = "preempted"])
      <4>1. PICK v : Become(Loop, [proc[Loop] EXCEPT !.at = "pauseRead", !.d = v,
                                                    !.todo = <<next>>, !.then = "preempted"])
            BY <3>3
      <4> DEFINE s == [proc[Loop] EXCEPT !.at = "pauseRead", !.d = v,
                                         !.todo = <<next>>, !.then = "preempted"]
      <4>2. s.at \notin Entered
            BY <1>1 DEF Process, Entered, Storing, Gates
      <4> HIDE DEF s
      <4> QED BY <2>3, <4>1, <4>2 DEF s
    <3> QED BY <2>5, <3>1, <3>2, <3>3 DEF LoopDecides
  <2>6. CASE LoopRead
    <3> DEFINE s == [Idle EXCEPT !.at = "pick", !.it = row]
    <3>1. Become(Loop, s) /\ s.at \notin Entered
          BY <2>6 DEF LoopRead, Idle, Entered, Storing, Gates
    <3> HIDE DEF s
    <3> QED BY <2>3, <3>1
  <2>7. CASE LoopPick
    <3>1. \E next \in Downloads :
              \/ \E may, free : LoopDecides(next, may, free)
              \/ Become(Loop, [proc[Loop] EXCEPT !.at = "gate", !.d = next])
          BY <2>7, Zenon DEF LoopPick, InStatus
    <3>2. PICK next \in Downloads :
              \/ \E may, free : LoopDecides(next, may, free)
              \/ Become(Loop, [proc[Loop] EXCEPT !.at = "gate", !.d = next])
          BY <3>1
    <3>3. [proc[Loop] EXCEPT !.at = "gate", !.d = next].at \notin Entered
          BY <1>1 DEF Process, Entered, Storing, Gates
    <3> QED BY <2>3, <2>5, <3>2, <3>3
  <2>8. CASE LoopGate
    <3>1. Target(Loop) \in Downloads
          BY <1>1, <2>8 DEF LoopGate, At, Sound, PlainLabels, Target
    <3> QED BY <2>5, <2>8, <3>1 DEF LoopGate
  <2>9. CASE LoopPreempted
    <3> DEFINE s == [proc[Loop] EXCEPT !.d = Head(proc[Loop].todo), !.todo = << >>, !.then = "idle"]
    <3>1. Head(proc[Loop].todo) \in Downloads
          BY <1>1, <2>9 DEF LoopPreempted, At, Sound, Carries
    <3>2. << >> \in Seq(Downloads) /\ "idle" \in Returns
          BY DEF Returns
    <3>3. s \in Process
          BY <1>1, <3>1, <3>2 DEF Process
    <3>4. Start(Loop, s)
          BY <2>9 DEF LoopPreempted
    <3> HIDE DEF s
    <3> QED BY <2>4, <3>3, <3>4
  <2> QED BY <1>2, <2>6, <2>7, <2>8, <2>9
<1> QED BY <1>1, <1>2, StartMoves, PauseMoves DEF LoopStep

LEMMA TestMoves ==
    ASSUME TypeInv, NEW p \in Procs, TestStep(p)
    PROVE  \E s : Moved(p, s)
<1>1. /\ proc[p] \in Process /\ proc[p].at \notin Attending \cup {"addWrite"} \cup BootLabels
      /\ Target(p) \in Downloads /\ Item(p) \in Row
      /\ mon' = mon
  <2>1. /\ mon' = mon
        /\ proc[p].at \in {"testAllow", "testGate", "testVictim", "freed", "testStart", "testPolicy"}
        BY DEF TestStep, TestAllows, TestGate, TestVictim, TestFreed, TestStarts, TestPolicy, At, monitor
  <2> QED BY <2>1, Working DEF TypeInv, Attending, BootLabels, PlainLabels
<1>2. CASE TestAllows(p)
  <2> DEFINE r == Item(p)
             q == [r EXCEPT !.prio = "HIGH"]
             s == [proc[p] EXCEPT !.at = "testLock", !.it[Target(p)] = q]
  <2>1. q \in Row /\ q.st = r.st
    <3>1. r \in Row
          BY <1>1
    <3> HIDE DEF r
    <3> QED BY <3>1 DEF Row, Priorities
  <2>2. s.at = "testLock"
        BY <1>1 DEF Process
  <2>3. /\ Become(p, s) /\ Write(Target(p), q) /\ view' = view /\ At(p, "testAllow")
        /\ approved' = IF p = Health THEN approved ELSE approved \cup {Target(p)}
        BY <1>2 DEF TestAllows
  <2> HIDE DEF s, q
  <2>4. RowsMove(p, s)
        BY <1>1, <2>1, <2>3, Writes DEF RowsMove, TypeInv, At, Storing
  <2>5. MonitorsMove(p, s)
        BY <1>1, Unmonitored
  <2>6. /\ Enters(p, s) /\ ViewMoves(p) /\ Approves(p) /\ Recovers(p)
        BY <2>2, <2>3 DEF Enters, ViewMoves, Approves, Recovers, Storing, Gates, ToRecover, At
  <2> QED BY <2>3, <2>4, <2>5, <2>6 DEF Moved
<1>3. ASSUME NEW s \in Process, NEW torrents, NEW rows, TestResumes(p, s, torrents, rows),
             s.d \in Downloads, rows \in [Downloads -> Row], approved' = approved,
             ViewMoves(p), proc[p].at # "testAllow",
             \A d \in Downloads : \/ rows[d].st = row[d].st
                                  \/ rows[d].st = "STALLED" /\ view[d].st = "STALLED"
      PROVE  \E t : Moved(p, t)
  <2>1. \A l \in {"waking", "testStart"} : [s EXCEPT !.at = l, !.then = "tested"].at = l
        BY DEF Process
  <2>2. \E l \in {"waking", "testStart"} : Become(p, [s EXCEPT !.at = l, !.then = "tested"])
        BY <1>3 DEF TestResumes
  <2>3. {"waking", "testStart"} \cap Entered = {}
        BY DEF Entered, Storing, Gates
  <2>4. row' = rows \/ row' = [rows EXCEPT ![s.d] = [s.it[s.d] EXCEPT !.st = "QUEUED"]]
        BY <1>3 DEF TestResumes
  <2>5. [s.it[s.d] EXCEPT !.st = "QUEUED"].st = "QUEUED"
    <3> DEFINE r == s.it[s.d]
    <3>1. r \in Row
          BY <1>3 DEF Process
    <3> HIDE DEF r
    <3>2. [r EXCEPT !.st = "QUEUED"].st = "QUEUED"
          BY <3>1 DEF Row
    <3> QED BY <3>2 DEF r
  <2> DEFINE q == [s.it[s.d] EXCEPT !.st = "QUEUED"]
  <2>6. q.st = "QUEUED"
        BY <2>5
  <2>7. row' = rows \/ row' = [rows EXCEPT ![s.d] = q]
        BY <2>4
  <2> HIDE DEF q
  <2>8. Still
        BY <1>3, <2>6, <2>7 DEF Still, Moving, Statuses
  <2> QED BY <1>1, <1>3, <2>1, <2>2, <2>3, <2>8, GoesOn
<1>4. {"testVictim", "testPolicy"} \subseteq Labels \ Entered
      BY DEF Labels, Entered, Storing, Gates
<1>5. CASE TestGate(p)
  <2>1. PICK rates \in Stale :
           \/ TestResumes(p, proc[p], handle', Rewritten(rates)) /\ view' = NoRows
           \/ /\ row' = Rewritten(rates) /\ view' = row'
              /\ Goto(p, "testVictim")
        BY <1>5 DEF TestGate
  <2>2. /\ Rewritten(rates) \in [Downloads -> Row]
        /\ \A d \in Downloads : \/ Rewritten(rates)[d].st = row[d].st
                                \/ Rewritten(rates)[d].st = "STALLED" /\ view[d].st = "STALLED"
        BY RewrittenTypes DEF Stale, InStatus, Rewritten
  <2>3. ViewMoves(p) /\ approved' = approved /\ proc[p].at # "testAllow"
        BY <1>5, <2>1 DEF ViewMoves, TestGate, At, Gates
  <2>4. CASE TestResumes(p, proc[p], handle', Rewritten(rates))
        BY <1>1, <1>3, <2>2, <2>3, <2>4 DEF Target
  <2>5. CASE row' = Rewritten(rates) /\ Goto(p, "testVictim")
    <3>1. Still
          BY <2>2, <2>5 DEF Still
    <3> QED BY <1>1, <1>4, <2>3, <2>5, <3>1, GoesOn
  <2> QED BY <2>1, <2>4, <2>5
<1>6. CASE TestVictim(p)
  <2>1. /\ \A d \in Downloads : view'[d] = NoRows[d]
        /\ approved' = approved /\ proc[p].at # "testAllow"
        BY <1>6 DEF TestVictim, At
  <2>2. ViewMoves(p)
        BY <2>1 DEF ViewMoves
  <2>3. CASE TestResumes(p, proc[p], handle, row)
        BY <1>1, <1>3, <2>1, <2>2, <2>3 DEF Target, TypeInv, TypeOK
  <2>4. CASE ~TestResumes(p, proc[p], handle, row)
    <3>1. PICK v : Become(p, [proc[p] EXCEPT !.at = "pauseRead", !.d = v,
                                             !.todo = <<Target(p)>>, !.then = "freed"])
          BY <1>6, <2>4 DEF TestVictim
    <3> DEFINE s == [proc[p] EXCEPT !.at = "pauseRead", !.d = v,
                                    !.todo = <<Target(p)>>, !.then = "freed"]
    <3>2. s.at \notin Entered
          BY <1>1 DEF Process, Entered, Storing, Gates
    <3>3. Still
          BY <1>6, <2>4 DEF TestVictim, Still
    <3> HIDE DEF s
    <3> QED BY <1>1, <2>1, <2>2, <3>1, <3>2, <3>3, GoesOn DEF s
  <2> QED BY <2>3, <2>4
<1>7. CASE TestFreed(p)
  <2> DEFINE s == [proc[p] EXCEPT !.d = Head(proc[p].todo), !.todo = << >>]
  <2>1. proc[p].todo \in Seq(Downloads) /\ proc[p].todo # << >>
        BY <1>7, Working DEF TypeInv, TestFreed, At, Sound, Carries
  <2>2. Head(proc[p].todo) \in Downloads /\ << >> \in Seq(Downloads)
        BY <2>1
  <2>3. s \in Process /\ s.d \in Downloads
        BY <1>1, <2>2 DEF Process
  <2>4. TestResumes(p, s, handle, row) /\ view' = view /\ approved' = approved /\ proc[p].at # "testAllow"
        BY <1>7 DEF TestFreed, At
  <2>5. ViewMoves(p)
        BY <2>4 DEF ViewMoves
  <2> HIDE DEF s
  <2> QED BY <1>3, <2>3, <2>4, <2>5 DEF TypeInv, TypeOK
<1>8. CASE TestStarts(p) \/ TestPolicy(p)
  <2>1. /\ row' = row /\ view' = view /\ approved' = approved /\ proc[p].at # "testAllow"
        BY <1>8 DEF TestStarts, TestPolicy, At
  <2>2. Still /\ ViewMoves(p)
        BY <2>1 DEF Still, ViewMoves
  <2>3. Start(p, proc[p]) \/ Finish(p) \/ Goto(p, "testPolicy")
        BY <1>8, Zenon DEF TestStarts, TestPolicy
  <2> QED BY <1>1, <1>4, <2>1, <2>2, <2>3, StartsMove, GoesOn
<1> QED BY <1>2, <1>5, <1>6, <1>7, <1>8 DEF TestStep

\* A row that is stored at another status than DOWNLOADING and STALLED.
LEMMA Stops ==
    ASSUME TypeInv, NEW d \in Downloads, NEW r \in Row,
           NEW st \in Statuses \ Moving, NEW why \in {"user", "storage", "other"},
           \/ Write(d, [r EXCEPT !.st = st]) \/ Write(d, [r EXCEPT !.st = st, !.why = why])
    PROVE  Still /\ row'[d].st = st
<1>1. PICK q \in Row : Write(d, q) /\ q.st = st
  <2>1. [r EXCEPT !.st = st] \in Row /\ [r EXCEPT !.st = st].st = st
        BY DEF Row
  <2>2. [r EXCEPT !.st = st, !.why = why] \in Row /\ [r EXCEPT !.st = st, !.why = why].st = st
        BY DEF Row
  <2> QED BY <2>1, <2>2
<1> QED BY <1>1, StillWrites, Writes DEF TypeInv

LEMMA ServesMove ==
    ASSUME TypeInv, NEW p \in Procs,
           \/ AddWrites(p) \/ AddGate(p) \/ AddPolicy(p) \/ AddReleases(p)
           \/ ResumeAllows(p) \/ ResumeGate(p) \/ ResumeStarts(p) \/ ResumeRequeues(p)
           \/ ResumeWakes(p) \/ ResumeSpawns(p) \/ Unlock(p)
           \/ PriorityWrites(p) \/ CancelReads(p) \/ CancelWrites(p)
           \/ RestartUnloads(p) \/ RestartWrites(p)
    PROVE  \E s : Moved(p, s)
<1>1. /\ proc[p] \in Process /\ proc[p].at \notin BootLabels /\ approved \subseteq approved'
      /\ At(p, "release") \/ (Target(p) \in Downloads /\ Item(p) \in Row)
  <2>1. /\ approved \subseteq approved'
        /\ proc[p].at \in {"addWrite", "addGate", "addPolicy", "release", "resumeAllow", "resumeGate",
                           "resumeStart", "requeue", "waking", "awake", "unlock", "tested", "prioWrite",
                           "cancelling", "cancelWrite", "restarting", "restartWrite"}
        BY DEF AddWrites, AddGate, AddPolicy, AddReleases, ResumeAllows, ResumeGate, ResumeStarts,
               ResumeRequeues, ResumeWakes, ResumeSpawns, Unlock, PriorityWrites, CancelReads,
               CancelWrites, RestartUnloads, RestartWrites, At
  <2> QED BY <2>1, Working DEF TypeInv, BootLabels, PlainLabels, At
<1> DEFINE places == {"addLock", "addPolicy", "release", "enforce", "resumeLock", "unlock", "waking",
                      "resumeStart", "awake", "testStart", "restartWrite"}
<1>2. places \subseteq Labels \ Entered
      BY LabelsAre DEF Labels, LockedLabels, Entered, Storing, Gates
<1> HIDE DEF places
<1>3. ASSUME Still, mon' = mon, approved' = approved, ViewMoves(p),
             proc[p].at \notin Attending \cup {"addWrite"}, proc[p].at # "testAllow",
             Finish(p) \/ \E l \in places : Goto(p, l)
      PROVE  \E s : Moved(p, s)
      BY <1>1, <1>2, <1>3, GoesOn
<1>4. view' = view => ViewMoves(p)
      BY DEF ViewMoves
<1>5. CASE AddPolicy(p) \/ AddReleases(p) \/ ResumeStarts(p) \/ Unlock(p) \/ RestartUnloads(p)
           \/ ResumeAllows(p)
  <2>1. /\ row' = row /\ mon' = mon /\ view' = view
        /\ proc[p].at \notin Attending \cup {"addWrite", "testAllow"}
        BY <1>5 DEF AddPolicy, AddReleases, ResumeStarts, Unlock, RestartUnloads, ResumeAllows, monitor,
                    At, Attending
  <2>2. Still
        BY <2>1 DEF Still
  <2>3. CASE AddPolicy(p) \/ ResumeStarts(p)
    <3>1. approved' = approved /\ ~At(p, "release")
          BY <2>3 DEF AddPolicy, ResumeStarts, At
    <3>2. Goto(p, "release") \/ \E s \in Process : Start(p, s)
      <4>1. CASE AddPolicy(p)
        <5>1. [proc[p] EXCEPT !.then = "release"] \in Process
              BY <1>1 DEF Process, Returns
        <5> QED BY <4>1, <5>1 DEF AddPolicy
      <4>2. CASE ResumeStarts(p)
        <5> DEFINE r == [Item(p) EXCEPT !.st = "QUEUED"]
                   it == [proc[p].it EXCEPT ![Target(p)] = r]
                   s == [proc[p] EXCEPT !.it[Target(p)].st = "QUEUED", !.then = "unlock"]
        <5>1. r \in Row
              BY <1>1, <3>1, RowEdits DEF Statuses
        <5>2. it \in [Downloads -> Row] /\ "unlock" \in Returns
              BY <1>1, <5>1 DEF Process, Returns
        <5>3. s = [proc[p] EXCEPT !.it = it, !.then = "unlock"]
              BY <1>1 DEF Process, Item
        <5>4. Start(p, s)
              BY <4>2 DEF ResumeStarts
        <5> HIDE DEF s, it
        <5>5. s \in Process
              BY <1>1, <5>2, <5>3 DEF Process
        <5> QED BY <5>4, <5>5
      <4> QED BY <2>3, <4>1, <4>2
    <3> QED BY <1>1, <1>3, <1>4, <2>1, <2>2, <3>1, <3>2, StartsMove DEF places
  <2>4. CASE AddReleases(p) \/ Unlock(p) \/ RestartUnloads(p)
        BY <1>3, <1>4, <2>1, <2>2, <2>4 DEF AddReleases, Unlock, RestartUnloads, places
  <2>5. CASE ResumeAllows(p)
    <3>1. PICK s : Become(p, s) /\ s.at = "resumeLock"
          BY <1>2, <2>5, Stands DEF ResumeAllows, places
    <3>2. s.at \notin Entered
          BY <3>1 DEF Entered, Storing, Gates
    <3> QED BY <1>1, <1>4, <2>1, <2>2, <3>1, <3>2, StillMoves, Unmonitored, Moves
  <2> QED BY <1>5, <2>3, <2>4, <2>5
<1>6. CASE AddGate(p)
  <2>1. PICK rates \in Stale : row' = Rewritten(rates)
        BY <1>6 DEF AddGate
  <2>2. Still
        BY <2>1 DEF Stale, InStatus, Rewritten, Still
  <2>3. /\ mon' = mon /\ approved' = approved /\ \A d \in Downloads : view'[d] = NoRows[d]
        /\ proc[p].at \notin Attending \cup {"addWrite", "testAllow"}
        BY <1>6 DEF AddGate, monitor, At, Attending
  <2>4. ViewMoves(p)
        BY <2>3 DEF ViewMoves
  <2>5. [proc[p] EXCEPT !.then = "release"] \in Process
        BY <1>1 DEF Process, Returns
  <2>6. Start(p, [proc[p] EXCEPT !.then = "release"]) \/ \E l \in {"addPolicy", "release"} : Goto(p, l)
        BY <1>6 DEF AddGate
  <2> QED BY <1>1, <1>3, <2>2, <2>3, <2>4, <2>5, <2>6, StartsMove DEF places
<1>7. CASE ResumeGate(p)
  <2> DEFINE q == [Item(p) EXCEPT !.st = "QUEUED"]
  <2>1. q.st = "QUEUED"
    <3> DEFINE r == Item(p)
    <3>1. r \in Row
          BY <1>1, <1>7 DEF ResumeGate, At
    <3> HIDE DEF r
    <3>2. [r EXCEPT !.st = "QUEUED"].st = "QUEUED"
          BY <3>1 DEF Row
    <3> QED BY <3>2 DEF r
  <2>2. PICK rates \in Stale :
           row' = Rewritten(rates) \/ row' = [Rewritten(rates) EXCEPT ![Target(p)] = q]
        BY <1>7 DEF ResumeGate
  <2> HIDE DEF q
  <2>3. Rewritten(rates) \in [Downloads -> Row]
        BY RewrittenTypes
  <2>4. \A d \in Downloads : \/ Rewritten(rates)[d].st = row[d].st
                             \/ Rewritten(rates)[d].st = "STALLED" /\ view[d].st = "STALLED"
        BY <2>2 DEF Stale, InStatus, Rewritten
  <2>5. Still
        BY <2>1, <2>2, <2>3, <2>4 DEF Still, Moving, Statuses
  <2>6. /\ mon' = mon /\ approved' = approved /\ \A d \in Downloads : view'[d] = NoRows[d]
        /\ proc[p].at \notin Attending \cup {"addWrite", "testAllow"}
        /\ \E l \in places : Goto(p, l)
        BY <1>7 DEF ResumeGate, monitor, At, Attending, places
  <2>7. ViewMoves(p)
        BY <2>6 DEF ViewMoves
  <2> QED BY <1>3, <2>5, <2>6, <2>7
<1>8. CASE ResumeRequeues(p) \/ RestartWrites(p)
  <2>1. Still
        BY <1>1, <1>8, Stops DEF ResumeRequeues, RestartWrites, Statuses, Moving, At
  <2>2. /\ mon' = mon /\ approved' = approved /\ view' = view
        /\ proc[p].at \notin Attending \cup {"addWrite", "testAllow"}
        /\ Finish(p) \/ \E l \in places : Goto(p, l)
        BY <1>8 DEF ResumeRequeues, RestartWrites, monitor, At, Attending, places
  <2> QED BY <1>3, <1>4, <2>1, <2>2
<1>9. CASE ResumeWakes(p)
  <2>1. /\ mon' = mon /\ approved' = approved /\ view' = view /\ proc[p].at = "waking"
        /\ Target(p) \in Downloads /\ Item(p) \in Row
        BY <1>1, <1>9 DEF ResumeWakes, monitor, At
  <2>2. CASE Write(Target(p), [Item(p) EXCEPT !.st = "DOWNLOADING"]) /\ Goto(p, "awake")
    <3>1. PICK s : Become(p, s) /\ s.at = "awake" /\ s.d = Target(p)
          BY <1>2, <2>2, Stands DEF places
    <3>2. PICK q \in Row : Write(Target(p), q) /\ q.st = "DOWNLOADING"
          BY <2>1, <2>2 DEF Row, Statuses
    <3>3. RowsMove(p, s)
          BY <2>1, <3>1, <3>2, Writes DEF RowsMove, TypeInv
    <3>4. MonitorsMove(p, s) /\ s.at \notin Entered
          BY <2>1, <3>1, Unmonitored DEF Attending, Entered, Storing, Gates
    <3> QED BY <1>1, <1>4, <2>1, <3>1, <3>3, <3>4, Moves
  <2>3. CASE Write(Target(p), [Item(p) EXCEPT !.st = "QUEUED"])
             /\ \E l \in {"testStart", "resumeStart"} : Goto(p, l)
    <3>1. Still
          BY <2>1, <2>3, Stops DEF Statuses, Moving
    <3> QED BY <1>3, <1>4, <2>1, <2>3, <3>1 DEF places, Attending
  <2> QED BY <1>9, <2>2, <2>3 DEF ResumeWakes
<1>10. CASE ResumeSpawns(p)
  <2>1. PICK s : Become(p, s) /\ s.at = "idle"
        BY <1>10, Ends DEF ResumeSpawns
  <2>2. /\ row' = row /\ mon' = [mon EXCEPT ![Target(p)] = "run"] /\ view' = view
        /\ At(p, "awake") /\ Target(p) \in Downloads
        BY <1>1, <1>10 DEF ResumeSpawns, Monitored, At
  <2>3. RowsMove(p, s)
        BY <2>2 DEF RowsMove
  <2>4. MonitorsMove(p, s)
        BY <2>2 DEF MonitorsMove, TypeInv, TypeOK, At
  <2> QED BY <1>1, <1>4, <2>1, <2>2, <2>3, <2>4, Moves, Plainly DEF At
<1>11. CASE CancelReads(p)
  <2> DEFINE s == [proc[p] EXCEPT !.at = "cancelWrite", !.it[Target(p)] = row[Target(p)]]
  <2>1. s.at = "cancelWrite" /\ s.d = Target(p)
        BY <1>1 DEF Process, Target
  <2>2. /\ Become(p, s) /\ row' = row /\ mon' = [mon EXCEPT ![Target(p)] = "off"] /\ view' = view
        /\ At(p, "cancelling")
        BY <1>11 DEF CancelReads, Monitored
  <2> HIDE DEF s
  <2>3. RowsMove(p, s)
        BY <2>2 DEF RowsMove
  <2>4. MonitorsMove(p, s)
        BY <1>1, <2>1, <2>2 DEF MonitorsMove, TypeInv, TypeOK, At, Attending
  <2>5. s.at \notin Entered
        BY <2>1 DEF Entered, Storing, Gates
  <2> QED BY <1>1, <1>4, <2>2, <2>3, <2>4, <2>5, Moves DEF At
<1>12. CASE CancelWrites(p)
  <2>1. PICK s : Become(p, s) /\ s.at = "idle"
        BY <1>12, Ends DEF CancelWrites
  <2>2. mon' = mon /\ view' = view /\ At(p, "cancelWrite")
        BY <1>12 DEF CancelWrites, monitor
  <2>3. Still /\ row'[Target(p)].st = "CANCELLED"
        BY <1>1, <1>12, Stops DEF CancelWrites, Statuses, Moving, At
  <2>4. MonitorsMove(p, s)
        BY <2>2, <2>3 DEF MonitorsMove
  <2> QED BY <1>1, <1>4, <2>1, <2>2, <2>3, <2>4, StillMoves, Moves, Plainly DEF At
<1>13. CASE PriorityWrites(p)
  <2>1. /\ Write(Target(p), Item(p)) /\ mon' = mon /\ view' = view /\ approved' = approved
        /\ At(p, "prioWrite") /\ Target(p) \in Downloads /\ Item(p) \in Row
        BY <1>1, <1>13 DEF PriorityWrites, monitor, At
  <2>2. PICK s : Become(p, s) /\ s.at = "enforce"
        BY <1>2, <1>13, Stands DEF PriorityWrites, places
  <2>3. RowsMove(p, s)
        BY <1>13, <2>1, Writes DEF RowsMove, TypeInv, At, Storing
  <2>4. MonitorsMove(p, s) /\ s.at \notin Entered
        BY <2>1, <2>2, Unmonitored DEF Attending, Entered, Storing, Gates, At
  <2> QED BY <1>1, <1>4, <2>1, <2>2, <2>3, <2>4, Moves DEF At
<1>14. CASE AddWrites(p)
  <2>1. /\ Write(Target(p), Item(p)) /\ mon' = mon /\ view' = view
        /\ At(p, "addWrite") /\ Target(p) \in Downloads /\ Item(p) \in Row
        /\ Item(p).why = "user" => Target(p) \in approved'
        BY <1>1, <1>14 DEF AddWrites, monitor, At
  <2>2. PICK s : Become(p, s) /\ s.at = "addLock"
        BY <1>2, <1>14, Stands DEF AddWrites, places
  <2>3. RowsMove(p, s)
        BY <2>1, Writes DEF RowsMove, TypeInv, At, Storing
  <2>4. MonitorsMove(p, s)
        BY <2>1, Unmonitored DEF Attending, At
  <2>5. Enters(p, s) /\ Approves(p) /\ Recovers(p)
        BY <1>1, <2>1, <2>2 DEF Enters, Approves, Recovers, Storing, Gates, ToRecover, At, BootLabels
  <2> QED BY <1>4, <2>1, <2>2, <2>3, <2>4, <2>5 DEF Moved
<1> QED BY <1>5, <1>6, <1>7, <1>8, <1>9, <1>10, <1>11, <1>12, <1>13, <1>14

\* A list of the table in the order of creation leaves no member out.
LEMMA AllListed ==
    ASSUME NEW set \in SUBSET Downloads, NEW s \in ByAge(set), NEW d \in set
    PROVE  \E i \in 1..Len(s) : s[i] = d
<1>1. IsFiniteSet(set) /\ Cardinality(set) \in Nat
      BY QueueAssumption, FS_Subset, FS_CardinalityType
<1> DEFINE n == Cardinality(set)
<1>2. s \in [1..n -> set] /\ \A i, j \in 1..n : i < j => s[i] < s[j]
      BY DEF ByAge
<1> HIDE DEF n
<1>3. set \subseteq Nat /\ n \in Nat
      BY <1>1, QueueAssumption DEF n
<1>4. \A i, j \in 1..n : s[i] = s[j] => i = j
  <2> SUFFICES ASSUME NEW i \in 1..n, NEW j \in 1..n, s[i] = s[j] PROVE i = j
      OBVIOUS
  <2>1. s[i] \in Nat /\ s[j] \in Nat
        BY <1>2, <1>3
  <2> QED BY <1>2, <1>3, <2>1
<1>5. s \in Injection(1..n, set)
      BY <1>2, <1>4 DEF Injection, IsInjective
<1>6. Cardinality(1..n) = n
      BY <1>3, FS_Interval
<1>7. s \in Surjection(1..n, set)
      BY <1>1, <1>5, <1>6, FS_Injection DEF n
<1>8. Len(s) = n
      BY <1>2, <1>3
<1> QED BY <1>7, <1>8 DEF Surjection

-----------------------------------------------------------------------------
(* Requests and what the supervisor takes up *)

LEMMA TakesIn ==
    ASSUME TypeInv, NEW p \in Procs, p # Boot, At(Boot, "idle"), UNCHANGED <<row, mon, view, approved>>,
           At(p, "idle"), NEW l \in Storing \cup {"parking"}, NEW d \in Downloads, NEW r \in Row,
           Become(p, [Idle EXCEPT !.at = l, !.d = d, !.it[d] = r]),
           r.st = row[d].st \/ r.st \notin Moving,
           l \in {"addWrite", "testAllow"} => r.st # "DOWNLOADING",
           l = "addWrite" /\ r.st \in Moving => r.why = "user",
           l = "parking" \/ (p = Health /\ l = "testAllow") => pass.it[d].st \in Moving
    PROVE  \E s : Moved(p, s)
<1> DEFINE s == [Idle EXCEPT !.at = l, !.d = d, !.it[d] = r]
<1>1. s.at = l /\ s.d = d /\ s.it[s.d] = r
      BY NoRowsType DEF Idle
<1>2. Become(p, s)
      OBVIOUS
<1> HIDE DEF s
<1>3. RowsMove(p, s) /\ ViewMoves(p)
      BY DEF RowsMove, ViewMoves
<1>4. MonitorsMove(p, s)
      BY Unmonitored DEF At, Attending
<1>5. Enters(p, s)
      BY <1>1 DEF Enters, Storing, Gates
<1>6. Approves(p) /\ Recovers(p)
      BY DEF Approves, Recovers, At
<1> QED BY <1>2, <1>3, <1>4, <1>5, <1>6 DEF Moved

LEMMA AsksMove ==
    ASSUME TypeInv, NEW c \in Callers, Request(c)
    PROVE  \E s : Moved(c, s)
<1>1. c \in Procs /\ c # Boot /\ c # Health
      BY QueueAssumption DEF Procs
<1>2. row' = row /\ mon' = mon /\ view' = view /\ approved' = approved /\ At(c, "idle") /\ At(Boot, "idle")
      BY DEF Request, RequestAdd, RequestPause, RequestResume, RequestMax, RequestPriority,
             RequestTest, RequestCancel, RequestRestart, Serve, monitor
<1>3. Still /\ ViewMoves(c) /\ proc[c].at \notin Attending \cup {"addWrite", "testAllow"}
      BY <1>2 DEF Still, ViewMoves, At, Attending
<1>4. Idle \in Process /\ Idle.it = NoRows
      BY IdleType DEF Idle
<1>5. CASE RequestPause(c) \/ RequestResume(c) \/ RequestMax(c) \/ RequestCancel(c) \/ RequestRestart(c)
  <2>1. PICK l \in {"pauseRead", "resumeAllow", "cancelling", "restarting", "enforce"} :
           \/ Become(c, [Idle EXCEPT !.at = l])
           \/ \E d : Become(c, [Idle EXCEPT !.at = l, !.d = d])
           \/ \E d, r : Become(c, [Idle EXCEPT !.at = l, !.d = d, !.it[d] = r])
        BY <1>5, Zenon DEF RequestPause, RequestResume, RequestMax, RequestCancel, RequestRestart
  <2>2. l \notin Entered
        BY DEF Entered, Storing, Gates
  <2>3. PICK s : Become(c, s) /\ s.at = l
    <3>1. CASE Become(c, [Idle EXCEPT !.at = l])
          BY <1>4, <3>1 DEF Process
    <3>2. ASSUME NEW d, Become(c, [Idle EXCEPT !.at = l, !.d = d])
          PROVE  \E s : Become(c, s) /\ s.at = l
      <4> DEFINE s == [Idle EXCEPT !.at = l, !.d = d]
      <4>1. s.at = l /\ Become(c, s)
            BY <1>4, <3>2 DEF Process
      <4> HIDE DEF s
      <4> QED BY <4>1
    <3>3. ASSUME NEW d, NEW r, Become(c, [Idle EXCEPT !.at = l, !.d = d, !.it[d] = r])
          PROVE  \E s : Become(c, s) /\ s.at = l
      <4> DEFINE s == [Idle EXCEPT !.at = l, !.d = d, !.it[d] = r]
      <4>1. s.at = l /\ Become(c, s)
            BY <1>4, <3>3 DEF Process
      <4> HIDE DEF s
      <4> QED BY <4>1
    <3> QED BY <2>1, <3>1, <3>2, <3>3
  <2> QED BY <1>1, <1>2, <1>3, <2>2, <2>3, GoesOn
<1>6. CASE RequestAdd(c)
  <2>1. PICK d \in Downloads, prio \in Priorities, why \in {"user", "other"} :
        /\ \/ row[d].st = "ABSENT"
           \/ row[d].st \in {"QUEUED", "PAUSED", "STALLED"} /\ why = "user"
           \/ row[d].st = "QUEUED" /\ CanStart(d, row[d])
        /\ LET st == IF row[d].st = "ABSENT" THEN "QUEUED" ELSE row[d].st IN
           Become(c, [Idle EXCEPT !.at = "addWrite", !.d = d,
                                  !.it[d] = [st |-> st, prio |-> prio, why |-> why]])
        BY <1>6 DEF RequestAdd
  <2> DEFINE st == IF row[d].st = "ABSENT" THEN "QUEUED" ELSE row[d].st
             r == [st |-> st, prio |-> prio, why |-> why]
  <2>2. row[d].st \in Statuses /\ "QUEUED" \in Statuses
        BY DEF TypeInv, TypeOK, Row, Statuses
  <2>3. /\ r \in Row /\ (r.st = row[d].st \/ r.st \notin Moving) /\ r.st # "DOWNLOADING"
        /\ r.st \in Moving => r.why = "user"
        BY <2>1, <2>2 DEF Row, Moving
  <2>4. Become(c, [Idle EXCEPT !.at = "addWrite", !.d = d, !.it[d] = r])
        BY <2>1
  <2> HIDE DEF r
  <2> QED BY <1>1, <1>2, <2>3, <2>4, TakesIn DEF Storing
<1>7. CASE RequestPriority(c)
  <2>1. PICK d \in Downloads, prio \in Priorities :
           Become(c, [Idle EXCEPT !.at = "prioWrite", !.d = d, !.it[d] = [row[d] EXCEPT !.prio = prio]])
        BY <1>7 DEF RequestPriority, Active, InStatus
  <2> DEFINE r == [row[d] EXCEPT !.prio = prio]
  <2>2. r \in Row /\ r.st = row[d].st
        BY DEF TypeInv, TypeOK, Row
  <2>3. Become(c, [Idle EXCEPT !.at = "prioWrite", !.d = d, !.it[d] = r])
        BY <2>1
  <2> HIDE DEF r
  <2>4. "prioWrite" \in (Storing \cup {"parking"}) \ {"addWrite", "testAllow", "parking"}
        BY DEF Storing
  <2> QED BY <1>1, <1>2, <2>2, <2>3, <2>4, TakesIn
<1>8. CASE RequestTest(c)
  <2>1. PICK d \in Downloads :
           /\ Testable(row[d])
           /\ Become(c, [Idle EXCEPT !.at = "testAllow", !.d = d, !.it[d] = row[d]])
        BY <1>8 DEF RequestTest
  <2>2. row[d] \in Row /\ row[d].st # "DOWNLOADING"
        BY <2>1 DEF TypeInv, TypeOK, Testable
  <2>3. "testAllow" \in (Storing \cup {"parking"}) \ {"addWrite", "parking"}
        BY DEF Storing
  <2> DEFINE r == row[d]
  <2>4. /\ r \in Row /\ r.st = row[d].st /\ r.st # "DOWNLOADING"
        /\ Become(c, [Idle EXCEPT !.at = "testAllow", !.d = d, !.it[d] = r])
        BY <2>1, <2>2
  <2> HIDE DEF r
  <2> QED BY <1>1, <1>2, <2>3, <2>4, TakesIn
<1> QED BY <1>5, <1>6, <1>7, <1>8 DEF Request

-----------------------------------------------------------------------------
(* Recovery and the storage service *)

LEMMA BootMoves ==
    ASSUME TypeInv, BootStep
    PROVE  \E s : Moved(Boot, s)
<1>1. /\ Boot \in Procs /\ proc[Boot] \in Process /\ proc[Boot].todo \in Seq(Downloads)
      /\ proc[Boot].it \in [Downloads -> Row] /\ Idle \in Process
      BY Working, IdleType DEF TypeInv, Procs
<1>2. {"recoverItem", "recoverStart"} \cap Entered = {}
      BY DEF Entered, Storing, Gates
<1>3. ASSUME NEW s, Become(Boot, s), s.at \notin Entered, Still, UNCHANGED <<mon, view, approved>>,
             proc[Boot].at \in {"recover", "recoverItem"},
             \A d \in Downloads : ToRecover(d) /\ row'[d].st \in Moving => ToRecover(d)'
      PROVE  Moved(Boot, s)
  <2>1. RowsMove(Boot, s) /\ ViewMoves(Boot)
        BY <1>3, StillMoves DEF ViewMoves
  <2>2. MonitorsMove(Boot, s)
        BY <1>3, Unmonitored DEF Attending
  <2>3. Enters(Boot, s) /\ Approves(Boot) /\ Recovers(Boot)
        BY <1>3 DEF Enters, Approves, Recovers, Entered, Storing, At
  <2> QED BY <1>3, <2>1, <2>2, <2>3 DEF Moved
<1>4. CASE BootRead
  <2> DEFINE set == Active(row) \ InStatus(row, {"PAUSED"})
  <2>1. PICK todo \in ByAge(set) : Become(Boot, [Idle EXCEPT !.at = "recoverItem", !.it = row, !.todo = todo])
        BY <1>4 DEF BootRead
  <2> DEFINE s == [Idle EXCEPT !.at = "recoverItem", !.it = row, !.todo = todo]
  <2>2. Become(Boot, s) /\ s.at = "recoverItem" /\ s.todo = todo
        BY <1>1, <2>1 DEF Process
  <2>3. row' = row /\ mon' = mon /\ view' = view /\ approved' = approved /\ At(Boot, "recover")
        BY <1>4 DEF BootRead, monitor
  <2> HIDE DEF s
  <2>4. proc'[Boot] = s
        BY <1>1, <2>2 DEF Become, TypeInv, ProcsSound
  <2>5. ASSUME NEW d \in Downloads, row'[d].st \in Moving
        PROVE  ToRecover(d)'
    <3>1. d \in set /\ set \in SUBSET Downloads
          BY <2>3, <2>5 DEF Active, InStatus, Moving
    <3> HIDE DEF set
    <3>2. \E i \in 1..Len(todo) : todo[i] = d
          BY <3>1, AllListed
    <3> QED BY <2>2, <2>4, <3>2 DEF ToRecover, At
  <2>6. Still
        BY <2>3 DEF Still
  <2> QED BY <1>2, <1>3, <2>2, <2>3, <2>5, <2>6 DEF At
<1>5. CASE BootItem
  <2> DEFINE d == Head(proc[Boot].todo)
             r == proc[Boot].it[d]
             s == [proc[Boot] EXCEPT !.todo = Tail(@), !.it[d].st = "QUEUED"]
  <2>1. /\ At(Boot, "recoverItem") /\ proc[Boot].todo # << >> /\ Become(Boot, s)
        /\ Write(d, [r EXCEPT !.st = "QUEUED"])
        /\ mon' = mon /\ view' = view /\ approved' = approved
        BY <1>5 DEF BootItem, monitor
  <2>2. s.at = "recoverItem" /\ s.todo = Tail(proc[Boot].todo)
        BY <1>1, <2>1 DEF Process, At
  <2>3. d \in Downloads /\ r \in Row
        BY <1>1, <2>1, Tails
  <2> HIDE DEF s, d, r
  <2>4. Still /\ row'[d].st = "QUEUED"
        BY <2>1, <2>3, Stops DEF Statuses, Moving
  <2>5. proc'[Boot] = s
        BY <1>1, <2>1 DEF Become, TypeInv, ProcsSound
  <2>6. ASSUME NEW e \in Downloads, ToRecover(e), row'[e].st \in Moving
        PROVE  ToRecover(e)'
    <3>1. e # d
          BY <2>4, <2>6 DEF Moving
    <3>2. PICK i \in 1..Len(proc[Boot].todo) : proc[Boot].todo[i] = e
          BY <2>1, <2>6 DEF ToRecover, At
    <3>3. i # 1
          BY <1>1, <2>1, <3>1, <3>2, Tails DEF d
    <3>4. i - 1 \in 1..Len(Tail(proc[Boot].todo)) /\ Tail(proc[Boot].todo)[i - 1] = e
          BY <1>1, <2>1, <3>2, <3>3
    <3> QED BY <2>2, <2>5, <3>4 DEF ToRecover, At
  <2> QED BY <1>2, <1>3, <2>1, <2>2, <2>4, <2>6 DEF At
<1>6. CASE BootSelect
  <2>1. PICK todo : Become(Boot, [proc[Boot] EXCEPT !.at = "recoverStart", !.then = "recoverStart",
                                                    !.todo = todo])
        BY <1>6 DEF BootSelect
  <2> DEFINE s == [proc[Boot] EXCEPT !.at = "recoverStart", !.then = "recoverStart", !.todo = todo]
  <2>2. s.at = "recoverStart"
        BY <1>1 DEF Process
  <2>3. /\ row' = row /\ mon' = mon /\ view' = view /\ approved' = approved /\ Become(Boot, s)
        /\ At(Boot, "recoverItem") /\ proc[Boot].todo = << >>
        BY <1>6, <2>1 DEF BootSelect, monitor
  <2> HIDE DEF s
  <2>4. \A d \in Downloads : ~ToRecover(d)
        BY <2>3 DEF ToRecover, At
  <2>5. Still
        BY <2>3 DEF Still
  <2> QED BY <1>2, <1>3, <2>2, <2>3, <2>4, <2>5 DEF At
<1>7. CASE BootStart \/ BootDone
  <2>1. /\ row' = row /\ mon' = mon /\ view' = view /\ approved' = approved
        /\ proc[Boot].at \notin BootLabels \cup Attending \cup {"addWrite", "testAllow"}
        BY <1>7 DEF BootStart, BootDone, monitor, At, BootLabels, Attending
  <2>2. Still /\ ViewMoves(Boot)
        BY <2>1 DEF Still, ViewMoves
  <2>3. CASE BootStart
    <3> DEFINE s == [proc[Boot] EXCEPT !.d = Head(proc[Boot].todo), !.todo = Tail(@)]
               t == [s EXCEPT !.n = @ + 1]
    <3>1. proc[Boot].at = "recoverStart" /\ proc[Boot].todo # << >>
          BY <2>3 DEF BootStart, At
    <3>2. Head(proc[Boot].todo) \in Downloads /\ Tail(proc[Boot].todo) \in Seq(Downloads)
          BY <1>1, <3>1, Tails
    <3>3. s \in Process /\ t.at = "recoverStart"
          BY <1>1, <3>1, <3>2 DEF Process
    <3>4. Become(Boot, t) \/ Start(Boot, s)
          BY <2>3, Zenon DEF BootStart
    <3> HIDE DEF s, t
    <3> QED BY <1>1, <1>2, <2>1, <2>2, <3>3, <3>4, StartsMove, GoesOn
  <2>4. CASE BootDone
        BY <1>1, <2>1, <2>2, <2>4, GoesOn DEF BootDone
  <2> QED BY <1>7, <2>3, <2>4
<1> QED BY <1>1, <1>4, <1>5, <1>6, <1>7, StartMoves DEF BootStep

LEMMA StorageMoves ==
    ASSUME TypeInv, StorageStep
    PROVE  \E s : Moved(Storage, s)
<1>1. /\ Storage \in Procs /\ Storage # Boot /\ proc[Storage] \in Process
      /\ proc[Storage].todo \in Seq(Downloads) /\ proc[Storage].it \in [Downloads -> Row] /\ Idle \in Process
      BY Working, IdleType DEF TypeInv, Procs, Storage, Boot
<1>2. {"storageItem", "enforce"} \subseteq Labels \ Entered
      BY DEF Labels, LockedLabels, Entered, Storing, Gates
<1>3. CASE StorageRead \/ StorageItem \/ StorageDone
  <2>1. /\ mon' = mon /\ view' = view /\ approved' = approved
        /\ proc[Storage].at \notin Attending \cup {"addWrite", "testAllow"}
        BY <1>3 DEF StorageRead, StorageItem, StorageDone, monitor, At, Attending
  <2>2. Still
    <3>1. CASE row' = row
          BY <3>1 DEF Still
    <3>2. CASE StorageItem /\ row' # row
      <4> DEFINE d == Head(proc[Storage].todo)
                 r == proc[Storage].it[d]
      <4>1. Write(d, [r EXCEPT !.st = "QUEUED"]) /\ proc[Storage].todo # << >>
            BY <3>2 DEF StorageItem
      <4>2. d \in Downloads /\ r \in Row
            BY <1>1, <4>1, Tails
      <4> HIDE DEF d, r
      <4> QED BY <4>1, <4>2, Stops DEF Statuses, Moving
    <3> QED BY <1>3, <3>1, <3>2 DEF StorageRead, StorageDone
  <2>3. ViewMoves(Storage)
        BY <2>1 DEF ViewMoves
  <2>4. \/ \E s : Become(Storage, s) /\ s.at = "storageItem"
        \/ Finish(Storage) \/ Goto(Storage, "enforce")
    <3>1. CASE StorageRead
      <4>1. PICK todo : Become(Storage, [Idle EXCEPT !.at = "storageItem", !.it = row, !.todo = todo])
            BY <3>1 DEF StorageRead
      <4> DEFINE s == [Idle EXCEPT !.at = "storageItem", !.it = row, !.todo = todo]
      <4>2. s.at = "storageItem" /\ Become(Storage, s)
            BY <1>1, <4>1 DEF Process
      <4> HIDE DEF s
      <4> QED BY <4>2
    <3>2. CASE StorageItem
      <4>1. /\ [proc[Storage] EXCEPT !.todo = Tail(@), !.n = 1].at = "storageItem"
            /\ [proc[Storage] EXCEPT !.todo = Tail(@)].at = "storageItem"
            BY <1>1, <3>2 DEF Process, StorageItem, At
      <4> QED BY <3>2, <4>1 DEF StorageItem
    <3>3. CASE StorageDone
          BY <3>3 DEF StorageDone
    <3> QED BY <1>3, <3>1, <3>2, <3>3
  <2> QED BY <1>1, <1>2, <2>1, <2>2, <2>3, <2>4, GoesOn
<1> QED BY <1>1, <1>3, EnforceMoves, PauseMoves DEF StorageStep

-----------------------------------------------------------------------------
(* Every step is such a move, or leaves what they are about alone *)

LEMMA QueueMoves ==
    ASSUME TypeInv, LoopStep \/ BootStep \/ StorageStep \/ \E c \in Callers : Request(c) \/ CallerStep(c)
    PROVE  \E p \in Procs : \E s : Moved(p, s)
<1>1. Loop \in Procs /\ Boot \in Procs /\ Storage \in Procs /\ \A c \in Callers : c \in Procs
      BY DEF Procs
<1>2. CASE LoopStep \/ BootStep \/ StorageStep
      BY <1>1, <1>2, LoopMoves, BootMoves, StorageMoves
<1>3. ASSUME NEW c \in Callers, Request(c) \/ CallerStep(c)
      PROVE  \E s : Moved(c, s)
  <2>1. CASE Request(c)
        BY <2>1, AsksMove
  <2>2. CASE TestStep(c) \/ EnforceStep(c) \/ StartStep(c) \/ PauseStep(c)
        BY <1>1, <2>2, TestMoves, EnforceMoves, StartMoves, PauseMoves
  <2> QED BY <1>1, <1>3, <2>1, <2>2, ServesMove DEF CallerStep
<1> QED BY <1>1, <1>2, <1>3

\* The supervisor's park: the monitor is cancelled as the row is stored.
LEMMA ParksMove ==
    ASSUME TypeInv, ParkHandle \/ ParkWrites
    PROVE  \E s : Moved(Health, s)
<1>1. /\ Health \in Procs /\ Health # Boot /\ proc[Health].at \in {"parking", "parked"}
      /\ Target(Health) \in Downloads /\ Item(Health) \in Row
      /\ view' = view /\ approved' = approved
  <2>1. proc[Health].at \in {"parking", "parked"} /\ view' = view /\ approved' = approved
        BY DEF ParkHandle, ParkWrites, At
  <2> QED BY <2>1, InHealth, Working DEF TypeInv, PlainLabels, Health, Boot
<1>2. ViewMoves(Health) /\ Approves(Health) /\ Recovers(Health)
      BY <1>1 DEF ViewMoves, Approves, Recovers
<1>3. CASE ParkHandle
  <2>1. PICK s : Become(Health, s) /\ s.at = "parked" /\ s.d = Target(Health)
        BY <1>1, <1>3, Stands DEF ParkHandle, Labels
  <2>2. row' = row /\ mon' = mon /\ At(Health, "parking")
        BY <1>3 DEF ParkHandle, monitor
  <2>3. RowsMove(Health, s) /\ MonitorsMove(Health, s)
        BY <2>2 DEF RowsMove, MonitorsMove, Attending, At
  <2>4. Enters(Health, s)
        BY <2>1, <2>2 DEF Enters, Storing, Gates
  <2> QED BY <1>2, <2>1, <2>3, <2>4 DEF Moved
<1>4. CASE ParkWrites
  <2>1. PICK s : Become(Health, s) /\ s.at = "idle"
        BY <1>4, Ends DEF ParkWrites
  <2>2. PICK why \in {"user", "storage", "other"} :
           Write(Target(Health), [Item(Health) EXCEPT !.st = "STALLED", !.why = why])
        BY <1>1, <1>4 DEF ParkWrites, Row
  <2>3. PICK q \in Row : Write(Target(Health), q) /\ q.st = "STALLED"
    <3> DEFINE r == Item(Health)
               q == [r EXCEPT !.st = "STALLED", !.why = why]
    <3>1. r \in Row /\ "STALLED" \in Statuses /\ Write(Target(Health), q)
          BY <1>1, <2>2 DEF Statuses
    <3> HIDE DEF r
    <3>2. q \in Row /\ q.st = "STALLED"
          BY <3>1 DEF Row
    <3> QED BY <3>1, <3>2
  <2>4. Monitored(Target(Health), "off")
        BY <1>4 DEF ParkWrites
  <2>5. RowsMove(Health, s)
        BY <1>1, <2>3, Writes DEF RowsMove, TypeInv
  <2>6. MonitorsMove(Health, s)
        BY <1>1, <2>3, <2>4, Writes DEF MonitorsMove, Monitored, TypeInv, TypeOK, Attending
  <2>7. Enters(Health, s)
        BY <2>1 DEF Enters, Storing, Gates
  <2> QED BY <1>2, <2>1, <2>5, <2>6, <2>7 DEF Moved
<1> QED BY <1>3, <1>4

LEMMA CallsMove ==
    ASSUME TypeInv, HealthCall
    PROVE  \E s : Moved(Health, s)
<1>1. CASE ParkHandle \/ ParkWrites
      BY <1>1, ParksMove
<1>2. CASE TestStep(Health) \/ EnforceStep(Health) \/ StartStep(Health) \/ PauseStep(Health)
      BY <1>2, InHealth, TestMoves, EnforceMoves, StartMoves, PauseMoves
<1>3. CASE PriorityWrites(Health) \/ ResumeWakes(Health) \/ ResumeSpawns(Health) \/ Unlock(Health)
      BY <1>3, InHealth, ServesMove
<1> QED BY <1>1, <1>2, <1>3 DEF HealthCall

LEMMA LooksMove ==
    ASSUME HInv, NEW d \in Downloads, Looks(d),
           HealthLeaves(d) \/ HealthSucceeds(d) \/ HealthParks(d) \/ HealthTests(d)
    PROVE  UNCHANGED vars \/ \E s : Moved(Health, s)
<1>1. /\ TypeInv /\ Health \in Procs /\ Health # Boot /\ At(Health, "idle") /\ At(Boot, "idle")
      /\ UNCHANGED <<row, mon, view, approved>> /\ (UNCHANGED proc => UNCHANGED vars)
      BY InHealth DEF HInv, Health, Boot, Looks, Ready, Others, monitor, mem, bounds, vars
<1>2. row[d] \in Row /\ health[d].orig \in Priorities \cup {"none"}
      BY DEF HInv, HTypeOK, TypeOK
<1>3. {"prioWrite", "parking", "testAllow"} \subseteq Storing \cup {"parking"}
      BY DEF Storing
<1>4. CASE UNCHANGED proc
      BY <1>1, <1>4
<1>5. CASE HealthSucceeds(d) /\ ~UNCHANGED proc
  <2> DEFINE r == [row[d] EXCEPT !.prio = health[d].orig]
  <2>1. r \in Row /\ r.st = row[d].st /\ Become(Health, [Idle EXCEPT !.at = "prioWrite", !.d = d, !.it[d] = r])
        BY <1>2, <1>5 DEF HealthSucceeds, Row
  <2> HIDE DEF r
  <2> QED BY <1>1, <1>3, <2>1, TakesIn
<1>6. CASE HealthParks(d) /\ ~UNCHANGED proc
  <2> DEFINE r == row[d]
  <2>1. /\ Become(Health, [Idle EXCEPT !.at = "parking", !.d = d, !.it[d] = r])
        /\ pass.it[d].st \in Moving /\ r \in Row /\ r.st = row[d].st
        BY <1>2, <1>6 DEF HealthParks, Moving
  <2> HIDE DEF r
  <2> QED BY <1>1, <1>3, <2>1, TakesIn
<1>7. CASE HealthTests(d) /\ ~UNCHANGED proc
  <2> DEFINE r == row[d]
  <2>1. /\ Become(Health, [Idle EXCEPT !.at = "testAllow", !.d = d, !.it[d] = r])
        /\ pass.it[d].st \in Moving /\ r \in Row /\ r.st = row[d].st /\ r.st # "DOWNLOADING"
        BY <1>2, <1>7 DEF HealthTests, Moving, Testable
  <2> HIDE DEF r
  <2> QED BY <1>1, <1>3, <2>1, TakesIn
<1> QED BY <1>4, <1>5, <1>6, <1>7 DEF HealthLeaves

\* No process moves: a monitor goes on, or the supervisor stores what is complete.
Aside ==
    /\ UNCHANGED <<proc, view, approved, revived>>
    /\ \A d \in Downloads :
          /\ row'[d].st = "DOWNLOADING" =>
                \/ mon'[d] \in Watching
                \/ row[d].st = "DOWNLOADING" /\ mon[d] \notin Watching
          /\ row'[d].st \in Moving => row[d].st \in Moving \/ mon[d] # "off"
          /\ mon'[d] # "off" => mon[d] # "off"

LEMMA AsideKeeps ==
    ASSUME Aside
    PROVE  (WatchInv => WatchInv') /\ (MovingInv => MovingInv')
<1>1. WatchInv => WatchInv'
      BY DEF Aside, WatchInv, Item, Target, ToRecover, At
<1>2. MovingInv => MovingInv'
      BY DEF Aside, MovingInv, Item, Target, ToRecover, At, Cleared
<1> QED BY <1>1, <1>2

LEMMA StaysAside ==
    ASSUME TypeInv, UNCHANGED vars
    PROVE  Aside
BY DEF Aside, vars, TypeInv, TypeOK

LEMMA MonitorAside ==
    ASSUME TypeInv, NEW d \in Downloads, MonitorStep(d)
    PROVE  Aside
<1>1. UNCHANGED <<proc, view, approved, revived>>
      BY MonitorRemembers DEF MonitorStep, MonProgress, MonFinishes, MonStalls, MonRaises, MonReads, MonSeeds,
             MonParks, MonFails, MonCompletes, MonCloses, Quiet
<1>2. \A e \in Downloads \ {d} : row'[e] = row[e] /\ mon'[e] = mon[e]
      BY DEF TypeInv, TypeOK, MonitorStep, MonProgress, MonFinishes, MonStalls, MonRaises, MonReads,
             MonSeeds, MonParks, MonFails, MonCompletes, MonCloses, Write, Watch, monitor
<1>3. mon[d] # "off"
      BY DEF MonitorStep, MonProgress, MonFinishes, MonStalls, MonRaises, MonReads, MonSeeds,
             MonParks, MonFails, MonCompletes, MonCloses
<1>4. ASSUME NEW r \in Row, NEW st \in Statuses, Write(d, [r EXCEPT !.st = st, !.why = "other"])
      PROVE  row'[d].st = st
  <2> DEFINE q == [r EXCEPT !.st = st, !.why = "other"]
  <2>1. q \in Row /\ q.st = st /\ Write(d, q)
        BY <1>4 DEF Row
  <2> HIDE DEF q
  <2> QED BY <2>1, Writes DEF TypeInv
<1>5. row[d] \in Row /\ seen[d] \in Row
      BY DEF TypeInv, TypeOK
<1>6. \/ mon'[d] \in Watching
      \/ row'[d].st # "DOWNLOADING"
      \/ row' = row /\ mon[d] \notin Watching
  <2>1. CASE MonProgress(d) \/ MonFinishes(d) \/ MonStalls(d) \/ MonRaises(d)
        BY <2>1 DEF TypeInv, TypeOK, MonProgress, MonFinishes, MonStalls, MonRaises, MonReads, Watch,
                    Watching, monitor
  <2>2. CASE MonSeeds(d) \/ MonFails(d) \/ MonCompletes(d)
        BY <1>4, <1>5, <2>2 DEF MonSeeds, MonFails, MonCompletes, Statuses
  <2>3. CASE MonParks(d)
        BY <1>4, <1>5, <2>3 DEF TypeInv, TypeOK, MonParks, Watch, Watching, Statuses
  <2>4. CASE MonCloses(d)
        BY <2>4 DEF MonCloses, Watching
  <2> QED BY <2>1, <2>2, <2>3, <2>4 DEF MonitorStep
<1> QED BY <1>1, <1>2, <1>3, <1>6 DEF Aside

LEMMA PromotesAside ==
    ASSUME HInv, NEW d \in Downloads, HealthPromotes(d)
    PROVE  Aside
<1>1. pass.it[d] \in Row /\ TypeOK
      BY DEF HInv, HTypeOK
<1>2. PICK q \in Row : Write(d, q) /\ q.st = "SEEDING"
  <2> DEFINE r == pass.it[d]
  <2>1. r \in Row /\ Write(d, [r EXCEPT !.st = "SEEDING"])
        BY <1>1 DEF HealthPromotes
  <2> HIDE DEF r
  <2>2. [r EXCEPT !.st = "SEEDING"] \in Row /\ [r EXCEPT !.st = "SEEDING"].st = "SEEDING"
        BY <2>1 DEF Row, Statuses
  <2> QED BY <2>1, <2>2
<1>3. UNCHANGED <<proc, view, approved, mon, revived>>
      BY DEF HealthPromotes, monitor
<1> QED BY <1>1, <1>2, <1>3, Writes DEF Aside, Moving

\* After a crash recovery has every row before it, and nobody watches any.
LEMMA CrashStarts ==
    ASSUME Crash
    PROVE  WatchInv' /\ MovingInv'
<1>1. /\ Boot \in Procs /\ Idle.at = "idle" /\ [Idle EXCEPT !.at = "recover"].at = "recover"
      BY DEF Procs, Idle
<1>2. At(Boot, "recover")' /\ \A p \in Procs : proc'[p].at \in {"idle", "recover"}
      BY <1>1 DEF Crash, At
<1>3. \A d \in Downloads : ToRecover(d)' /\ view'[d].st \notin Moving /\ mon'[d] = "off"
      BY <1>2 DEF ToRecover, Crash, NoRows, Moving
<1>4. WatchInv'
      BY <1>2, <1>3 DEF WatchInv
<1>5. MovingInv'
      BY <1>2, <1>3 DEF MovingInv, At, Gates
<1> QED BY <1>4, <1>5

LEMMA InitStarts ==
    ASSUME Init
    PROVE  WatchInv /\ MovingInv
<1>1. /\ Boot \in Procs /\ Idle.at = "idle" /\ [Idle EXCEPT !.at = "recover"].at = "recover"
      BY DEF Procs, Idle
<1>2. At(Boot, "recover") /\ \A p \in Procs : proc[p].at \in {"idle", "recover"}
      BY <1>1 DEF Init, At
<1>3. \A d \in Downloads : ToRecover(d) /\ view[d].st \notin Moving /\ mon[d] = "off"
      BY <1>2 DEF ToRecover, Init, NoRows, Moving
<1>4. WatchInv
      BY <1>2, <1>3 DEF WatchInv
<1>5. MovingInv
      BY <1>2, <1>3 DEF MovingInv, At, Gates
<1> QED BY <1>4, <1>5

\* Who spawns a monitor, pauses, parks or cancels a download.
LEMMA ForgetsRevived ==
    ASSUME TypeInv, NEW p \in Procs, Forgets(p) \/ (p = Health /\ ParkWrites)
    PROVE  RevivedStay
<1>1. proc[p] \in Process
      BY Working DEF TypeInv
<1>2. revived' = revived \ {Target(p)}
      BY DEF Forgets, StartSpawns, ResumeSpawns, PauseWrites, CancelReads, ParkWrites, Monitored
<1>3. CASE StartSpawns(p) \/ ResumeSpawns(p)
      BY <1>2, <1>3 DEF RevivedStay, StartSpawns, ResumeSpawns, Monitored, Watching, TypeInv, TypeOK
<1>4. CASE PauseWrites(p)
  <2> DEFINE r == [Item(p) EXCEPT !.st = IF Requeues(p) THEN "QUEUED" ELSE "PAUSED"]
  <2>1. Target(p) \in Downloads /\ Item(p) \in Row
        BY <1>4, Working DEF TypeInv, PauseWrites, At, PlainLabels
  <2>2. r \in Row /\ r.st # "DOWNLOADING" /\ Write(Target(p), r)
        BY <1>4, <2>1 DEF PauseWrites, Row, Statuses
  <2> HIDE DEF r
  <2> QED BY <1>2, <2>1, <2>2, Writes DEF RevivedStay, TypeInv
<1>5. CASE CancelReads(p)
  <2> DEFINE s == [proc[p] EXCEPT !.at = "cancelWrite", !.it[Target(p)] = row[Target(p)]]
  <2>1. s.at = "cancelWrite" /\ s.d = Target(p) /\ Become(p, s)
        BY <1>1, <1>5 DEF CancelReads, Process, Target
  <2> HIDE DEF s
  <2>2. proc'[p] = s
        BY <2>1 DEF Become, TypeInv, ProcsSound
  <2> QED BY <1>2, <2>1, <2>2 DEF RevivedStay, Attending, Target
<1>6. CASE p = Health /\ ParkWrites
  <2>1. Target(p) \in Downloads /\ Item(p) \in Row
    <3>1. proc[p].at \notin PlainLabels
          BY <1>6 DEF ParkWrites, At, PlainLabels
    <3> QED BY <3>1, Working DEF TypeInv
  <2>2. PICK why \in {"user", "storage", "other"} :
           Write(Target(p), [Item(p) EXCEPT !.st = "STALLED", !.why = why])
        BY <1>6, <2>1 DEF ParkWrites, Row
  <2>3. PICK q \in Row : Write(Target(p), q) /\ q.st = "STALLED"
    <3> DEFINE r == Item(p)
               q == [r EXCEPT !.st = "STALLED", !.why = why]
    <3>1. r \in Row /\ "STALLED" \in Statuses /\ Write(Target(p), q)
          BY <2>1, <2>2 DEF Statuses
    <3> HIDE DEF r
    <3>2. q \in Row /\ q.st = "STALLED"
          BY <3>1 DEF Row
    <3> QED BY <3>1, <3>2
  <2> QED BY <1>2, <2>1, <2>3, Writes DEF RevivedStay, TypeInv
<1> QED BY <1>3, <1>4, <1>5, <1>6 DEF Forgets

LEMMA QueueWatches ==
    ASSUME TypeInv, WatchInv, [Next]_vars
    PROVE  WatchInv'
<1>1. CASE UNCHANGED vars
      BY <1>1, StaysAside, AsideKeeps
<1>2. CASE LoopStep \/ BootStep \/ StorageStep \/ \E c \in Callers : Request(c) \/ CallerStep(c)
  <2>1. PICK p \in Procs : \E s : Moved(p, s)
        BY <1>2, QueueMoves
  <2>2. PICK q \in Procs : Remembers(q)
        BY <1>2, QueueRemembers
  <2>3. RevivedStay
        BY <2>2, ForgetsRevived DEF Remembers, RevivedStay, PriorityWrites
  <2> QED BY <2>1, <2>3, WatchMoves
<1>3. CASE Crash
      BY <1>3, CrashStarts
<1>4. CASE \E d \in Downloads : MonitorStep(d)
      BY <1>4, MonitorAside, AsideKeeps
<1> QED BY <1>1, <1>2, <1>3, <1>4 DEF Next

LEMMA HealthWatches ==
    ASSUME HInv, WatchInv, [HNext]_hvars
    PROVE  WatchInv'
<1>1. CASE [Next]_vars
      BY <1>1, QueueWatches DEF HInv
<1>2. CASE HealthFindsWhole \/ HealthReads \/ \E d \in Downloads : TimePasses(d)
  <2>1. UNCHANGED vars
        BY <1>2 DEF HealthFindsWhole, HealthReads, TimePasses, WindowEnds, IntervalEnds, Others, vars,
                    mem, monitor, bounds
  <2> QED BY <1>1, <2>1
<1>3. CASE HealthStep
  <2>1. RevivedStay
        BY <1>3, SupervisorRemembers, ForgetsRevived, InHealth DEF HInv, RevivedStay, PriorityWrites
  <2>2. CASE HealthCall
        BY <2>1, <2>2, CallsMove, WatchMoves, InHealth DEF HInv
  <2>3. ASSUME NEW d \in Downloads, HealthLook(d)
        PROVE  WatchInv'
    <3>1. CASE HealthPromotes(d)
          BY <3>1, PromotesAside, AsideKeeps
    <3>2. CASE HealthLeaves(d) \/ HealthSucceeds(d) \/ HealthParks(d) \/ HealthTests(d)
      <4>1. UNCHANGED vars \/ \E s : Moved(Health, s)
            BY <3>2, LooksMove DEF HealthLeaves, HealthSucceeds, HealthParks, HealthTests
      <4> QED BY <1>1, <2>1, <4>1, WatchMoves, InHealth DEF HInv
    <3> QED BY <2>3, <3>1, <3>2 DEF HealthLook
  <2> QED BY <1>2, <1>3, <2>2, <2>3 DEF HealthStep
<1>4. CASE UNCHANGED hvars
      BY <1>1, <1>4 DEF hvars
<1> QED BY <1>1, <1>2, <1>3, <1>4 DEF HNext, Next, Restart

LEMMA WatchedIs ==
    ASSUME WatchInv
    PROVE  DownloadingIsMonitored
<1> SUFFICES ASSUME NEW d \in Downloading(row) \ revived, Settled(d), At(Boot, "idle")
             PROVE  mon[d] # "off"
    BY DEF DownloadingIsMonitored
<1>1. d \in Downloads /\ row[d].st = "DOWNLOADING"
      BY DEF Downloading, InStatus
<1>2. ~ToRecover(d) /\ \A p \in Procs : Target(p) # d
      BY DEF ToRecover, At, Settled
<1> QED BY <1>1, <1>2 DEF WatchInv, Watching

\* A download whose row says DOWNLOADING, which nobody is working on, has a task
\* that watches its transfer, at every moment recovery is not under way: a start, a
\* resume and a health test spawn it beside the row they store, and the gate, a
\* pause, a cancellation and the monitor's own end store another status before it
\* goes. The one exception is a download that a change of priority stored as it had
\* read it, DOWNLOADING, over a pause, a park or a preemption
\* (core/downloader.py:993), until somebody spawns its monitor.
THEOREM EveryDownloadIsMonitored == Spec => []DownloadingIsMonitored
<1>1. Init => TypeInv /\ WatchInv
      BY InitKept, InitStarts
<1>2. TypeInv /\ WatchInv /\ [Next]_vars => (TypeInv /\ WatchInv)'
      BY NextKeeps, QueueWatches DEF Kept
<1>3. WatchInv => DownloadingIsMonitored
      BY WatchedIs
<1> QED BY <1>1, <1>2, <1>3, PTL DEF Spec

\* The same with the health supervisor, which tests, parks and promotes downloads
\* from a table it read at the start of its pass.
THEOREM SupervisedIsMonitored == HSpec => []DownloadingIsMonitored
<1>1. HInit => HInv /\ WatchInv
      BY HealthAtFirst, InitStarts DEF HInit
<1>2. HInv /\ WatchInv /\ [HNext]_hvars => (HInv /\ WatchInv)'
      BY SupervisedKeeps, HealthWatches
<1>3. WatchInv => DownloadingIsMonitored
      BY WatchedIs
<1> QED BY <1>1, <1>2, <1>3, PTL DEF HSpec

-----------------------------------------------------------------------------
(* Permissions with the health supervisor *)

\* The supervisor's park keeps the permissions.
LEMMA ParksPermitted ==
    ASSUME TypeInv, PermitInv, ParkHandle \/ ParkWrites
    PROVE  PermitInv'
<1>1. /\ proc[Health].at \notin PlainLabels \cup {"addWrite"} /\ Target(Health) \in Downloads
      /\ Item(Health) \in Row /\ (Item(Health).why = "user" => Target(Health) \in Cleared)
  <2>1. proc[Health].at \notin PlainLabels \cup {"addWrite"}
        BY DEF ParkHandle, ParkWrites, At, PlainLabels
  <2> QED BY <2>1, InHealth, Working, WorkingGood DEF TypeInv
<1>2. "parked" \in Labels \ (EntryLabels \cup ClearedLabels)
      BY DEF Labels, EntryLabels, ListLabels, ClearedLabels, StartLabels
<1>3. ProcsSound' /\ ProcsGood'
  <2>1. UNCHANGED approved /\ (Finish(Health) \/ Goto(Health, "parked"))
        BY DEF ParkHandle, ParkWrites
  <2>2. CASE Finish(Health)
        BY <2>1, <2>2, InHealth, IdleType, Turn DEF Finish, TypeInv, PermitInv
  <2>3. CASE Goto(Health, "parked")
        BY <1>1, <1>2, <2>1, <2>3, InHealth, TurnTo DEF TypeInv
  <2> QED BY <2>1, <2>2, <2>3
<1>4. CASE ParkHandle
  <2>1. /\ handle' \in [Downloads -> {"none", "running", "paused"}]
        /\ \A d \in Downloads : handle[d] = "none" => handle'[d] = "none"
        BY <1>1, <1>4 DEF ParkHandle, TypeInv, TypeOK
  <2> QED BY <1>3, <1>4, <2>1, QuietKeeps DEF ParkHandle, TypeInv, TypeOK, mem, monitor, bounds
<1>5. CASE ParkWrites
  <2>1. PICK why \in {"user", "storage", "other"} :
           /\ Write(Target(Health), [Item(Health) EXCEPT !.st = "STALLED", !.why = why])
           /\ why = "user" => Item(Health).why = "user"
        BY <1>1, <1>5 DEF ParkWrites, Row
  <2>2. PICK q \in Row : Write(Target(Health), q) /\ q.why = why
    <3> DEFINE r == Item(Health)
               q == [r EXCEPT !.st = "STALLED", !.why = why]
    <3>1. r \in Row /\ "STALLED" \in Statuses /\ Write(Target(Health), q)
          BY <1>1, <2>1 DEF Statuses
    <3> HIDE DEF r
    <3>2. q \in Row /\ q.why = why
          BY <3>1 DEF Row
    <3> QED BY <3>1, <3>2
  <2>3. Monitored(Target(Health), "off")
        BY <1>5 DEF ParkWrites
  <2> QED BY <1>1, <1>3, <1>5, <2>1, <2>2, <2>3, MonitoredTypes, WriteKeeps DEF ParkWrites, TypeInv, TypeOK
<1> QED BY <1>4, <1>5

LEMMA CallsPermitted ==
    ASSUME TypeInv, PermitInv, MovingInv, HealthCall
    PROVE  PermitInv'
<1>1. At(Health, "testAllow") => Target(Health) \in Cleared
      BY InHealth DEF MovingInv
<1>2. CASE ParkHandle \/ ParkWrites
      BY <1>2, ParksPermitted
<1>3. CASE TestStep(Health)
      BY <1>1, <1>3, InHealth, Testing
<1>4. CASE EnforceStep(Health) \/ PauseStep(Health) \/ StartStep(Health)
      BY <1>4, InHealth, Enforcing, Pausing, StartGoesOn DEF Kept
<1>5. CASE PriorityWrites(Health) \/ ResumeWakes(Health) \/ ResumeSpawns(Health) \/ Unlock(Health)
      BY <1>5, InHealth, StoresKeep, Waking DEF Kept
<1> QED BY <1>2, <1>3, <1>4, <1>5 DEF HealthCall

\* What the supervisor takes up names the user only where the user has asked.
LEMMA LooksPermitted ==
    ASSUME HInv, PermitInv, NEW d \in Downloads, Looks(d),
           HealthLeaves(d) \/ HealthSucceeds(d) \/ HealthParks(d) \/ HealthTests(d)
    PROVE  PermitInv'
<1>1. /\ TypeInv /\ row[d] \in Row /\ (row[d].why = "user" => d \in Cleared)
      /\ health[d].orig \in Priorities \cup {"none"}
      BY DEF HInv, HTypeOK, TypeOK, PermitInv, TablesGood, AskedRows
<1>2. \A prio \in Priorities :
         [row[d] EXCEPT !.prio = prio] \in Row /\ [row[d] EXCEPT !.prio = prio].why = row[d].why
      BY <1>1, RowEdits
<1>3. \/ UNCHANGED proc
      \/ \E r \in Row, l \in {"prioWrite", "parking", "testAllow"} :
            /\ r.why = row[d].why
            /\ Become(Health, [Idle EXCEPT !.at = l, !.d = d, !.it[d] = r])
      BY <1>1, <1>2 DEF HealthLeaves, HealthSucceeds, HealthParks, HealthTests
<1>4. UNCHANGED <<row, allowed, handle, seen, view, approved>>
      BY DEF Looks, Others, mem, monitor
<1>5. ProcsGood'
  <2>1. CASE UNCHANGED proc
        BY <1>1, <1>4, <2>1, NoTurn DEF TypeInv, PermitInv
  <2>2. ASSUME NEW r \in Row, NEW l \in {"prioWrite", "parking", "testAllow"}, r.why = row[d].why,
               Become(Health, [Idle EXCEPT !.at = l, !.d = d, !.it[d] = r])
        PROVE  ProcsGood'
    <3>1. l \in Labels \ (PlainLabels \cup ClearedLabels \cup {"preempted", "freed"})
          BY DEF Labels, PlainLabels, ClearedLabels, StartLabels
    <3> QED BY <1>1, <1>4, <2>2, <3>1, InHealth, Requested
  <2> QED BY <1>3, <2>1, <2>2
<1> QED BY <1>4, <1>5 DEF PermitInv, TablesGood, Cleared

LEMMA PromotesPermitted ==
    ASSUME HInv, PermitInv, PassGood, NEW d \in Downloads, HealthPromotes(d)
    PROVE  PermitInv'
<1>1. pass.it[d] \in Row /\ (pass.it[d].why = "user" => d \in Cleared)
      BY DEF HInv, HTypeOK, PassGood, AskedRows
<1>2. PICK q \in Row : Write(d, q) /\ q.why = pass.it[d].why
  <2> DEFINE r == pass.it[d]
  <2>1. r \in Row /\ Write(d, [r EXCEPT !.st = "SEEDING"]) /\ "SEEDING" \in Statuses
        BY <1>1 DEF HealthPromotes, Statuses
  <2> HIDE DEF r
  <2>2. [r EXCEPT !.st = "SEEDING"] \in Row /\ [r EXCEPT !.st = "SEEDING"].why = r.why
        BY <2>1, RowEdits
  <2> QED BY <2>1, <2>2 DEF r
<1>3. ProcsSound' /\ ProcsGood'
      BY NoTurn DEF HealthPromotes, HInv, TypeInv, PermitInv
<1> QED BY <1>1, <1>2, <1>3, WriteKeeps DEF HealthPromotes, HInv, TypeInv, TypeOK, monitor

\* What the pass remembers stays as good as it was.
LEMMA PassKeeps ==
    ASSUME HInv, PermitInv, MovingInv, PassGood, [HNext]_hvars, approved \subseteq approved'
    PROVE  PassGood'
<1>1. Cleared \subseteq Cleared'
      BY DEF Cleared
<1>2. NoRows \in [Downloads -> Row] /\ \A d \in Downloads : NoRows[d].why = "other" /\ NoRows[d].st \notin Moving
      BY NoRowsType DEF NoRows, Moving
<1>3. ASSUME \A d \in Downloads : pass'.it[d] \in {pass.it[d], NoRows[d]}
      PROVE  PassGood'
      BY <1>1, <1>2, <1>3 DEF PassGood, AskedRows
<1>4. ASSUME Ready, \A d \in Downloads : pass'.it[d] \in {row[d], NoRows[d]}
      PROVE  PassGood'
  <2>1. \A d \in Downloads : row[d].st \in Moving => d \in Cleared
        BY <1>4 DEF MovingInv, Ready, ToRecover, At
  <2>2. \A d \in Downloads : row[d].why = "user" => d \in Cleared
        BY DEF PermitInv, TablesGood, AskedRows
  <2> QED BY <1>1, <1>2, <1>4, <2>1, <2>2 DEF PassGood, AskedRows
<1>5. NoPass.it = NoRows
      BY DEF NoPass
<1>6. pass.it \in [Downloads -> Row] /\ pass \in [it : [Downloads -> Row], mend : SUBSET Downloads,
                                                 left : SUBSET Downloads]
      BY DEF HInv, HTypeOK
<1>7. CASE UNCHANGED pass \/ pass' = NoPass
      BY <1>3, <1>5, <1>7
<1>8. CASE HealthFindsWhole
  <2>1. PICK whole : pass' = [NoPass EXCEPT !.it = row, !.mend = whole]
        BY <1>8 DEF HealthFindsWhole
  <2>2. pass'.it = row
        BY <2>1 DEF NoPass
  <2> QED BY <1>4, <1>8, <2>2 DEF HealthFindsWhole
<1>9. CASE HealthReads
  <2>1. \A d \in Downloads : pass'.it[d] \in {row[d], NoRows[d]}
        BY <1>9 DEF HealthReads
  <2> QED BY <1>4, <1>9, <2>1 DEF HealthReads
<1>10. ASSUME NEW d \in Downloads, HealthLook(d)
       PROVE  PassGood'
  <2>1. \/ pass' = NoPass
        \/ pass' = [pass EXCEPT !.mend = @ \ {d}, !.it[d] = NoRows[d]]
        \/ pass' = [pass EXCEPT !.left = @ \ {d}, !.it[d] = NoRows[d]]
        BY <1>10 DEF HealthLook, HealthPromotes, HealthLeaves, HealthSucceeds, HealthParks, HealthTests, Looks
  <2>2. pass' = NoPass \/ pass'.it = [pass.it EXCEPT ![d] = NoRows[d]]
        BY <1>6, <2>1
  <2>3. CASE pass'.it = [pass.it EXCEPT ![d] = NoRows[d]]
    <3>1. \A e \in Downloads : pass'.it[e] \in {pass.it[e], NoRows[e]}
          BY <1>6, <2>3
    <3> QED BY <1>3, <3>1
  <2> QED BY <1>7, <2>2, <2>3
<1> QED BY <1>7, <1>8, <1>9, <1>10
        DEF HNext, Restart, HealthStep, HealthCall, TimePasses, WindowEnds, IntervalEnds, hvars

\* The invariant of the supervised queue.
CareInv == HInv /\ LockInv /\ Served /\ PermitInv /\ MovingInv /\ PassGood

LEMMA CareKeeps ==
    ASSUME CareInv, [HNext]_hvars, [StorageWaits]_hvars
    PROVE  CareInv'
<1>1. /\ HInv /\ TypeInv /\ LockInv /\ Served /\ PermitInv /\ MovingInv /\ PassGood
      /\ HInv' /\ LockInv' /\ Served'
      BY SupervisedKeeps, LockHealth DEF CareInv, HInv
<1>2. PermitInv' /\ MovingInv' /\ approved \subseteq approved'
  <2>1. CASE UNCHANGED vars
    <3>1. PermitInv'
          BY <1>1, <2>1, NextKeeps DEF Kept
    <3>2. UNCHANGED approved
          BY <2>1 DEF vars
    <3> QED BY <1>1, <2>1, <3>1, <3>2, StaysAside, AsideKeeps
  <2>2. ASSUME NEW p \in Procs, NEW s, Moved(p, s), StorageWaits
        PROVE  MovingInv' /\ approved \subseteq approved'
    <3>1. Lock(p) => At(Boot, "idle")
          BY <1>1, <2>2, LockedLater DEF StorageWaits
    <3> QED BY <1>1, <2>2, <3>1, MovingMoves DEF Moved, Approves
  <2>3. CASE HNext /\ StorageWaits
    <3>1. CASE Next
      <4>1. PermitInv'
            BY <1>1, <3>1, NextKeeps DEF Kept
      <4>2. CASE LoopStep \/ BootStep \/ StorageStep \/ \E c \in Callers : Request(c) \/ CallerStep(c)
        <5>1. PICK p \in Procs : \E s : Moved(p, s)
              BY <1>1, <4>2, QueueMoves
        <5> QED BY <2>2, <2>3, <4>1, <5>1
      <4>3. CASE Crash
        <5>1. UNCHANGED approved
              BY <4>3 DEF Crash
        <5> QED BY <4>1, <4>3, <5>1, CrashStarts
      <4>4. CASE \E d \in Downloads : MonitorStep(d)
        <5>1. Aside
              BY <1>1, <4>4, MonitorAside
        <5> QED BY <1>1, <4>1, <5>1, AsideKeeps DEF Aside
      <4> QED BY <3>1, <4>2, <4>3, <4>4 DEF Next
    <3>2. CASE HealthFindsWhole \/ HealthReads \/ \E d \in Downloads : TimePasses(d)
      <4>1. UNCHANGED vars
            BY <3>2 DEF HealthFindsWhole, HealthReads, TimePasses, WindowEnds, IntervalEnds, Others, vars,
                        mem, monitor, bounds
      <4> QED BY <2>1, <4>1
    <3>3. CASE HealthCall
          BY <1>1, <2>2, <2>3, <3>3, CallsMove, CallsPermitted, InHealth
    <3>4. ASSUME NEW d \in Downloads, HealthLook(d)
          PROVE  PermitInv' /\ MovingInv' /\ approved \subseteq approved'
      <4>1. CASE HealthPromotes(d)
        <5>1. Aside
              BY <1>1, <4>1, PromotesAside
        <5> QED BY <1>1, <4>1, <5>1, PromotesPermitted, AsideKeeps DEF Aside
      <4>2. CASE HealthLeaves(d) \/ HealthSucceeds(d) \/ HealthParks(d) \/ HealthTests(d)
        <5>1. Looks(d)
              BY <4>2 DEF HealthLeaves, HealthSucceeds, HealthParks, HealthTests
        <5>2. UNCHANGED vars \/ \E s : Moved(Health, s)
              BY <1>1, <4>2, <5>1, LooksMove
        <5> QED BY <1>1, <2>1, <2>2, <2>3, <4>2, <5>1, <5>2, LooksPermitted, InHealth
      <4> QED BY <3>4, <4>1, <4>2 DEF HealthLook
    <3> QED BY <2>3, <3>1, <3>2, <3>3, <3>4 DEF HNext, Next, Restart, HealthStep
  <2>4. CASE UNCHANGED hvars
        BY <2>1, <2>4 DEF hvars
  <2> QED BY <2>3, <2>4
<1>3. PassGood'
      BY <1>1, <1>2, PassKeeps
<1> QED BY <1>1, <1>2, <1>3 DEF CareInv

\* Nor does the health supervisor start a download that neither the user nor the
\* policy of the automatic ones permits: what it tests was transferring or parked,
\* in the table its pass has read, and such a row was asked for. The proviso is about
\* the storage recovery alone, which is spawned first (core/downloader.py:104): its
\* enforcement reads the table while recovery has rows of the last run to requeue.
THEOREM SupervisedStartsNothingUnasked == HSpec /\ [][StorageWaits]_hvars => []Permitted
<1>1. HInit => CareInv
  <2>1. NoPass.it = NoRows
        BY DEF NoPass
  <2>2. HInit => PassGood
        BY <2>1, NoRowsType DEF HInit, PassGood, AskedRows, NoRows, Moving
  <2> QED BY <2>2, HealthAtFirst, InitKept, InitStarts, LockAtFirst DEF HInit, CareInv
<1>2. CareInv /\ [HNext]_hvars /\ [StorageWaits]_hvars => CareInv'
      BY CareKeeps
<1>3. CareInv => Permitted
      BY PermitImplies DEF CareInv
<1> QED BY <1>1, <1>2, <1>3, PTL DEF HSpec

============
