---------------------------- MODULE SoulseekImport ----------------------------
(***************************************************************************)
(* The monitor that files what the Soulseek client slskd has downloaded    *)
(* (src/src/integrations/slskd_import_monitor.py), beside the torrents of  *)
(* LibraryImport, whose handler it shares.  slskd goes on reporting a      *)
(* completed transfer for ever, so the monitor keeps a ledger of the files *)
(* it has imported; the files it has imported are deleted from staging     *)
(* before the ledger is stored, at the end of the pass.                    *)
(***************************************************************************)
EXTENDS LibraryImport, Sequences

CONSTANTS
    Rows,          \* the transfers in the order slskd reports them
    Budget         \* attempts in a pass: 4 in the code

ASSUME SoulseekAssumption ==
    /\ Rows \in Seq(Payloads)
    /\ \A i \in DOMAIN Rows, t \in Torrents : Rows[i] \notin FilesOf[t]   \* folders of their own
    /\ Budget \in Nat \ {0}

VARIABLES
    reported,      \* transfers slskd says are complete
    imported,      \* the stored ledger
    waiting,       \* files with a failure whose delay has not run out
    circuit,       \* the storage circuit is open
    pass           \* the pass of the monitor

vars == <<importVars, reported, imported, waiting, circuit, pass>>

Transfers == {Rows[i] : i \in 1..Len(Rows)}

\* left: the rows the pass has not looked at;  keys: the ledger as it has
\* loaded it;  got: it has imported something
NoPass == [at |-> "idle", left |-> {}, keys |-> {}, tries |-> 0, got |-> FALSE, slot |-> 1]

PassState == [at : {"idle", "keys", "next", "place", "copy", "filed", "end"},
              left : SUBSET DOMAIN Rows, keys : SUBSET Transfers, tries : 0..Budget,
              got : BOOLEAN, slot : Slots]

Init ==
    /\ ImportInit
    /\ reported = {}
    /\ imported = {}
    /\ waiting = {}
    /\ circuit = FALSE
    /\ pass = NoPass

First == CHOOSE i \in pass.left : \A j \in pass.left : i <= j
File == Rows[First]
PassAt(at) == pass.at = at
Monitors == <<row, worker>>

\* slskd completes a transfer.  The monitor may not find the file: it is still
\* in the incomplete folder, or in a layout that it does not probe.
Report(p) ==
    /\ p \in Transfers \ reported
    /\ reported' = reported \cup {p}
    /\ staging' = staging \cup {p} \/ UNCHANGED staging
    /\ UNCHANGED <<library, Monitors, troubles, failed, imported, waiting, circuit, pass>>

-----------------------------------------------------------------------------
(* run_once() *)

PassStarts ==
    /\ PassAt("idle")
    /\ ~circuit
    /\ reported # {}
    /\ pass' = [NoPass EXCEPT !.at = "keys",
                              !.left = {i \in DOMAIN Rows : Rows[i] \in reported}]
    /\ UNCHANGED <<importVars, reported, imported, waiting, circuit>>

LoadKeys ==
    /\ PassAt("keys")
    /\ pass' = [pass EXCEPT !.at = "next", !.keys = imported]
    /\ UNCHANGED <<importVars, reported, imported, waiting, circuit>>

\* An exception is swallowed, and the ledger taken to be empty.
LoadFails ==
    /\ PassAt("keys")
    /\ troubles < MaxTroubles
    /\ troubles' = troubles + 1
    /\ pass' = [pass EXCEPT !.at = "next"]
    /\ UNCHANGED <<staging, library, Monitors, failed, reported, imported, waiting, circuit>>

\* Mutant: a file that cannot be found ends the pass.
NoneFound == PassAt("next") /\ (pass.left # {} => File \notin staging)

NoneLeft == PassAt("next") /\ pass.left = {}

Due == PassAt("next") /\ pass.left # {} /\ File \notin pass.keys \cup waiting

Skip ==
    /\ PassAt("next") /\ pass.left # {} /\ ~Due
    /\ pass' = [pass EXCEPT !.left = @ \ {First}]
    /\ UNCHANGED <<importVars, reported, imported, waiting, circuit>>

\* The budget is used up: the rest is left for a later pass.
BudgetReached ==
    /\ Due
    /\ pass.tries = Budget
    /\ pass' = [pass EXCEPT !.at = "end"]
    /\ UNCHANGED <<importVars, reported, imported, waiting, circuit>>

\* No source: counted as an attempt, without a delay.
Missing ==
    /\ Due
    /\ pass.tries < Budget
    /\ File \notin staging
    /\ pass' = [pass EXCEPT !.tries = @ + 1, !.left = @ \ {First}]
    /\ UNCHANGED <<importVars, reported, imported, waiting, circuit>>

\* _link_completed_file_to_library(): the target is there, or a thread makes it.
Resolve ==
    LET k == Destination(File) IN
    /\ Due
    /\ pass.tries < Budget
    /\ File \in staging
    /\ k # 0
    /\ pass' = [pass EXCEPT !.tries = @ + 1, !.slot = k,
                            !.at = IF library[File][k] = "whole" THEN "filed" ELSE "place"]
    /\ UNCHANGED <<importVars, reported, imported, waiting, circuit>>

\* _record_import_failure(): the file is passed over for some time.
Fails(at) ==
    /\ waiting' = waiting \cup {File}
    /\ pass' = [pass EXCEPT !.at = at, !.left = @ \ {First}]

PassLinks ==
    /\ PassAt("place")
    /\ File \in Linkable
    /\ Put(File, pass.slot, "whole")
    /\ pass' = [pass EXCEPT !.at = "filed"]
    /\ UNCHANGED <<staging, Monitors, troubles, failed, reported, imported, waiting, circuit>>

PassCopies ==
    /\ PassAt("place")
    /\ File \notin Linkable
    /\ Put(File, pass.slot, "part")
    /\ pass' = [pass EXCEPT !.at = "copy"]
    /\ UNCHANGED <<staging, Monitors, troubles, failed, reported, imported, waiting, circuit>>

PassCopied ==
    /\ PassAt("copy")
    /\ Put(File, pass.slot, "whole")
    /\ pass' = [pass EXCEPT !.at = "filed"]
    /\ UNCHANGED <<staging, Monitors, troubles, failed, reported, imported, waiting, circuit>>

\* A failed copy returns no target, whatever the error was.
PassCopyFails ==
    /\ PassAt("copy")
    /\ troubles < MaxTroubles
    /\ troubles' = troubles + 1
    /\ Fails("next")
    /\ UNCHANGED <<staging, library, Monitors, failed, reported, imported, circuit>>

\* What raises before the copy, as making the folder does: an I/O error opens
\* the circuit and ends the pass.
PassRaises ==
    /\ PassAt("place")
    /\ troubles < MaxTroubles
    /\ troubles' = troubles + 1
    /\ \E io \in BOOLEAN : /\ circuit' = io
                           /\ Fails(IF io THEN "end" ELSE "next")
    /\ UNCHANGED <<staging, library, Monitors, failed, reported, imported>>

\* The target is there: the source is deleted, unless that fails, and the file
\* goes to the pass's ledger.
PassFiled ==
    /\ PassAt("filed")
    /\ \/ staging' = staging \ {File} /\ UNCHANGED troubles
       \/ troubles < MaxTroubles /\ troubles' = troubles + 1 /\ UNCHANGED staging
    /\ waiting' = waiting \ {File}
    /\ pass' = [pass EXCEPT !.at = "next", !.left = @ \ {First}, !.keys = @ \cup {File}, !.got = TRUE]
    /\ UNCHANGED <<library, Monitors, failed, reported, imported, circuit>>

\* The ledger is stored at the end, if something was imported; a failure is
\* logged.
PassEnds ==
    /\ NoneLeft \/ PassAt("end")
    /\ \/ imported' = (IF pass.got THEN pass.keys ELSE imported) /\ UNCHANGED troubles
       \/ pass.got /\ troubles < MaxTroubles /\ troubles' = troubles + 1 /\ UNCHANGED imported
    /\ pass' = NoPass
    /\ UNCHANGED <<staging, library, Monitors, failed, reported, waiting, circuit>>

DelayEnds(p) ==
    /\ p \in waiting
    /\ waiting' = waiting \ {p}
    /\ UNCHANGED <<importVars, reported, imported, circuit, pass>>

CircuitCloses ==
    /\ circuit
    /\ circuit' = FALSE
    /\ UNCHANGED <<importVars, reported, imported, waiting, pass>>

RunOnce ==
    \/ PassStarts \/ LoadKeys \/ LoadFails \/ Skip \/ BudgetReached \/ Missing \/ Resolve
    \/ PassLinks \/ PassCopies \/ PassCopied \/ PassCopyFails \/ PassRaises \/ PassFiled
    \/ PassEnds

-----------------------------------------------------------------------------
Crash ==
    /\ ImportCrash
    /\ waiting' = {}
    /\ circuit' = FALSE
    /\ pass' = NoPass
    /\ UNCHANGED <<reported, imported>>

Others == UNCHANGED <<reported, imported, waiting, circuit, pass>>

Next ==
    \/ \E w \in Workers : Import(w) /\ Others
    \/ \E t \in Torrents : Monitor(t) /\ Others
    \/ StartUp /\ Others
    \/ \E p \in Transfers : Report(p) \/ DelayEnds(p)
    \/ RunOnce
    \/ CircuitCloses
    \/ Crash

\* Tasks of a live event loop run on, and delays run out.  Nothing makes a
\* torrent stop seeding, a copy fail, or slskd report.
Fairness ==
    /\ \A w \in Workers : WF_vars(Import(w) /\ Others)
    /\ \A t \in Torrents : WF_vars(Monitor(t) /\ Others)
    /\ WF_vars(StartUp /\ Others)
    /\ WF_vars(RunOnce)
    /\ \A p \in Transfers : WF_vars(DelayEnds(p))
    /\ WF_vars(CircuitCloses)

Spec == Init /\ [][Next]_vars /\ Fairness

-----------------------------------------------------------------------------
(* Properties *)

\* Every variable keeps to its type.
TypeOK ==
    /\ staging \subseteq Payloads
    /\ library \in [Payloads -> [Slots -> {"none", "part", "whole"}]]
    /\ row \in [Torrents -> Row]
    /\ worker \in [Workers -> WorkerState]
    /\ troubles \in 0..MaxTroubles
    /\ failed \subseteq Payloads
    /\ reported \cup imported \cup waiting \subseteq Transfers
    /\ circuit \in BOOLEAN
    /\ pass \in PassState

\* A payload that is in staging or whole in the library stays in one of them,
\* whatever copies fail, whoever else imports the file and whenever the
\* process ends.  Staging is deleted in four places: after a move, when the
\* target is there already, when a torrent has seeded enough, and after a
\* Soulseek import.
PayloadKept ==
    [][\A p \in Payloads : p \in staging \/ Filed(p) => p \in staging' \/ Filed(p)']_vars

\* What is recorded as filed is whole in the library: the organized paths in
\* the row, which Plex and a later clean-up rely on, and the ledger, which
\* keeps a transfer from ever being looked at again.
RecordedIsWhole ==
    /\ \A t \in Torrents : \A p \in FilesOf[t] :
          row[t].org[p] # 0 => library[p][row[t].org[p]] = "whole"
    /\ \A p \in imported \cup pass.keys : Filed(p)

\* Where a link can be made, a payload has one name in the library, however
\* often the ready callback, the repair of start-up and the completion import
\* it ("treats an existing same-size target as success so recovery is
\* idempotent").
LinkedOnce == \A p \in Linkable : Cardinality(Taken(p)) <= 1

\* What a torrent has downloaded is in the library in the end, even if the
\* process ends between any two steps; only a copy that failed since the last
\* start may leave a file out, until the torrent completes or the next start.
FiledUnlessFailed ==
    \A t \in Torrents : \A p \in FilesOf[t] :
        <>[](row[t].st # "absent" => Filed(p) \/ p \in failed)

\* Transfers the monitor cannot find and has no record of.  Each costs every
\* pass an attempt: an unknown layout, or a file whose import was not recorded.
Lost == {p \in reported : p \notin staging /\ p \notin imported}

\* A transfer that the monitor can find gets into the library, unless as many
\* are lost as a pass makes attempts.
ImportedUnlessCrowded ==
    \A p \in Transfers :
        (p \in reported /\ p \in staging) ~> (Filed(p) \/ Cardinality(Lost) >= Budget)

=============================================================================
