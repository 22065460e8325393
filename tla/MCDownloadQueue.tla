--------------------------- MODULE MCDownloadQueue ---------------------------
(***************************************************************************)
(* Small instances of DownloadQueue.  Downloads are numbered in the order  *)
(* of their creation; the tables are ones an earlier run can leave behind. *)
(***************************************************************************)
EXTENDS DownloadQueue, TLC

CONSTANTS a, b

MCRow(st, prio, why) == [st |-> st, prio |-> prio, why |-> why]

\* The user has paused the first download, two others wait, the fourth is absent.
Paused ==
    {[d \in Downloads |-> CASE d = 1 -> MCRow("PAUSED", "LOW", "user")
                            [] d = 4 -> MCRow("ABSENT", "LOW", "other")
                            [] OTHER -> MCRow("QUEUED", "LOW", "user")]}

\* A background download waits, the user has paused the second download, and
\* waits for the others.
Waiting ==
    {[d \in Downloads |-> CASE d = 1 -> MCRow("QUEUED", "LOW", "other")
                            [] d = 2 -> MCRow("PAUSED", "LOW", "user")
                            [] OTHER -> MCRow("QUEUED", "LOW", "user")]}

\* A background download and one the user asked for with priority, both new.
Mixed ==
    {[d \in Downloads |-> IF d = 1 THEN MCRow("QUEUED", "LOW", "other")
                          ELSE MCRow("ABSENT", "HIGH", "other")]}

\* A background download is paused, the next one waits for the only slot.
Tried ==
    {[d \in Downloads |-> CASE d = 1 -> MCRow("PAUSED", "LOW", "other")
                            [] d = 2 -> MCRow("QUEUED", "LOW", "user")
                            [] OTHER -> MCRow("ABSENT", "LOW", "other")]}

\* Four stories in one instance.  In the first, two callers add, pause and
\* resume three downloads, of which one may have stalled before; in the second,
\* they do so one after the other with four; in the third there is one download
\* (and three that never come), the engine, the monitor and the storage fail,
\* and it is cancelled and restarted.  All compete for one slot.  In the fourth,
\* two downloads are tested and paused, their priority and the limit are
\* changed and the program is restarted once.  OneStory is an action constraint
\* of the instance.
Stories == Paused \cup Waiting \cup Mixed \cup Tried
Crowded == row[1].st # "ABSENT" /\ row[4].st = "ABSENT" /\ row[3].st # "ABSENT"
Faulty == row[3].st = "ABSENT" /\ row[2].st = "ABSENT"
Tested == row[3].st = "ABSENT" /\ row[2].st # "ABSENT"
Asks(c) == IF At(c, "idle") /\ proc'[c].at # "idle" THEN {proc'[c].at} ELSE {}
Asked == UNION {Asks(c) : c \in Callers}

\* A second request of the fourth story is a pause while a test starts.
TestStory ==
    /\ requests' <= 2
    /\ Asked \subseteq {"testAllow", "pauseRead", "prioWrite", "enforce"}
    /\ "pauseRead" \in Asked => \E c \in Callers : At(c, "testStart")
    /\ crashes' # crashes => requests = 1

OneStory ==
    /\ ~Crowded /\ ~Tested => Cardinality({c \in Callers : proc'[c].at # "idle"}) <= 1
    /\ ~Faulty =>
          /\ Asked \cap {"cancelling", "restarting"} = {}
          /\ \A d \in Downloads : mon'[d] \notin {"finishing", "failing"}
          /\ \A d \in Downloads : mon'[d] = "stalling" => Crowded /\ d = 2 /\ requests' = 0
          /\ \A p \in Procs : proc'[p].at # "failed" /\ (At(p, "waking") => proc'[p].at # "resumeStart")
    /\ IF Tested THEN TestStory
       ELSE crashes' = 0 /\ Asked \cap {"testAllow", "prioWrite", "enforce"} = {}
    /\ Crowded \/ Faulty => requests' <= 2
    /\ Crowded => row'[4] = row[4]
    /\ Faulty => Asked \cap {"addWrite", "pauseRead"} = {}

\* The limit is one at first.
MCInit == Init /\ max = 1

MCSpec == MCInit /\ [][Next]_vars

\* The callers are interchangeable.
MCSymmetry == Permutations(Callers)
=============================================================================
