--------------------------- MODULE MCDownloadHealth ---------------------------
(***************************************************************************)
(* Small instances of DownloadHealth: the program is started on the rows   *)
(* that an earlier run has left behind, with or without the supervisor.    *)
(***************************************************************************)
EXTENDS DownloadHealth

CONSTANT a

VARIABLE story      \* what happens in the behaviour, chosen at the start

MCRow(st, prio, why) == [st |-> st, prio |-> prio, why |-> why]

\* A background row was downloading when the process died, another one waits
\* for a user to resume it.
Interrupted ==
    [d \in Downloads |-> IF d = 1 THEN MCRow("DOWNLOADING", "LOW", "other")
                         ELSE MCRow("PAUSED", "LOW", "other")]

\* Two downloads the user has asked for, or one.
Two == [d \in Downloads |-> MCRow("QUEUED", "LOW", "user")]
One == [Two EXCEPT ![2] = MCRow("ABSENT", "LOW", "other")]

MCRows == {Interrupted, Two, One}

\* Bound: the restart of the queue with requests, before the first pass of the
\* supervisor; the supervisor over two downloads of which the second always
\* moves, with a restart; over one download beside a request and with an engine
\* that does not answer; over one download whose path is not writable; and over
\* one that may have finished.
Stories ==
    [restart |-> Interrupted, slots |-> Two, request |-> One, fault |-> One, whole |-> One]

Supervised == story # "restart"

\* The events of each story.
Requested ==
    CASE story = "restart" -> proc'[a].at \notin {"prioWrite", "testAllow"}
      [] story = "request" ->
            /\ requests' <= 1
            /\ requests' # requests => At(Health, "testLock") /\ proc'[a].at # "resumeAllow"
            /\ proc'[a].at = "prioWrite" => proc'[a].it[1].prio = "LOW"
      [] story = "fault" ->
            /\ requests' <= 1
            /\ requests' # requests => At(Health, "testStart") /\ proc'[a].at = "pauseRead"
            /\ ~At(a, "idle") => proc'[Health].at = "testStart"
      [] OTHER -> requests' = 0

InStory ==
    /\ Requested
    /\ story = "restart" => health' = NoHealth /\ pass' = NoPass
    /\ story # "restart" => max' = 1
    /\ story = "slots" => health'[2] = NoState
    /\ story = "fault" => proc'[Storage].n = 0
    /\ story \in {"request", "fault"} => crashes' = 0
    /\ story \in {"slots", "request", "whole"} => \A p \in Procs : proc'[p].at # "failed"
    /\ story \in {"slots", "request", "fault"} =>
          pass'.mend = {} /\ \A d \in Downloads : mon'[d] # "finishing"

MCInit ==
    /\ HInit
    /\ story \in DOMAIN Stories /\ row = Stories[story]
    /\ story # "restart" => max = 1

MCNext == HNext /\ UNCHANGED story /\ InStory

\* The supervisor's steps are fair in the stories it takes part in.
MCFairness ==
    /\ QueueFairness
    /\ SF_hvars(Supervised /\ HealthStep)
    /\ SF_hvars(Supervised /\ \E d \in Downloads : TimePasses(d))

MCSpec == MCInit /\ [][MCNext]_<<hvars, story>> /\ MCFairness

\* Only the supervisor tests what is parked.
SupervisedIsTested == ~Supervised \/ ParkedIsTested
=============================================================================
