---------------------------- MODULE TaskSupervisor ----------------------------
(***************************************************************************)
(* The supervisor of background tasks (src/src/core/task_supervisor.py).   *)
(* A task is registered under a name; when its coroutine crashes, another  *)
(* one is created after a back-off, by a helper task that is registered    *)
(* nowhere.  Everything runs on one asyncio loop, a step is the code       *)
(* between two awaits.                                                     *)
(***************************************************************************)
EXTENDS Naturals, FiniteSets

CONSTANTS
    Names,        \* names of restartable tasks
    Criticality,  \* the TaskCriticality each name is spawned with
    Shots,        \* names of one-shot tasks
    MAX_RESTARTS, \* task_supervisor.py: restarts per name
    MaxSpawns     \* bound: calls of the two spawn operations

ASSUME SupervisorAssumption ==
    /\ Criticality \in [Names -> {"CRITICAL", "IMPORTANT", "BEST_EFFORT"}]
    /\ Names \cap Shots = {}
    /\ IsFiniteSet(Names)
    /\ MAX_RESTARTS \in Nat
    /\ MaxSpawns \in Nat

\* Enough for every spawn and every restart.
Tasks == 1..(MaxSpawns + MAX_RESTARTS * Cardinality(Names))
NoTask == 0

VARIABLES
    name,         \* the name each task was created under, "none" if it was not
    state,        \* where each task is
    tracked,      \* _tasks, for the names themselves
    extra,        \* one-shot tasks that _tasks holds under a name with a suffix
    spec,         \* _specs: the names that can be restarted
    count,        \* _restart_counts
    sleeping,     \* the _restart helpers in their back-off, per name
    shutdown,     \* "no", "waiting" for the cancelled tasks, "done", "given_up"
    awaited,      \* the tasks shutdown() waits for
    wanted,       \* history: names spawned and neither cancelled nor ended
    reported,     \* names _on_critical_failure was called for
    spawns

vars == <<name, state, tracked, extra, spec, count, sleeping, shutdown, awaited, wanted,
          reported, spawns>>

registry == <<tracked, extra, spec>>
teardown == <<shutdown, awaited>>

ShuttingDown == shutdown # "no"

\* A cancelled task unwinds: it has been asked to stop and has not ended yet.
Alive(t) == state[t] \in {"ready", "running", "unwinding"}

\* Task.cancel(): a task that has not taken its first step never will, any other
\* one gets a CancelledError to handle.
Signalled(t) ==
    CASE state[t] = "ready" -> "ended"
      [] state[t] = "running" -> "unwinding"
      [] OTHER -> state[t]

Init ==
    /\ name = [t \in Tasks |-> "none"]
    /\ state = [t \in Tasks |-> "none"]
    /\ tracked = [n \in Names \cup Shots |-> NoTask]
    /\ extra = {}
    /\ spec = {}
    /\ count = [n \in Names |-> 0]
    /\ sleeping = [n \in Names |-> 0]
    /\ shutdown = "no"
    /\ awaited = {}
    /\ wanted = {}
    /\ reported = {}
    /\ spawns = 0

\* asyncio.create_task: the next task, of name n; the same step cancels others.
Create(t, n, cancelled) ==
    /\ state[t] = "none"
    /\ \A u \in Tasks : u < t => state[u] # "none"
    /\ name' = [name EXCEPT ![t] = n]
    /\ state' = [u \in Tasks |-> IF u = t THEN "ready"
                                 ELSE IF u \in cancelled THEN Signalled(u) ELSE state[u]]

-----------------------------------------------------------------------------
(* spawn_restartable, spawn_one_shot, cancel *)

Spawns == spawns < MaxSpawns /\ spawns' = spawns + 1

\* Mutant: the factory is not registered.
SpawnWithoutSpec(n) ==
    \E t \in Tasks :
    /\ Spawns
    /\ Create(t, n, {tracked[n]})
    /\ tracked' = [tracked EXCEPT ![n] = t]
    /\ wanted' = wanted \cup {n}
    /\ UNCHANGED <<extra, spec, count, sleeping, teardown, reported>>

\* Mutant: the task that holds the name is not cancelled.
SpawnBeside(n) ==
    \E t \in Tasks :
    /\ Spawns
    /\ Create(t, n, {})
    /\ tracked' = [tracked EXCEPT ![n] = t]
    /\ spec' = spec \cup {n}
    /\ wanted' = wanted \cup {n}
    /\ UNCHANGED <<extra, count, sleeping, teardown, reported>>

SpawnRestartable(n) ==
    \E t \in Tasks :
    /\ Spawns
    /\ Create(t, n, {tracked[n]})
    /\ tracked' = [tracked EXCEPT ![n] = t]
    /\ spec' = spec \cup {n}
    /\ wanted' = wanted \cup {n}
    /\ UNCHANGED <<extra, count, sleeping, teardown, reported>>

\* A name that is taken is extended by a suffix.
SpawnOneShot(n) ==
    \E t \in Tasks :
    /\ Spawns
    /\ Create(t, n, {})
    /\ IF tracked[n] = NoTask
       THEN tracked' = [tracked EXCEPT ![n] = t] /\ UNCHANGED extra
       ELSE extra' = extra \cup {t} /\ UNCHANGED tracked
    /\ UNCHANGED <<spec, count, sleeping, teardown, wanted, reported>>

Cancel(n) ==
    /\ tracked[n] # NoTask
    /\ state' = [state EXCEPT ![tracked[n]] = Signalled(tracked[n])]
    /\ tracked' = [tracked EXCEPT ![n] = NoTask]
    /\ spec' = spec \ {n}
    /\ wanted' = wanted \ {n}
    /\ UNCHANGED <<name, extra, count, sleeping, teardown, reported, spawns>>

-----------------------------------------------------------------------------
(* _run_supervised *)

\* Mutant: a task that was created before the shutdown runs during it.
RunRegardless(t) ==
    /\ state[t] = "ready"
    /\ state' = [state EXCEPT ![t] = "running"]
    /\ UNCHANGED <<name, registry, count, sleeping, teardown, wanted, reported, spawns>>

\* The task's first step: create the coroutine, unless the program shuts down.
Run(t) ==
    /\ state[t] = "ready"
    /\ state' = [state EXCEPT ![t] = IF ShuttingDown THEN "ended" ELSE "running"]
    /\ UNCHANGED <<name, registry, count, sleeping, teardown, wanted, reported, spawns>>

\* The coroutine returns, or a cancelled one raises CancelledError.
End(t) ==
    /\ state[t] \in {"running", "unwinding"}
    /\ state' = [state EXCEPT ![t] = "ended"]
    /\ wanted' = IF state[t] = "running" THEN wanted \ {name[t]} ELSE wanted
    /\ UNCHANGED <<name, registry, count, sleeping, teardown, reported, spawns>>

\* The coroutine raises an exception: a critical or important task is started
\* again after a back-off, if its name still has a factory and restarts left.
\* A cancelled task may raise one too, while it cleans up.
Crash(t) ==
    LET n == name[t] IN
    /\ state[t] \in {"running", "unwinding"}
    /\ state' = [state EXCEPT ![t] = "ended"]
    /\ IF ShuttingDown \/ n \in Shots \/ Criticality[n] = "BEST_EFFORT"
       THEN UNCHANGED <<count, sleeping, reported>>
       ELSE IF count[n] < MAX_RESTARTS
       THEN /\ count' = [count EXCEPT ![n] = @ + 1]
            /\ sleeping' = [sleeping EXCEPT ![n] = IF n \in spec THEN @ + 1 ELSE @]
            /\ UNCHANGED reported
       ELSE /\ reported' = IF Criticality[n] = "CRITICAL" THEN reported \cup {n} ELSE reported
            /\ UNCHANGED <<count, sleeping>>
    /\ UNCHANGED <<name, registry, teardown, wanted, spawns>>

\* _schedule_restart's helper wakes up and registers a new task, whatever the
\* registry holds under the name by now.
Restart(n) ==
    /\ sleeping[n] > 0
    /\ sleeping' = [sleeping EXCEPT ![n] = @ - 1]
    /\ IF ShuttingDown
       THEN UNCHANGED <<name, state, tracked>>
       ELSE \E t \in Tasks : Create(t, n, {}) /\ tracked' = [tracked EXCEPT ![n] = t]
    /\ UNCHANGED <<extra, spec, count, teardown, wanted, reported, spawns>>

\* A one-shot task's done callback drops its name, whoever holds it by now.
Cleanup(t) ==
    /\ state[t] = "ended"
    /\ name[t] \in Shots
    /\ state' = [state EXCEPT ![t] = "gone"]
    /\ IF t \in extra
       THEN extra' = extra \ {t} /\ UNCHANGED tracked
       ELSE tracked' = [tracked EXCEPT ![name[t]] = NoTask] /\ UNCHANGED extra
    /\ UNCHANGED <<name, spec, count, sleeping, teardown, wanted, reported, spawns>>

-----------------------------------------------------------------------------
(* shutdown *)

Registered == extra \cup {tracked[n] : n \in {m \in Names \cup Shots : tracked[m] # NoTask}}

\* Mutant: shutdown waits for the tasks without cancelling them.
ShutdownWaits ==
    /\ shutdown = "no"
    /\ shutdown' = "waiting"
    /\ awaited' = Registered
    /\ UNCHANGED <<name, state, registry, count, sleeping, wanted, reported, spawns>>

ShutdownBegins ==
    /\ shutdown = "no"
    /\ shutdown' = "waiting"
    /\ awaited' = Registered
    /\ state' = [t \in Tasks |-> IF t \in Registered THEN Signalled(t) ELSE state[t]]
    /\ UNCHANGED <<name, registry, count, sleeping, wanted, reported, spawns>>

\* asyncio.wait with its timeout, then asyncio.gather of the same tasks.
ShutdownEnds ==
    /\ shutdown = "waiting"
    /\ \A t \in awaited : ~Alive(t)
    /\ shutdown' = "done"
    /\ tracked' = [n \in Names \cup Shots |-> NoTask]
    /\ extra' = {}
    /\ spec' = {}
    /\ UNCHANGED <<name, state, count, sleeping, awaited, wanted, reported, spawns>>

\* main.py:1090, asyncio.wait_for(supervisor.shutdown(), timeout=15)
ShutdownGivenUp ==
    /\ shutdown = "waiting"
    /\ shutdown' = "given_up"
    /\ UNCHANGED <<name, state, registry, count, sleeping, awaited, wanted, reported, spawns>>

-----------------------------------------------------------------------------

TaskStep(t) == Run(t) \/ End(t) \/ Crash(t) \/ Cleanup(t)

Next ==
    \/ \E n \in Names : SpawnRestartable(n) \/ Restart(n)
    \/ \E n \in Shots : SpawnOneShot(n)
    \/ \E n \in Names \cup Shots : Cancel(n)
    \/ \E t \in Tasks : TaskStep(t)
    \/ ShutdownBegins \/ ShutdownEnds \/ ShutdownGivenUp

Spec == Init /\ [][Next]_vars

\* The loop runs every task that is ready, a sleep ends, and a cancelled
\* coroutine unwinds.  A coroutine that was not cancelled need never end, and
\* nothing is assumed of the timeout in main.
Fairness ==
    /\ \A n \in Names : WF_vars(Restart(n))
    /\ \A t \in Tasks : WF_vars(Run(t)) /\ WF_vars(Cleanup(t))
    /\ \A t \in Tasks :
          WF_vars(state[t] = "unwinding" /\ (End(t) \/ Crash(t)))
    /\ WF_vars(ShutdownEnds)

FairSpec == Spec /\ Fairness

-----------------------------------------------------------------------------
(* Properties *)

TypeOK ==
    /\ name \in [Tasks -> Names \cup Shots \cup {"none"}]
    /\ state \in [Tasks -> {"none", "ready", "running", "unwinding", "ended", "gone"}]
    /\ tracked \in [Names \cup Shots -> Tasks \cup {NoTask}]
    /\ extra \subseteq Tasks
    /\ spec \subseteq Names
    /\ count \in [Names -> 0..MAX_RESTARTS]
    /\ sleeping \in [Names -> 0..MAX_RESTARTS]
    /\ shutdown \in {"no", "waiting", "done", "given_up"}
    /\ awaited \subseteq Tasks
    /\ wanted \subseteq Names
    /\ reported \subseteq Names
    /\ spawns \in 0..MaxSpawns

\* A restartable critical or important task never dies silently: as long as it
\* is wanted, a task of its name lives, or a restart is on its way, or its
\* restarts are used up and, when it is critical, its failure was reported
\* ("Prevents silent task death", task_supervisor.py:5).
NoSilentDeath ==
    \A n \in wanted :
        \/ ShuttingDown \/ Criticality[n] = "BEST_EFFORT"
        \/ \E t \in Tasks : name[t] = n /\ state[t] \in {"ready", "running"}
        \/ sleeping[n] > 0
        \/ count[n] = MAX_RESTARTS /\ (Criticality[n] = "CRITICAL" => n \in reported)

\* Once shutdown has begun no coroutine is started any more: not by a restart
\* that was sleeping, not by a task that was created but had not run
\* ("auto-restart won't kick in during teardown", task_supervisor.py:137).
NothingStartsInShutdown ==
    [][\A t \in Tasks : ShuttingDown /\ state'[t] = "running" => state[t] = "running"]_vars

\* shutdown() comes to an end by itself, whatever was crashing, sleeping before
\* a restart or being respawned when it began, as long as the coroutines that it
\* cancels unwind: it never waits for a task it has not cancelled.
ShutdownReturns == shutdown = "waiting" ~> shutdown \in {"done", "given_up"}

\* A task that runs is registered under its name, where a cancel or a respawn
\* of the name finds it, but for one task per restart: a delayed restart puts
\* its task in place of whatever the name holds by then.
OrphansAreRestarts ==
    \A n \in Names :
        Cardinality({t \in Tasks : name[t] = n /\ state[t] = "running" /\ t # tracked[n]}) <= count[n]

=============================================================================
